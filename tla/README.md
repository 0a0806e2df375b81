# Verification of gasm

gasm is a proof-carrying assembler written in Lean 4: specifications, hand-written programs for
x86-64, AArch64 and Wasm, and Lean proofs that the one realizes the other, surrounded by Python
scripts that build, check and gate the whole. What Lean proves it proves for good; what Lean does not
reach is the part that runs: processes that share a host, threads that run gates, files that survive a
crash, an allocator driven by an arbitrary sequence of calls, a server driven byte by byte. This
directory models those parts in TLA+, checks them with TLC and proves their main invariants with TLAPS.

| file | what it is |
| --- | --- |
| `Lease`, `LeanLease` | the host-global lease of Lean processes: its promise, and the context manager |
| `LeaseTree` | the lease together with the process trees it serializes |
| `GateRunner` | `run_gates.py`: selection, sequential and parallel execution, report |
| `SnapshotStore`, `SnapshotCache`, `SnapshotPublication` | the incremental Lean snapshot cache: its promise, the files, and what a publication leaves |
| `SmolAlloc` | the first-fit allocator of `Stdlib/SmolAlloc/Spec.lean` |
| `HttpRuntime` | the streaming HTTP request runtime of spike 4 |
| `ParallelMap`, `WorkerPool` | `runWorkerPool` of the gate tools: its promise, and the threads |
| `RefsAuthority` | the one-time build authority between the coverage launcher and its gate |
| `ReferencePins`, `ReviewerAttribution` | the registry of pinned references and its cache; whose address may stand behind a pin |
| `SourceAuthority` | the gate that compares files, index, HEAD and compiled modules |
| `SelfTest` | the self-tests that plant a defect in the real checkout |
| `BuildPlan` | the full build: import walk, waves, phases |
| `OrphanModules` | the gate that walks the imports from the roots of the lakefile |
| `MeasureTree` | the measurement of a process tree, and its abort |
| `Scripts` | the last four and `ReviewerAttribution`, side by side in one run |
| `*MC` | the instances TLC checks (constants too large for a `.cfg`, symmetry) |
| `*Proofs` | theorems about the module of that name, checked by TLAPS (`LeanProofs`: allocator, HTTP runtime and pool; `ScriptsProofs`: the scripts) |
| `*.cfg` | the runs |
| `PROJECT.json` | components, runs, mutants, the map from definitions to source lines, hazards, theorems |

## 1. Inventory

### 1.1 Python: the host side

**Lean process lease** (`scripts/lean_process_lease.py`). *State:* one lock file per host, the marker
`GASM_LEAN_LEASE_HELD` in the environment of a holder's children, and per waiter a deadline.
*Operations:* enter (nested, misconfigured, or into the loop), try the lock without blocking, compare
the memory reserve under the lock, compare the deadline, sleep a second, run the caller's block,
unlock. *Callers:* every launcher that runs Lean or Lake, and each worker thread of the gate runner.
*Hard:* the lock is taken before the reserve is known to suffice, so four different paths must give it
back; nested launchers must not wait for their own ancestor; holders are killed. *Correct when:* the
lock is owned exactly inside the locked part; blocks never overlap; a waiter always ends; a nested
launcher is always covered.

**Launchers and their process trees** (`build_full.py`, `check_lean.py`, `build_x86_family.py`,
`run_full_refs_coverage.py`, `fuzz_gzip.py`, `tests/e2e/harness.py`). *State:* the child each waits for.
*Operations:* start Lean, Lake or another launcher with the marker, wait, end, be killed. *Hard:* killing
a process does not kill what it started. *Correct when:* the Lean trees of a host that are still
supervised belong to one launcher, and that one holds the lease.

**Gate runner** (`scripts/run_gates.py`). *State:* the selected gates, `pending_gates`, the futures,
`result_map`, the exit code. *Operations:* filter by group, `--quick`, key and shard; detect tools;
clean; the sequential loop; the parallel loop (skip, submit, wait, pop); workers; report. *Hard:* completion
in any order, failed dependencies, exceptions of workers, a pool smaller than the ready gates, narrowing
options against the meaning of exit code 0. *Correct when:* no gate is lost or run twice, dependencies
come first, rows do not depend on the order, success is earned, the runner ends.

**Gate self-tests** (`run_gates.py --self-test`, `check_orphan_modules.py --self-test`). *State:* files of the
checkout, the git index, the umbrella `Gasm.lean`, build products; per control the original it will
restore. *Operations:* plant a probe, stage it, build, run the gate, unstage, restore, run the gate again.
*Hard:* git that fails unnoticed, files that cannot be written or removed (in the cleanup, too), builds and
gates given up at a time limit, a killed self-test, two of them in one checkout, a gate that is red for
another reason. *Correct when:* a PASS means that the gate saw the probe and reported it, and the tree after a
run is the tree before it, unless its cleanup broke off.

**Incremental Lean snapshot cache** (`scripts/run_incremental_lean.py`). *State:* one lock file per
source, and per fingerprint a snapshot, its dependency file and a manifest that names the digests of
both. *Operations:* lock, fingerprint, validate and load or elaborate and save, recheck the
fingerprint, replace three files, prune other fingerprints, clean up. *Hard:* inputs change at any moment,
processes crash between any two file operations, replacements and unlinks fail. *Correct when:* what
is loaded is a whole pair of one generation, built from the inputs of its key, and stays so until Lean
has ended; one fingerprint per source is kept.

**Build planning** (`build_full.py`). *State:* the stack of the import walk, the modules scheduled, the
command to run. *Operations:* read targets and setting, walk imports depth first, cut into waves, take
the lease, build, confirm. *Hard:* cycles, modules shared by targets, wave sizes of zero, sources that
change while the lease is waited for. *Correct when:* every module comes once, after its imports, in
waves of at most the budgeted size, and a cycle is found.

**Orphan module gate** (`check_orphan_modules.py`). *State:* git's list, the roots, the frontier and the
depths of a breadth-first walk. *Hard:* a lakefile that makes the check vacuous, files that change
under the walk. *Correct when:* green means that every tracked file is built, and the fix it names is one.

**Reference registry** (`check_references.py`). *State:* `references.json`, the cached documents, and what
each invocation has loaded. *Operations:* `--offline` checks citations against registry and cache,
`--refresh` fetches and promotes what equals its pin, `--acknowledge-drift` pins what it fetches. *Hard:*
no locks, files written by truncation, servers that drift between two fetches, kills between registry
and cache. *Correct when:* a changed pin names who made it, the exit code is the first applicable
failure class, registry and cache agree after a refresh.

**Lean source authority gate** (`check_no_ignored_lean_sources.py`). *State:* what it has read so far: two
walks, index, HEAD, flags, differences, bytes, ignore rules, compiled modules. *Hard:* a developer works
between any two of these; line endings, links, nested repositories, ignore rules of another case
sensitivity. *Correct when:* a PASS means that importing anything here gives what it gives in a clean
checkout, and a checkout in order passes.

**Process-tree measurement** (`measure_process_tree.py`). *State:* the lease, the tree of a command that
is somebody else's, the hold of its root (`psutil.Process`). *Hard:* an abort while the tree forks and loses
parents, or before the hold is there; processes psutil may not touch. *Correct when:* what can be found and
touched is ended.

**Other linters and one-off scripts** (`check_doc_facade.py`, `check_gates.py`, `check_refs.py`,
`check_publishable.py`, `check_licenses.py`, generators): single passes over the source tree.

**End-to-end runner and CI** (`tests/e2e/runner.py`, `.github/workflows`): a sequential loop over cases,
and the hosted job definitions.

### 1.2 Lean: tools, core, targets, library, spikes

**Gate subprocess library** (`Tools/GateSubprocess.lean`). *State:* a queue of items, an array of results,
one task per worker. The caller waits for the tasks in order and throws at the first that failed, while
the tasks after it go on. *Correct when:* each item is worked on at most once, results are in the order of
the items, an error is never swallowed and the caller always gets one or the other.

**Reference coverage gate** (`Tools/CheckRefsCoverage.lean`, `run_full_refs_coverage.py`). *State:* a manifest
with a nonce, a token per worker, sources and products with their times. *Operations:* the launcher
builds, takes a census, hashes and stats each source, writes the manifest and starts the gate; the gate
takes the manifest, verifies it, starts a worker for the umbrella and a pool of others, and verifies twice
more. *Hard:* replays, kills, a worker that fails beside others, and a tree that changes at any of these
moments. *Correct when:* an authority serves one gate, and a PASS is
about one state of the tree.

**Core** (`Gasm/Core`, `Gasm/Compiler`): block monad, control-flow graph builders, obligations and
permissions. Obligations are a linear ledger threaded through the blocks of a program; the rest is pure
construction.

**Effects** (`Gasm/Effects`): console, files and network as a trace monad, and the canonical form of
traces.

**Memory model** (`Gasm/MemoryModel`): relational predicates over execution graphs.

**Targets** (`Gasm/Targets`, `Gasm/Execution`): encoders and instruction semantics for x86-64, AArch64 and
Wasm, containers (ELF, PE, Wasm), and the hooks through which a machine reaches the operating system.

**SmolAlloc** (`Stdlib/SmolAlloc`). *State:* headers in memory, the head of an intrusive free list, usage
figures, two ledgers of linear obligations, the page source. *Operations:* `malloc` (reuse, fetch, fail) and
`free` (accept, refuse). *Hard:* blocks reused from the middle of the list, page-boundary arithmetic, a
source that runs out. *Correct when:* blocks never overlap, the list is sound, exactly the active
blocks owe a `free`.

**HTTP request runtime** (`Spikes/Spike4HttpServer`). *State:* the parser (line, held-back CR), the driver
(position, current transfer, transfers, result), the phase of the connection, the remaining requests.
*Operations:* listen, accept, one byte, end of the request, send, close. *Hard:* CR LF split over two
reads, a budget hit by the byte at the boundary, state left from the request before. *Correct when:* the
streamed answer is that of the whole request's line, and every request is answered and closed.

**Standard library** (`Stdlib/Zlib`, `Png`, `Http11`, `Containers`, `Fmt`) and **other spikes**: pure functions
and sequential programs with Lean proofs.

### 1.3 How they interact

```
 run_gates.py ──threads──► lease ◄──files── build_full / check_lean / ... (other worktrees too)
      │  gate = subprocess, timeout            │ marker in the environment
      ▼                                        ▼
   launcher ───────── starts ────────► nested launcher ──► lake / lean ──► .olean, snapshots
                                                              ▲
 run_incremental_lean.py ── per-source lock, snapshot files ──┘
```

```
 run_gates.py --self-test ──plants──► working tree, index, Gasm.lean ◄──reads── the gates
 run_full_refs_coverage.py ──manifest + nonce──► CheckRefsCoverage ──worker token──► scan workers
 check_references.py ──► references.json, .cache/references (other invocations, editors)
```

`LeaseTree` composes `LeanLease` with the launchers. The gate runner calls the lease once per gate and sees
it only as an outcome of a command (it started, or `TimeoutError`), which is how `GateRunner` models it.
`BuildPlan`, `RefsAuthority` and `MeasureTree` see the lease as one step in which it is taken. The snapshot
cache has a lock of its own and does not take the lease. The allocator and the HTTP runtime are programs of
the library, independent of the scripts and of each other.

## 2. Modules and code

A definition keeps the name of the function it models where TLA+ allows it, and `PROJECT.json` maps every
definition to its lines. Definitions commented *Mutant* are plausible bugs, one or more per property; no
specification uses them; substituting one for the definition it mutates makes TLC report the property.

**LeanLease** (`lean_process_lease.py:57-223`). A client is one thread of control inside the context
manager; `pc` is its place in the loop, `left` the seconds before its deadline, `lock` the owner of the
file lock. One action per step between which another process can move: `TryLock` is the
non-blocking lock, `ReserveMet/Short/Fails` the comparison under it and its three outcomes,
`Expire/Nap` the deadline, `Tick` a second of the clock. `ReserveFails` stands for an exception while the
reserve is measured. `Crash` kills a client anywhere: the operating system drops its lock. The
abstract `Lease` has one variable, the set of clients it is granted to; the mapping is
`granted == {c : pc[c] = "body"}`: the grant starts when the reserve is met, not when the lock is taken.

**LeaseTree** extends LeanLease by `child`, `parent`, `top` and `orphans`. A block runs commands one at a
time (every launcher uses `subprocess.run`), each Lean itself or a launcher that inherits the
marker. `KillLauncher` kills one process and leaves its Lean command behind. `GateTimeout` is
`subprocess.run(timeout=...)` of `run_gates.py:851`: it kills the direct child, raises, and the `with` block
releases the lease over whatever runs below. The ancestors of a launcher are the least set closed under
`parent`. `Faults` says which of the two may happen.

**GateRunner** (`run_gates.py:829-896, 1190-1654`). `phase` is the place of the main thread; `todo` is the
rest of the table in the sequential loop; `pending`, `queued`, `running`, `finished` are the places a gate
can have in the parallel one. What a command did is drawn when it ends and kept in `raw`; every decision of
the runner is a function of that. `Schedule` is one pass over `pending_gates` (skip what depends on
something that did not pass, submit what is ready), `Collect` pops any nonempty set of done futures, as
`wait(FIRST_COMPLETED)` may return any, `CollectRaises` is `f.result()` re-raising, `Unwind` the exit of the
executor's `with` block, which waits for running workers.

**SnapshotCache** (`run_incremental_lean.py:146-482`). A version stands for everything a fingerprint hashes
besides the arguments; a file's content is the version Lean read and the number of the save, so
files of two generations differ even if built from equal inputs. The manifest holds the contents it
was computed from, which is what its digests identify. One action per file operation, in the order of
the code; `Crash` between any two; `PublishFails` and `Unlink` may raise. `Edit` changes the inputs under
everybody. The abstract `SnapshotStore` commits, evicts, opens and closes whole snapshots; the mapping
calls a key's snapshot stored when its three files validate, and a process in `load` its reader.
**SnapshotPublication** adds three history variables, which read the system and do not change it: `failed`
(runs that could not unlink a snapshot), `restored` (runs whose inputs went away and came back since their
first fingerprint) and `doubtful` (the saves such runs went on to publish). The variables of a process that
does not run are reset (`Gone`): they are locals of a process that is no more.

**SmolAlloc** (`Stdlib/SmolAlloc/Spec.lean:34-209`). Addresses are bytes from the arena's base; blocks are
kept as a function from header addresses. `findFirstFit` is a recursive function over the list with the
code's fuel. `malloc` has three actions, `free` two.

**HttpRuntime** (`StreamingRequestLine.lean`, `Runtime.lean`, `Platform.lean`). `ReadByte` is `driveByte`;
`EndLine`, `HoldCR`, `Retain` and `Exhaust` are the branches of `streamRequestLineByte`; `Receive` ends the
drive, `Send` answers, `Close` drops the request. The grammar is a constant: `Targets` gives the routes of
the lines that parse, of which only that they hold no CR or LF is assumed. The whole-request
definitions (`RequestLine`, `LineSize`, `Answer`, `ObservedSize`) are the reference the streamed
behaviour is compared with.

**WorkerPool** (`GateSubprocess.lean:531-562`). `Take` is `queueRef.modifyGet`, `Work` the item, `Store` the
write into the shared array, `Join` one step of the caller's loop over the tasks, `JoinRaises` the
rethrow, `Return` the unpacking of the array with its "missing result" error. `ParallelMap` has an
outcome per item and an answer; the mapping reads an outcome off the array, or off the worker that raised
at the item.

**RefsAuthority** (`run_full_refs_coverage.py`, `CheckRefsCoverage.lean:502-1211`). A source is a text and the
time it was written, a product the text it was compiled from and its time; the gate's own executable is
one of them. The launcher's steps are its builds, two readings of the census, and per file `HashSource`
and `StatSource`, between which a developer may write. In the gate `ReadToken` and `RemoveToken` are
separate, as in the code, and so are the issue of a worker's token, its use and its removal by the parent.
`pool` says where each payload of the scan is: the umbrella goes first and alone, then the missing modules
are taken in order by at most `PoolSize` threads. A token that cannot be written ends its thread ("failed"),
perhaps over a file; `EndScan` throws that on, whatever the other threads are at, and the gate ends
"raised". `Raises` is an exception of the launcher before it starts the gate. A gate in `Raws` is
started by hand with the nonce of some launcher. What a citation looks like is not modelled: a text
is cited or not.

**ReferencePins** (`check_references.py`). Contents stand for their hashes. The writes are two steps each,
truncate and fill, so that another process may read in between. An anchor is found in a content or
not (`Finds`); the five anchor grammars are the repository's own unit tests' business.
**ReviewerAttribution** is `normalize_reviewer_attribution` over addresses made of kinds of labels.

**SourceAuthority** (`check_no_ignored_lean_sources.py`). One action per reading, in the order of the
code, and one per kind of change a developer can make; of bytes, the text and the line endings are told
apart, of an index entry its mode, stage and flags.

**SelfTest** (`run_gates.py:921-1231`, `check_orphan_modules.py:588-728`). All controls are instances of one
sequence of steps (plant, write the umbrella, stage, build, check, unstage, restore, unlink, rebuild,
recheck); `How` says which of them a control has. A gate reports the visible probes in `Reports`
unless it is in `blind`, which makes a PASS something to be earned. `regime.mayFail` says which operations may
fail: a `write_text` may leave its file as it was or empty (`hollow`, or `root` without `Own`, the
repository's own imports); an `unlink` may leave the probe; `git` may refuse or not answer; a build or a gate
may be given up at the limit of `_run_capture`. In the try block an exception leads to the finally clause and
then to "raised"; in the finally clause it leaves the rest undone ("abandoned").

**BuildPlan** (`build_full.py`). The recursion of `local_import_order` is a stack of frames, each with the set
of imports its loop has still to visit, in any order. Lake is
external: a build compiles what is out of date below the modules it is asked for.

**OrphanModules** (`check_orphan_modules.py`). A lakefile is a sequence of rows, a module the sequence of
the parts of its name; the walk reads one file per step. The imports of a file and a frontier are sets: the
files of a frontier are read in any order; the depths do not depend on it.

**MeasureTree** (`measure_process_tree.py:44-142`). `Spawn` is `Popen`, `TakeHold` the `psutil.Process` after
it; `held` is `root is not None`. `HoldFails` is a psutil error there, which nothing catches. An interrupt may
come before, between or after them; without a hold nothing is listed or ended. The processes of the tree fork
and end as they like; psutil refuses to touch those in `Denied`, and may refuse to list. `stray` remembers
those that the one listing by parent links cannot contain.

**Scripts** puts the last four and `ReviewerAttribution` into one run. They share no state: a behaviour runs
one of them, chosen by `script`, while the others stay in an initial state. An invariant of one of them
therefore holds of `Scripts` exactly if it holds of that script alone.

**Regimes and budgets.** What happens around a program (who may start, what fails, how often
somebody edits or is killed) multiplies. `SelfTest`, `ReferencePins` and `SourceAuthority` draw a
record of such bounds, `regime`, in the initial state; `RefsAuthority` lets a step happen if some record in
`Budgets` has room for it. Each instance lists a few regimes, one for each combination of hazards that
needs its own depth, and one run covers them all.

## 3. Runs

| run | instance | properties | what it shows |
| --- | --- | --- | --- |
| `LeaseTree` | 3 launchers, timeout 2 s, Windows, crashes and gate timeouts | `LockOwnedInside` `TreeInv` `ImplementsLease` `ReleaseIsQuiet` `WaitEnds` | the lock is never left behind, blocks follow the abstract lease, supervised Lean trees are covered by it and there is one, every waiter ends |
| `LeaseTree_serialized` | gate timeouts only | `Serialized` **violated** | a timed-out gate leaves its tree running without a lease |
| `GateRunner` | 7 gates, 17 command lines | `OnePlace` `StartsAfterDependencies` `RowsInv` `SuccessIsEarned` `Terminates` | scheduling, rows, exit codes and termination |
| `SnapshotCache` | 2 processes, 2 versions, 2 argument lists, 2 edits (there and back), 2 saves, failures, crashes | `LoadsIntact` `KeyedReuse` `ImplementsStore` `PublishesOne` `RunsEnd` | loads are whole, keyed but for the doubtful saves, stable; one snapshot survives a publication; every run ends |
| `SmolAlloc_safety` | requests 1, 20, 40; pages of 64 bytes, 4 of them | `HeapInv` `ObligationsExact` `BlocksDisjoint` | layout, list, figures and ledgers |
| `HttpRuntime_lines` | budget 3, transfers of 2 | `AnswersByLine` `ObservesExactly` `TransfersTile` `AllServed` | streamed answers equal those of the whole request |
| `WorkerPool` | 5 items, 3 workers | `AnswerIsComplete` `IsParallelMap` `Answered` | the pool is a map in parallel and answers |
| `RefsAuthority` | 2 modules, 2 scan workers at a time; 1 launcher with 2 edits, or with an edit and a change of the census, or 2 launchers and a kill; a gate by hand | `CapabilityInv` `PassIsGrounded` `NoFalseRefusal` | a PASS vouches for one tree, an authority serves once |
| `ReferencePins` | 2 documents, 4 citations, 3 regimes | `RegistryInv` `OfflineCodeIsPrimary` `RefreshHeals` | attribution, exit codes, cache and registry under interleaving |
| `ReferencePins_unreported` | one process, one drift | `AcknowledgedWasReported` **violated** | a drift nobody reported is acknowledged |
| `SourceAuthority` | 4 places, 2 or 3 changes | `PassInv` `NoFalseRefusal` | a PASS means a clean checkout |
| `Scripts` | one of five scripts | `PassIsEarned` `CheckoutInv` `PlanInv` `WalkInv` `GreenIsNotVacuous` `CleanupInv` `StoredInv` | passes are earned and probes cleaned up; plans are topological, bounded, cycle-free; green means built; aborts end what they find; stored addresses are canonical and public |

An invariant whose name ends in `Inv` is the conjunction of a type invariant and of named parts, which the
module states one by one, each with the code behaviour it is about:

| invariant | parts |
| --- | --- |
| `TreeInv` | `LeaseTypeOK` `TreeTypeOK` `SupervisedUnderLease` `OneSupervisedTree` |
| `RowsInv` | `TypeOK` `RowsAreVerdict` |
| `HeapInv` | `AllocTypeOK` `FreeListSound` `Accounted` |
| `CapabilityInv` | `TypeOK` `OneAttempt` `NothingLeft` |
| `RegistryInv` | `TypeOK` `PinsAreAttributed` `CacheFollowsPin` |
| `PassInv` | `TypeOK` `PassIsCleanCheckout` `PassIsNotIgnored` |
| `CheckoutInv` | `SelfTestTypeOK` `EndedIsClean` `CompletedIsClean` `DirtIsAccounted` `WorkingGatesPass` |
| `PlanInv` | `PlanTypeOK` `PlanIsTopological` `CyclesAreFound` `WavesBoundedWhenQuiet` `WavesSufficeWhenQuiet` `PhasesSuffice` |
| `WalkInv` | `OrphanTypeOK` `WalkIsReachability` `FixSuffices` |
| `CleanupInv` | `MeasureTypeOK` `CleanupIsThorough` |
| `StoredInv` | `StoredIsCanonical` `StoredIsPublic` |

Each part has a mutant definition of its own that breaks it; `PROJECT.json` lists one per invariant. The type
invariants of the cache, the HTTP runtime and the pool are theorems for every instance and are not run again.

Deadlock is checked except in `Scripts`, `ReferencePins`, `SourceAuthority` and `WorkerPool`, whose programs
really stop, in several ways: an address is refused, invocations are over or killed, a gate is done, the
caller has its answer. Elsewhere, where the system really ends (a runner with an exit code, a server without
requests), `Terminated` is a disjunct of `Next` that says so.

**Bounds and why they suffice.**

- *Lease:* a holder, a waiter that expires and a waiter that gets the lease in between need three clients,
  and so does a chain of two launchers beside a competitor, the smallest case of a nested launcher. A
  timeout of two seconds allows a failed attempt and a last one at the deadline. Dead clients stay
  dead, so three also bound the crashes.
- *Gate runner:* the table has each shape of the real one (a build most depend on, an emitter and its
  test, a gate that may have no runner, proofs, a linter without dependencies, a slow fuzzer with a tool
  of its own), and command lines for every filter, invalid options included, and 1, 2 and 3 workers. Every
  gate ends in each of six ways, so dependency failures cascade over two levels. `Cpus = 4` takes
  the automatic parallelism past its threshold.
- *Snapshot cache:* the lock admits one process, so a second one is all that a wait, a takeover or a race
  needs; two saves let a generation be published over the debris of another, whose publication broke off at
  any of its operations; two edits separate fingerprint, reading and recheck, and take the inputs there and
  back between them; two argument lists give a publication another key to prune. `PublishesOne` needs to know
  in which runs the unlink of a snapshot failed, and `KeyedReuse` which saves were made while the inputs went
  there and back, hence `SnapshotPublication`. 260,328 states.
- *SmolAlloc:* blocks of one and of two pages, and up to four live at once, make the list long enough for a
  head, middle and tail reuse. `MaxTotal` bounds the length of the sequence of calls.
- *HTTP:* seven bytes are twice the budget and a byte, three transfers and a half; all 3-letter requests
  of that length are tried, so every placement of CR, LF and the budget occurs. Two requests in a row cover
  what one leaves behind for the next.

- *WorkerPool:* five items for three workers make every worker take a second item while another is still at
  its first, and let an early and a late worker raise.
- *RefsAuthority:* a module that the umbrella worker loads and one that it does not, one file per batch. When the
  umbrella's worker fails both are queued, so two threads of the pool have tokens out at once and either may
  fail beside the other. Two edits put a text away and back, the shortest way to deceive a check by content or
  by time alone. The manifest of one launcher read by its own gate and by one started by hand is every race
  for a token; a second launcher adds the lease and a kill in between. 4.0 million states.
- *ReferencePins:* a document cited by pages and one by headings, two contents each, a file that cites both and
  one that may be unreadable. Two invocations of any two commands with one drift and one kill; two beside
  an editor; three one after the other with two drifts, so that what was pinned can come back.
- *SourceAuthority:* a root, a module in a directory, a file below `.lake`, a file with an odd
  extension: each is treated differently by some reading. Every commit over them, two changes anywhere, or
  three on the ordinary files; ignore rules that only the native, only the folded or both cases of a path
  meet. 4.8 million states.
- *SelfTest:* each kind of control, two of them with the same gate and two with the same file; two
  invocations. One after the other, any write or removal may fail, with a defect of a developer that comes or
  goes, or with a kill, or (on three controls) with a kill and time limits; two at once with failing git and
  a kill. With the other scripts, 4.1 million states.
- *BuildPlan:* every graph over three modules, cycles included, and targets that share imports.
  *OrphanModules:* every graph over four modules under four lakefiles, and two graphs that change.
- *MeasureTree:* a command and four processes: a chain of two, a sibling that may not be touched and one that
  comes late.
  *ReviewerAttribution:* every domain of up to three labels out of fourteen kinds.

**Symmetry** (of clients, of launchers) is used only in runs without liveness properties.

## 4. Fairness

- `LeaseTree.FairSpec`: the clock ticks and a client *in the loop* is scheduled (`TryLock`, `ReserveStep`,
  `DeadlineStep`). Nobody is obliged to call, to end its block or to survive. `WaitEnds` therefore holds
  behind a holder that never leaves. It is the deadline that makes it hold, not luck with the lock.
- `GateRunner.FairSpec`: weak fairness of the main thread and of the workers, both operating-system threads.
  That a command ends is justified by the gate's `timeout`, after which `subprocess.run` kills it (`lake
  clean` runs under the same timeout); the lease wait inside a gate has a deadline of its own. With captured
  output on Windows, `subprocess.run` reads the pipe to its end after the kill, which a surviving grandchild
  can delay: that such grandchildren end is assumed.
- `SnapshotPublication.PublicationSpec` (the fairness of `SnapshotCache.FairSpec` beside the history
  variable): a process that has begun goes on until it ends or is killed. The step in which Lean runs has no
  timeout in the code, so that Lean ends is an assumption of `RunsEnd` and not a result.
- `HttpRuntime.FairSpec`: the server takes its next step; inputs are finite.
- `WorkerPool.PoolFairSpec`: the caller and every task are scheduled (`IO.asTask` gives each a thread), and
  the work on an item ends, which the code bounds by the timeout of the subprocess it waits for.

Nothing uses strong fairness.

## 5. Findings

1. **A gate timeout releases the lease over a running tree** (`LeaseTree_serialized`). `docs/CI.md:85-86` says
   that even an explicit `--jobs` value "cannot overlap canonical Lean/Lake trees".
   `subprocess.run(timeout=...)` kills the launcher it started, the lease goes with the exception, and the
   Lake or Lean below goes on while the next gate starts another tree.
2. **An unreported drift can be acknowledged** (`ReferencePins_unreported`). `check_references.py:46-50` says
   that acknowledging cannot be used to paper over a second, unreviewed drift. `--refresh` records
   nothing, and `--acknowledge-drift` compares what it fetches with the old pin only.

### Divergences seen, without a run of their own

The following formulas are violated on the instances of section 3 (each was checked once as an
invariant of the model it speaks of); they are about one fact each, which the source shows directly.
The properties that are checked are stated so that they hold beside these.

- *`mode: full` and exit 0 for narrowed runs.* The docstring of `run_gates.py` (lines 60, 66, 75-79) gives
  exit 0 the meaning of a full green, `docs/CI.md:91-93` does not: `exit = EXIT_OK => \A g \in Gates :
  result[g] = "PASS"` fails with `--gate`.
- *Reuse is keyed by the inputs before and after, not by what Lean read.* `Intact(k) => snap[k].built = k[1]`
  fails: an edit that is undone before the recheck (`run_incremental_lean.py:463`) leaves a pair under the
  wrong key. The claim of `docs/PROOF_MACHINERY_INDEX.md:473-474` is checked and proved of every other save
  (`KeyedReuse`).
- *Reusing a block from the middle of the free list drops those before it*
  (`Stdlib/SmolAlloc/Spec.lean:138`; the comment at 118 promises reuse whenever a fitting block is free):
  `[][\A a \in DOMAIN blocks' \ DOMAIN blocks : \A b \in DOMAIN blocks \ Active : blocks[b].blockSize <
  blocks'[a].blockSize]_vars` fails.
- *CR CR is counted twice* (`StreamingRequestLine.lean:50`): `\A i \in DOMAIN sent : sent[i] =
  Answer(requests[i])` fails, a malformed line within the budget is answered 414 instead of 400. No line
  that parses is affected, which is what `AnswersByLine` says.
- *A `git reset` that fails is not noticed* (`run_gates.py:976`; lines 928-929 promise a clean tree): with
  `"git"` in `mayFail`, `place[r] = "passed" => staged = {}` fails.
- *A self-test that is run again after a kill takes the probe's import line for the original umbrella*
  (`run_gates.py:1104`; line 922 says re-runnable): a later run that passed ends with `root # {Own}`.
- *A failing operation of the finally clause leaves the tree dirty* (`run_gates.py:997`, 1123-1124, 1174-1175;
  line 929 says that try/finally keeps a crash from it): with `"write"` or `"unlink"` in `mayFail`,
  `(\A r \in Runs : place[r] \in Ended \ {"killed"}) => Dirt = {}` fails. A `Gasm.lean` that cannot be written
  back may be left empty, with the probe beside it. `EndedIsClean` and `DirtIsAccounted` speak of such runs as
  ones that broke off.
- *The control of the coverage gate may be given up before the gate can answer.* It has 300 s
  (`run_gates.py:1166-1168`, 1181-1183); `run_full_refs_coverage.py:241-244` tells of a run of that gate that
  "ran for more than 23 minutes before cancellation". With `"timeout"` in `mayFail`, a run over gates that work fails.
  `WorkingGatesPass` is about gates that answer in time.
- *The modules that are scanned are a census of their own* (`CheckRefsCoverage.lean:889`), compared with
  neither of the two that are checked: a module that is untracked just then is not scanned, and the gate
  passes.
- *The build plan is made before the lease is waited for* (`build_full.py:152`, 177; `docs/CI.md:63-66`):
  `phase = "run" => wave <= Size` fails once an import is added meanwhile.
- *The orphan gate lists the index and reads the working tree* (`check_orphan_modules.py:430`; lines 143-144
  say it measures the tracked tree): `Green => tracked \subseteq Reachable(index, Anywhere)` fails with an
  unstaged import.
- *A Lean file that is not UTF-8 is skipped with its citations* (`check_references.py:356`; line 88 says
  never): `OfflineCodeIsPrimary` holds only for citations of files that can be read.
- *A re-pin can be lost* (`check_references.py:754`): of two at once the one that writes last restores the
  other's pin, although both reported success.
- *A file that was only touched is refused as differing from the index*
  (`check_no_ignored_lean_sources.py:286`, 299): `NoFalseRefusal` assumes `fresh`.
- *An aborted measurement ends its tree without the lease, and not all of it*
  (`measure_process_tree.py:138-141`; line 17 says leased, line 141 cleaned up): `stage = "terminate" =>
  lock = "measure"` and `stage = "done" /\ result = 2 => alive = {}` fail; `CleanupIsThorough` says what is
  left. An interrupt between `Popen` (90) and `psutil.Process` (99) leaves the whole command running under
  the same message; a psutil error at 99 is caught by nobody and leaves it, too, with exit code 1; what psutil
  refuses to list or to kill (49-50, 64) goes on.
- *An exception of one scan worker's thread ends the coverage gate over the tokens of the others*
  (`CheckRefsCoverage.lean:924-930`: `issueWorkerAuthority` may throw, and the rethrow of `runWorkerPool` does
  not wait for the tasks behind it): `workers = {}` at the end of a gate nobody killed fails. `NothingLeft` says
  whose they are; lines 837-839 give such a token five minutes.

## 6. Proofs

TLAPS checks the theorems for every value of the constants that satisfies the named assumption of the
module that declares them (`LeaseAssumption`, `TreeAssumption`, `TableAssumption`, `CacheAssumption`,
`SmolAssumption`, `HttpAssumption`, `PoolAssumption`, `RefsAuthorityAssumption`, `ReferenceAssumption`,
`ReviewerAssumption`, `SourceAssumption`, `SelfTestAssumption`, `MeasureAssumption`,
`BuildPlanAssumption`, `OrphanAssumption`). TLC evaluates the assumptions in the runs, and checks the
properties of section 3 on its instances. Every invariant and every action property of a passing run is
stated by a theorem; `PROJECT.json` lists them.

**LeaseTreeProofs.** *The context manager:* `LeaseTypeOK /\ LockOwnedInside` is inductive as it stands: the
owner of the lock and the places of the clients determine each other, so a step that changed one without the
other would break it. `LockNeverLeftBehind` follows, and `LeanLeaseImplementsLease`: in a state of the
invariant the grant is empty or the singleton of the owner (`GrantedIsLock`), so every step is a grant, a
revocation or a stutter of `Lease`. *The trees:* `Links` relates a launcher to the one it waits for (it is
its parent, and a nested launcher whose parent is alive is waited for), `Rooted` says that an intact chain
holds a launcher in the block it took the lock for. The chain is the least set closed under `parent`, so the
proofs extend, cut and compare closed sets and need no induction on the depth of the nesting. From them
follow `LeanTreesSerialized` (`TreeInv`), `ReleaseUncoversNobody` (`ReleaseIsQuiet`) and
`LeaseTreeImplementsLease`.

**GateRunnerProofs.** `Inv` has seven parts. `OnePlace` is not inductive: it says nothing outside the
parallel loop. `Placement` says for each phase where gates can be; `Fresh` that a gate whose command has not
started has no outcome and no row; `Disjoint` that the pools do not overlap; `RowsTrue` that a row is what
the outcome of its command makes it; `Earned` what an exit code was computed from. From them follow
`NoGateLostOrDoubled`, `DependenciesFirst` and `FailClosed`. The dependency argument needs
`TableAssumption`: the table lists a gate after its dependencies, and none of them may be skipped for want
of a runner; both are facts of `GATE_TABLE`, and the second is why a skipped dependency cannot be taken for
a passed one in the sequential loop. `ReportIsTheVerdict` (`RowsInv`) is about a function defined by
recursion over the dependencies. `Justified` says that a row is there because of what the command did, or
because a dependency has a row that is no pass; at the report the rows, completed by `RowTable`, thus
satisfy the recursive equation. Two tables that satisfy it are equal (`VerdictUnique`): the first gate of
the table at which they differed would have dependencies, listed before it, at which they agree. So the
report depends neither on the number of workers nor on the order of completion.

**SnapshotCacheProofs.** `FileInv` is the types, `Locked` (a process between locking and cleaning up owns
the lock) and `LoadsIntact`: nobody else moves a file while a reader is inside, so intactness is stable.
`KeyInv` adds `Carried` (what a run has in its hands between Lean and the publication was read under its own
key) and `ManifestTrue` (a manifest names two files of one generation, built from the inputs of its key, or
by a doubtful save). For that, `Carried` needs `restored`: a run that is not in it and finds the inputs of
its key on disk had them there all the time, so what Lean read is what the key says. `ReuseIsKeyed` has no
premise. `CacheImplementsStore` maps each file operation to a commit, an eviction or a stutter: only the
manifest's replacement commits, only the first operation that breaks an intact triple evicts.
`OneSnapshotIsLeft` is about `SnapshotPublication`: `Published` says of a run that prunes that its own
triple is intact and that every other key has lost its snapshot or is still to be pruned, unless the run is
in `failed`.

**LeanProofs** has a part for each of the three Lean components.

*Allocator.* `AllocInv` is `Blocks` (what the headers are), `BlocksDisjoint` and `ObligationsExact`.
Disjointness needs `PagesSuffice`, that the rounded number of pages holds header and payload, and that rests
on `CeilingDivision`, for every page size. `ObligationsConserved` counts with cardinalities, by the theorems
of `FiniteSetTheorems`. `HeapSound` needs two more parts. `Listed`: the free list is a finite sequence of
distinct free blocks, no longer than the fuel of the search, so the walk from the head is that sequence
(`WalkIsList`, `ListFitsFuel`). `Figures`: the live bytes are the number of addresses handed out, which is
how a sum over blocks is reasoned about without recursion.

*HTTP runtime.* `AnswersByLine` and `ObservesExactly` speak of answers already given, so neither is
inductive. `HttpInv` adds what the driver keeps between two steps (`FreshDrive`, `Counted`, `Positioned`) and
`Parsed`, what the parser knows in the middle of a request. Before a decision (`Undecided`) no line end
has been read, a CR is held back exactly after a CR, and the retained line is the consumed prefix until
two CRs meet; from then on it holds a CR, which no parsable line does (`HttpAssumption`). A decision
(`Decided`) is worth the answer to the whole request, or exhaustion after two CRs. That the first line end
the stream meets is the one the reference definition chooses rests on `LeastElement`, taken from the
well-foundedness of `<` on `Nat`.

*Worker pool.* `PoolInv` relates the queue to the workers. `Claims`: an item that a worker works on, stores or
raised at has left the queue, has no result, and is no other worker's. `Progress`: every item before `next` has a
result or such a worker, and an item from `next` on has no result.
`Waited`: a worker that ended saw the queue empty, and the caller has passed only
workers that ended. `PoolTypes`, `PoolComplete` and `PoolRefinement` follow for any number
of items and any concurrency, 0 included. That all items have results when every worker has ended is
the last part with `next = N + 1`.

**RefsAuthorityProofs.** `Types` and `Capabilities` give `TokensAreOneTime`: the launcher of a token that is
still there is at a place from which it removes it, or was killed, and a gate that accepted one has removed
it; a worker's token is that of a thread of the pool. `UmbrellaFirst` says that while the umbrella's worker
is out no other is, which the verdict needs: what a module's worker loaded is not overwritten.
`VerdictIsGrounded` turns on time: every write is later than every time recorded before, and a gate's
authority never changes (`Frozen`). `Scanned` follows a module through the three verifications: what has the
recorded time has the recorded contents (`Verified`), and so has what was loaded and read; a source and a
product that still have their times at the last verification are therefore those of every step before.
`QuietRunsAreNotRefused` runs the other way: as long as nobody edits or kills (`Calm`), what launchers and
gates hold equals the tree (`Undisturbed`, `OnCourse`), so no comparison can fail; launchers that build one
after the other leave each other's records true because a build of what is up to date writes nothing.

**ReferencePinsProofs.** `Placed` gives the types of what a process holds at each place. `Trail` says of the
registry *and of every registry in somebody's hands* that a pin naming a person names one who asked and fetched
it: a copy is written back whole, so the claim must hold of copies too. `Alone`, `Holds` and `Agreed` say for
commands run one at a time that cache and registry differ only at the document in hand; `Checking` and
`Fetching` what an undisturbed `--offline` or `--refresh` has established so far. Steps are divided into quiet
ones, which touch neither registry nor cache, and writes, where every other process becomes one that has
been disturbed (`Bystanders`).

**SourceAuthorityProofs.** `Clear(places)` says that no reading so far has complained and the gate is at one
of the places behind it. `Reported`, `Recorded` and `Files` say what each clear reading has established as
long as no file has been written since; `Commits` the same of index and HEAD. At a PASS all readings are
clear, and the facts combine to `PassMeansCleanCheckout`. `Peace` is the converse, behind
`CheckoutsInOrderPass`.

**ScriptsProofs** has a part for each script, and `ScriptBehaves`: a behaviour of `Scripts` is one of each script.

- *Reviewer addresses:* `Kept`; normalizing twice is normalizing once, for any bound on the length.
- *Measurement:* `Measured` says that, once the descendants were listed, what runs is on the list or is
  known to be out of its reach.
- *Self-tests:* `Earned` says that the controls a run has behind it saw their gate work, for any number of
  runs at once. `Orderly` is about runs that follow one another: `Course` is what of its own probe a run has
  in the tree at each place, after a write that failed as well, `CleanBehind` that its earlier controls left
  nothing, `Left` what runs that broke off may have left. `Clear` and `Sound` are about healthy gates that
  answer, which a run in a clean tree finds green.
- *Orphan walk:* `Derived` (the roots), `Layered` (depths grow by one along the walk), `Explored` (what the
  frontier still owes). In a tree that holds still, reachability is the least closed set, and the walk ends
  at it.
- *Build plan:* `DepthFirst` is the classical invariant of the search (imports of a visited module are
  visited, those of one being visited are visited, on the stack above it or still to visit), `Scheduled` and
  `Carried` what it means for the list. A cycle is given up exactly when a module is on the stack already.
  `StackIsBounded` is the pigeonhole principle (`FS_Injection`); a wave builds no more modules than it lists
  (`WaveBuilds`, `FS_Surjection`).

**What the proofs changed in the models.** Reachability, closures and ancestors are least closed sets instead of
recursive functions. Loops over Python sets and lists whose order does not matter (`BuildPlan`, `OrphanModules`)
take their elements in any order. In `ReferencePins` the classification of a failure was a `CASE` whose
guards overlap; TLC takes the first that holds, the meaning of `CASE` leaves the choice open, so the proof could
not be made; it is a nested `IF` now, as in the code. `PublishesOne` excused a run also when the companion of a
crashed publication could not be unlinked; it excuses it for a snapshot only.

**Only model-checked**, because the prover cannot reach it: liveness under fairness (`WaitEnds`, `Terminates`,
`RunsEnd`, `AllServed`, `Answered`). The two expected violations are TLC's counterexamples.

## 7. Plan

Done, in this order: the lease and its trees, the gate runner, the snapshot cache, the allocator, the HTTP
runtime, the worker pool, the self-tests, the build authority, the build plan, the orphan gate, the reference
registry, the source authority gate, the measurement; abstract specifications for the lease, the cache and the
pool; proofs of the safety of every component.

Next, most important first:

1. `ObligationLedger` (`Gasm/Core/Obligations.lean` with the system-call hooks of `Gasm/Targets/Linux`):
   the linear ledger across hooks that may fail.
2. `CanonicalTrace` (`Gasm/Effects/CanonicalizeTrace.lean`): canonicalization as a function, against its
   specification.
3. An abstract specification of `RefsAuthority`, a gate that reads the tree at one moment, with the refinement
   that `VerdictIsGrounded` suggests.

## 8. Not modelled

- *Encoders, instruction semantics, memory model, control-flow builders, codecs:* functions and relations
  proved in Lean for all inputs; a finite instance would add nothing. The machine-code realizations of the
  allocator and the server have Lean equivalence proofs; their specifications are what is modelled.
- *Commands outside the lease.* The build controls of `--self-test` call `lake` without it, and
  `run_incremental_lean.py` does not take it; such a command takes part in no protocol.
- *What Lake does inside a build*: it is external to `BuildPlan` and `RefsAuthority`, as the code uses it.
- *The Lean process of a killed cache run*, which goes on with the files it has opened.
- *Interrupts* (`KeyboardInterrupt`) other than a kill of the whole process, except those of the measurement;
  failures of `print`.
- *A token that could only be written in part* (`run_full_refs_coverage.py:169`, called at 298, outside the
  try block of 301-306): `Raises` ends the launcher, and `tokens` holds the complete ones. What is left is a
  file that no gate accepts, since it does not parse, and that nobody removes.
- *Scan workers that outlive their gate*, and the sequence of the three umbrella roots, which are one payload.
- *The clock of the cache's lock:* `GiveUp` may happen at any try.
- *Disk space:* temporaries and companions left by killed runs are never read again.
- *Linters (`check_doc_facade.py`, `check_gates.py`, `check_refs.py`, `check_publishable.py`,
  `check_licenses.py`), generators, end-to-end loop, CI definitions:* single passes over text whose
  substance is regular expressions; no state across steps and nothing that runs beside them. Their
  enumeration by git is that of `OrphanModules`.
- *Text formats:* import syntax, anchor grammars, TOML values, the report of a gate and its result marker.
- *Page counts* of a re-pinned document: nothing in the repository ties them to the content.
- *Continuation after decision:* bytes that a client sends after its request line are dropped with the
  request, headers and bodies are outside the program.

## 9. Running it

```
tlc -workers 2 -config GateRunner.cfg GateRunnerMC
tlapm GateRunnerProofs.tla
```

The longest runs, `RefsAuthority`, `SnapshotCache` and `Scripts`, take about two minutes, `ReferencePins`,
`LeaseTree` and `SourceAuthority` one or less, the others seconds. The proofs take a quarter of a minute
to a few minutes per module.
