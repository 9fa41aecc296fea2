# buildforge in TLA+

buildforge is a build tool: it reads a manifest of actions (a command, its
inputs, outputs and dependencies), runs them in dependency order on several
workers, and keeps the outputs of each action in a content-addressed cache so
that an action whose key is known is restored instead of run.  These modules
model it as the Go code has it, from the manifest to the shared cache, check the
models with TLC on small instances, and prove the safety properties of both
drivers, the manifest, the graph and its critical path, the store and its
collector, the shared cache and incremental builds with TLAPS.  Paths below are relative to the repository; `tla/` needs only the TLA+ tools, the community modules and
tlapm.

    tlc -config SchedBuilds.cfg MCSched        (and so on, see "Runs")
    tlapm SchedProofs.tla                      (and so on, see "What is proved")

## 1. The system

| Component | Source | State | Operations | What makes it correct |
|---|---|---|---|---|
| Parallel scheduler | `internal/sched/sched.go` | done channels, status map, semaphore, lists of the Summary, first error, context | Build: one goroutine per action waits, acquires, runs, records, cancels, releases, closes | dependencies first; slots bounded; one outcome per action; always returns; the error is the cause; same outcome as the sequential driver |
| Sequential driver | `internal/runner/build.go` | order, poisoned set, Summary, first error | Build, markDependents | poison is exactly what is downstream of a failure; everything accounted for |
| Action graph | `internal/graph/graph.go` | deps, rdeps, names | New, TopologicalOrder, findCycle | an order exactly when acyclic, the same one each time; a real cycle otherwise |
| Critical path | `internal/graph/critical.go` | none | CriticalPath | the longest chain, spanning the graph even with zero durations |
| Local cache | `internal/cache/store.go` | blob files (`cas/`), entry files (`ac/`), temporary files | Lookup, Put, Restore; WriteBlob, PutEntry and others for the remote tier | a hit restores what one run produced; nothing half-written is ever served |
| Collector | `internal/cache/gc.go` | the same directory; file times as the LRU record | GC, touchEntry | an entry goes before its blobs, a shared blob with its last entry; the budget is met; the report is true |
| Runner of one action | `internal/runner/runner.go` | the workspace | Run: check inputs, key, restore or execute, check and store outputs | cache trouble costs time, never correctness; a rebuild equals a clean build and runs no more than it must |
| Sandbox | `internal/runner/sandbox.go` | a directory per action | newSandbox, harvest, remove | the command sees declared inputs only, so that a key covers what was read |
| Process groups | `internal/runner/process_*.go` | none | setupProcessGroup | a cancelled command and its children end |
| Key, tool cache | `internal/cache/key.go` | digests of tools, under a mutex | Key, ToolCache.Digest | equal keys mean equal inputs, command, tool, environment |
| Digests | `internal/digest/digest.go` | a worker pool | Bytes, File, Files | the digest of every path, or an error |
| Manifest | `internal/manifest/manifest.go` | none | Load, Parse, Validate | what is loaded is a sound graph of paths in the workspace; all problems are reported at once |
| Remote cache | `internal/remote/{client,server,tiered}.go` | the server's store, counters | GetBlob, PutBlob, GetEntry, PutEntry; Tiered.Lookup, Put; the handlers | blobs are there before the entry; damage does not travel; whatever the server does, a lookup ends as a hit or a miss |
| Command line | `cmd/buildforge/main.go` | none | build, gc, serve, graph, validate | |

How they interact.  The command line loads a manifest, makes a graph, and calls
one of the two drivers with a context that a signal cancels.  A driver calls
Runner.Run for each action, in parallel goroutines in `sched`; Run calls the
cache, which is the local store or the tiers.  Builds, collections and the
cache server are separate processes that share a cache directory and nothing
else; there is no lock on it.

Machines share a cache server over HTTP; each keeps a store of its own in front
of it.  Builds follow one another in a workspace that is edited between them and
while they run.

The hard parts are: goroutines that communicate through channels, a mutex and a
context that may be cancelled under any of them; actions that fail, cannot be
run, or never end; file operations of several processes on one directory, any of
which may be killed between two of them; requests that are lost, refused,
damaged or served after their client has given up; inputs, tools and flags that
change between a key and its command, or between one build and the next; and
pure algorithms with ties, duplicates and cycles.  `PROJECT.json` lists each hazard at its line with the
properties that watch it.

## 2. The modules

| Module | Models | Depends on |
|---|---|---|
| `Driver` | what both drivers share: acyclic graphs, what Runner.Run may return | |
| `BuildSpec` | abstract: what a build promises its caller | `Driver` |
| `Sched` | the parallel scheduler | `Driver`, instance of `BuildSpec` |
| `SchedProofs` | theorems about `Sched` | `Sched`, TLAPS |
| `SeqBuild` | the sequential driver | `Driver`, instance of `BuildSpec` |
| `SeqBuildProofs` | theorems about `SeqBuild` | `SeqBuild`, TLAPS |
| `GraphOrder` | TopologicalOrder and findCycle | |
| `GraphProofs` | theorems about `GraphOrder` | `GraphOrder`, TLAPS |
| `CriticalPath` | CriticalPath on the order of `GraphOrder` | `GraphOrder` |
| `Manifest` | load: Parse, Validate, graph.New, and then the graph's algorithms | `CriticalPath` |
| `ManifestProofs` | theorems about `Manifest` and `CriticalPath` | `Manifest`, `GraphProofs` |
| `CacheSpec` | abstract: what a runner may expect of a cache, local or shared | |
| `Collector` | the cache directory and the collector | |
| `CollectorProofs` | theorems about `Collector` | `Collector`, TLAPS |
| `CacheStore` | builders that use the directory (Runner.Run with Store) | `Collector`, instance of `CacheSpec` |
| `CacheStoreProofs` | theorems about `CacheStore` | `CacheStore`, TLAPS |
| `Remote` | machines, each with a store, and a server (Tiered, Client, Server) | instance of `CacheSpec` |
| `RemoteProofs` | theorems about `Remote`, that it implements the safety of `CacheSpec` among them | `Remote`, TLAPS |
| `Incremental` | builds in one workspace that changes (Runner.Run with Key and sandbox) | |
| `IncrementalProofs` | theorems about `Incremental` | `Incremental`, TLAPS |
| `Shapes`, `MCSched`, `MCSeqBuild`, `MCManifest`, `MCCollector`, `MCCacheStore`, `MCRemote`, `MCIncremental` | small instances | |

The system is cut where one part relies on a promise of another.  The drivers
see an action as an outcome; `Incremental` sees the drivers as the order they
promise and the store as a map from keys to outputs that may forget;
`CacheStore` and `Remote` show that the store and the shared cache are such a
map (`CacheSpec`), the one operation by operation on the files, the other
request by request between whole stores.

An operator marked `slip` is a plausible mistake in the operator that follows
it.  It is not part of the model: each is substituted for that operator to see
that the property it breaks can be broken.

### Driver, BuildSpec, Sched

`Sched` has one program counter per action's goroutine:

| `pc` | In `sched.go` |
|---|---|
| `wait` | 122-147, waiting for dependencies, reading the status map, looking at the context |
| `acquire` | 150-156, the select between a slot and the context |
| `run` | 158-170, in Run |
| `cancel` | 188-192, failed and fail-fast |
| `release` | the deferred receive, 152 |
| `close` | the deferred close and wg.Done, 116-120 |

`SkipBlocked`, `SkipCancelled` and `Admit` are the three ways out of `wait`.
Waiting for the channels one at a time is one step: a channel stays closed, so
having received from all of them is the same as all of them being closed, and
leaving early because of the context is possible from the start of the wait.
The status map is a total function that starts at `ok`, as a Go map of the zero
value does; that is what makes an early read dangerous.  `Record` is one
critical section.  The command is a *verdict* per action, unknown but fixed
(succeeds, fails, cannot be run, hangs), so that "the same outcome as the
sequential build" can be stated; `Outcomes` says what Run may return for it,
with and without a cancelled context.  The cache is invisible here: a hit and a
run that succeeds are the same to a driver.

`BuildSpec` says what is promised, without goroutines: an action starts when its
dependencies are built and a slot is free, ends built or failed, is given up on
only for a cause (a dependency not built, a failure under fail-fast, the caller),
and the answer is an error if something failed.  `Sched!ImplementsBuildSpec` and
`SeqBuild!ImplementsBuildSpec` state the refinement, with the mapping `Outcome`
and `Answer`.  After an interruption BuildSpec allows either answer, because
that is where the two drivers differ (section 5).

### SeqBuild

One thread; steps are cut where the caller can cancel.  Any order that lists
dependencies first may be the one chosen, as names are arbitrary.
`MarkDependents` is the set the recursion adds: the least set that holds the
dependents and is closed under dependents, where recursion stops at an action
already poisoned.  `PoisonIsDownstream` shows that this early stop loses
nothing.

### GraphOrder, CriticalPath

Names are numbers.  A step is one round of a loop.  The recursion of `visit` is
a stack of frames.  Dependencies may be listed more than once, since Validate
allows it; `copies` counts them.  `CriticalPath` adds the relaxation of one
action per step and the walk back.

### Manifest

`file` is the list of entries as written; `Load` is Parse, Validate and
graph.New in one step, since nothing else can see it half done.  `Problems` is
the set of (entry, rule) pairs that errors.Join would report; an entry without a
name is reported for nothing else, and an unknown field ends the parse at once,
as in the code.  A path is the sequence of its segments, and `Clean` is
path.Clean over them, one segment after another (`CleanStep`).  `LoadIsSound`
does not use `Clean`: it asks where a path *leads*, walking its segments (`Where`,
which is `Outside` from the first step that leaves the workspace), and requires that what is loaded stays
below the workspace, has one spelling per file, and is a graph the algorithms
accept (`GInit'`, which is also where `GraphOrder` starts from when it is used
alone).  When loading succeeds the algorithms run on the graph it built.

`FilesAssumption` says what a manifest is: it is empty, or it has `N` entries.  Names
only serve to be compared, so those of the entries are counted from 1 in their
order, with 0 for the empty name; a dependency may be any number, known or not.
Together they are no restriction, as `N` is any positive number.

### Collector, CacheStore

A step is one file operation (read, stat, unlink, rename, write of a temporary
file, chtimes).  `cas` and `ac` are the files; `cas` holds temporary files too,
under names that are not digests.  A file that is damaged holds `Junk`.  The
collector's snapshot (`entries`, `blobs`, `refs`) is separate from the
directory, which may change under it.  Sizes are counted in files.

`CacheStore` follows Runner.Run: `Begin`, `ReadEntry`, `StatBlob`, `Touch`,
`Restore`, then on any trouble `Exec`, and `DigestOutput`, `WriteTmp`,
`UnlinkBlob`, `RenameBlob` per output, `ComparePrevious`, `UnlinkEntry`,
`RenameEntry`.  `Crash` kills a builder between two operations and leaves its
temporary file; `PutFails` is a failed write, which removes it.  Builders have
workspaces of their own.  A temporary file for an entry is not modelled: nothing
reads it (it has no `.json` suffix).  `ComparePrevious` looks up and compares in
one step; the property about its report is stated for one builder.

`CacheSpec` is the contract of the interface runner.Cache: a lookup is answered
by a hit, which leaves the outputs of one recorded run in the workspace, or by a
miss, and there is no third answer.  A failing restore may overwrite outputs
before it becomes a miss (`Scribble`).  `CacheStore!ImplementsCacheSafety` is the
refinement for the local store; `recorded` is mapped to every true result, since
entries may be there from earlier builds.  Only the safety part is stated there:
that each file operation returns is the operating system's promise.

### Remote

| Action | In the code |
|---|---|
| `Begin`, `LocalHit`, `AskServer`, `GotEntry`, `Fetch`, `GotBlob`, `Install`, `Restore` | Tiered.Lookup and tryRestore; `Fetch` is one round of the loop at `tiered.go:84-98`, `Got...` the answers with the checks of `client.go` |
| `Exec`, `PutLocal`, `Push`, `PutBlobAnswered`, `PushEntry`, `PutEntryAnswered` | the command and Tiered.Put |
| `Return` | Put's return to the runner, which drops an error (`runner.go:200-208`) |
| `ServeGet`, `ServePut`, `RefusePut`, `ServeLate` | the handlers of `server.go` |
| `Timeout` | the client's 30 seconds, a refused connection, a lost answer |
| `Kill`, `Garble`, `Damage`, `Remove` | the environment: a killed build, a body damaged on its way, a damaged blob, a blob deleted by a collection |

A builder waits for one answer at a time (`req`, `ans`).  When it gives up on an
upload that was not served, the upload may still be served at any later time
(`late`).  An operation of one store is one step: its file operations are the
subject of `CacheStore`.  `stats` is what the call in progress has added to the five
counters of Stats, and `happened` what became of it, noted where it happened: the
server had the entry or had none, it took one, a request was given up, a restore
failed, a local Put failed.  `StatsAreTrue` holds the one against the other before the
runner goes on.  It says of each of the five counters when it is raised, and of
`Errors` only that nothing else was raised and that something did go wrong.  It makes
one exception, which the code makes: a Put whose local half fails raises no counter
(section 5).
`harmed` and `gone` record what the environment did to a store, so that
`DamageDoesNotSpread` and `EntriesAreBacked` can say that nothing else did.
A damaged entry that still parses as an entry of the same key is left out:
entries carry no checksum and no code could tell.

### Incremental

`disk` is the workspace, `store` the entries by key, `pc[a]` where Run is with
action `a`: `wait`, `tool`, `hash` (the key, one input after another), `restore`,
`exec`, `harvest`, `verify` (checkOutputs), `put`, and then `built`, `failed` or
`skipped`.  A key is a record of what it is computed from: the command, the
digest of the tool as this process remembers it (`memo`), the contents of the
inputs as they were when each was read, the outputs; the encoding of Key is
length-prefixed, so nothing is lost by that.  Environment and platform go with
the command.  What a command produces is the term `Made` over the command, the
tool and what it really opened (`Reads`), so that a wrong output is a different
term.  In a sandbox a command can open only declared inputs (`Opens`) and its
outputs wait in `box` until harvest moves them, each unlinking the old one
first; without one it writes straight into the workspace, so a failing command
may leave some outputs new and some old.

`exposed`, `upgraded`, `suspect` and `loose` are history: which keys were stored
by an action whose inputs or outputs were changed under it, or whose tool was
upgraded after it was digested, or without a sandbox.  The code cannot detect
these, and the properties except them and nothing else.  `settled` and `touched`
say that the last build finished with every output kept, and what changed since,
for `OnlyAffectedRuns`.

`WellFormed` is not part of the code: Validate does not look at it.  It says that
every file has one writer, that an action's outputs are distinct and not its
inputs, and that who declares another action's output as input waits for that
action, directly or not.  The manifests of `MCIncremental` are checked to satisfy
it, and the theorems assume it.

## 3. Runs

| Run | Instance | Shows |
|---|---|---|
| `SchedBuilds` | 3 actions, every shape up to renaming, all verdicts, workers 0 (default: 2 CPUs) and 1, interruption at any moment | types, dependency order, slots, one outcome each, cause reported, outcome determined by graph and commands; `BuildReturns`, `CancelledBuildReturns`; refinement of `BuildSpec` |
| `SeqBuilds` | 3 actions, all graphs, all verdicts | what is poisoned, what is decided, that a cut is an error; refinement of `BuildSpec` |
| `GraphPaths` | manifests for all graphs of 4 actions, the first or last action's list doubled, durations 0 and 2; a chain with any two entries flawed, any two paths of two segments, any path of four | what is loaded is sound and what is refused fully reported; order iff acyclic, canonical order, real cycle, longest chain, spanning path |
| `Collect` | 2 entries of 2 outputs, 2 blobs, every initial directory, all option combinations | nothing restorable is broken at any step, budget, eviction order, no garbage left, true report |
| `StoreConcurrent` | 2 builders, 2 runs each, 2 keys sharing 2 blobs, 1 kill or failed write | nothing torn, dangling entries explained, refinement of `CacheSpec`'s safety |
| `StoreCollected` | 1 builder, 2 runs, a collection at the same time, 1 damage, 1 rewrite of an output | hits are true; overwrites are reported |
| `Remote` | 2 machines and a server, 3 actions of one nondeterministic key with 2 outputs, any number of timeouts, 1 other fault | entries are backed, damage does not spread, Stats says what happened, refinement of `CacheSpec` with its liveness |
| `Incremental` | 3 builds, 3 manifests of 2 actions, 2 sources, 3 outputs, 3 sets of flags, 2 troubles (edits, upgrades, rewritten manifests, failures, kills, lost entries) | entries are true, a build is a clean build, only what an edit reaches is run |
| `SchedSummary`, `SchedInterrupt`, `CollectTmp`, `SandboxHit` | two or three actions; one entry; one manifest | violated: see section 5 |

Why the bounds are enough.  Three actions have every relation the scheduler's
code can tell apart: a chain of two steps (a skip that travels), a fork, a join
and independent work beside a failure; one slot makes actions queue, two let
them overlap.  The theorems remove the bound for the safety properties.  Four
actions are needed for a diamond and for a cycle reached through a tail, which
the cycle search must cut.  Two blobs and two entries of two outputs are the
least in which a blob is shared, within an entry and between entries, and an
eviction frees one blob and not the other; two outputs are the least that can be
mixed.  Two runs per builder give a run that stores and one that restores; three
runs on two machines give one that uploads, one that downloads meanwhile or
after, and one that overwrites with other contents.  A single fault beside any
number of timeouts and late uploads reaches every error path of `tiered.go`;
with two the state space exceeds what is practical.
Three builds with two troubles give: build, change, rebuild, change back,
rebuild; and a fault in one with an edit in another.  Two of the
three manifests differ in one declared input only, so that switching between
them looks up keys that agree in all else; the third has independent actions.
Counters (`MaxRuns`, `MaxFaults`, `MaxBuilds`, `MaxTroubles`, `MaxCrashes`,
`MaxDamages`, `MaxEdits`, `MaxCollections`, `MaxClock`) bound the environment,
not the code.  A tick of the clock stands for
more than touchGranularity.

`CHECK_DEADLOCK FALSE` is in every configuration because every modelled program
ends: a build returns, a collection is done, builders use up their runs.

Fairness.  `Sched!Fairness` is weak fairness of each goroutine and of Build
itself: the Go runtime schedules every runnable goroutine.  Strong fairness for
the semaphore is not needed: a slot once free stays free until someone takes
it, and each action takes a slot once.  A hanging command is not fair to end;
once the context is done it ends because the runner kills its process group and
waits two seconds at most.  `SeqBuild` has weak fairness of its one thread.
`Remote!FairSpec` is weak fairness of each machine's own steps, its timeouts
among them, which http.Client guarantees, and commands that end; the server and
the network are not fair at all, so `ImplementsCacheSpec` holds with a server
that never answers.  `Incremental` states safety only.

## 4. What is proved

Eight modules hold proofs.  Every theorem is for all values of the constants that
satisfy the assumptions named in the modules: any finite set of actions, any graph
or directory or manifest, any number of processes and faults.

### The drivers

| Theorem of `SchedProofs` | Property |
|---|---|
| `TypeCorrect` | `TypeOK` |
| `DependencyOrder` | `DependenciesBuilt`: no command starts before its dependencies succeeded |
| `WorkerLimit` | `SlotsAccounted`: tokens are slots held, at most the limit |
| `EveryActionDecided` | `EveryActionDecidedOnce`: one outcome each; all closed, none held at the end |
| `CauseIsReported` | `FirstErrorIsTheCause` |
| `OutcomeIsDetermined` | `OutcomeMatchesCommands`: the schedule does not decide the outcome |
| `AlwaysSomebodyMoves` | `NobodyIsStuck`: until Build returns some goroutine can move, unless a command hangs and nobody cancels |
| `EveryStepAdvances` | `StepsAdvance`: no step takes a goroutine, or Build, back |
| `SchedulerIsABuild` | `ImplementsBuildSpec`, the refinement of `BuildSpec` |

None of these is inductive.  That a dependency is built follows from its closed
channel and a status that reads ok only because the status was recorded before
the channel was closed; so the invariant `IInv` adds `Records`, which says for
each place a goroutine can be at what it has written so far.  `Admitted` carries
the dependency check past the wait, `Joined` ties the goroutines to Build's own
phases, and `Causes` says that a cancellation has a failure or the caller behind
it.  `Inductive` proves `Spec => []IInv`, one lemma per conjunct, each by cases
on the actions; `SlotsStep` counts holders with the library's facts on
cardinality.  For the outcome, `WhyInv` adds the reason for every outcome there is:
under keep-going a failed action has a command that does not succeed and a skipped
one a dependency that was not built, so the three equations hold whatever the
timing was.  The refinement maps each step of a goroutine to a step of `BuildSpec` or to
none.

`AlwaysSomebodyMoves` and `EveryStepAdvances` are `BuildReturns` and
`CancelledBuildReturns` without the fairness.  What a goroutine waits for is written
out as a state predicate, `Ready`, from the guards of its actions, since the prover has
no ENABLED.  If nobody is ready, nobody holds a slot (whoever does can go on, or
its command hangs and the context is live), so a slot is free and nobody waits for
one, so all that are left wait for channels; the graph is acyclic, hence one of them
waits for none of the others, its channels are all closed, and it is ready.  And a
goroutine has at most six steps, so a build is over after a number of steps that the
manifest bounds.

| Theorem of `SeqBuildProofs` | Property |
|---|---|
| `PoisonIsExact` | `PoisonIsDownstream`: poison is exactly what is downstream |
| `LoopDecides` | `DecidedInOrder` |
| `NoSilentGap` | `CutShortIsAnError` |
| `SequentialIsABuild` | `ImplementsBuildSpec`: the same `BuildSpec`, with one slot |

`SInv` holds the loop's order (`Sorted`: what is ahead depends only on what is
behind or nearer) and says that between two actions the poisoned set is
`Downstream`, everything with a dependency that failed, was skipped or is poisoned
itself.  The early stop of the recursion loses nothing because the set was closed
under dependents before.  Both drivers refine one abstract build: they can differ
only where that one leaves a choice.

### The graph

| Theorem of `GraphProofs` | Property |
|---|---|
| `OrderRespectsDependencies` | `OrderIsTopological` |
| `OrderExactlyIfAcyclic` | `OrderIffAcyclic` |
| `OrderIsDetermined` | `OrderIsCanonical` |
| `CycleIsFound` | `CycleIsReal` |

The counters of TopologicalOrder are cardinalities: `remaining[n]` is the number of
listed dependencies of n, duplicates counted, that have not been emitted (`Open`);
an action listed twice is counted down twice.  What stalls therefore waits for
something that stalls, which is why findCycle always has somewhere to go: `Searching`
says that its stack is a simple path through stalled actions, that gray is what is
on the stack, and that a stalled dependency of the top is still ahead.

### The manifest and the critical path

| Theorem of `ManifestProofs` | Property |
|---|---|
| `LoadTakesOnlyGraphs` | `LoadIsSound`, a property of the step that loads |
| `LoadedOrderRespectsDependencies` | `OrderIsTopological` |
| `LoadedOrderExactlyIfAcyclic` | `OrderIffAcyclic` |
| `LoadedOrderIsDetermined` | `OrderIsCanonical` |
| `LoadedCycleIsFound` | `CycleIsReal` |
| `CriticalPathIsLongest` | `LengthIsTheLongest`: no chain of dependent actions takes longer, and one takes as long |
| `CriticalPathSpans` | `PathSpansTheGraph`: also when durations are zero |

All are theorems of `MSpec`, which starts from a file.  Its invariant `MInv` says
that before the load nothing has run, and that afterwards the graph's invariant
`GInv` and that of the critical path, `CPInv`, hold; what ties them together is that
a successful load establishes `GInit` (`Loads`), so that the four theorems about the
graph hold of every graph a manifest describes, and not only of those assumed to be
without self-dependencies.

*The load.*  One part is counting: every entry has a name among `N`, no two have the
same, hence every name has an entry (`Entries`), and the graph built has the
dependencies each lists (`NewIsTheGraph`).  The other is about paths, where
`Problems` speaks of spellings and `Flawed` of places.  A result of Clean is *tidy*:
".." only at its front, and none in a rooted path (`CleanIsTidy`).  A path that equals
its Clean and is not refused for its first segment is therefore plain (`TidyIsPlain`)
and leads just to the place it spells (`PlainLeadsThere`), so it does not leave the
workspace (`GoodPaths`), and two such paths that lead to one file are the same
(`OneSpelling`).  So a path that does leave it is refused, and its entry reported.

*The critical path.*  `CPInv` says that the relaxed actions are a prefix of the
order, which holds with each action all it depends on; `Held` of a relaxed action
that its predecessor is the dependency that beats all others, and its finish and
depth are the predecessor's and its own; and, once the walk has begun, that the path
so far is a chain from the action it stands at to the last one, and that what it takes
plus the finish of its front, counted once, is the length (`Walked`).
`ChainsAreBounded` is the theorem's core: along any chain the time and, at equal time,
the number of actions so far are at most the finish and depth of the action reached.
The second component is what makes the path start at a root and end at a leaf
when durations are zero: an action that others wait for is on a chain that takes no
less and is deeper, so it is not the one that beats all others.

### The store and the collector

| Theorem of `CollectorProofs` | Property |
|---|---|
| `CollectorTyped` | `GCTypeOK`: no count goes below zero, also when an entry names a blob twice |
| `BudgetIsMet` | `BudgetMet` |
| `OldestFirst` | `OldestGoesFirst` |
| `NoGarbageStays` | `GarbageGone` |
| `ReportIsTrue` | `ReportMatchesDisk`, when there are no temporary files (section 5, 3) |
| `SharedBlobsStay` | `EntriesStayRestorable`, a property of every step |

The heart of `GInv` is `Counted`: a reference count is the number of outputs that
are that blob, over the entries not yet evicted and what the eviction in progress
has still to drop (`Naming`).  From it follows both that an old blob nobody names
is removed and that a blob an entry names is not.

| Theorem of `CacheStoreProofs` | Property |
|---|---|
| `NothingIsTorn` | `NothingTorn` |
| `HitIsAsNamed` | `HitIsWhatTheEntryNamed` |
| `HitsAreTrue` | `HitIsTrue` |
| `DanglingIsExplained` | `DanglingExplained` |
| `StoreIsACache` | `ImplementsCacheSafety`, while no output is rewritten under a running Put |
| `AloneItReports` | `OverwritesAreReported`, for a single builder |

What a builder read was true when it read it; `CInv` says why it still is when it
uses it, although others unlink and replace the same files meanwhile.  A temporary
file has one writer (`Temporary`), a blob is filed only under the digest of its
bytes (`Sound`), an entry only with the outputs of one run (`Faithful`), and every
blob behind a Put's place in its loop is there, or has been unlinked by a writer
that is about to rename, or was killed before (`There`).  Two of the theorems have
hypotheses.  With a file rewritten under a running Put (`MaxEdits` above 0) an entry
can mix two runs, which the store cannot notice; and with two builders an overwrite
between the look and the rename goes unreported, which nobody promised to report.
Digests and names of temporary files are taken to differ from 0, which stands for
damaged bytes.

### The shared cache

| Theorem of `RemoteProofs` | Property |
|---|---|
| `EntriesStayBacked` | `EntriesAreBacked`: blobs before entries, in every store |
| `DamageStaysLocal` | `DamageDoesNotSpread`: damaged bytes are never passed on |
| `SharedCacheTypes` | `TypeOK` |
| `StatsTellTheTruth` | `StatsAreTrue`: a call that is over has raised the counter that says what happened to it, and a Put that failed locally none |
| `MachinesCanMove` | `NobodyWaitsForEver`: a machine that is not idle is at work or has a request that its timeout ends |
| `LookupsAndPutsEnd` | `WorkIsBounded`: each of its own steps brings an action's end nearer, and nothing else moves it away |
| `SharedCacheIsACache` | the safety part of `ImplementsCacheSpec`, `Promise!Safety` |

What a store ever had, `Backed`, only grows, whatever is deleted; that is why the
other machines' parts of the invariant survive a step (`SameLocal`).  `RInv` says
of each machine that the blobs behind its place in a loop are backed where the
loop puts them (`Loops`), that its request is about that place (`Asked`) and that
a 201 means the server has the blob (`Answered`); and of an upload that outlived
its client that every blob of its entry is backed (`LateUploads`).  So the entry
that is sent last finds its blobs on the server, also when it arrives after a
timeout or a crash of its sender.  `CInv` ties the requests to the program counter.  `AInv` says what may stand in
`stats` and `happened` at each place of a call (`Books`), and that while nothing has
gone wrong nothing is damaged or gone and every answer is the one that was asked for
(`Untouched`, `Sound`): a client that gives nothing up then meets no error to count.
`Left` is the number of steps a machine has before it at most, from
its place and its round of the loop: `4 * Outputs + 9` for a whole action.  Every one of
its own steps lowers it and no step of the server, the network, the disks or another
machine changes it, which with `MachinesCanMove` is what can be said of "every lookup
ends" without fairness.  For the refinement, `PInv` follows an entry from the Put that
recorded it to the restore that uses it: `Genuine` holds of entries in stores, in
answers, in late uploads and in the hands of a machine; `StepRefines` then maps
each action to a step of `CacheSpec` or to none.

### Incremental builds

| Theorem of `IncrementalProofs` | Property |
|---|---|
| `WorkInvariant` | `WInv`, the inductive invariant |
| `EntriesAreTrue` | `StoreIsTrue` |
| `RebuildIsClean` | `BuildIsClean`: a build leaves what a build from scratch would |
| `RebuildIsMinimal` | `OnlyAffectedRuns`: a rebuild runs only what a change can reach |

All four assume `WellFormed` (section 2).  It is needed: with two writers of one
file the result is whoever comes last, and with a reader that does not wait the
result depends on timing.

The argument rests on one lemma.  `Separate`: who is still to be built is no
ancestor of what is worked on or built, for the set of what is built is closed under
dependencies; so it writes none of the other's inputs or outputs.  Hence what
an action sees of a step of another is next to nothing (`Alone`, `Bystanders`), and
`WInv` can speak of each action by itself: `KeyedRight`, the key agrees with the files
it was computed from; `Honest`, in a sandbox the outputs in the workspace, in the
sandbox and in the entry to be are what the command makes of the workspace as it is.
An edit that would break this exposes the action (`EditStep`), and nothing else does.

For `BuildIsClean` every action of a finished build is a fixed point of its command,
so a build from scratch changes nothing (`ScratchStays`, by induction over the
actions).  For `OnlyAffectedRuns` the recursion of `Affected` is first shown to walk
over a least fixed point (`Reached`, `AffectedIsReached`); then an action outside of it
has, from the end of the last build on, an entry under the key of what is there, with
what is there (`Saved`, `Sparing`), since whoever may write its inputs is outside of it
too and writes back what was there.

### Only model-checked

- The liveness properties `BuildReturns` and `CancelledBuildReturns`, and the
  liveness part of `Remote!ImplementsCacheSpec`: the provers do not treat fairness.
  What is proved instead is that nobody is stuck and that work is bounded (above).

Every safety property that a passing run checks is a theorem, some under the hypotheses
named above.

The library's induction theorems take an operator as parameter and cannot be used.
Where an induction over a finite set or up to a number cannot be avoided, it is done
by a minimal counterexample in the strict subset order, which the library proves to be
well-founded for finite sets (`GraphProofs`, `CollectorProofs`, and `UpTo` in
`IncrementalProofs` and `ManifestProofs`).  What a function defined by recursion over a
number computes is treated the same way: that there is a function with the equations of
`Clean`, `Where` or `Along` is shown first (`Recursion` in `ManifestProofs`), and then
what it returns by induction up to the length.  Some definitions are stated without
recursion where an equivalent form exists: `ByLastUse` in `Collector` is the sorted
sequence, not a sort.

## 5. What the runs found

1. `SchedSummary`: an action that fails without a Result (a missing input, an
   unusable sandbox) makes `Summary.Succeeded` one too low, and -1 when it is
   alone.  `build.go:39-41` says that the three numbers add up.
2. `SchedInterrupt`: a build interrupted while no command runs skips the rest
   and returns nil; the sequential driver returns the context's error.
3. `CollectTmp`: a killed writer's temporary file is counted as freed by every
   collection and never removed.
4. `SandboxHit`: the key does not say whether an action runs in a sandbox.  After
   a `-no-sandbox` build has stored an action that reads an undeclared file, a
   sandboxed build restores its outputs and succeeds, also when that file was
   edited since, where `PROJECT_SPEC.md:200` says that the build fails.  This is
   why `StoreIsTrue` and `BuildIsClean` except the keys stored without a sandbox.

Three more things the models show without a run of their own.  After fail-fast an
action in the select may take the slot and start (its command is then killed or
never starts), though the comment at `sched.go:189-190` says it skips itself:
`Sched!Acquire` does not ask for the context, as the select does not.  And
writeAtomic unlinks before it renames, so a reader may find no file, where
`store.go:259-260` says it sees the old or the new one; a writer killed in
between loses a blob.  `DanglingExplained` shows that this is the only way builds
lose one: without a collection, whatever else happens, an entry a builder wrote
names blobs that are there.  Last, `tiered.go:20-21` says of Tiered that every failure is
counted, so that Stats can say what happened; but a Put whose local half fails
(`tiered.go:122-125`) returns its error uncounted, and the runner drops it
(`runner.go:202-207`).  A full disk therefore shows nowhere.  `Remote!PutLocal` is
modelled so, and `StatsAreTrue` says that no counter is raised on that way.

## 6. Not modelled, and next

Not modelled: process groups (system calls; only their effect appears); of the
command line the subcommands serve, gc, graph and validate, parseSize and all
output; progress, formatting and captured output; JSON syntax; size limits and
headers of HTTP; a Tiered without a client, which the command line never makes;
`PATH` lookup and the inherited `PATH`, which the code documents as a hole; the
worker pool inside digest.Files, of which only the result can be seen; entries
that are damaged and still parse.  Manifests in which two actions write one
file, an input is another action's output without a dependency, or a path is
both input and output of an action are accepted by Validate and have no promise
to check.

Plan, in order:

1. The worker pool inside digest.Files as a module of its own, if digests that are
   computed at different times should be told apart.
2. The subcommand gc of the command line, with parseSize, in front of `Collector`.
