# Verification of cnspec

TLA+ models of cnspec from the scan job to the uploaded result, TLC
configurations that check them on small instances, and TLAPS proofs of the most
important invariants for every instance. Paths are relative to the repository
(`src/`).

## 1. The system

cnspec scans assets against policies. A *job* names an inventory; discovery
turns it into a tree of assets; each asset is connected, synchronized with the
Mondoo Platform, and scanned. A scan resolves the policies of the asset into a
*resolved policy* (queries and a tree of *reporting jobs*), runs the queries,
turns their results into scores, rolls the scores up the tree, and stores data
and scores through a policy service.

### Inventory

| Component | State it keeps | Operations | Interacts with | What is hard |
|---|---|---|---|---|
| Graph loop and nodes (`policy/executor/internal/graph.go`, `nodes.go`, `queue.go`) | per node: results, scores, `invalidated`, `completed`, `runState`; a priority queue; `done` | `Execute`; `initialize`, `consume`, `recalculate` of eight node types | reads `resultChan`, `doneChan`, `errChan`; writes `runQueue`; calls the collectors | results of queries that share statements arrive in any order and are upgraded; the end of the work is decided by a node of the same graph |
| Graph builder (`builder.go`) | nodes, edges, priorities | `Build` and its setters | makes the graph for `Execute` | priorities decide that a round is consistent and that the finisher is last |
| Execution manager (`execution_manager.go`, `waitgroup.go`) | current query, pending codepoints, stop and error channels | goroutine of `Start`, `executeCodeBundle`, `Stop` | reads `runQueue`, writes `resultChan`; callbacks of the query engine | callbacks on other goroutines, timeouts, panics, stop while sending |
| Score calculators (`policy/score_calculator.go`) | sums and counters | `Add`, `Calculate`, `AddSpecdScore`, `AddDataScore` | used by the aggregate nodes | completion, errors, impact and weight in combination |
| Scan pipeline (`policy/scan/scan_pipeline.go`, `local_scanner.go`) | `connSem`, `scanSem`, the batch, a wait group, the tree | `scanSubtree`, `syncBatcher.Add/Flush`, `scanDispatcher.Submit/Wait`, `scanSingleAsset` | discovery explorer, platform, reporter | slots that travel through three stages, failures and cancellation at every point |
| Buffered collector (`policy/executor/internal/collector.go`) | maps of unsent data and scores, timer, risk scores | `Sink` of data and scores, `FlushAndStop`, the flush goroutine, `updateRiskScores` | between collector nodes and policy service | flush on a timer racing the last sinks; risks decided over several drains |
| Disk queue (`policy/scan/disk_queue.go`, `pdque/queue.go`) | a directory of files, `closed`, a condition variable | `Enqueue`, `DequeueBlock`, `Close`, pusher, popper, `Stop` | `LocalScanner.Schedule` | crash between removal and handling, stop while pushing, a file that cannot be read and is tried again, order by wall clock |
| Scan database (`policy/scandb`) | rows with checksums, a counter of failed hashes, `readOnly` | `Write*`, `StampChecksums`, `Finalize` | data lake, upload | announced only when every row has its checksum, sealed only after the last write |
| Upload of results (`internal/datalakes/sqlite`, `upload`) | session, attempts, last failure | `doScanUpload`, `doUpload`, `uploadScanDataStore` | platform, object store | lost replies, a session that changes with every attempt, cancellation |
| In-memory data lake (`internal/datalakes/inmemory`) | policies, frameworks, links in both directions, checksums, cached bundles; resolved policies; scores | `SetPolicy`, `MutateAssignments`, `DeletePolicy`, `GetValidatedBundle`, `UpdateScores`, cache `Get`/`Set` | hub, resolver, collectors | invalidation of what was computed from what; failures halfway |
| Policy hub and bundles (`policy/hub.go`, `bundle_map.go`) | none of its own | `SetBundleMap`, `PreparePolicy`, `Assign`, `Unassign` | data lake | order of dependencies, bundles that rely on earlier ones |
| Resolver (`policy/resolver.go`, `resolved_policy_builder.go`) | overrides, nodes, edges, the resolved policy | `buildResolvedPolicy` | bundle, asset filters, executor | two recursive passes, overrides in other policies, pruning, map order |
| Frameworks and risk factors (`policy/framework.go`, `risk_factor.go`) | documents and checksums | `ResolveFramework`, `AdjustRiskScore`, sorted merges | resolver, collector | precedence of several risk factors |
| Scan statistics (`policy/scanstats`) | counters, peaks, first and last CPU sample | `Observe`, `Record`, `Stop`, sampler | scan pipeline | samples taken outside the lock |
| Daemon (`apps/cnspec/cmd/serve.go`, `backgroundjob`) | timer, shutdown channel, wait groups, ticker | `Serve`, `Execute` (Windows), `checkinPinger.Start/Stop` | runs a scan when the timer fires | a request to stop while a scan, a check-in or the timer is due |
| Progress list (`cli/progress/todolist.go`) | tasks and their states | `Update`, `View` | scan pipeline | messages of several goroutines about one asset, a limited number of rows |
| Incremental code executor (`policy/executor/executor.go`) | maps of running codes, a wait group | `AddCodeBundle`, `RemoveCode`, `WaitForResults` | query engine | used by tests only |
| Reporters, commands, language server, SBOM, Terraform generation, onboarding | output | formatting and I/O | the user | nothing concurrent that results depend on |

A scan runs through these parts as follows: the daemon starts it when its timer
fires (`ServeDaemon`), or `Schedule` puts a job in the disk queue (`DiskQueue`)
whose handler does. It walks the inventory (`ScanPipeline`), whose
messages the progress list shows (`TodoList`) and whose resources are sampled
(`ResourceTracker`). For each asset the hub serves a bundle (`PolicyLake`), the
resolver turns it into a resolved policy (`ResolvedPolicyBuilder`), kept in a
cache (`ResolvedPolicyCache`). The executor runs it (`GraphExecutor`) and sinks
data and scores into the collector (`BufferedCollector`), which applies the risk
factors (`RiskScores`) and stores the results in the scan database, which is
sealed and uploaded at the end (`ScanUpload`). `AssetScan` puts the last three
together as `RunAssetJob` does.

### What makes the parts correct

* **Executor.** All users of a datapoint see the same result; a result is only
  ever replaced by a better one; no wake-up is lost; the loop and the manager
  never wait for each other; `Execute` returns; what it handed to the collectors
  by then is complete; scores are those of the final results.
* **Scores.** An aggregate is complete when its children are; a rescored tree has
  the scores its children give.
* **Pipeline.** Connection slots are neither leaked nor released twice; assets
  are closed once, after their children were connected; one subtree is in memory
  at a time; a job returns, and after a clean return nothing is open or running.
* **Collector.** Everything sunk before `FlushAndStop` was called has been sent
  when it returns, nothing follows the last batch, a risk once detected stays
  detected, and `FlushAndStop` returns.
* **Disk queue.** A job is in exactly one place; a crash loses at most what was
  in memory; jobs are handled first in, first out and at most once; `Stop`
  returns.
* **Upload.** A session is reported complete only when its object is stored; a
  success is one for the platform too; a refusal is not repeated; exactly one
  report describes the outcome; the call returns.
* **Asset.** Only what was delivered with the last of all results is reported as
  scanned; a file that announces checksums has one in every row; what is uploaded
  is the sealed file; no database stays behind; `RunAssetJob` returns.
* **Lake.** A bundle that is served is what its policies, queries and frameworks
  say now; links are complete in both directions; filters are current.
* **Resolver.** A check is scored where it is declared and only there, every job
  rests on a query that runs, what is disabled does not run, what is snoozed does
  not count, whatever the order of overrides, passes and map iteration.
* **Cache.** The total is the sum of the entries, nothing expired is served,
  only an entry that can never fit is refused.
* **Daemon.** It goes on scanning until it is asked to stop, then starts at most one
  more scan, waits for what runs and ends.
* **Statistics and progress.** A peak is the largest sample applied; an outcome is
  final, a running scan is visible, every scan is counted once.

The hazards behind these properties are listed, each at its line, in
`PROJECT.json`.

## 2. Modules

| Module | Models |
|---|---|
| `ScoreCalculator` | the average, weighted, worst and banded calculators as operators |
| `ExecutionGraph` | results and their upgrades; the nodes, edges and priorities `Build` makes of queries and reporting jobs (operators over constants) |
| `GraphExecutor` | `Execute`, the nodes, the execution manager and the engine callbacks (state machine); the executor properties |
| `GraphExecutorProofs` | theorems about `GraphExecutor` |
| `MCGraphExecutor` | graphs for TLC, with an assumption that has TLC evaluate the hypotheses of the theorems on each of them |
| `ScanPipeline` | `scanSubtree`, `syncBatcher`, `scanDispatcher` (state machine) and their properties |
| `ScanPipelineProofs` | theorems about `ScanPipeline` |
| `MCScanPipeline` | asset trees for TLC |
| `JobQueue` | abstract specification: a bounded FIFO queue with at-most-once delivery |
| `DiskQueue`, `MCDiskQueue` | the disk queue with its goroutines, `Stop`, crash and restart; implements `JobQueue` |
| `DiskQueueProofs` | theorems about `DiskQueue`, the refinement among them |
| `PolicyLake` | uploads, assignments, deletions and reads of bundles |
| `PolicyLakeProofs` | theorems about `PolicyLake` |
| `ResolvedPolicyBuilder` | from a bundle and asset filters to reporting jobs and datapoints |
| `ResolvedPolicyCache` | the size- and time-limited cache |
| `MCPolicies` | bundles, resolvable policies and a small cache for TLC |
| `BufferedCollector` | the collector, `StoreResults` and the result writes of the data lake |
| `BufferedCollectorProofs` | theorem about `BufferedCollector` |
| `RiskScores` | how detected risk factors change the score of a check |
| `ScanUpload` | the upload handshake of scans and of findings |
| `ScanUploadProofs` | theorems about `ScanUpload` |
| `AssetScan` | the scan of one asset, composed of `BufferedCollector`, the scan database and `ScanUpload` |
| `AssetScanProofs` | theorem about `AssetScan`, from those about its parts |
| `TodoList` | the progress list |
| `ResourceTracker` | the resource statistics |
| `ServeDaemon` | the loop of `cnspec serve` with its check-ins and its end |
| `ServicesProofs` | theorems about `ResourceTracker`, `ResolvedPolicyCache`, `RiskScores`, `ServeDaemon` and `TodoList` |
| `MCResults` | instances of the modules from `BufferedCollector` to `ServeDaemon` for TLC |

`MCPolicies` and `MCResults` put several modules side by side. What one of these
parts hands to the next is data that the instances enumerate (a bundle, a size, a
set of scores) and they share no variables, so a product of their states would
show nothing new: a variable `part`, chosen at the start, says which module moves,
and the others stay in a fixed initial state. Where parts do share state they are
composed: part *asset* moves the collector, the scan database and the upload
together, as `AssetScan` has them. Their properties are named
conjunctions of the invariants that the modules state.

Next to some definitions stands a variant marked *Faulty variant*, with a
plausible mistake in it (a dropped guard, a missing reset). No specification
uses these; replacing the definition by its variant must make the property it
is paired with in `PROJECT.json` fail, which shows that the property depends on
that line of the code. A property with several named parts has a variant for
each of them.

### GraphExecutor and the code

*State.* Each node type has the fields of its Go struct (`rjCompleted` is
`ReportingJobNodeData.completed`, and so on). `queue` is the heap as a set of
`<<node, priority>>`: a second entry for a node is popped after the first has
been recalculated, finds nothing invalidated and does nothing. `pc` is the
place of `Execute`: `process` (the inner loop over the queue), `wait` (the
`select`), `drain`, `stop`, `join`, `returned`. `emPc` is the place of the
manager's goroutine. `inflight` holds the callbacks that have called `wg.Done`
and not yet sent. `sunkData` and `sunkScores` are the last values the collectors
behind the graph received. `emitted` counts emissions in the current round and
exists for `EmitsOncePerRound` only.

*Actions.* `Recalculate*` is one pop: `recalculate` of the node and, when it
emits, `consume` of every node behind its edges and the pushes. The nodes share
no state with other goroutines except the properties of a query (under
`propsLock`) and the channels, so a pop is atomic but for the send on
`runQueue`, which blocks. `ReceiveResult`, `ReceiveDone` and `ReceiveError` are
the cases of the `select` (any that is ready may be taken) and of the drain
loop. `Dequeue` reads the properties, as `materializeProps` does;
`Broadcast` sends the placeholders of a query that cannot run; `Callback` and
`SendResult` are the two halves of `sendResult`; `BundleFails` is a timeout, an
executor error or a recovered panic.

*Results* are the classes the code tells apart: placeholder, nil, truthy and
falsy values, values without truth, carried scores, errors, and the error of a
vanished asset. Casting to the expected type does not change the class. Scores
are records of the fields the calculators use.

*Rescoring* (`WithRescore`) is the same module with `Rescore = TRUE`: no queries,
no manager, and static jobs that send the supplied scores.

### ScanPipeline and the code

`stack` holds the activations of the recursive `scanSubtree`; `wpc` is where the
innermost one is; the four `flush...` places are the four calls of `Flush`.
A slot is acquired in `Acquire` or `AddNode`, travels with the asset through
`buf` and its goroutine (`stage`), and is released in `ReleaseSlot`,
`ConnectFails`, `ConnectBranch`, `ConnectSkipped` or `FlushFails`. The retries of
`SynchronizeAssets` are one choice between `Flush` and `FlushFails`: between them
the walker holds no lock and changes nothing. The explorer, the platform and
`RunAssetJob` are external: they fail or succeed by choice, and a scan ends.

### DiskQueue and the code

`disk` maps the stamps in the file names to jobs. `Queue.mu` is held from the
size check of `Enqueue` to its rename, and the process may die in between, so
`EnqueueTemp` and `EnqueueRename` are two actions and `pusher.pc = "temp"` is the
state with the lock held. `Dequeue` reads, decodes and removes the file in one
action: between the reading and the removal nothing changes but the file.
`DequeueFails` is any error of it, from `ReadDir` to `Remove`, with the file left
where it is; the popper logs it and pops again (`PopAgain`), as often as it
fails. A popped entry goes to the handler (`HandlerStarts`) or, when it cannot be
unmarshalled, is given up with a log line, its file being gone (`EntryDropped`).
`Crash` leaves the files and drops everything else, `Start` opens the directory
again. `order`, `taken`, `finished`, `logged` and `lost` record history for the
properties. The refinement maps the abstract queue to the jobs of the files in
the order they were enqueued; a crash, a refusal and an error are stutters.

### BufferedCollector and the code

The maps `data` and `scores` keep the last value of a key. `Loop` is the body of
the goroutine: drain, send, wait in the `select`; `StopTaken` and `TimerFires`
are its two cases. A drained batch of scores is a function and the scores kept
over drains a sequence of them; `keepQrIds` and `RiskMRNs` decide about each. The
last request is made in `SendScores`, `StoreWindow` (one per drained function, in
the order of the drains, which is the order of the request) and `StoreRisks` or
`StoreFails`; `SendNothing` is the early return without scores and risks. The
service behind it fails by choice; `StoreResults` writes locally first, then
upstream. `now` is only there for the times of a score.

### PolicyLake and the code

One request runs at a time, but what a call changed before it fails stays changed,
because the lake hands out pointers to its own objects. An upload takes a step for
each policy (`SetBundle`, then `SetPolicyFromBundle` in the order of
`PoliciesSortedByDependency`, then `SetFrameworks`), so that its invariants are
stated between them too. A checksum is modelled by what it is computed from: the
local one of a policy by its document and the versions of its queries, the graph
one by the local ones of the policy and of everything below it; two are equal
exactly when what they cover is. The `invalidated` flag is kept as the code has it
(`fixInvalidatedPolicy` never takes it back). Maps that the code ranges over give a
choice of order.

The code follows links recursively: `GetValidatedPolicy` as long as it comes to
invalidated policies, `ComputeBundle` as long as it comes to stale bundles,
`invalidatePolicyAndBundleAncestors` along parents. What such a walk visits is
`Reach`, the least set with its start that is closed under the links it follows, and
its result is stated at once for all policies it visits: `Validated`, `Contents`
and `Above`. A walk returns because `ValidatePolicy` refuses a bundle with a circle
(`LakeAssumption`). In what the walk computes, a second visit to a policy on two
paths adds nothing: the first has validated it, or gave it a bundle.

`UploadsWhole` says which uploads keep what is cached current: a new version of a
query comes with all policies that have it, a policy keeps its dependencies and its
filters, and a framework does not change. TLC finds a violation of `BundleFresh` or
`LakeConsistent` when any of these is dropped; see *Deviations*.

### ResolvedPolicyBuilder and the code

`Gather` is the first pass (`gatherGlobalInfoFromPolicy`,
`gatherGlobalInfoFromFramework`, `collectQueryTypes`), `AddNodes` the second
(`addPolicy`, `addFramework` and what they call), `Build` one step of the walk
from the nodes that are not prunable, in any order, and `Connect` the last loop.
Texts, properties, scoring systems and checksums are left out, filters are sets
of the code ids of their items. The properties compare the result with a
declarative reading of the bundle (`ActivePolicies`, `CodeFor`, `Declares`) that
shares no operator with the builder, except for the gathered actions.

### ScanUpload and the code

`flow` says which of the two clients it is. A call that the client saw fail may
have taken effect: `GetUploadURLFails`, `PutBreaks` and `ReportFails` choose whether it did. `last` has the fields of
`lastKind`, `lastStatus`, `lastErrMsg`, `lastBody` and `lastRes`; `truth` is the
failure they should describe. The backoff library is external: it makes at most
`Attempts` attempts, ends on a permanent failure, and ends when the context is
cancelled.

### AssetScan and the code

`stage` is the place in `RunAssetJob` and what it calls: create the database,
resolve, execute, store resources, read the report, announce the checksums,
finalize, upload, clean up. Any of these may fail, and a failure goes to the
clean-up with an error. While the stage is *execute* the actions are those of
`BufferedCollector`, each followed by the rows it writes (`Collect`); while it is
*upload* they are those of `ScanUpload`, whose PUT stores the file as it is at
that moment (`objects`). A checksum is modelled by the content it is computed
from, so a row and its checksum agree exactly when they are equal; `hashErrors`
is the counter that `StampChecksums` looks at. The properties speak of the whole
path: `ReportedIsDelivered` relates what the executor sank (`lastData`,
`lastScore`), what is in the database, what was read back as the report, and what
the platform has under the session that was reported complete.

### ResolvedPolicyCache, TodoList, ResourceTracker, RiskScores

The cache takes its lock in `Lock`; each round of `freeSpace` is one step because
the clock advances and map order decides between equals. `TodoList` has one
action per message, sent by a goroutine and received later by `Update`, and
`View`, which picks the rows. `ResourceTracker` separates taking a sample from applying it, since the
lock is only held for the second. `RiskScores` chooses detected factors and
resources at the start and merges the sorted lists one factor per step; a list is
the set of the factors left in it, of which the least is the next (`First`).
Magnitudes are eighths, on which the float arithmetic is exact.

### ServeDaemon and the code

`system` says which of the two implementations of `Serve` it is. `main` is the
goroutine that serves, then joins and stops the pinger; `worker` the one that scans;
`pinger` the one of `checkinPinger.Start`. The timer is in one of three states,
because `Reset` is only called by whoever has read its channel. On Unix the worker
reads the timer itself; on Windows `Hand` gives the scan to the worker only when
that waits for one, and nobody waits for the worker at the end. A scan with the
check-in before it is one call that ends, also with an error; when the process has
returned every goroutine is gone with it (`Alive`). `late` counts the scans that
began after the shutdown.

## 3. Runs

| Run | Instance | Shows |
|---|---|---|
| `executor_shared` | three queries; `A` needs a property that `P` computes and `B` may also report, `A` and `B` share a statement; an execution-query job below a check; `P` may fail or time out with results still on their way; `resultChan` of size 1 | `TypeOK`, `CopiesAgree`, `NoWorkLeftBehind`, `RunQueueHasRoom`, `QueryScoresCurrent`, `CleanReturnIsComplete`, `DoneComesLast`, `StartsWithCurrentProps` |
| `executor_filters` | two filter queries that share statements, one may fail | `EmitsOncePerRound`, `FilterDecision` |
| `executor_termination` | a query that needs a newer version computes a property, so `A` can only broadcast; `B` may fail | `Termination`, `CollectedDataImproves` |
| `executor_rescore` | ten jobs: checks with supplied scores of all kinds below a weighted policy, a banded control and a root | `RescoreRollsUp`, for every order in which the heap may yield equal priorities |
| `executor_stale_rollup` | as `executor_shared` | violates `GraphUpToDate` (finding 1) |
| `executor_early_finish` | as `executor_filters` | violates `ProvisionalScoresHadTheirChance` (finding 2) |
| `pipeline_tree` | ten assets: two roots, a branch, skipped, delayed and unconnectable leaves; two slots, two workers, batches of two; synchronization may fail, the job may be cancelled | all pipeline properties |
| `pipeline_stall` | five leaves, four slots, batches of five | violates `NoStall` (finding 3) |
| `pipeline_undrained` | as `pipeline_tree`, without cancellation | violates `DrainedBeforeReturn` (finding 4) |
| `queue` | three jobs, one that cannot be marshalled, two places on disk, two restarts, a clock that advances by 1 or 2, a `Close` that may fail, a `DequeueBlock` that may fail at any time, once or for ever, popped entries that cannot be unmarshalled | `OnePlace`, `LossBound`, `ImplementsJobQueue`, `StopTerminates`, `EveryJobSettles` |
| `policies` | *uploads*: a policy over another, together and alone, two versions of each and of a query, a framework, the asset; *diamond*: a policy below two others that changes under them, a bundle that is not complete; *resolver*: 43 bundles (nested policies, overrides by group type and by action, expired and filtered groups, variants, shared codes, a risk factor, nested controls) with three sets of filters; *cache*: two callers, two keys, sizes 1, 2 and 4 with a limit of 3 | `BundleFresh`, `LakeConsistent` (`RefsLinked`, `FiltersCurrent`); `ScoredWhereDeclared`, `ResolvedRuns`; `CacheInOrder` |
| `results` | *flush*: two datapoints with a plain, a too large and a mistyped result, one check, two sinks, failing calls; *detect*: a check, the check of a risk factor and one that is both, three sinks; *adjust*: seven risk factors of both signs, equal magnitudes, toxic ones, three scopes, four values; *upload*: both clients with the five attempts of the code; *asset*: a datapoint with a plain and an unhashable result, a check, a resource, two sinks, two upload attempts, with the platform, with a file to keep and with neither, a failure at every stage and a cancellation of the upload; *list*: two assets and one row; *tracker*: an asset and the sampler; *serve*: both systems, with and without a pinger, a request to stop at any point | `CollectorComplete`; `RisksApplied`; `UploadSafe`, `PermanentFailsFast`; `AssetDelivered`; `ListTruthful`; `UsageMeasured`; `DaemonServes`; `CallsReturn` (an upload, the scan of an asset, the flush of the collector, the daemon after a request) |

*Bounds of the executor and the pipeline.* The state spaces are finite without any bound in the guards: a query
runs once, reports each codepoint once, and the tree is finite. The instances
are the smallest in which the hard cases occur: a placeholder or a nil that
arrives before and after the real result, for a property and for an entrypoint;
a full `resultChan` (size 1 instead of 128, which forces the manager to wait for
the loop); a query waiting in `runQueue` while its property is upgraded; a batch
that fails while an earlier one is scanned; a walker that waits for a slot while
the batch holds one.

*Other bounds*, each named in its module: `MaxStarts` restarts and the names
`Stamps` of the disk queue (every job can be written with the largest clock
step); `MaxSinks` batches and `MaxTime` ticks of the collector (a drain before,
between and after the sinks, so that a key is overwritten, sent, and sunk again);
`MaxAssign` names per assignment and `MaxUnassign` per removal (one each; several assignments give any set); `MaxTime` of the cache (an entry can expire
while another caller evicts); `MaxCPU` and `MaxBytes` of the tracker (two
readings that differ are enough for an order). The lake is bounded by what is
uploaded, the builder by its bundles, the upload by its attempts, which are the
five of the code (two in part *asset*, where a second session is what matters;
there the requests of the collector do not fail, which part *flush* covers). No
symmetry is used.

*Fairness.* Weak fairness of the graph loop, of the manager, of the walker and
of each goroutine separately: the Go scheduler runs every runnable goroutine,
and a blocked send or receive is completed once it stays possible. The engine
is assumed to report some pending codepoint or, for queries in `MayFail`, to run
into the timer of the query. No strong fairness is used, and a ready `select`
may pick any case for as long as it likes. (This is about the executor and the
pipeline.)

Elsewhere: the goroutines of the disk queue, a running `Stop` and a restart after
a crash, the client of an upload and the goroutine of the collector are weakly
fair: each is a runnable goroutine or a request with a timeout. Strong fairness is
used for the stop case of the collector's `select` (`StopTaken`): while the
stop channel is closed and the timer may also be ready, Go picks a ready case at
random, so the stop case cannot be passed over for ever; the closed `quit` of the
pinger, which competes with a tick, is the same case (`TakeQuit`). The goroutines of
the daemon, its timer and the check-ins are weakly fair: scans and requests end.
Signals are not fair. Clients, crashes, `Stop`
itself and uploads of bundles are never fair. In part *asset* the steps of
`RunAssetJob` are weakly fair as well: it is one goroutine, and the query executor
it waits for returns, which `executor_termination` shows (`Termination`). The list, the tracker, the cache and
the lake have safety properties only.

### Findings

1. *Stale roll-up.* `ReportingJobNodeData.consume` reopens a completed job only
   for a datapoint. A check or policy above it, which completed on the
   provisional score, has no datapoints of its own, stays completed and never
   emits again, while the comment on `Execute` says that "At the end of the
   round, the reporting graph will be fully up-to-date".
2. *Early finish.* The finisher counts the first result of a datapoint, even a
   short-circuit nil another query reported. `Execute` can return while the query
   that would correct it is still in `runQueue`; `ExecuteFilterQueries` then
   decides on the provisional score ("every provisional score has had the chance
   to be corrected").
3. *Stall.* `MONDOO_MAX_PROVIDER_CONNECTIONS` below 5 (`syncBatchSize`): the batch
   holds all slots, never fills, and the walker waits for ever.
4. *Undrained return.* The error paths of `scanSubtree` return without
   `dispatcher.Wait()`, so the explorer is shut down under running scans.

Each names its lines, and the text of the repository it disagrees with, in
`PROJECT.json`.

### Deviations the instances leave out

While the other modules were written, the code turned out to do other than its
documents say in the following places too. The modules have the code's behaviour;
the instances of section 3 are chosen so that it does not come up, which is the
precondition under which their properties hold.

* *Clock.* Files are named by the wall clock (`policy/scan/pdque/queue.go:315`); a
  reading that repeats after its file is gone, or a clock that is set back, gives
  a new job a smaller name than one that waits, and the queue is not first in,
  first out (`disk_queue.go:55`). `MinAdvance = 1` excludes it; with 0
  `ImplementsJobQueue` fails.
* *Stop.* `Stop` ignores the error of `Close` (`disk_queue.go:88`); the popper then
  never ends. `StopTerminates` names this case.
* *Unreadable file.* When the oldest file cannot be read, decoded or removed, the
  popper logs the error and tries the same file again, without a pause and for ever
  (`disk_queue.go:129`, `pdque/queue.go:289`): the jobs behind it are never handled.
  `EveryJobSettles` names the case. That a job "was returned" never ends, so its
  last alternative says that `DequeueBlock` fails infinitely often while the job
  waits; after any finite number of errors the job has to settle. An error means
  that the oldest file stays, so the jobs before an unreadable file settle.
* *Last batch.* Without scores and risks no request is marked as the last
  (`executor/internal/collector.go:343`).
* *Failure time.* A first result that fails replaces the empty score and keeps its
  failure time 0 (`inmemory/policyresolver.go:888`).
* *Two resources.* Of the resource-scoped risk factors of a check that reads two
  resources only one list is used, by map order (`collector.go:294`). The factors
  of the instance have one resource.
* *Datapoints.* A query that shares a datapoint with an earlier one replaces its
  entry (`policy/resolver.go:576`), and the earlier job is not notified for it.
* *Query types* also follow policies that are switched off
  (`resolved_policy_builder.go:600`).
* *Snoozed impact.* The first pass writes the snooze of a check into the `Impact` of
  the bundle's own check or query (`resolved_policy_builder.go:715`), and a bundle
  that comes from the cache is handed out uncloned (`inmemory/policyhub.go:441`), so
  that a later resolve of it, for other filters, sees the mark. The resolve that
  writes it does not depend on it, since the marked impact is also the one in
  `impactOverrides`. A behaviour of `ResolvedPolicyBuilder` is one resolve.
* *Impact of policies.* Of two references to one policy the last impact counts, not
  the worst (`resolved_policy_builder.go:669`).
* *Shared query.* A new version of a query does not reach the cached bundles of
  policies that were not uploaded with it (`inmemory/policyhub.go:441`). This and the
  next three are what `UploadsWhole` excludes.
* *Framework.* A new version of a framework does not reach the asset's bundle
  (`policyhub.go:575`).
* *Filters.* New filters of a policy do not reach the policies above it
  (`policyhub.go:160`).
* *Dropped reference.* A policy uploaded again without a dependency stays its
  parent (`policyhub.go:171`).
* *Partial unassign.* `mutatePolicy` fails on its second policy and leaves the first
  without its parent (`policyresolver.go:131`). `MaxUnassign` is 1; with 2 TLC finds
  `LakeConsistent` violated.
* *Library policy.* A bundle that names a policy of an earlier upload panics in
  `PoliciesSortedByDependency` (`policy/bundle_map.go:286`): `SetBundlePanics`.
* *Unassigning a framework* asserts the wrong type and panics
  (`policyresolver.go:42`): `UnassignFramework`.
* *Last failure.* The failure report of an upload mixes fields of several attempts
  (`internal/datalakes/sqlite/upload_retry.go:78`).
* *Not lost.* An upload whose completion reply was lost is reported as lost although
  the platform has it (`sqlite.go:266`).
* *Waiting for completion.* `WaitUntilDone` (`policy/scan/local_scanner.go:1486`)
  waits for nothing: every score that is read from the scan database has a
  completion of 100 (`policy/scandb/scan_data_store.go:704`). That the report has
  the last scores rests on `FlushAndStop` alone, which `AssetDelivered` shows.
* *Empty report.* A root score that cannot be read gives an empty report and no
  error (`inmemory/policyresolver.go:412`); the asset counts as scanned.
* *Stamp.* The comment on `WithWriteTimeChecksums` (`scan_data_store.go:151`) says
  that `Finalize` skips the stamp; `StampChecksums` does, before it.
* *Failed Finalize.* A scan whose `Finalize` fails is lost without the report that
  a failed upload sends (`sqlite.go:149`).
* *Priority.* The worker of the daemon says to "Give shutdown priority"
  (`backgroundjob/serve_unix.go:38`), but when the timer fires and the shutdown comes
  between the two `select`s it may still start one scan, and the shutdown waits for
  it: `DaemonServes` allows one.
* *First check-in.* The check-in on startup is in no wait group
  (`checkin_pinger.go:46`), so the end of the process may cut it off, and it may
  write `CheckinHandler.sysInfo` at the same time as the check-in of a scan
  (`checkin.go:52`), without a lock; both write the same value.
* *Remaining.* With one row free the list announces a task too many
  (`cli/progress/todolist.go:311`).
* *Preset graphs.* `Execute` starts with every node at the same priority
  (`executor/internal/graph.go:118`). In a graph whose datapoints are all preset, because
  no query can run, the finisher may then close `doneChan` before other nodes had
  their turn, against "all other work is guaranteed to complete before it says
  things are done" (`executor/internal/nodes.go:127`). `Execute` looks at `doneChan`
  after the round only, so nothing is lost. `SomeQueryReports` excludes it.
* *Sample order.* An older sample applied later sets `lastCPU` back
  (`policy/scanstats/tracker.go:108`).

## 4. Proofs

The safety and action properties that TLC checks on an instance are proved, as far
as the provers reach, for every value of the constants. Assumptions on constants
are named in the modules; TLC evaluates them on every instance.
`AssetDelivered`, `CollectorComplete` and `UsageMeasured` are also the names that
`MCResults` gives to these properties of its instances.

### Executor

`GraphExecutorProofs` proves, for every graph of queries and jobs, every
`ResultCap` and every behaviour of the engine allowed by `Outcomes` and
`MayFail`, from `GraphAssumption` and `ExecutorAssumption` and, where it is said,
from a hypothesis on the graph:

* `TypeCorrect`: `Spec => []TypeOK`. `TypeOK` is not inductive: a late callback
  sends a result of `emQuery`, so `emQuery` must be a query whenever callbacks are
  pending. `TypeInv` adds that (`PendingHasQuery`). The proof has one lemma per
  node type and shows that edges stay inside the graph (`EdgesStayInGraph`), hence
  that whatever is queued or sent names an existing node.
* `CopiesInStep`: `Spec => []CopiesAgree`. Four pieces of code keep a copy of a
  datapoint's result, each with its own rule for replacing it. The inductive
  invariant `CopiesInv` says that a copy is equal to the result or *lags* behind
  it: the datapoint has not yet emitted, and the result upgrades the copy. The
  argument: upgrades compose (`LagGrows`: what upgrades an upgrade of a copy
  upgrades the copy), so any number of results received in one round leave the
  copies lagging; and every consumer accepts a result its copy lags behind
  (`LagCloses`), so one emission brings them all up to date.
* `NoWakeUpIsLost`: `Spec => []NoWorkLeftBehind`. The property says nothing of the
  middle of a round. `WorkInv` does: whatever node has something to emit or to hand
  on is in the queue. `LoopInv` joins it with the invariants above and with what
  `Execute` has done at each place (`RoundInv`, `ReportedInv`): it waits and leaves
  with an empty queue only, and leaves without an error only after `doneChan` was
  closed.
* `DataIsDelivered`: the datapoint half of `CleanReturnIsComplete`, when jobs
  collect datapoints of the graph only (`CollectedDatapoints \subseteq
  GraphDatapoints`; a job with any other datapoint never completes).
* `DoneIsLast`: `Spec => DoneComesLast`. `FinisherInv` says that the finisher's
  item has the lowest priority of all. The exception is the first round, in which
  every node has the highest; there a datapoint that a query is still to report
  keeps the finisher from closing `doneChan`, hence the hypothesis
  `SomeQueryReports` (see *Deviations*).
* `RunQueueNeverBlocks` and `PropsAreCurrent`: `Spec => []RunQueueHasRoom` and
  `Spec => StartsWithCurrentProps`. The queries in `runQueue` are different ones
  that are marked as executed (`RunQueueInv`), so there are fewer of them than
  queries while one is not marked: the room in the channel follows from a bijection
  onto a subset. A query is marked when its properties are known, known ones stay
  known (`QueriesInv`), and `CopiesInv` makes them current.
* `CollectedDataOnlyImproves`: `Spec => CollectedDataImproves`. `ImprovesInv`
  orders the three places a result passes (node, collector node, collector).
* `FiltersDecideLast`: `Spec => []FilterDecision`, without rescoring, which is how
  `ExecuteFilterQueries` calls it. `QueryScoresInv`: the last score a query sent is
  the score of the results it has, unless it is queued or has no score yet.
* `EmitsOnce`: `Spec => []EmitsOncePerRound`. `ItemsInv` says that an item has the
  priority of its node or is a datapoint's, and `EmitInv` that behind a node that
  emitted in this round nothing with a higher priority remains (`Settled`). In the
  first round priorities do not help; what does is that nothing upgrades the preset
  errors, the only results there are (`FirstRound`). With two preset properties of
  one query its reporting node emits once for each, so the hypothesis is
  `PresetDatapoints = {}`; the repeated score is the same.
* `ScoresAreCurrent`: `Spec => []QueryScoresCurrent`, the reopening of jobs.
  `QueryJobsInv` relates a query, the job that reports it and the collector: both
  hold the same results; a completed job has sent up the score of the query's
  results; a job that has a score to send waits for its turn. `FullShare` is the
  arithmetic: data and child are complete exactly when their average is. A query
  without entrypoints would have a job that never completes, hence
  `EveryQueryHasEntrypoints`: a compiled query has a statement.
* `FinalScoresAreDelivered`: at a return without an error the score of every
  query's job is collected and is that of the final results.
* `ReturnIsComplete`: `Spec => []CleanReturnIsComplete`, without rescoring. A score
  goes up when its completion is 100. `FullScore` says what that takes, and the sum
  of full scores is full for each of the calculators (`AddKeepsFull`), so a job that
  heard of all its children and has all its data has something to send
  (`EmitsWhenReady`). The sum is a fold over the children, and `AggregateIsFull` an
  induction over sets of them: the equation that defines the fold is shown to have a
  solution (`SumEnds`), then a least set with a wrong sum is refuted. `JobsInv` is the
  flow of scores: a job holds what its children have sent, and is completed or has
  its turn to come when that gives a score. At the return nobody's turn is to come;
  of the jobs that have sent nothing, one has the highest priority, so all its
  children have sent, and it would have (`EveryJobSends`).
* `RescoringRollsUp`: `Spec => []RescoreRollsUp`, with rescoring. `RollUpInv` says
  that each job sends one score and each parent holds what its child sent. In rescore
  mode jobs are queued only by a score that arrives, so "its turn to come" needs a
  child that has sent; and no score may arrive at a completed job, which would ignore
  it. A job that is completed before it heard of all its children reports an unknown
  scoring system, whatever else it hears of (`UnheardEmitsError`).

These two assume `JobsCanFinish`: a check, a data query or an execution query without
datapoints forwards the score of a job whose data is complete when it is sent. With a
query as child its completion would be 50 for ever, because the score of a query has
no data; the resolver gives such a job datapoints. `RescoringRollsUp` also assumes that
supplied scores are scores (`SuppliedScoresTyped`) and that a job without one has
child jobs and no datapoints (`RescoredTree`; `builder.go:267` says so, and such a job
would wait for results that nobody produces).

The last five theorems and `DoneIsLast` need the order in which nodes are recalculated, and
`PrioritiesFollowEdges` proves it of every graph without a cycle: `prioritizeNode` is
defined on it, a node's priority exceeds those of the nodes behind it, the finisher's
is the lowest, and no path is longer than there are nodes, so a datapoint with a new
result comes before all others (`PrioritiesOrdered`). It is an induction over the
graph, done with least counterexamples: the library's `WFMin` needs a set where its
induction theorems need an operator. A set of nodes closed under edges on which the
recursion is defined, and which is not all of them, can be extended by a node all of
whose edges lead into it (`PrioritizeOneMore`); numbers behind a node are finitely
many, so one is the largest (`LargestNumber`); and no number below that of a node is
left out (`NumbersAreTaken`). `Acyclic` is what the code relies on: `prioritizeNode`
returns for no other graph. TLC evaluates the hypotheses on every graph of the runs
(`GraphsAreAcyclic` of `MCGraphExecutor`).

### Scan pipeline

`ScanPipelineProofs` proves every safety property of the pipeline, for every forest
of assets, every choice of failing, skipped and delayed ones, and every size of the
semaphores and the batch, from `PipelineAssumption` and `ForestAssumption`
(discovery makes a new object for every child, so no asset has two parents):
`SlotsAreAccounted`, `LeavesAreBounded`, `AssetsCloseOnce`, `OneSubtreeAtATime`,
`JobFinishesClean`, `ParentIsOpen`, and `WalkerNeverStalls` when
`MaxConn >= BatchSize`, which is what finding 3 is about. All follow from
one inductive invariant (`PipelineInvariant`): `Slots` counts the slots and says how
full the batch is at each place of the walker; `Ledger` ties a close to the stage of
an asset; `Walk` has the tree: the stack is a path of connected assets (`Path`),
what the walker has not come to is not connected, waiting or closed (`Fresh`,
`BranchFresh`, `RootsFresh`), the assets on the stack are open (`StackUntouched`),
and whatever is open is in somebody's hands (`OpenAtHand`), which makes a clean
return a complete one. `Walk` is dropped when the job fails: `scanSubtree` returns
from any depth.

### Collector and the scan of an asset

`BufferedCollectorProofs` proves `CollectorKeepsEverything`
(`CollectorAssumption => (Spec => []CollectorComplete)`), for any number of sinks,
ticks and drains. `CollectorInv` follows a value: a result is in the map, in the
batch being sent, or stored (`DataFlow`); a score is in the map, in the newest drain
that has its id, or stored (`ScoreFlow`); a risk is counted once the score that shows
it was drained (`RiskFlow`); and the goroutine goes round for the last time only
after the executor stopped sinking (`Control`).

`AssetScanProofs` proves `AssetIsDelivered`
(`AssetAssumption => (AssetSpec => []AssetDelivered)`). The composition implements
the specifications of its parts: each step of a scan is one of the collector or
leaves it alone (`AssetCollects`), and the same for the upload (`AssetUploads`), so
`CollectorKeepsEverything` and `UploadKeepsPromises` hold of it. `AssetInv` adds what
`RunAssetJob` has done at each stage, that the rows are those of the lake
(`Database`), that a row without a checksum was counted (`Checksums`), and that
nothing is uploaded before the file is sealed (`Sealed`).

### Policy lake

`PolicyLakeProofs` proves, for any policies, queries, frameworks and bundles, any
number of policies and frameworks in an assignment, and any depth and sharing of
dependencies, from `LakeAssumption` and the hypotheses `UploadsWhole` and
`MaxUnassign <= 1` (without which the code does not have the properties, as the
runs of *Deviations* show):

* `BundlesFresh`: `Spec => []BundleFresh`. Every stored policy can be asked for, and
  the answer is what is stored.
* `LakeStaysConsistent`: `Spec => []LakeConsistent`, also between the steps of an
  upload.

Neither property is inductive: both speak of what is reachable along links, and
nothing in them says what a checksum in the lake is worth. `LakeInvariant` is
about that. Its parts: the links of both directions belong together (`LinksRight`);
a graph checksum is the one of everything below, unless the policy is marked as
invalidated (`GraphsRight`); a cached bundle, stale or not, is the one of the
checksum it is kept with (`ContentsRight`), so comparing checksums is as good as
comparing contents; filters are right (`FiltersRight`); a policy is as one of the
uploads had it (`Origins`), which ties the bundles of different uploads together
through `UploadsWhole`; and between calls the local checksums are those of the queries as
they are now, during an upload those of the policies it has come to (`LocalsRight`).

The argument for a step: what a change can make wrong is in the checksums of what is
above it, and `invalidateAncestors` marks exactly those (`Invalidated`), because a
policy is below another exactly when that one is above it (`BelowAbove`, from
`ReachBack`: a walk along links turned round). What is not marked is right, so a walk
that stops at what is not marked and takes its checksum, and the whole walk, give the
same set (`ReachParts`, `ValidGraph`). The case that needs care is
`checkAndInvalidatePolicyBundle`, which skips the invalidation when the cached bundle
already has the checksum of its policy: a new version always has another one, because
that bundle names the version that was stored before (`SumsRight`, `PolicySet`). The walks are least closed sets, so the facts about
them need no induction over paths: two lie in each other because each is closed.

### Statistics, cache, risk scores, daemon and list

`ServicesProofs` has one theorem about each of these, which share no state:

* `UsageIsMeasured` (`TrackerAssumption => (Spec => []UsageMeasured)`), for any
  number of assets that record at the same time. The invariant says that the
  counters lie between the baseline and the newest reading, whatever the order in
  which samples are applied, and that what was written stays right.
* `CacheKeepsItsLimit`: from `CacheAssumption`, `TypeOK`, `TotalSizeExact`,
  `NeverExpired` and `FailsOnlyWhenTooLarge`, for any callers, keys, sizes and limit.
  `CacheInv` adds that the cache is finite, what a call looks like at each point, and
  `MadeRoom`: who is about to store has room or an empty cache before it, and the lock
  keeps it so. The sum of the sizes is a fold, and what a fold gives for every set is
  an induction. It is done here on the smallest set for which a claim would be wrong
  (`SmallestSet`, from the library's theorem that the strict subsets of a finite set
  are well founded): the function behind the fold exists (`SumsEnd`), any key can be
  added first (`SumWithout`), and the sum of a set is that of its parts (`SumParts`),
  which is what eviction and replacement rest on.
* `RiskScoresStayScores`: from `RiskAssumption`, `RiskScoreInRange` and
  `OnlyToxicLowers`. `OneFactor` has the argument: scaling the distance from 100 never
  lowers a score, so only a toxic risk factor that was detected can, and that one is
  then named with the score.
* `DaemonEndsInOrder`: `Spec => []OrderlyEnd`. `DaemonInv` says where the worker can be
  after a scan that the timer won against the shutdown (not at its `select` again), and
  that what `Serve` waited for has stopped.
* `ScansAreCounted`: `Spec => []EveryScanCounted /\ OutcomeStays`, and that an asset has
  one task. `ListInv` relates the scan of an asset, the message it is sending and the
  state of its task (`Announced`): an outcome is only sent when a task is there to take it.

### Upload

`ScanUploadProofs` proves, for every number of attempts and both clients, from
`UploadAssumption` only: `UploadKeepsPromises` (`UploadSafe`: the types,
`CompletedHasObject`, `SuccessIsComplete` and `OutcomeReported`) and the action
property `UploadPermanentFailsFast`. None of the invariants is inductive alone.
`UploadInv` adds `Handshake` (which session is in use at each point: at most one
was opened per attempt, the one that will be reported has its object) and
`Reported` (no report before the end, and which one at the end; a failure has been
recorded as soon as a second attempt is under way, which is why `OutcomeReported`
can tell a clean upload from a recovered one). The argument in one sentence:
`stored` only grows, the client moves on to the completion report only from a PUT
it saw succeed, and the session it reports is the one of that PUT because the
session is assigned before the PUT (scan) or after it (findings) but never in
between.

### Disk queue

`DiskQueueProofs` proves, for every set of jobs and names, every `MaxSize` and any
number of restarts, from `ConstantsAssumption` only:

* `QueueKeepsJobs`: `Spec => []OnePlace`. It is not inductive: `PlaceInv` adds
  that the goroutines hold a job exactly at the places where they need one and
  none while the process is down (`HandsFull`), and, instead of counting places,
  that the places of a job exclude each other pairwise (`Apart`) and that there is
  one exactly for the jobs whose `Schedule` call returned (`Present`).
* `CrashLosesLittle`: `Spec => []LossBound`. `LossInv` adds where jobs are that
  were popped and that `lost` is finite; the argument is that a crash adds to
  `lost` what the two goroutines hold, the popper's job being popped and the
  pusher's not, and to the deaths one.
* `QueueIsFifo`: `MinAdvance >= 1` implies `Spec => ImplementsJobQueue`, the
  refinement. `FifoInv` adds that the files sorted by name are in the order in
  which they were written, that no name is beyond the clock, and that the name
  chosen for the file being written is beyond all others: with a clock that
  advances, `nextAvailableFilename` never has to count up. `EnqueueRename` is then
  an append and `Dequeue` takes the head; everything else is a stutter.

### Only model-checked

* Liveness (`Termination`, `Returns`, `StopTerminates`, `EveryJobSettles`,
  `CallsReturn`): fairness and `ENABLED` are out of the prover's reach.
* `ScoredWhereDeclared` and `ResolvedRuns`: `ResolvedPolicyBuilder` has recursive
  operators over groups, policies and controls.
* `AppliedInTableOrder`, a part of `RisksApplied`: the score of the whole table is a
  fold over a sorted sequence.
* `FreeSpaceMoves`, a part of `CacheInOrder`: it is about `ENABLED`.
* `RunningIsVisible`, a part of `ListTruthful`: the rows are picked with `SelectSeq`,
  which is recursive.
* `KeepsScanning`, a part of `DaemonServes`: liveness.

## 5. Not modelled

* the query engine, the discovery explorer, the platform and `health.ReportPanic`
  are external;
* properties that are resolved before the scan (`resolvedProperties`): such a
  query is one without that property;
* the decayed calculator (exponential function), float64 rounding of the banded
  one and uint32 wrap-around of the counters;
* logging and formatting everywhere;
* generated code (`*.pb.go`, `*_vtproto.pb.go`, `bundle.yac.go`), half of the
  repository's lines: encodings without decisions of this program;
* the compilation and migration of bundles (`policy/bundle.go`): what it does is
  decided by the MQL compiler, a library; its result is an input of `PolicyLake`
  and `ResolvedPolicyBuilder`;
* properties (`SetProps`, `property overrides`) and framework maps of the lake;
* the SQL of the scan database, its read side for other programs (`ValidateFile`,
  the streams) and `ComputeChecksums`, which fills in checksums of other databases
  for the load test;
* the incremental executor (`policy/executor/executor.go`), which only tests use;
* the vulnerability report and the garbage collection after a scan: requests whose
  result nothing here depends on;
* the report upload command, whose upload is the one of `ScanUpload`;
* reporters, commands, the language server,
  SBOM and AIBOM generation, Terraform generation, onboarding, bundle linting:
  wiring, templates and I/O without shared state;
* policies and query packs: data.

## 6. Plan

1. *Done:* the executor with its graph and scores, the scan pipeline, the disk
   queue and its refinement, the collector, the risk factors, the resolver, the
   policy lake, the cache, the upload, the scan of an asset, the progress list, the
   statistics, the daemon; the theorems about all of them but the resolver.
2. Properties in the lake and in the resolved policy.
