# TLA+ models of csharp-llm-benchmark

`benchmark/` measures how well language models write C#: it lets an agent (OpenCode
or Pi) produce a solution for every task in a Docker container, builds and tests the
solution in another container, scores it and writes a run directory that a later
process can resume. What is difficult in it is not the scoring but the coordination:
three thread pools around one main loop, containers that must not outlive their
owners, a cancellation that races with everything, and files that are the only memory
of a process that may be killed between any two writes. Two scripts
rewrite the summaries of old runs in place, possibly at the same time. The modules here
model that coordination, TLC checks it on small instances and TLAPS proves the most
important results for every size.

Source lines below refer to files of `src/benchmark/`, or of `src/scripts/` where said.

## Inventory of the system

| Component | State | Operations | Hard behaviour | Properties that make it correct |
| --- | --- | --- | --- | --- |
| Prepare-ahead queue (`cli.py` 1345-1514, 1548-1574) | the dicts of futures, the ready deque, the scores; homes and containers of sessions | queue prepares, start sessions, wait, process a batch, abort | main loop against three pools; failures in the middle of a batch; cleanup beside live sessions | no pair lost or run twice, limits, no idle slot with work waiting, only genuine verdicts, clean end |
| Plain queue (`cli.py` 1247-1342, 1532-1545) | dicts of futures, the scores | the same without prepares | as above, with cancellation of pending evaluations | the same ledger |
| Evaluation runner (`runner.py`) | registry of active containers, cancel flag, containers of the daemon | evaluate, cancel | cancel between check, registration and creation; failing and timing-out docker commands | cancel reaches every container, verdicts come from live containers, nothing left |
| Run directory (`cli.py` 495-720, 1000-1240, 1772-1900) | result.json files, discovery.json, selected temperature, calibration.json, summary.json | calibrate, discover, select, copy, full phase, summary, resume | kill between two writes; resumes with other arguments | the selection is final and justified, the summary is backed, one calibration |
| Campaign (`campaign.py`, `cli.py` 795-987) | campaign.json, shared calibration, pair directories | create, resume, run or reuse a pair, complete, fail | kill between summary and manifest; failing pairs; resumes | the manifest never promises what is not there, completed pairs are final |
| Campaign report (`campaign_report.py`) | none | collect, latest, average | partial beside complete campaigns | latest complete campaign wins |
| Metadata scripts (`scripts/backfill_model_size.py`, `scripts/backfill_kv_cache_quantization.py`, the matching of `lmstudio_meta.py`) | summary.json of every run, the answers of model servers, a cache of answers | walk over the runs, skip, look up, truncate, write | killed while a file is truncated; both scripts at once; a benchmark still writing; servers that are down or change | only kills and overlap damage a file, sizes come from the right server, reports are true, repeated calls complete |
| Agent sessions (`generation.py`) | preflight cache, rate limiter, prepared session | prepare, run, retry, clean up | retries, timeouts, kept containers, lock around the cache | one session per prepare, containers removed, requests spaced |
| Calibration (`calibration.py`) | saved measurement | probe, choose workers, compute timeout | ties, consistency of a loaded file | smaller worker count on ties |
| Scoring (`scorer.py`), task selection (`tasks.py`) | none | score, select discovery tasks | ties, empty groups | monotone in passed tests, bounded |
| Workspace (`workspace.py`), solutions (`solution.py`), event log (`agent_events.py`) | files | capture, restore, extract, compact | protected files | public files cannot be changed by a delivery |
| Configuration, YAML, file safety, metadata of a running benchmark, reports, HTML, shell wrappers | none | parse, query, format | none beyond input checks | not modelled |

How they interact: `_run` (campaign) calls `_execute_benchmark` (run directory) for
each pair; this calls one of the two queues for each phase; the queue calls
`prepare`/`run_prepared`/`generate` of an agent session and `DockerRunner.evaluate` on
pool threads, `DockerRunner.cancel` on an error, and writes `result.json` and the score
when an evaluation is collected. Everything between processes goes through files,
everything between threads through futures, the runner's lock and its cancel flag. The
metadata scripts share nothing with a benchmark but the run directories.

`PROJECT.json` lists every component with its status, every hazard with its line and
the properties aimed at it, and maps every definition to source lines.

## Modules

| Module | Models | Checked by |
| --- | --- | --- |
| `TaskLedger` | what a queue promises its caller: each pair recorded once, return means all, nothing after an abort | as a PROPERTY of both queues |
| `AgenticPipeline` | the prepare-ahead queue | two configurations, `AgenticPipeline_proofs` |
| `GenerationQueue` | the plain queue | `GenerationQueue.cfg`, `GenerationQueue_proofs` |
| `EvaluationRunner` | `DockerRunner` | `EvaluationRunner.cfg`, `EvaluationRunner_proofs` |
| `AgentSession` | agent sessions of OpenCode and Pi, preflight cache, rate limiter | two configurations, `AgentSession_proofs` |
| `BenchmarkRun` | one run directory over several attempts | three configurations, `BenchmarkRun_proofs` |
| `Campaign` | the manifest and the loop over pairs | `Campaign.cfg`, `Campaign_proofs` |
| `Backfill` | the two metadata scripts over the run directories | two configurations, `Backfill_proofs` |
| `Collections` | lemmas about finite sets (a minimal subset, a best element, sums over a set) and about the elements of a FIFO queue, for the proofs of the queues and of `BenchmarkRun` | |
| `MC...` | values of the constants | |

Definitions named `X_Faulty...` stand beside `X` and are broken variants of it, each
the way a plausible mistake in that code would break it. For every property there is
a variant that violates it, listed under "mutants".

### AgenticPipeline

A pair is the position of a task/temperature in `queued_generations`. The main thread
is the program counter `pc`, whose values name the places in the loop where another
thread can be observed; the three dicts are the sets `activePrepares`,
`activeGenerations` and `pending`, the deque is `readyQueue`. A pool thread is visible
as the state of the future it runs. One action is one uninterruptible piece of the
main thread: starting one session, queueing one prepare, processing one future with
everything its handler does. A prepare creates a home and, with `Precreate`, a
container; the session that uses them asks for the removal of both when it ends, however
it ends. Either may stay (`Discard`): a timed-out container is kept on request together with
its home, nobody looks whether `docker rm` succeeded, and homes are deleted with
`ignore_errors`. `left` names the pairs of which something stayed that way. `CleanFinish` says
that these are the only leftovers of a successful call: the queue itself forgets no container
or home. An exception of a future leads through the three parts of
`_cancel_batched_agentic_work` to the `shutdown(wait=True)` of the three executors.
`Interrupt` is Ctrl-C in the main thread, which skips that cleanup.

An evaluation that ends after `cancel()` may carry a verdict that says nothing about
the candidate: such a result is called *tainted* here. `EvaluationRunner` shows where it comes
from (`VerdictFromContainer`), `RecordedGenuine` that the queue never stores one.

### GenerationQueue

The same structure without prepares. Its cancellation differs: it takes pending
evaluations out of the pool as well, hence `NothingStartsAfterCancel`. The prepare-ahead
queue does not have this property: see `CancelFutures` of `AgenticPipeline`, which leaves
evaluations alone. `TypeOK` and `NoPairLostOrDuplicated` are proved;
the run checks the stronger `ImplementsLedger`.

### EvaluationRunner

Each evaluation is a thread at a *stage* of `evaluate`: validate and copy the
workspace, register the name, `docker create`, check the flag, copy in, build, test
(or the two groups of an evolution task), copy the results out, remove, unregister.
Every docker command may succeed, fail, find its container gone because `cancel()`
removed it or, where it has a timeout, time out; anything else may raise as well
(`HostFails`, the second disjunct of `PrepareWorkspace`). One exception finds no handler:
a failed `docker create` or `docker start` is written to `build.log` before the `try` block
(`runner.py` 142), and if that write fails the evaluation is `abandoned`, still registered and
perhaps with its container. `Untimed` are the steps whose commands have no timeout. The registry and the flag are behind one lock and change
together; `docker` itself is not, so its commands interleave freely with `cancel()`.
A failing `docker rm` leaves its container in `unremoved`.

### AgentSession

A session is at a *stage* of `prepare` or `run_prepared`; the pieces between two stages
are what the code does between two docker commands, lock acquisitions or sleeps.
`<<s, k>>` is the container of attempt `k`. `running` are the containers whose agent
works, `lost` those that a failed `docker rm` or a killed docker client left behind: the
code does not look at them again, and the properties say so explicitly. What an attempt
leaves (`found`) is abstracted to what decides about retries: nothing at all, a file that
is not UTF-8, or any evidence about the model. The clock advances only up to
`_next_request_at`, beyond which the limiter cannot tell times apart.

`undeleted` are homes that `rmtree` could not delete. A session whose prepare fails leaves its
home behind, and nobody removes it: `NothingLeft` speaks of the homes of the others.

`AgenticPipeline` uses a session through four operations: `Prepare`, `RunPrepared`,
`CleanupPrepared` and the end of `run_prepared`. Its `Discard` lets a session release its
home and container or keep them; `NothingLeft` shows here when each is so. Its resource limits
hold for the sessions that the queue still owns, not for what is `left`.

What is seen while reading the code beside this model:

* `PiGenerator.prepare` passes the arguments of `docker create` without the command, so a
  precreated Pi session never gets prepared; its later stages are in the model but
  unreachable (`Create`).
* The configuration example speaks of retries when a session "exits cleanly"
  (`config.example.yaml` 94); the code also retries after a non-zero exit or when docker
  did not start (`Retriable`).
* The limiter belongs to a generator, and the queues make one generator for each
  temperature: `Spaced` is about the sessions of one generator. It spaces the slots that the
  limiter hands out. A thread that wakes late from its sleep can start its session together with
  the next one; the property only says that none starts before its slot.

### BenchmarkRun

The files of one run directory are variables that survive a kill; everything else is
lost. The suite of a run is the variable `evolution`, chosen once. A queue appears as the ledger allows it: queued pairs are recorded in any order
and the queue may give up at any time. `writing` holds results whose file is open: a
kill leaves them partial. Discovery and full phase share their actions and differ in
tasks, temperatures and directory. `Resume` takes a configuration and a task to resume
from; which files are trusted is decided by `Found`, `Loadable` and the layout rules
of `_temperature_task_root`. The winner is determined twice, for the selection by `Best`
(`cli.py`) and for `discovery.json` by `Reported` (`report.py`), each translated from its own
code; `SelectionJustified` compares the two.

### Campaign

The manifest with its statuses, the calibration of the campaign and of each pair and
the summary of each pair survive; `data`, `measured`, `position` and `results` are
memory. Manifest and calibration are replaced atomically; the summary is partial for
a while. `Create` and `Resume` choose a configuration and a selection of pairs, `order`;
a resume with another protocol or another selection than the manifest's `scope` is
refused. A configuration outside `Calibrated` executes its pairs without a shared
measurement. The loop for several pairs and the code for one pair are both there, with
their different handlers (`except Exception` against `except BaseException`, and
`completed()` inside or outside the `try`). Somebody may remove a summary between
attempts (`LoseSummary`) or damage results that it stands for (`DamageResults`): a completed
pair is only reused when both can be loaded (`ReuseCompleted`, `cli.py` 974-987). Otherwise,
with one pair the code raises at every resume and never executes the pair again, while with
several pairs it marks the pair as failed and the next resume executes it. That a pair
completes can fail as well (`CompletionFails`): `update_pair` sets the status in memory first
and then finds the summary not acceptable, so that memory says "completed" until the handler
corrects it, which `OutcomesRecorded` checks.

### Backfill

Of a `summary.json` the model keeps whether it can be parsed, which of the two keys it has
and the size. A script is named after the key it adds. It is a program counter `pc`, a
place `at` in the sorted directories and the parsed summary in its hand, `held`:

* `Skip`, `RaiseUnreadable` and `Read` are the three outcomes of reading a summary. `Read`
  of the kv script decides its value at once, that of the size script goes on to the server.
* `Fetch` asks a server root that is not in `cache` yet, whatever comes back; `Match` finds
  the run's model in the kept answer, counts the run as migrated and, outside a dry run,
  goes on to write.
* `Open` truncates the file and `Fill` writes what is in the hand. Between them, and between
  `Read` and `Open`, everything else can happen: a kill, the other script, a benchmark.

If both scripts write one file at once, each writes from its start: the text with the size
is the longer one, so the kv script's text on top of it leaves a tail behind and the file
unreadable, while the size script's text covers the other completely. `Live` runs have no
summary at first; their benchmark writes one with all keys. `ChangeLibrary` loads, unloads or
regroups models; a server that does not answer is a library without sizes. `Root` is the server
a run is looked up at: that of `--base-url` if given, else the run's own.

`hurt` and `offered` are history: the runs whose writer was killed between `Open` and `Fill`,
and every size a server has offered without doubt about the variant.

## Runs

| Run | Question | Instance |
| --- | --- | --- |
| `pipeline` | the prepare-ahead queue under all interleavings, failures and Ctrl-C: safety, refinement of the ledger, termination | 3 pairs, 2 LLM slots, 1 evaluation slot, precreated containers, 2 pairs that leave something behind |
| `pipeline_cleanup_claim` | violation of the comment at `cli.py` 1562 | 2 pairs |
| `generation_queue` | safety, refinement and termination of the plain queue | 4 pairs, 2 and 1 slots |
| `evaluation_runner` | two evaluations, one of each suite, against one cancel | every command may fail |
| `agent_session` | two overlapping sessions of either generator, every command failing or timing out | 1 retry, an interval of 2 ticks, 8 configurations |
| `session_throttle_claim` | violation of `README.md` 592 | 2 sessions, 1 retry |
| `benchmark_run` | a run of either suite killed between any two writes and resumed with its own YAML | 3 scored tasks, 2 greenfield discovery tasks, 1 of evolution, 2 temperatures, 2 speeds, 3 process starts |
| `benchmark_run_drift` | the same with an edited YAML at every resume | 2 tasks, 2 temperatures, 4 configurations, 3 starts |
| `truncated_result_claim` | violation of `README.md` 467-469 | 2 tasks, 2 starts |
| `campaign` | the manifest under kills, failures and resumes with other configurations and selections | both pairs or one of them, 2 configurations, 4 starts |
| `backfill` | both scripts in turn or at once, with and without dry run and `--base-url`, against kills, a running benchmark and changing servers: damage, genuine sizes, true reports, completion | 4 runs, 2 servers, 2 libraries, 1 fault |
| `backfill_cloud_claim` | violation of `scripts/backfill_model_size.py` 9 | the same runs, `--base-url` |

The names and texts of all runs are in `PROJECT.json`. Why the bounds are enough:

* Three pairs (four in the plain queue) and two slots fill the look-ahead, leave a pair
  unqueued, let two futures finish in one batch and let evaluations queue up behind the single
  evaluation slot. Two pairs may leave a container or home behind (`MaxLeft`), so that leftovers
  and live containers of other pairs meet. The limit of containers, twice the LLM slots, is not
  within reach of three pairs: that part of `WithinLimits` rests on its proof. The proofs
  remove these bounds for the safety properties.
* Two evaluations are enough for the registry to hold more than one container when
  `cancel()` takes its snapshot, and one of each suite covers both test paths.
* Two sessions meet at the preflight lock and at the limiter; one retry has an attempt
  before it and none after it; an interval of two ticks lets a session arrive before, at
  and after the middle of another one's interval.
* Two discovery tasks and two temperatures allow a tie and a proper winner; with three
  process starts an attempt can be killed, its successor killed again at another
  place, and a third one can read what both have left.
* Two speeds make a second measurement visible; two protocols make a changed
  configuration visible; two pairs make one pair's failure visible to the other, and a
  selection of one of them takes the code's other path and makes a wider manifest visible.
* Four run directories are a run of each of two servers, so that a cached answer can be
  taken for another server's, one of a remote server and, between these in the order of the
  walk, one whose benchmark is still writing, so that its summary ends a scan early. The two libraries differ in the size of a model, in a grouped entry and in a
  model that is not found. One fault suffices for each property to break in a mutant;
  the run also passes with two.

## Fairness

Only what the program and its pools guarantee: the main thread and every pool thread
that has work take their next step (weak fairness), a queued evaluation is picked up by a free thread,
and a command started by `subprocess.run` with a timeout ends. That covers every docker command of
a prepare and of a session (`generation.py`), but not all of an evaluation: `docker create`,
`docker start` and the copy of the workspace into the container run without a timeout
(`runner.py` 472, 475, 486, 507), and nothing makes them return. So `EvaluationRunner` is fair for
its `Timed` steps only, and `EvaluationsEnd` says that an evaluation ends or hangs in one of these
commands; the queues assume nothing about the end of an evaluation, and their `Terminates` says
that the call ends or some evaluation runs for ever. (`shutdown(wait=True)` waits for it, even after
an error.) `TaskLedger` promises nothing about time. Time passes (`Tick`), and a session
waiting for the preflight lock gets it. The queue's calls of a session (`Queue`) are not fair. `Interrupt`, `Kill`,
`Resume`, `cancel` and failures are never fair. No property assumes that a user
resumes, or that a session succeeds. A campaign has no fairness: its properties are safety.

`Converges` of `Backfill` asks what repeated calls of the scripts achieve, so it assumes a user
who keeps calling them: `SF(Launch(p))`, strong because in turn the other script disables it again
and again. A call, once started, and a benchmark that writes go on (`WF`).

Deadlock checking is off in the runs whose system really stops: a run directory or
campaign that nobody resumes, and evaluations that are over.

## Proofs

`AgenticPipeline_proofs` proves, for every number of pairs and workers, from
`PipelineAssumption` alone (positive worker counts):

* `TypeCorrect`, then the invariant `Books`: a dequeued pair is in exactly one of the
  collections (`NoPairLostOrDuplicated`), the batch and the evaluation FIFO only hold
  pairs that the dicts still hold, and a tainted verdict implies a set cancel flag,
  which implies that the main loop has ended. `NoPairLostOrDuplicated` alone is not
  inductive: processing a future that is no longer in its dict would lose or
  duplicate a pair, so the agreement of the batch with the dicts is needed, and
  `RecordedGenuine` needs the link from verdict to flag to `pc`.
* `ResourcesOwned`: a container or home that nobody has tried to remove belongs to a pair that
  is still prepared, ready or in session; `SlotsBounded` and `LookaheadFull` count them. From these,
  `LimitsHold` (at most twice `generation_workers` containers, besides those left behind) and
  `FinishIsClean`: empty books mean that no pair is left because the look-ahead is full as long as
  unprepared pairs remain, and then every container and home has been through `Discard`.
* `WorkIsConserved` by `LookaheadFull` and `ReadyServed`: between starting sessions and the end of the
  wait only a session's end frees a slot, and only the main loop learns of it.
* `CleanUpSparesSessions`, an action property: `Books` keeps ready pairs and sessions apart.
* `LedgerImplemented`: every step is a step of `TaskLedger` or leaves it unchanged.

`Campaign_proofs` proves, for every list of pairs, every set of protocols and every
number of attempts, from `CampaignAssumption`:

* `ManifestIsBacked` by the invariant `Agreement`: what the process has in memory is
  what the manifest says, and a pair that is executed is marked as running. The second
  part is what makes it inductive: the summary of a running pair may be truncated
  because the manifest does not promise it.
* `CalibrationIsShared` by `Measured`: as long as there is no saved calibration,
  nothing has been calibrated, executed or summarised; from then on every process
  works with the saved one.
* `ProtocolKept` and `CompletedStays`, action properties from `Agreement`. A completed pair is
  demoted only in `ReuseCompleted`, when its summary or one of its results is unusable.
* `OutcomesAreRecorded` and `ZeroIsComplete` by `Passed`: every pair the loop has passed
  is scored, with a completed status and a valid summary, or has failed and is marked so.

`Backfill_proofs` proves, for any number of run directories, any servers, libraries and
ways to call the scripts and any number of kills, from `BackfillAssumption`:

* `TypeCorrect` with `Places`: whoever holds a summary is at a run that was over before the
  scripts started. A live run's summary is either absent, being written, or has every key,
  so no script ever takes it into its hand. All later invariants need this.
* `OnlyKillsDamageFiles` by `Damage`: without overlap one script is at most running, and the
  file at `fill` is its own truncated one. That a file is damaged only while it is written,
  or after a kill, is not inductive without the exclusion.
* `SizesAreGenuine` by `Genuine`: a size goes from an answer into the cache *of that server*,
  into the hand of a script *for that run*, and into the file; each of these places holds
  only what was offered there. This holds with overlapping scripts, too.
* `ReportsAreTrue` by `Report`: the runs counted as migrated lie behind the loop with their
  size in the file, except the one in the hand, and nobody else writes the files of old
  runs meanwhile (this uses `Damage`).

`GenerationQueue_proofs` proves, for every number of pairs and workers, from `QueueAssumption`:

* `TypeCorrect` and `NothingIsLost` by `Books`: as in the pipeline, the batch holds only
  futures that ended and that the dicts still hold, and the evaluation FIFO only submitted
  ones, each once. A finished evaluation has a verdict, so recording a score is never a stutter.
* `SlotsStayBusy` by `SlotsFull`: not only a waiting main thread but also one inside a batch has
  full slots, because every collected generation leads through `refill`.
* `CancelStopsTheQueues` by `NothingSubmitted`: every submitted future is in one of the dicts
  (part of `Books`), so the cancellation reaches it before the flag is set.
* `LedgerImplemented`: the loop ends with empty dicts, and with `SlotsFull` that means that
  nothing is queued any more.

`EvaluationRunner_proofs` proves, for any number of evaluations and every suite of each, from
`RunnerAssumption`:

* `TypeCorrect` with the counts of the test groups: none is run twice or left out.
* `AllRegistered`, `CancelEffective` and `NothingIsLeft` by `Book`: a name is in the registry
  exactly between two stages, a container exists only in between or after a failed
  `docker rm`, and once the flag is set a container in which an evaluation works is still on
  the list of those that `cancel()` is about to remove, unless `docker rm` failed on it. The last
  part is the heart of it: it says why registering *before* creating and checking *after* it suffices.
* `VerdictsFromContainers`, an action property from the same invariant.

`AgentSession_proofs` proves, for any number of sessions and retries, from `SessionAssumption`:

* `OnceInstalled` by `Locked`: the holder of the lock is the only one between the test of the cache
  and its update.
* `StartsSpaced` by `Reserved`: every slot taken so far lies at least one interval before
  `_next_request_at`, so the next one lies an interval after all of them, in whatever order the
  threads wake up from sleeps that they spend outside of the lock.
* `TypeCorrect`, `AgentsAlone`, `HomesOutlive` and `NothingIsLeft` by `Custody`: at each stage it
  says which containers of a session exist (`OwnedBy`), which have a working agent (`AgentOf`),
  which may be lost (`LostBy`) and whether there is a home (`HomeOf`), apart from homes that
  could not be deleted.

`BenchmarkRun_proofs` proves, for any tasks, temperatures, scores and number of attempts, and
for settings that change between attempts, from `RunAssumption`. Where a theorem needs that the
settings of a run have something in common, it is a named hypothesis about `Configs`. The
instances of the runs that check the property satisfy it, and without it TLC finds a
counterexample to each of them.

* `SelectionNeverChanges` by `SelectionOpen`, for any settings: a discovery only ever runs while
  nothing is selected. That holds because a first attempt finds nothing and every later one reads
  the file.
* `OneCalibration` by `Measured`: what an attempt works with is what is on disk. `SameCalibration`:
  an attempt that switches calibration on or off would add results of another kind.
* `TypeCorrect` by `Shape`, for any settings: what an attempt has in memory at each place, in
  particular that a pair of the phase is either still queued or has its points. From this,
  `BestWins` says that `Winner` is one of the candidates and beats the others, and
  `ReportedIsWinner` that the rule of `report.py` names the same one.
* `SelectionPrecedes` by `SelectedFirst`: the copy and the full phase only begin when something is
  selected. `EveryoneDiscovers`: an attempt without a discovery may run the full phase at once.
* `ResultsStay` by `QueueFresh`: whatever is queued or copied has no file yet, because the scan of
  a resume finds every file that is there and a first attempt has none; two results of a phase never
  share a path (`PathsDiffer`), and the copy meets an empty full phase (by `SelectedFirst`).
  `UniformDiscovery`, all attempts discover or none does: otherwise the copy could
  replace a result of an earlier attempt that ran the full phase without a discovery.
* `DoneIsBacked` by `Kept`: a pair that is no longer queued is saved with the points that memory
  has (`PhaseWritten`), and so are the points that the full phase takes over from the discovery,
  first while they are copied (`CopyWritten`), then until the scan (`ReusedWritten`). `SameLayout`,
  all discoveries use the layout for several temperatures or none does: the copy
  prefers one of the two layouts, whichever attempt wrote it (`cli.py` 1022; `NothingStale`).
* `SummaryStaysBacked` by `SummaryKept`: the summary of an attempt that ended is backed, and
  no later attempt replaces what backs it (`QueueFresh`). Both hypotheses are needed, because it is
  about the summary that is there, not only about the one just written.
* `SelectionIsJustified` by `Justified`: at the moment of the write memory and files agree
  (`ProbesSaved`), so the winner in memory is the winner of the files; after it no step touches
  discovery results or discovery.json (`ProbesKept`). `NobodyInfers`: an attempt with one
  candidate would infer a winner from what another one has probed, which is why the drift run
  does not check the property.

Sums and maxima over sets of any size need an induction, and the induction theorems of the
library take an operator as a parameter, which the provers cannot instantiate. `Collections`
takes another way: a non-empty collection of subsets of a finite set has a minimal element
(`MinimalSubset`, from the library's fact that strict inclusion is well founded), so a claim
about all subsets is proved by looking at a smallest counterexample. This gives the existence of a
best element (`BestExists`) and, for the recursion behind the fold of the community modules, that it
is defined and that a sum of naturals is a natural (`SumRecursion`, `SumNat`).

Every inductive invariant was checked with TLC on the instance of its module's run, or a smaller
one, before it was proved; those of `BenchmarkRun` on seven more sets of settings, with and without
the hypotheses.

Only model-checked: all liveness (termination of the queues, of evaluations, sessions and
attempts; `Converges`), because the proof system has no support
for `ENABLED` and fairness. Every safety property that a passing run checks is also a theorem.

## Disagreements found

Four are violation runs with the quoted text under "findings":

* an abort of the prepare-ahead queue passes over the active prepares that have finished, and
  leaves their containers and homes, although the comment above that loop says they are
  cleaned up;
* a kill while `result.json` is written leaves a file that makes every later resume of
  the run raise, although the README says that resume continues from saved results;
* with `--base-url` the size script gives a run of a cloud provider the size of a local
  model of the same name, although its docstring says that such runs are never touched;
* a retry starts an OpenCode session that the rate limiter does not see, although the
  README says that the setting throttles session starts.

A fifth follows from the second half of the same cleanup: the docstring at `cli.py` 1557
speaks of cancelling every stage, but an evaluation that was submitted before the abort
still starts while the executors shut down. It is harmless for the scores
(`RecordedGenuine`): the runner creates its container, sees the cancel flag and removes it
again (`runner.py` 139-172).

## Not modelled

Text and file contents (solutions, event logs, reports, HTML, YAML), the HTTP queries
themselves, the matching of a model by identifier or display name, and the contents of
containers. A summary whose `llm` is `null` is left out of `Backfill`: the kv script raises on it,
and the benchmark writes none. The shell
wrappers only install dependencies and call the command line. I/O errors of the main thread itself
(a full disk while a result is written) appear only as the interruption of a queue or the failure of a pair.
Two processes that resume the same campaign at the same time are not modelled: the
code has no lock against it and the README does not allow it.
One kind of edit is left out of the drift run, an explicit list of candidates
(`discovery.temperatures`) that shrinks to one between attempts; `llm.temperatures` does shrink
there. The README forbids such edits, and this one lets a stale discovery result be preferred
(`cli.py` 1022). It is what
`SameLayout` and `NobodyInfers` exclude in the theorems.

## Plan

Done: the two queues with the ledger, the runner, the agent sessions, the run directory,
the campaign, the metadata scripts, and the proofs listed above.
The three that are left are pure algorithms over finished data, without state or concurrency:

1. `Selection`: the tie-breaking of `campaign.py`, score formulas,
   discovery task selection, calibration search as operators, each checked against a
   reference definition over all small inputs.
2. `CampaignReport`: `collect_campaigns` and `latest_campaigns` over all small sets of
   campaigns.
3. `Delivery`: capture and restore of an evolution project over sets of paths.
