# Tekton Pipelines in TLA+

Specifications of the part of Tekton Pipelines that decides *what runs when*:
the pipeline graph, the fan-out of a matrix, the scheduling decisions, the PipelineRun and TaskRun
reconcilers, the entrypoints that order the steps inside a pod, and remote
resolution, each with everything that can happen around it. They are checked
with TLC on small instances, and the results that matter most are proved with
TLAPS for every instance. Source paths are relative to `src/upstream/`.

## 1. The system

PipelineRuns, TaskRuns and ResolutionRequests are objects in the Kubernetes API
server. A controller watches its objects and those they own and, whenever
something changes, *reconciles* one: reads its caches, decides, makes API calls,
writes the status. Nothing is held in memory between reconciles. A PipelineRun
creates TaskRuns, a TaskRun creates one pod per attempt, the containers of a pod
order themselves through files, and either kind of run may ask for its definition
by a ResolutionRequest. The inventory:

| Part | Source | State | Operations | What makes it hard | What makes it correct |
|---|---|---|---|---|---|
| Pipeline graph | `pkg/reconciler/pipeline/dag` | nodes and links | `Build`, `GetCandidateTasks` | sets popped and maps walked in random order | cycles are found, only cycles; candidates are exact |
| Matrix fan-out | `pkg/apis/pipeline/v1/matrix_types.go`, `createTaskRuns` | the combinations | `CountCombinations`, `FanOut` | two algorithms for one answer; clauses that overlap | every combination has a run, once |
| Scheduling decisions | `pkg/reconciler/pipelinerun/resources` | the facts of one reconcile, the skip cache | `skip`, `isDone`, `DAGExecutionQueue`, `GetFinalTasks`, `GetPipelineConditionStatus` | recursion through parents; cached answers; nine ways to be skipped | no task before its parents; finally last; the condition tells the truth |
| PipelineRun reconciler | `pkg/reconciler/pipelinerun/{pipelinerun,cancel,timeout}.go` | spec.status, status, childReferences | `ReconcileKind`, cancel, time out, create, write status | stale caches, failing calls, crashes, a user and a clock at work | the run ends; nothing is left running; a final condition stays |
| Work queue, informers, generated reconciler | `pkg/client/injection/reconciler/...`, knative | queue, caches | enqueue, requeue after, status write | lost wake-ups, lagging caches | whoever waits is woken |
| TaskRun reconciler | `pkg/reconciler/taskrun/taskrun.go` | TaskRun status, pod, retries | create pod, stop, fail, retry, stop sidecars | pod deletion and retry count change in separate calls | one pod at a time; retries bounded; ends when told to |
| Pod status | `pkg/pod/status.go` | container states | status of steps | sidecars, init containers, evictions | status agrees with the containers |
| Step ordering | `pkg/entrypoint`, `cmd/entrypoint` | files in a shared volume | wait, run, post | one process per container, cancelled by a file | steps in order; nobody waits for ever |
| Resolution requests | `pkg/reconciler/resolutionrequest`, `pkg/remoteresolution/{resource,resolver/framework}` | ResolutionRequest status | resolve, time out, mark failed | two controllers write one object, two timeouts | one final answer |
| Resolvers | `pkg/resolution/resolver/*` | none | fetch | I/O | - |
| Affinity assistant, volume claims | `affinity_assistant.go`, `pkg/reconciler/volumeclaim` | StatefulSets, PVCs | create, clean up | partial creation | removed when the run is done |
| Substitution, results | `resources/apply.go`, `pkg/substitution`, `pkg/termination` | none | rewrite strings | - | - |
| Webhook | `pkg/apis/pipeline/*` | none | defaults, validation, conversion | - | what it guarantees is assumed here |
| Events, metrics, tracing | `pkg/reconciler/events`, `pkg/*metrics`, `pkg/tracing` | none read back | emit | - | - |
| Trusted resources, SPIRE | `pkg/trustedresources`, `pkg/spire` | none | verify | - | - |

The first nine rows are modelled, the pod status as far as the reconcilers tell
it apart. `PROJECT.json` lists every part, with the reason for those that are
not, and the hazards of the code line by line.

## 2. The modules

```
DagBuild              dag.Build, step by step
DagCandidates         dag.GetCandidateTasks, step by step
PipelineGraph         the two composed: Build, then the walk of what it returned
MatrixFanOut          CountCombinations and FanOut, step by step
  MCMatrixFanOut      matrices for TLC
  MatrixProofs
PipelineRunFacts      what one reconcile concludes (operators, no state)
  PipelineRun         the reconciler and its environment
    MCPipelineRun     pipelines and environments for TLC
    PipelineRunProofs          dependency order, what is final, the lemmas about skipping
      PipelineRunOutcomeProofs   the kinds of step, what the end says, when finally runs
        PipelineRunChildrenProofs  fan-outs, complete success, cancel, skipped tasks, the timeout
        PipelineRunProgressProofs  a PipelineRun never waits for nothing
ChildRun              what a PipelineRun relies on in a TaskRun (abstract)
TaskRun               the reconciler, its pods and its environment; implements ChildRun
  TaskRunProofs       types, attempts, the refinement of ChildRun
    TaskRunPodProofs  what the status says of the pods, and which of them run
PodSteps              what a TaskRun relies on in a pod's steps (abstract)
Steps                 the entrypoints of one pod; implements PodSteps
  MCSteps             the Tasks for TLC
ResolutionRequest     requester, reconciler and resolver of one request
ComponentProofs       the graph, resolution and the steps: what is proved of each
```

The levels meet in the two abstract specifications. `ChildrenAreChildRuns` says
that `PipelineRun` treats each of its TaskRuns as `ChildRun` does, and
`ImplementsChildRun` that a TaskRun, with all its retries, is one. `TaskRun`
moves the steps of a pod as `PodSteps` does (`StepsStart`, `StepsEnd`), and
`ImplementsPodSteps` says that the entrypoints are that.

**DagBuild** follows `Build`: `addPipelineTask` per task, `addLink` per
dependency, and `findCyclesInDependencies`, Kahn's algorithm over three maps
that it consumes with `PopAny`. An action is one iteration of one of its loops;
the popped element is any element. The input is any sequence of names with any
dependencies, so duplicates and names that do not exist are included.

**DagCandidates** is the walk of `GetCandidateTasks` and `findSchedulable` from
the roots through done tasks. The recursion is kept as a set of pending calls,
any of which may be next; this covers every order the maps can give.
**PipelineGraph** calls it, for any set of done tasks, on the graph that
`DagBuild` returned.

**MatrixFanOut** is a matrix from its resolution to the creation of its runs. First
`CountCombinations` (`countGeneratedCombinationsFromParams`, `countedParams`,
`countNewCombinationsFromInclude`, `countedInclude`), which gives the number of
runs; then the skip of a matrix with an empty array; then `FanOut`, which gives
their params (`onlyInclude`, or `fanOutMatrixParams` and `nextParam`,
`overwriteCombinations`, `addNewCombinations`); then `createTaskRuns`, which takes
the number from the first and the params from the second. An action is one iteration
of a loop: one value of an array, one param of a clause, one clause on one
combination. A combination is a map, as in the code; the order in which its params
are listed is left out. In `PipelineRun` a matrix is only a number of runs, which is
what `CountCombinations` gives it.

**PipelineRunFacts** has one operator per method of `ResolvedPipelineTask` and
`PipelineRunFacts`, under the same name, over a record `f` of what the reconcile
sees. `Skips(f)` is `Skip` on the whole graph; `skipCache` says which answers
the memo still holds when validation failures become known, since `GetFinalTasks`
reads those. `GetCandidateTasks` is here the set that `DagCandidates` computes.

**PipelineRun** has one PipelineRun in it. `pr` and `runs` are the API server,
`prCache` and `lister` the informer caches, `queued` and `snooze` the work
queue, `rec` the reconcile in progress. A reconcile goes through these stages,
one API call per step, so that everything else can happen in between:

| Stage (`rec.pc`) | Actions | Code |
|---|---|---|
| `idle` | `ReconcileDone`, `ReconcileLongTimeout`, `ReconcileCancelled`, `ReconcilePending`, `Reconcile`, `ReconcileInvalid`, `ReconcileRetry`, `ReconcileResolving` | `ReconcileKind`, and `reconcile` up to the first patch |
| `patch` | `PatchRun`, `PatchRunFails`, then `CancelDone`, `GracefulCancelDone`, `TaskTimeoutsDone`, `PipelineTimeoutDone`, `LongTimeoutDone` | `cancel.go`, `timeout.go` |
| `plan` | `RunNextSchedulableTask` | the decisions of `runNextSchedulableTask` |
| `create` | `CreateRun`, `CreateRunFails`, `SkipFinalTask`, `ScheduleDone` | its creation loop, `HasTimedOut` |
| `conclude` | `Conclude`, `ConcludeWithoutResult` | the end of `reconcile` |
| `write` | `UpdateStatus`, `UpdateStatusFails` | the generated reconciler |

The environment: the user (`SetSpecStatus`), the informers, child runs that end
in any way they may (`RunEnds`), the clock (`DeadlinePasses`), and `Crash`.
`rec.late` and `rec.clean` are history, used by one property only.

**TaskRun** has one TaskRun in it, and its pods, which are named after the number
of retries before them. `tr` and `pods` are the API server, `trCache` and
`podCache` the informer caches. `stamp` counts the start times given out and
`expired` those whose timeout has passed, so that the timer of one attempt can
fire during another. `tr.st` is the status; `tries` and `archived` are its
retriesStatus.

| Stage (`rec.pc`) | Actions | Code |
|---|---|---|
| `idle` | `ReconcileDone`, `ReconcileCancelled`, `ReconcileTimedOut`, `ReconcilePullFailed`, `PrepareResolving`, `PrepareRetry`, `PrepareFailed`, `PrepareInvalid`, `Reconcile` | `ReconcileKind`, `prepare`, `reconcile` up to the first call |
| `stop` | `StopSidecars`, `StopConflict`, `StopFails` | `stopSidecars` |
| `kill` | `KillPod`, `KillFails` | `failTaskRun`, then retry and finish |
| `create` | `CreatePod`, `CreateOverQuota`, `CreateFails` | `createPod`, `handlePodCreationError` |
| `ready` | `UpdateReady`, `UpdateReadyFails` | `podconvert.UpdateReady` |
| `status` | `MakeStatus`, `MakeStatusFails`, `ResultsTooLarge`, `ResultsInvalid` | `MakeTaskRunStatus`, result validation, retry and finish |
| `write` | `UpdateStatus`, `UpdateStatusFails`, `UpdateLabelsFails` | the labels, then the generated reconciler |

`MakeTaskRunStatus` and the predicates under it are operators over a pod. The
environment: the user, the clock, the informers, `Crash`, and the kubelet, which
starts pods, holds them back for an image or a configuration error, runs steps
and sidecars, ends pods, and loses nodes (`PodLost`).

**Steps** has one process per step: its entrypoint. Files are `ready` and `cancel`
(written from the pod's annotations) and `post[i]`, the `out` or `out.err` of a
step. An action is one stretch of `Entrypointer.Go` between two operations that
others can see: wait for a file, give up because of an `.err`, start the command,
its end (by itself, by its timeout, by the cancel file), posting, reading results,
the two breakpoints, exiting. `task` holds the flags: onError, when expressions,
timeouts, breakpoints.

**ResolutionRequest** has the three parties of a request. The requester
(`CRDRequester.Submit`) creates it and asks until it is done. The reconciler
(`ReconcileKind`, `UpdateStatus`) marks it in progress, succeeded once there are
data, and failed when it is too old. The resolver (`Fetched`, `FetchFails`,
`writeResolvedData`, `MarkFailedGet`, `MarkFailed`) patches data in, or reads the
latest version and marks that failed. The reconciler writes the *whole* status, and
on a conflict writes it again over whatever is there; so does the model.

What the models leave out of these parts, and why it is safe:

- Names, messages, results' values, labels and annotations. A result is there
  or it is not.
- In `PipelineRun` a child run is a record: running, or ended in one of three
  ways; this is `ChildRun`. In `TaskRun` the steps of a pod are one value, which is
  `PodSteps`, and so are its sidecars.
- Children are patched in any order (the code: TaskRuns, then CustomRuns), which
  allows more than the code does.
- Resolving and validating the pipeline is one step with all its outcomes. A
  parameter or matrix error found when a run is created is a permanent
  `CreateRunFails`.
- A pipeline lists a task after those it depends on, and no task uses the
  results of a matrix. Both are narrower than the code.
- Deletion of the PipelineRun and the clean-up after its end (volume claims,
  affinity assistant, events) touch nothing that is modelled.
- A TaskRun's params, workspaces, volume claims and validation are one step with
  their outcomes (`Outcomes`). Exit codes, results and termination messages are
  there or bad. Metrics and events are left out, and so is the deletion of a TaskRun.
- The two files an entrypoint waits for are read by polling; a poll that finds
  nothing changes nothing and is not a step.
- A resolver's fetch that outlives its timeout goes on in a goroutine whose result
  nobody reads; it is not modelled.
- The informers' resync and the hourly requeue of a PipelineRun without timeout
  are left out, so that a missing wake-up shows: a run must not need them.
- Deadlines pass in the order the code's validation forces; `long` is the
  last-resort branch for a timeout that was missed.

## 3. The runs

| Run | Instance and environment | Checks | States |
|---|---|---|---|
| `graph` | every dependency relation on 3 names, every set of done tasks | no cycle accepted, no false cycle, exact candidates, an accepted pipeline can go on until all is done, `Build` returns | 13,626 |
| `matrix` | up to two arrays with up to two values, an empty one and one that repeats a value, and no to three clauses | the combinations are the product of the arrays, and the runs are the documented ones | 164,384 |
| `control` | a matrix of two, a task after it, a final task; every user action | cancelled runs are all told to stop, finally last, fan-out at once, never stuck, children are used as `ChildRun` | 55,714 |
| `deadlines` | a chain with a custom task; all four deadlines, graceful cancel | timeouts are enforced, an end means quiet, every run ends | 149,323 |
| `faults` | a chain; two failing calls or crashes anywhere, all outcomes of resolving | done is final, children are kept on record, every run ends | 19,952 |
| `stale_caches` | a chain; caches that lag by any amount; graceful cancel and stop | dependency order, an end means quiet, success means complete, every run ends | 224,342 |
| `skipping` | seven tasks skipped in every way | skipped tasks have no run, finally is guaranteed, success means complete, every run ends | 10,574 |
| `task_run` | one retry, a sidecar, timeout, cancel with the pod kept, images that come late; one fault among conflicts, quota, labels, logs, ready | one live pod, done means stopped, sidecars are stopped, implements `ChildRun` with its liveness | 337,359 |
| `task_faults` | one retry, a timeout; one failed create, delete, status write or sidecar stop, a crash, or a lost node | a given-up attempt stays so, success is truthful, the TaskRun settles | 759,854 |
| `steps` | three steps: every onError of the first two, when expression, timeout, both breakpoints, cancel, a step that dies | order, no wait without a cause, cancel stops, implements `PodSteps` | 289,504 |
| `resolution` | two contents, every way a fetch ends; two failing calls or crashes | success is final, nothing is forgotten, every request is answered | 174,877 |

Deadlock is checked in all of them: the only steps without effect are those of a
graph algorithm that has returned and `Rest`, where nothing is left to happen;
`NeverStuck`, `SidecarsStopped`, `NothingForgotten` and the liveness properties say
what must be true there. Type correctness, and that `Build` returns a faithful
graph, are proved, and no run repeats them.

**Bounds.** `MaxFaults` counts failing calls, crashes and repeated resolution:
two are enough for a failure during the recovery from another. A TaskRun has so
many states that it has one, in two runs which between them have every kind. The
pipelines are as small as the case allows: a chain for order, a fork for siblings, a
width of two for a fan-out, one final task. Three names give every cycle shape
`Build` can meet (self-loop, two, three, and a cycle with a tail) and a node with
two parents; `CandidatesOfBuiltGraphs` is the same for any number. One retry gives
two attempts, so that the pod, the timer and the cached status of the first meet
the second. Three steps give a step that is neither first nor last: a waiting
entrypoint knows the files of its predecessor only. Two contents tell a request
answered with old data from one answered with new. Two arrays make a product, and
three clauses one that meets what two others wrote; their params may be new to the
matrix, and their values new to an array, in any mixture. A work queue holds one key at
most once, as the code's does.

**Fairness.** Workers take a queued key and finish its reconcile, watches deliver:
weak fairness on each, which is what the controller runtime gives. Beyond that:

- `PipelineRun`: child runs end. This is what `ImplementsChildRun` shows. The user,
  the clock and faults are not fair: a run must end without waiting for a timeout.
- `TaskRun`: time passes (`TimeoutPasses`). The pods owe nothing: an image may never
  come and a step may never end; the timeout has to do it.
- `Steps`: each entrypoint takes its own steps. That a command ends is assumed only
  of one with a timeout or of one that is told to stop; readiness, breakpoints and
  the user are not fair.
- `ResolutionRequest`: the requester asks again, the reconciler works, requests grow
  old. The resolver is not fair at all.

**Caches.** With `ReadsOwnWrites` a reconcile starts only when the caches hold
what the same controller wrote. This is the common case, not a guarantee;
`stale_caches` drops it for PipelineRuns, and checks what still holds. For the other
two, what fails without it is below.

### What the code and its documents disagree about

One is a run in which TLC finds the documented property violated:

- `empty_matrix`: a task with an empty matrix that depends on another counts as
  done before that one has started. `GetCandidateTasks` rejects such a list,
  with a permanent error, at every reconcile: no task ever starts and the
  PipelineRun does not end. The same error meets a gracefully stopped PipelineRun
  while its running task is followed by another; there it goes away when the task
  ends, but meanwhile the pipeline timeout is not enforced. That is why
  `deadlines` has graceful cancel and not graceful stop.

Others can be replayed with a configuration of their own, `tlc -config X.cfg` with
module `MCPipelineRun` (the last three: `TaskRun`, `TaskRun` and `MCMatrixFanOut`);
each violates the property named. `VTimeout` and `VLateWhen` were met by proofs that
did not go through:

- `VLostChild` (`CancelledStopsAll`): a cancel reaches the children that
  status.childReferences names. One created by a reconcile whose status write
  failed goes on running.
- `VFanOut` (`FannedOutAtOnce`): when one of the creations of a matrix fails, the
  runs that exist are later taken for all of them.
- `VCustomValidation` (`FinallyLast`): a failed validation is recognised by a
  pointer that is nil for every custom task, so finally starts beside custom tasks
  that run.
- `VSkipCache` (`Completes`): a skipping decision cached before a sibling fails
  validation keeps finally from starting. Nothing is left that would wake the
  PipelineRun, and a later reconcile decides the same: it waits until its timeout,
  if it has one.
- `VTimeout` (`TimeoutEnforced`): `ta` and `tb` start together, `tc` comes after
  `ta`. When `tb` fails, the PipelineRun is stopping and `tc` counts as skipped while
  `ta`, before it, still runs. `GetCandidateTasks` rejects that list, and
  `reconcile` returns at `pipelinerun.go:776`, before line 784 looks at the timeout.
  As long as `ta` runs the timeout does nothing, although `docs/pipelineruns.md:1326`
  says that "any running child TaskRuns will be canceled".
- `VLateWhen` (`NeverStuck`): a task may be reported as skipped at first and not be
  skipped later. `tc` runs after `ta` and `tb` if its when expression is true, which it
  is not; `td` runs after `tc`, `te` after `td` if its when expression is true, which it
  is not; `tg` after `te`. If `ta` has an empty matrix it is skipped at once,
  and so, while `tb` runs, are `tc` and `td` for their parents; `te` is skipped for its
  when expression and `tg` starts. When `tb` ends, the reason of `tc` becomes its when
  expression, which does not stop `td`: `td` has still to run, and `tg`, which is over,
  comes after it. `GetCandidateTasks` rejects such a list at every reconcile, `td` is
  never started, and the PipelineRun stays Running for ever. A result that is missing
  does the same as an empty matrix.
- `VStaleCancel` (`DoneMeansStopped`): a reconcile that reads the TaskRun from
  before its pod was named cancels it without deleting that pod.
- `VRetrySidecars` (`AllSidecarsStopped`): sidecars are stopped by a reconcile of the
  finished TaskRun, in the pod its status names. An attempt that fails and is
  retried is not finished, and afterwards its pod is not named: its sidecars go on
  beside the next attempt and after the end, although
  `docs/developers/taskruns.md:265` has them stopped "on completion of all steps".
  `SidecarsStopped` says what holds, of the last pod.
- `VMatrixCount` (`CountIsFanOut`): `CountCombinations`, by its comment, "returns the
  count of Combinations of Parameters generated from the Matrix", and it is not
  always that of `FanOut`. With arrays `a: [x, y]` and `b: [x]`, the clause
  `{b: z, a: x}` is counted for the new value of `b`, and not added by `FanOut`, since
  a combination has its `a`. A third run is created, without any matrix param. A
  clause with two new values counts twice; two clauses with an extra value in
  common count as two where `FanOut` adds the first only; and of `{c: 1}, {c: 2}`, for
  a param that the matrix does not have, `FanOut` adds the second as a combination
  that is not counted and so has no run. `RunsAsDocumented` says what holds, of clauses that keep apart
  (`clausesApart`).

Smaller observations, each of which shaped a property or a run:

- With stale caches a graceful stop can skip a task whose run has just been created
  and start finally beside it, so `FinallyLast` is checked with fresh caches.
- A run created in the very reconcile during which the pipeline timeout passes is
  not among those timed out, so `TimeoutEnforced` speaks of reconciles that begin
  after it.
- `GetCandidateTasks` accepts some invalid lists of done tasks, in spite of its
  comment: a done task with one done and one unfinished parent is met by the walk,
  so the error half of `CandidatesExact` has no converse.
- If stopping sidecars fails for good, a TaskRun that succeeded is failed, and may
  be retried. `ImplementsChildRun` is false then, hence no `stop` fault in
  `task_run`; `Settles` still holds.
- If a pod cannot be deleted, or the status that named it was lost, the TaskRun ends
  without it, hence no `kill` fault where `OneLivePod` and `DoneMeansStopped` are
  checked. `ArchivedForGood` shows that such a pod is at least never taken up again.
- A pod kept on cancel is told to stop by a file. A step that waits for readiness or
  at a breakpoint before it does not look at that file, and its sidecars are not
  stopped, so `CancelStops` speaks of commands.
- A sidecar's failing image is kept in the status across a retry, and fails the next
  attempt before it has a pod.
- A step posts its file before it reads its results. If that fails, the step exits
  with an error after the next one has started; `letsOn` is about what was posted.
- A ResolutionRequest's reconciler that meets a conflict overwrites the resolver's
  data or verdict with "in progress". The event of that write, or the age of the
  request, makes up for it (`NothingForgotten`). A failure of the request is
  therefore not final; success is, with caches that hold the reconciler's writes
  (`SuccessIsFinal` is false otherwise).

## 4. What is proved

TLAPS checks every step; nothing is assumed but the `ASSUME`s that describe a
validated pipeline (`PipelineAssumption`, `OrderAssumption`), matrix
(`MatrixAssumption`) or Task (`StepsAssumption`) and the constants of each environment.
Each module's types are proved in its proof module.

**ComponentProofs**, of `Build`, for every set of names and every order of
popping: `AcceptsNoCycle`, `ReportsOnlyCycles`, `BuildsFaithfulGraph`. The
inductive invariant says how the three maps are related while they are consumed:
they describe the same undischarged dependencies (`MapsAgree`), a dependency on a
task that is still waiting has not been discharged (`WaitingInv`), and what a task
waits for is waiting itself or will be popped (`NothingLost`). Without these, the
last two parts are not inductive: no member of a knot, a set in which everyone
waits for a member, ever leaves (`KnotsKept`), and links are the dependencies met
so far (`LinksInv`). Speaking of knots and not of paths needs no induction.

Of the walk, for every acyclic graph: `ReturnsExactCandidates`,
`FailsOnlyIfInvalid`. The invariant has the frontier of the walk: whatever a visited
done node leads to is visited, found, or still to be called.

Of the two composed: `CandidatesOfBuiltGraphs`, and
`AcceptedPipelinesGoOn`: until all tasks are done, one can start. `Build`'s
acceptance is what makes the graph one the walk is right about (`NoCycleAccepted`
gives acyclicity, `BuiltGraphIsFaithful` the links); `WalkInv` carries the walk's
invariant along while `Build`'s variables stand still.

**MatrixProofs**, for any params, values and clauses: `FanOutIsProduct`, that the
matrix part of the combinations is the Cartesian product of the arrays, each
element once if no array repeats a value, and stays so whatever the clauses write.
The invariant follows `distribute` through its loop: the combinations list the
product of the first params (`Lists`), the expanded ones that product with the
values so far of the next (`ListsWith`). It needs that names are unique, or a
param would overwrite an earlier one, and that no array is empty (`NoEmptyArray`,
from the skip), since an empty list makes `fanOutMatrixParams` begin again.
Afterwards every clause that is written agrees with the combination on the matrix
params (`OverwrittenKeeps`), and additions come after the product.

**PipelineRunProofs**, for every pipeline, user, set of deadlines, number of
faults, and caches however stale:
`CreatesInDependencyOrder`: no run of a task is created while a run of a task it
depends on is going, or after one failed without `onError: continue`. The
property speaks of the cluster, the decision was made from caches, so the
inductive invariant has to connect the two:

- `ViewsInv`: what a cache, or the reconcile's view, shows of a run is an earlier
  state of it; what has ended there has ended in the cluster, the same way;
- `SeesAllInv`: with `ReadsOwnWrites` the view has every run there is;
- `ValidationInv`, `WhenInv`: what is to be created has no failed validation
  before it, and tasks with false when expressions have no run;
- `ReadyInv`: the parents of what is queued for creation are over, in the view.

`CachesSuffice`, that the caches hold the controller's writes or no DAG task fans
out, is needed: with a stale lister that shows one of two runs of a matrix, the
next task is started too early. A single run is there or not, and if it is not
its task is not done.

`SkipsSolve` is about the recursion of `Skip` through the parents of a task: on a
validated pipeline it comes to an end, and its answers satisfy the equations in
`skip`. It is proved by taking the first task in `TaskOrder` without an answer.
Whatever the proofs say of skipped tasks follows from these equations alone.

`DoneStays` and `ChildRefsStay` are of this module too, and so is
`TaskRunsAreChildRuns`, the interface to the TaskRun reconciler: with any faults and
caches, whatever the PipelineRun and its environment do to a TaskRun is a step of
`ChildRun`. Since `TaskRunIsChildRun` (below) is its other half, the two reconcilers
meet in a specification that both are proved to keep to.

The theorems about a PipelineRun hold for every pipeline, user and set of deadlines,
and, unless `NoFaults` is among the hypotheses, for any number of failing calls and
crashes:

| Theorem | Property | Hypotheses | Module |
|---|---|---|---|
| `CreatesInDependencyOrder` | `DependencyOrder` | `CachesSuffice` | `PipelineRunProofs` |
| `DoneStays` | `DoneIsFinal` | `ReadsOwnWrites` | |
| `ChildRefsStay` | `ChildRefsKept` | `ReadsOwnWrites` | |
| `TaskRunsAreChildRuns` | `ChildrenAreChildRuns` | none | |
| `DoneIsQuiet` | `DoneMeansQuiet` | `ReadsOwnWrites`, `PointersTellApart` | `PipelineRunOutcomeProofs` |
| `FinallyIsGuaranteed` | `FinallyGuaranteed` | `PointersTellApart` | |
| `FinallyComesLast` | `FinallyLast` | `ReadsOwnWrites`, `PointersTellApart`, `StopsForGood` | |
| `FansOutAtOnce` | `FannedOutAtOnce` | `NoFaults` | `PipelineRunChildrenProofs` |
| `SuccessIsComplete` | `SuccessMeansComplete` | `NoFaults`, or no task fans out | |
| `CancelStopsAll` | `CancelledStopsAll` | `NoFaults` | |
| `SkippedIsNotRun` | `SkippedNeverRun` | `NoFaults` | |
| `TimeoutIsEnforced` | `TimeoutEnforced`, unless `GivenUp` | `NoFaults`, `NeverMadePending` | |
| `IsNeverStuck` | `NeverStuck` | `SkipsByWhenOnly` | `PipelineRunProgressProofs` |

The hypotheses are what the code needs. `ReadsOwnWrites`: the caches hold the
controller's own writes when it reconciles again. `PointersTellApart`:
`isValidationFailed` compares pointers to resolved Tasks, which are all nil for
custom tasks and for tasks that were not resolved, so one such task that fails
validation makes the others look failed. `StopsForGood`: the user does not take back a
graceful stop, after which DAG tasks start again beside finally. `NoFaults`:
`ReadsOwnWrites` and no failing call or crash; the findings on fan-outs in part, on
the lost child and on the stale cancel are what happens otherwise.
`NeverMadePending`: nobody makes a PipelineRun pending that was not created so, which
validation refuses once it has started; the reconciler does nothing for a
pending one, timeouts included. `GivenUp`: the reconcile ends with a permanent error
other than the timeout's own, since the pipeline is not valid or `GetCandidateTasks`
rejects what is done; `VTimeout` is that case. `SkipsByWhenOnly`: DAG tasks are skipped
for their when expressions or because the PipelineRun is stopping, not for an empty
matrix or for results that are missing; `VLateWhen` is what happens otherwise.

The later modules share a description of the steps. `WorkMoves` says that a step of a
reconcile under way is of one of seven kinds (`Move`: one patch, more to patch, all
patched, scheduling, one creation, all created, the conclusion), and of each what
matters later; `BeginsLate` and `BeginsFromIdle` say how one begins.

The invariants, on top of those above:

- `StatusInv`, `RefsInv` (with the former, `SInv`): when the PipelineRun is done no
  reconcile is under way that could write another condition, the status a reconcile
  began with is the one that is there, and it has lost no child;
- `VfInv`: a task that fails validation has no run and gets none;
- `OutcomeInv`: a status that says the PipelineRun ended by itself, written or about to
  be, is right: the runs of all tasks are over in the cluster (`Quiet`), and final
  tasks have been started or are reported as skipped (`Guaranteed`);
- `CachesInv`, `FinallyInv`: once a run of finally exists, what any later reconcile
  will see has nothing to start among the DAG tasks (`NothingToStart`). That this
  stays so is the hard part: more runs end, more deadlines pass, `Skip` gives other
  answers, and still no DAG task becomes ready, since every one that was not done was
  skipped for a reason that stays;
- `AbsentInv`, `FanInv`: what is about to be created does not exist, and the runs of
  a task all exist or are about to be created, or none is;
- `CompleteInv`: a status that says success is right about each task;
- `OrphansInv`, `CancelInv`: every run that exists is in `childReferences`, except
  while a reconcile adds some, so that the runs `cancelPipelineRun` goes through are
  all there are;
- `SkipInv`: no task in `skippedTasks` has a run, in the status that is there and in
  the one about to be written, but not in between: a task that was reported as skipped
  may be run after all, and the report is made anew before it is written;
- `LateInv`: a reconcile that began after the pipeline timeout has nothing to create
  but final tasks that it will skip; when it patches, every run that was not told to
  stop is among those it has still to patch; and what it writes is the end.
  `PendingInv`: a PipelineRun that is pending, or taken to be, has not started, so
  none that is late is left alone for being pending;
- `ProgressInv`: while the key is not queued, something will queue it (`Awaits`: a run
  that the caches hold as running, or do not hold yet), or the PipelineRun is done or
  pending; and a reconcile that sees the caches as they are and no such run finds
  something to create, or everything settled, which makes it write an end. That it does
  find something is where `GetCandidateTasks` comes in: it must not reject what is
  done, and must reach a task that is not. `AncInv` gives the first: there is a set of
  tasks, closed under what runs before them, that has every task with a run and
  otherwise only tasks whose when expressions are false, so whatever is over can be
  reached. The second is the least task, in the order of the pipeline, that is not done.
  `ResInv` and `VfEmpty`: results that are used are there, and no task fails validation
  for the lack of them.

**TaskRunProofs**, for any number of retries and faults: `TaskRunTypeCorrect`, which
bounds the retries; with `ReadsOwnWrites`, `ArchivedStays`; and, if besides no
sidecar stop fails, `TaskRunIsChildRun`: every step of the reconciler, the kubelet
and the rest is a step of `ChildRun` or changes nothing there. What a reconcile
writes was decided many steps before, so the invariant `AttemptInv` speaks of the
status in the API server and of the reconcile in progress alike. A status never
names an archived pod, and archived attempts are below `tries` (`Sound`); pods,
cached or not, are at most that; a failure with retries left is one that was
cancelled (`Final`). A reconcile began from the status that is there, keeps its
attempts, and leaves the reason of a finished TaskRun alone (`Sane`); at its end it
has either that or one more attempt archived (`Ending`); and in between it stops
sidecars exactly when the TaskRun is done (`Calling`).

**TaskRunPodProofs**: `SuccessIsTruthful`, with `ReadsOwnWrites` and any faults: a TaskRun that succeeded names a pod of its last attempt all of whose
steps succeeded (`TruthfulSuccess`). If a result is too large, `MakeTaskRunStatus`
finds that out once, from a pod that otherwise succeeded; when the write of that
status is lost the next reconcile may report success, so either the one or the other
is excluded. `TruthInv` follows the pod from the cache into the
reconcile's record and from there into the status. `OnePodLives` (`OneLivePod`) and
`DoneIsStopped` (`DoneMeansStopped`) are proved together, under `Steady`, and
`SidecarsAreStopped` (`SidecarsStopped`) if besides no stop of sidecars fails. `Steady` is
`ReadsOwnWrites` without the kinds of fault after which the reconciler leaves a pod
behind: a deletion that fails (`kill`), a pod that could not be created or whose status
was not written (`create`, `status`), a crash between the two, and a pod that is
given up for a configuration error (`config`). TLC finds a violation of `OneLivePod` or
`DoneMeansStopped` with each of them alone. `SteadyInv` says that the pod which
runs is the one of the current attempt, that the status or the reconcile in progress
knows of it, and that whoever is about to write the end of an attempt has deleted its
pod or seen it end. `SideInv` says that a TaskRun that is done and whose sidecars
run is in the queue, being reconciled, or about to be queued by an event.

**ComponentProofs**, of `Steps`, for any number of steps: `StepsInOrder` and
`StepsImplementPodSteps`. A waiting entrypoint sees one file; that all earlier steps
are over follows from `Chain`, that whoever got past its wait has only predecessors that
let it go on, and `PostMeans`, what the name of a posted file says of its step.

**ComponentProofs**, of `ResolutionRequest`, for any contents and number of faults: `NothingIsForgotten`
and, with `ReadsOwnWrites`, `SuccessStays`. The invariants: a reconcile about to
write decided on a request that was not done, and success only with data
(`Decision`); nobody who is about to write the condition missed a success
(`SuccessSeen`); and a request that is not done, as far as the reconciler knows, is
in its hands, in its queue or under its timer (`Watched`).

**Only model-checked:** liveness (`Completes`, `BuildReturns`, `Settles`, the
fairness half of `ImplementsChildRun`, `AllStepsEnd`, `CancelStops`, `Answered`), out
of the prover's reach; and `RunsAsDocumented`, which compares a product of lengths with
the size of a set, by induction on the params. Every other property of a run that
passes has a theorem, under the hypotheses above.

## 5. Not modelled

- **Resolvers** (git, bundles, hub, http, cluster): I/O without state of their own;
  `ResolutionRequest` has their outcomes.
- **Affinity assistant, volume claims**: created before the first task and removed
  after the end. Nothing that is modelled reads them back.
- **Substitution, results, pod construction, webhook**: functions of their input
  over strings and large records. What the webhook guarantees is assumed.
- **Events, metrics, tracing**: written, never read by a decision.
- **Trusted resources, SPIRE**: verification of content; here, an outcome of
  resolving.

Next would be the affinity assistant's StatefulSets: created once, removed at the end.
