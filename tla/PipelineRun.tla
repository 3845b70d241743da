---------------------------- MODULE PipelineRun ----------------------------
(***************************************************************************)
(* The PipelineRun reconciler (pkg/reconciler/pipelinerun) at work on one  *)
(* PipelineRun: it reads informer caches that lag behind the API server,   *)
(* decides what to do (PipelineRunFacts), creates and patches child runs   *)
(* one API call at a time, and writes the status at the end.  Around it:   *)
(* the user, the child runs, the clock, the informers, and an API server   *)
(* whose calls may fail.                                                   *)
(***************************************************************************)
EXTENDS PipelineRunFacts

CONSTANTS
  InitSpec,             \* the spec.status values a PipelineRun is created with
  UserSteps,            \* the changes <<from, to>> the user makes to spec.status
  Timeouts,             \* the deadlines the PipelineRun has
  MayFail,              \* tasks whose runs may fail
  MayOmitResults,       \* tasks whose runs may end without their results
  Outcomes,             \* what resolving and validating the pipeline may end in
  ReadsOwnWrites,       \* the caches hold the reconciler's own writes
  MaxFaults             \* bound: failing API calls, crashes, resolution retries

VARIABLES
  pr,                   \* the PipelineRun in the API server: spec.status, status
  prCache,              \* the PipelineRun in the informer cache
  runs,                 \* TaskRuns and CustomRuns in the API server, by run
  lister,               \* the same in the informer caches
  elapsed,              \* the deadlines that have passed
  rec,                  \* the reconcile in progress
  queued,               \* the key is in the work queue
  snooze,               \* the deadlines of which the first one requeues the key
  faults                \* failures so far

vars == <<pr, prCache, runs, lister, elapsed, rec, queued, snooze, faults>>
env == <<pr, prCache, runs, lister, elapsed, faults>>

SpecStatus == {"", "Pending", "Cancelled", "CancelledRunFinally", "StoppedRunFinally"}
Deadline == {"tasks", "pipeline", "long", "finally"}

SucceededReason == {"Succeeded", "Completed"}
FailedReason ==
  {"Failed", "Cancelled", "TimedOut", "FailedValidation", "CreateRunFailed", "Invalid",
   "CouldntGetPipelineResult"}
OngoingReason ==
  {"", "Started", "Pending", "Running", "Stopping", "CancelledRunningFinally",
   "StoppedRunningFinally", "CouldntCancel", "CouldntTimeOut", "Resolving"}

\* status: StartTime and FinallyStartTime are kept as "set or not".
Status ==
  [started : BOOLEAN, reason : SucceededReason \cup FailedReason \cup OngoingReason,
   childRefs : SUBSET Run, fin : BOOLEAN, skipped : SUBSET Tasks]

NewStatus ==
  [started |-> FALSE, reason |-> "", childRefs |-> {}, fin |-> FALSE, skipped |-> {}]

IsDone(st) == st.reason \in SucceededReason \cup FailedReason

exists(rs) == {r \in Run : rs[r].st # "Absent"}

(***************************************************************************)
(* A reconcile: its stage pc, the working copy st of the cached status     *)
(* orig, the facts (spec, view, vf), the runs still to patch (and why) or  *)
(* to create, and how it will end.  late: the pipeline timeout had passed  *)
(* when it began; clean: none of its calls failed.                         *)
(***************************************************************************)
NoReconcile ==
  [pc |-> "idle", spec |-> "", orig |-> NewStatus, st |-> NewStatus,
   view |-> [r \in Run |-> Absent], vf |-> {}, why |-> "", todo |-> {},
   errs |-> FALSE, out |-> "ok", late |-> FALSE, clean |-> TRUE]

ReconcileType ==
  [pc : {"idle", "patch", "plan", "create", "conclude", "write"},
   spec : SpecStatus, orig : Status, st : Status, view : [Run -> RunRecord],
   vf : SUBSET DagTasks, why : {"", "cancel", "graceful", "tasks", "pipeline", "long"},
   todo : SUBSET Run, errs : BOOLEAN, out : {"ok", "nil", "retry", "permanent", "resolving"},
   late : BOOLEAN, clean : BOOLEAN]

ASSUME EnvironmentAssumption ==
  /\ InitSpec \subseteq SpecStatus
  /\ UserSteps \subseteq SpecStatus \X SpecStatus
  /\ Timeouts \subseteq Deadline
  /\ MayFail \subseteq Tasks
  /\ MayOmitResults \subseteq Tasks
  /\ Outcomes \subseteq {"ok", "invalid", "retry", "resolving", "noresult"}
  /\ ReadsOwnWrites \in BOOLEAN
  /\ MaxFaults \in Nat

Init ==
  /\ \E s \in InitSpec : pr = [spec |-> s, st |-> NewStatus]
  /\ prCache = pr
  /\ runs = [r \in Run |-> Absent]
  /\ lister = runs
  /\ elapsed = {}
  /\ rec = NoReconcile
  /\ queued = TRUE
  /\ snooze = {}
  /\ faults = 0

-----------------------------------------------------------------------------
\* The clock counts from status.startTime and status.finallyStartTime as the
\* reconcile found them: what it sets itself has only just begun.
deadlinesPassed(R) ==
  IF R.orig.started
    THEN IF R.orig.fin THEN elapsed ELSE elapsed \ {"finally"}
    ELSE {}

\* Mutant: the pipeline timeout is not looked at.
neverTimedOut(R) == FALSE

HasTimedOut(R) == "pipeline" \in deadlinesPassed(R)

Facts(R) ==
  [view |-> R.view, spec |-> R.spec, vf |-> R.vf, el |-> deadlinesPassed(R)]

\* The reconcile ends: what is left is to write the status.
end(R, out, st) ==
  [R EXCEPT !.pc = "write", !.out = out, !.st = st, !.todo = {}]

\* Go on patching child runs (cancelPipelineTaskRunsForTaskNames,
\* timeoutPipelineTasksForTaskNames), named in status.childReferences.
patch(R, why, todo) ==
  [R EXCEPT !.pc = "patch", !.why = why, !.todo = todo, !.errs = FALSE]

runsOfTasks(st, ts) == {r \in st.childRefs : r[1] \in ts}

(***************************************************************************)
(* Tasks timeout and finally timeout, in reconcile: the runs of the tasks  *)
(* that are running past their deadline are timed out before anything new  *)
(* is scheduled.                                                           *)
(***************************************************************************)
tasksToTimeOut(R) ==
  IF ~R.st.fin
    THEN IF "tasks" \in deadlinesPassed(R)
           THEN {t \in DagTasks : IsRunning(Facts(R), t)} ELSE {}
    ELSE IF "finally" \in deadlinesPassed(R)
           THEN {t \in FinalTasks : IsRunning(Facts(R), t)} ELSE {}

applyTaskTimeouts(R) ==
  IF tasksToTimeOut(R) # {}
    THEN patch(R, "tasks", runsOfTasks(R.st, tasksToTimeOut(R)))
    ELSE [R EXCEPT !.pc = "plan"]

\* Graceful cancel: while a DAG task runs, every child run is cancelled.
applyGracefulCancel(R) ==
  IF R.spec = "CancelledRunFinally" /\ \E t \in DagTasks : IsRunning(Facts(R), t)
    THEN patch(R, "graceful", R.st.childRefs)
    ELSE applyTaskTimeouts(R)

\* updatePipelineRunStatusFromInformer: children that the status lost are
\* added back; none is removed.
syncChildRefs(R) ==
  [R EXCEPT !.st.childRefs = @ \cup exists(R.view)]

InitializeConditions(R) ==
  IF R.orig.started \/ R.spec = "Pending"
    THEN R
    ELSE [R EXCEPT !.st = [@ EXCEPT !.started = TRUE, !.reason = "Started"]]

(***************************************************************************)
(* A reconcile begins: it takes the key off the queue and reads the        *)
(* caches.  With ReadsOwnWrites it does so only when they hold every run   *)
(* the reconciler created and the status it wrote last.                    *)
(***************************************************************************)
begun ==
  InitializeConditions(
    [NoReconcile EXCEPT !.spec = prCache.spec, !.orig = prCache.st, !.st = prCache.st,
                        !.view = lister,
                        !.late = prCache.st.started /\ "pipeline" \in elapsed])

Dequeue ==
  /\ rec.pc = "idle"
  /\ queued
  /\ ReadsOwnWrites => exists(lister) = exists(runs) /\ prCache.st = pr.st
  /\ queued' = FALSE
  /\ UNCHANGED <<pr, prCache, runs, lister, elapsed, snooze>>

TimedOutForALongTime ==
  prCache.st.started /\ "long" \in elapsed /\ prCache.st.reason # "TimedOut"

\* Mutant: a PipelineRun that is done is reconciled like any other.
evenIfDone == ~TimedOutForALongTime

\* ReconcileKind goes past its first two returns.
proceeds == ~IsDone(prCache.st) /\ ~TimedOutForALongTime

\* ReconcileKind of a PipelineRun that is done: only cleanup is left.
ReconcileDone ==
  /\ Dequeue
  /\ UNCHANGED faults
  /\ IsDone(prCache.st)
  /\ UNCHANGED rec

\* ReconcileKind when the timeout was missed for a long time.
ReconcileLongTimeout ==
  /\ Dequeue
  /\ UNCHANGED faults
  /\ ~IsDone(prCache.st)
  /\ TimedOutForALongTime
  /\ rec' = patch(begun, "long", prCache.st.childRefs)

\* ReconcileKind of a cancelled PipelineRun: the children the status names
\* are cancelled.
ReconcileCancelled ==
  /\ Dequeue
  /\ UNCHANGED faults
  /\ proceeds
  /\ prCache.spec = "Cancelled"
  /\ rec' = patch(begun, "cancel", prCache.st.childRefs)

\* reconcile of a pending PipelineRun.
ReconcilePending ==
  /\ Dequeue
  /\ UNCHANGED faults
  /\ proceeds
  /\ prCache.spec = "Pending"
  /\ rec' = LET R == syncChildRefs(begun)
            IN  end(R, "ok", [R.st EXCEPT !.reason = "Pending"])

\* reconcile of a PipelineRun that is to run.
reconciles ==
  /\ Dequeue
  /\ proceeds
  /\ prCache.spec \notin {"Cancelled", "Pending"}

Reconcile ==
  /\ reconciles
  /\ UNCHANGED faults
  /\ "ok" \in Outcomes
  /\ rec' = applyGracefulCancel(syncChildRefs(begun))

\* The pipeline or a task cannot be fetched, is not valid, or a volume or an
\* affinity assistant it needs cannot be created.
ReconcileInvalid ==
  /\ reconciles
  /\ UNCHANGED faults
  /\ "invalid" \in Outcomes
  /\ rec' = LET R == syncChildRefs(begun)
            IN  end(R, "permanent", [R.st EXCEPT !.reason = "Invalid"])

\* Fetching fails in a way worth another attempt.
ReconcileRetry ==
  /\ reconciles
  /\ "retry" \in Outcomes
  /\ faults < MaxFaults
  /\ faults' = faults + 1
  /\ rec' = LET R == [syncChildRefs(begun) EXCEPT !.clean = FALSE]
            IN  end(R, "retry", R.st)

\* A remote pipeline or task is still being resolved: reconcile returns, and
\* the end of the resolution enqueues the PipelineRun again.  Counted as a
\* fault to bound it.
ReconcileResolving ==
  /\ reconciles
  /\ "resolving" \in Outcomes
  /\ faults < MaxFaults
  /\ faults' = faults + 1
  /\ rec' = LET R == syncChildRefs(begun)
            IN  end(R, "resolving", [R.st EXCEPT !.reason = "Resolving"])

-----------------------------------------------------------------------------
(***************************************************************************)
(* One patch of a child run.  A TaskRun that is done refuses it (its spec  *)
(* is immutable), which is not counted as a failure.                       *)
(***************************************************************************)
requested(why) == IF why \in {"cancel", "graceful"} THEN "Cancel" ELSE "TimeOut"

\* Mutant: a run that has ended is patched like any other.
PatchEvenIfDone ==
  /\ rec.pc = "patch"
  /\ \E r \in rec.todo :
       /\ rec' = [rec EXCEPT !.todo = @ \ {r}]
       /\ runs' = [runs EXCEPT ![r].req = requested(rec.why)]
  /\ UNCHANGED <<pr, prCache, lister, elapsed, queued, snooze, faults>>

PatchRun ==
  /\ rec.pc = "patch"
  /\ \E r \in rec.todo :
       /\ rec' = [rec EXCEPT !.todo = @ \ {r}]
       /\ runs' = IF runs[r].st = "Running" \/ r[1] \in CustomTasks
                    THEN [runs EXCEPT ![r].req = requested(rec.why)] ELSE runs
  /\ UNCHANGED <<pr, prCache, lister, elapsed, queued, snooze, faults>>

\* The call fails; the loop goes on with the other runs.
PatchRunFails ==
  /\ rec.pc = "patch"
  /\ faults < MaxFaults
  /\ \E r \in rec.todo :
       rec' = [rec EXCEPT !.todo = @ \ {r}, !.errs = TRUE, !.clean = FALSE]
  /\ faults' = faults + 1
  /\ UNCHANGED <<pr, prCache, runs, lister, elapsed, queued, snooze>>

patchesDone(why) ==
  /\ rec.pc = "patch"
  /\ rec.todo = {}
  /\ rec.why = why
  /\ UNCHANGED <<queued, snooze>>
  /\ UNCHANGED env

\* The end of cancelPipelineRun.
CancelDone ==
  /\ patchesDone("cancel")
  /\ rec' = IF rec.errs
              THEN end(rec, "retry", [rec.st EXCEPT !.reason = "CouldntCancel"])
              ELSE end(rec, "nil", [rec.st EXCEPT !.reason = "Cancelled"])

\* The end of gracefullyCancelPipelineRun.
GracefulCancelDone ==
  /\ patchesDone("graceful")
  /\ rec' = IF rec.errs
              THEN end(rec, "retry", [rec.st EXCEPT !.reason = "CouldntCancel"])
              ELSE applyTaskTimeouts(rec)

\* The tasks or finally timeout has been applied.
TaskTimeoutsDone ==
  /\ patchesDone("tasks")
  /\ rec' = IF rec.errs THEN end(rec, "retry", rec.st) ELSE [rec EXCEPT !.pc = "plan"]

\* The end of timeoutPipelineRun, called on the way or at the very start.
PipelineTimeoutDone ==
  /\ patchesDone("pipeline")
  /\ rec' = IF rec.errs
              THEN end(rec, "retry", [rec.st EXCEPT !.reason = "CouldntTimeOut"])
              ELSE [rec EXCEPT !.pc = "conclude", !.st.reason = "TimedOut"]

LongTimeoutDone ==
  /\ patchesDone("long")
  /\ rec' = IF rec.errs
              THEN end(rec, "retry", [rec.st EXCEPT !.reason = "CouldntTimeOut"])
              ELSE end(rec, "permanent", [rec.st EXCEPT !.reason = "TimedOut"])

-----------------------------------------------------------------------------
\* Mutant: no fan-out.
firstNameOnly(st, t) == {<<t, 1>>}

\* The names of a task's runs: those in status.childReferences if it has
\* some for the task, else new ones.
GetNamesOfTaskRuns(st, t) ==
  IF runsOfTasks(st, {t}) # {} THEN runsOfTasks(st, {t}) ELSE RunsOf(t)

(***************************************************************************)
(* runNextSchedulableTask up to the creation of runs.  s are the skipping  *)
(* reasons before missing results are looked for, vf the tasks that turn   *)
(* out to miss some, fresh the reasons after that.                         *)
(***************************************************************************)
schedule(R, f, s, vf, fresh) ==
  LET g == [f EXCEPT !.vf = vf]
      dagDone == checkDAGTasksDone(g, s, skipCache(f, s), fresh)
      GetFinalTasks == {t \in FinalTasks : dagDone /\ ~isScheduled(f, t)}
      fNext == {t \in GetFinalTasks : unresolved(f, t) = {}}
      IsFinalTaskStarted == dagDone /\ \E t \in FinalTasks : isScheduled(f, t)
      next == (IF vf = {} THEN DAGExecutionQueue(f, s) ELSE {}) \cup fNext
  IN  [R EXCEPT !.pc = "create", !.vf = vf,
                !.st.fin = @ \/ IsFinalTaskStarted \/ fNext # {},
                !.todo = UNION {GetNamesOfTaskRuns(R.st, t) : t \in next}]

RunNextSchedulableTask ==
  /\ rec.pc = "plan"
  /\ LET f == Facts(rec)
         s == Skips(f)
         vf == {t \in DAGExecutionQueue(f, s) : missingResults(f, t)}
         fresh == Skips([f EXCEPT !.vf = vf])
     IN  rec' = IF DAGExecutionError(f, s)
                  THEN end(rec, "permanent", rec.st)
                  ELSE schedule(rec, f, s, vf, fresh)
  /\ UNCHANGED <<queued, snooze>>
  /\ UNCHANGED env

\* The run whose turn it is: tasks in the pipeline's order, runs by index.
isNext(r) ==
  \A q \in rec.todo :
    IF r[1] = q[1] THEN r[2] <= q[2] ELSE At(r[1]) < At(q[1])

skippedNow(t) ==
  t \in FinalTasks /\ finallySkip(Facts(rec), t) # "None"

creating(r) ==
  /\ rec.pc = "create"
  /\ r \in rec.todo
  /\ isNext(r)

\* createTaskRun, createCustomRun.  A name that is taken is an error.
CreateRun ==
  \E r \in Run :
    /\ creating(r)
    /\ ~skippedNow(r[1])
    /\ IF runs[r] = Absent
         THEN /\ runs' = [runs EXCEPT ![r] = Created]
              /\ rec' = [rec EXCEPT !.todo = @ \ {r}, !.view[r] = Created]
         ELSE /\ rec' = end([rec EXCEPT !.clean = FALSE], "retry", rec.st)
              /\ UNCHANGED runs
    /\ UNCHANGED <<pr, prCache, lister, elapsed, queued, snooze, faults>>

\* handleRunCreationError: the call fails for now, or for good (the API
\* server rejects the run, or its parameters are not valid).
CreateRunFails ==
  \E r \in Run :
    /\ creating(r)
    /\ ~skippedNow(r[1])
    /\ faults < MaxFaults
    /\ faults' = faults + 1
    /\ LET R == [rec EXCEPT !.clean = FALSE]
       IN  \/ rec' = end(R, "retry", R.st)
           \/ rec' = end(R, "permanent", [R.st EXCEPT !.reason = "CreateRunFailed"])
    /\ UNCHANGED <<pr, prCache, runs, lister, elapsed, queued, snooze>>

\* A final task is skipped when its turn comes.
SkipFinalTask ==
  \E r \in Run :
    /\ creating(r)
    /\ skippedNow(r[1])
    /\ rec' = [rec EXCEPT !.todo = @ \ RunsOf(r[1])]
    /\ UNCHANGED <<queued, snooze>>
    /\ UNCHANGED env

\* Everything is scheduled: the pipeline timeout is looked at only now.
ScheduleDone ==
  /\ rec.pc = "create"
  /\ rec.todo = {}
  /\ rec' = IF HasTimedOut(rec)
              THEN patch(rec, "pipeline", rec.st.childRefs)
              ELSE [rec EXCEPT !.pc = "conclude"]
  /\ UNCHANGED <<queued, snooze>>
  /\ UNCHANGED env

\* Mutants: childReferences are not updated, or name only running children.
withoutChildRefs(f, s) ==
  [rec.st EXCEPT !.reason = GetPipelineConditionStatus(f, s),
                 !.skipped = GetSkippedTasks(f, s)]
runningChildRefs(f, s) ==
  [rec.st EXCEPT !.reason = GetPipelineConditionStatus(f, s),
                 !.childRefs = {r \in Run : rec.view[r].st = "Running"},
                 !.skipped = GetSkippedTasks(f, s)]

\* The rest of reconcile: condition, childReferences and skippedTasks.
concluded(f, s) ==
  [rec.st EXCEPT !.reason = GetPipelineConditionStatus(f, s),
                 !.childRefs = exists(rec.view),
                 !.skipped = GetSkippedTasks(f, s)]

Conclude ==
  /\ rec.pc = "conclude"
  /\ LET f == Facts(rec)
         s == Skips(f)
     IN  rec' = end(rec, "ok", concluded(f, s))
  /\ UNCHANGED <<queued, snooze>>
  /\ UNCHANGED env

\* The same when the PipelineRun is done and its results cannot be applied.
ConcludeWithoutResult ==
  /\ rec.pc = "conclude"
  /\ "noresult" \in Outcomes
  /\ LET f == Facts(rec)
         s == Skips(f)
     IN  /\ IsDone(concluded(f, s))
         /\ rec' = end(rec, "retry",
                       [concluded(f, s) EXCEPT !.reason = "CouldntGetPipelineResult"])
  /\ UNCHANGED <<queued, snooze>>
  /\ UNCHANGED env

-----------------------------------------------------------------------------
\* The deadlines of which the first one requeues the key.
waitTime(st) ==
  IF ~st.started THEN {}
  ELSE IF ~st.fin /\ "tasks" \in Timeouts THEN {"tasks"}
  ELSE Timeouts \cap (IF st.fin THEN {"pipeline", "finally"} ELSE {"pipeline"})

(***************************************************************************)
(* The generated reconciler writes the status if the reconcile changed it: *)
(* on a conflict it reads the object again and overwrites its status.      *)
(* Then it reports the outcome to the work queue.                          *)
(***************************************************************************)
UpdateStatus ==
  /\ rec.pc = "write"
  /\ pr' = IF rec.st # rec.orig THEN [pr EXCEPT !.st = rec.st] ELSE pr
  /\ rec' = NoReconcile
  /\ queued' = (\/ queued
                \/ rec.out \in {"retry", "resolving"}
                \/ rec.out = "ok" /\ waitTime(rec.st) \cap elapsed # {})
  /\ snooze' = IF rec.out \in {"ok", "resolving"} /\ waitTime(rec.st) \cap elapsed = {}
                 THEN snooze \cup waitTime(rec.st) ELSE snooze
  /\ UNCHANGED <<prCache, runs, lister, elapsed, faults>>

UpdateStatusFails ==
  /\ rec.pc = "write"
  /\ rec.st # rec.orig
  /\ faults < MaxFaults
  /\ faults' = faults + 1
  /\ rec' = NoReconcile
  /\ queued' = TRUE
  /\ UNCHANGED <<pr, prCache, runs, lister, elapsed, snooze>>

-----------------------------------------------------------------------------
(***************************************************************************)
(* The environment.                                                        *)
(***************************************************************************)
\* The user changes spec.status; validation refuses it once the run is done.
SetSpecStatus ==
  /\ ~IsDone(pr.st)
  /\ \E u \in UserSteps :
       /\ pr.spec = u[1]
       /\ pr' = [pr EXCEPT !.spec = u[2]]
  /\ UNCHANGED <<prCache, runs, lister, elapsed, rec, queued, snooze, faults>>

\* The informers catch up; their events enqueue the key.
InformPipelineRun ==
  /\ prCache # pr
  /\ prCache' = pr
  /\ queued' = TRUE
  /\ UNCHANGED <<pr, runs, lister, elapsed, rec, snooze, faults>>

\* Mutant: a child run's event does not enqueue its owner.
informSilently(ts) ==
  /\ \E r \in Run : r[1] \in ts /\ lister[r] # runs[r]
  /\ lister' = [r \in Run |-> IF r[1] \in ts THEN runs[r] ELSE lister[r]]
  /\ UNCHANGED <<pr, prCache, runs, elapsed, rec, queued, snooze, faults>>

InformRuns(ts) ==
  /\ \E r \in Run : r[1] \in ts /\ lister[r] # runs[r]
  /\ lister' = [r \in Run |-> IF r[1] \in ts THEN runs[r] ELSE lister[r]]
  /\ queued' = TRUE
  /\ UNCHANGED <<pr, prCache, runs, elapsed, rec, snooze, faults>>

InformTaskRuns == InformRuns(Tasks \ CustomTasks)
InformCustomRuns == InformRuns(CustomTasks)

resultsUsed(t) == \E u \in Tasks : t \in ResultRefs[u]

\* A child run ends.  One that was asked to stop may do so or end by itself.
RunEnds(r) ==
  /\ runs[r].st = "Running"
  /\ \E st \in DoneState, res \in BOOLEAN :
       /\ st = "Failed" => r[1] \in MayFail
       /\ st = "Cancelled" => runs[r].req # ""
       /\ res => st = "Succeeded" /\ resultsUsed(r[1])
       /\ st = "Succeeded" /\ resultsUsed(r[1]) /\ ~res => r[1] \in MayOmitResults
       /\ runs' = [runs EXCEPT ![r] = [@ EXCEPT !.st = st, !.res = res]]
  /\ UNCHANGED <<pr, prCache, lister, elapsed, rec, queued, snooze, faults>>

\* A deadline passes: the tasks timeout before the pipeline's, that one
\* before the long one, the finally timeout after finally has started.
DeadlinePasses ==
  /\ pr.st.started
  /\ \E d \in Timeouts \ elapsed :
       /\ d = "pipeline" => "tasks" \notin Timeouts \ elapsed
       /\ d = "long" => "pipeline" \in elapsed
       /\ d = "finally" => pr.st.fin
       /\ elapsed' = elapsed \cup {d}
       /\ queued' = (queued \/ d \in snooze)
       /\ snooze' = IF d \in snooze THEN {} ELSE snooze
  /\ UNCHANGED <<pr, prCache, runs, lister, rec, faults>>

\* The controller restarts, or another replica takes over.
Crash ==
  /\ faults < MaxFaults
  /\ faults' = faults + 1
  /\ rec' = NoReconcile
  /\ prCache' = pr
  /\ lister' = runs
  /\ queued' = TRUE
  /\ snooze' = {}
  /\ UNCHANGED <<pr, runs, elapsed>>

\* Everything is at rest.
quiet ==
  /\ rec.pc = "idle"
  /\ ~queued
  /\ prCache = pr
  /\ lister = runs
  /\ \A r \in Run : runs[r].st # "Running"

Rest ==
  /\ quiet
  /\ UNCHANGED vars

Begin ==
  \/ ReconcileDone
  \/ ReconcileLongTimeout
  \/ ReconcileCancelled
  \/ ReconcilePending
  \/ Reconcile
  \/ ReconcileInvalid
  \/ ReconcileRetry
  \/ ReconcileResolving

Patching ==
  \/ PatchRun
  \/ PatchRunFails
  \/ CancelDone
  \/ GracefulCancelDone
  \/ TaskTimeoutsDone
  \/ PipelineTimeoutDone
  \/ LongTimeoutDone

Scheduling ==
  \/ RunNextSchedulableTask
  \/ CreateRun
  \/ CreateRunFails
  \/ SkipFinalTask
  \/ ScheduleDone

Finishing ==
  \/ Conclude
  \/ ConcludeWithoutResult
  \/ UpdateStatus
  \/ UpdateStatusFails

Reconciler == Begin \/ Patching \/ Scheduling \/ Finishing

Environment ==
  \/ SetSpecStatus
  \/ InformPipelineRun
  \/ InformTaskRuns
  \/ InformCustomRuns
  \/ \E r \in Run : RunEnds(r)
  \/ DeadlinePasses
  \/ Crash
  \/ Rest

Next == Reconciler \/ Environment

Spec == Init /\ [][Next]_vars

(***************************************************************************)
(* A worker takes a queued key and runs the reconcile to its end, watches  *)
(* deliver, and child runs end.  The user, the clock and faults need not   *)
(* do anything.                                                            *)
(***************************************************************************)
FairSpec ==
  /\ Spec
  /\ WF_vars(Reconciler)
  /\ WF_vars(InformPipelineRun)
  /\ WF_vars(InformTaskRuns)
  /\ WF_vars(InformCustomRuns)
  /\ \A r \in Run : WF_vars(RunEnds(r))

-----------------------------------------------------------------------------
(***************************************************************************)
(* Properties.                                                             *)
(***************************************************************************)
\* The variables keep their types.
TypeOK ==
  /\ pr \in [spec : SpecStatus, st : Status]
  /\ prCache \in [spec : SpecStatus, st : Status]
  /\ runs \in [Run -> RunRecord]
  /\ lister \in [Run -> RunRecord]
  /\ elapsed \subseteq Deadline
  /\ rec \in ReconcileType
  /\ queued \in BOOLEAN
  /\ snooze \subseteq Deadline
  /\ faults \in 0..MaxFaults

existing(t) == {r \in RunsOf(t) : runs[r].st # "Absent"}
created(t) == \E r \in RunsOf(t) : runs[r].st = "Absent" /\ runs'[r].st # "Absent"
ended(t) == \A r \in existing(t) : runs[r].st \in DoneState

allToldToStop == \A r \in Run : runs[r].st = "Running" => runs[r].req # ""

\* What must hold of the parents of a task when a run of it is created.
parentAllows(p) ==
  /\ ended(p)
  /\ p \in OnErrorContinue \/ \A r \in existing(p) : runs[r].st = "Succeeded"

(***************************************************************************)
(* A run of a DAG task is created only when no run of a task it depends on *)
(* is still going in the cluster, and none has failed unless that task has *)
(* onError: continue (DAGExecutionQueue, IsStopping, GetCandidateTasks).   *)
(***************************************************************************)
DependencyOrder ==
  [][\A t \in DagTasks : created(t) => \A p \in Prev[t] : parentAllows(p)]_vars

(***************************************************************************)
(* A run of a final task is created only when no run of a DAG task is      *)
(* still going in the cluster (GetFinalTasks), and from then on no run of  *)
(* a DAG task is created.                                                  *)
(***************************************************************************)
FinallyLast ==
  [][/\ (\E t \in FinalTasks : created(t)) => \A t \in DagTasks : ended(t)
     /\ (\E t \in DagTasks : created(t)) => \A t \in FinalTasks : existing(t) = {}]_vars

(***************************************************************************)
(* When a PipelineRun is marked Cancelled, every child run in the cluster  *)
(* has ended or has been asked to stop (cancelPipelineRun patches what     *)
(* status.childReferences names).                                          *)
(***************************************************************************)
CancelledStopsAll ==
  pr.st.reason = "Cancelled" => allToldToStop

(***************************************************************************)
(* A PipelineRun that ended by itself (GetPipelineConditionStatus counted  *)
(* no incomplete task) has no child run still going.                       *)
(***************************************************************************)
DoneMeansQuiet ==
  pr.st.reason \in {"Succeeded", "Completed", "Failed", "FailedValidation"} =>
    \A t \in Tasks : ended(t)

(***************************************************************************)
(* A PipelineRun that succeeded ran every task in its full width, each run *)
(* succeeding unless onError: continue; if Completed, a task may have been *)
(* skipped instead.                                                        *)
(***************************************************************************)
SuccessMeansComplete ==
  IsDone(pr.st) /\ pr.st.reason \in SucceededReason =>
    \A t \in Tasks :
      \/ \A r \in RunsOf(t) : \/ runs[r].st = "Succeeded"
                              \/ runs[r].st = "Failed" /\ t \in OnErrorContinue
      \/ pr.st.reason = "Completed" /\ t \in pr.st.skipped

(***************************************************************************)
(* Unless it is cancelled, times out or is given up, a PipelineRun ends    *)
(* with every final task started, or reported as skipped.                  *)
(***************************************************************************)
FinallyGuaranteed ==
  pr.st.reason \in {"Succeeded", "Completed", "Failed", "FailedValidation"} =>
    \A t \in FinalTasks : existing(t) # {} \/ t \in pr.st.skipped

(***************************************************************************)
(* A task that a PipelineRun which is done reports as skipped has no run.  *)
(***************************************************************************)
SkippedNeverRun ==
  IsDone(pr.st) => \A t \in pr.st.skipped : existing(t) = {}

(***************************************************************************)
(* Once done, a PipelineRun keeps its condition and starts no run.         *)
(***************************************************************************)
DoneIsFinal ==
  [][IsDone(pr.st) => pr'.st.reason = pr.st.reason /\ \A t \in Tasks : ~created(t)]_vars

(***************************************************************************)
(* status.childReferences loses no entry that names a run in the cluster   *)
(* (updatePipelineRunStatusFromChildRefs: "We never remove").              *)
(***************************************************************************)
ChildRefsKept ==
  [][pr.st.childRefs \cap exists(runs) \subseteq pr'.st.childRefs]_vars

(***************************************************************************)
(* A reconcile that began after the pipeline timeout, and in which no API  *)
(* call failed, ends the PipelineRun and leaves no child run that has not  *)
(* ended or been asked to stop.                                            *)
(***************************************************************************)
TimeoutEnforced ==
  rec.pc = "write" /\ rec.late /\ rec.clean => IsDone(rec.st) /\ allToldToStop

(***************************************************************************)
(* A task that has a run when a reconcile sets out to schedule has all its *)
(* runs: its fan-out was created at once (comment in reconcile).           *)
(***************************************************************************)
FannedOutAtOnce ==
  rec.pc = "plan" =>
    \A t \in Tasks : existing(t) # {} => existing(t) = RunsOf(t)

(***************************************************************************)
(* When nothing is left to happen in the cluster the PipelineRun is done,  *)
(* or pending: it never waits for a timeout alone.                         *)
(***************************************************************************)
NeverStuck ==
  quiet => IsDone(pr.st) \/ pr.spec = "Pending"

(***************************************************************************)
(* Every PipelineRun is eventually done.                                   *)
(***************************************************************************)
Completes == <>IsDone(pr.st)

(***************************************************************************)
(* A task whose matrix has an empty array is eventually reported as        *)
(* skipped (docs/matrix.md, skipBecauseEmptyArrayInMatrixParams).          *)
(***************************************************************************)
EmptyMatrixSkipped == <>(EmptyMatrix \subseteq pr.st.skipped)

TaskRuns == {r \in Run : r[1] \notin CustomTasks}

Child(r) == INSTANCE ChildRun WITH st <- runs[r].st, req <- runs[r].req

(***************************************************************************)
(* The interface between the two reconcilers: every TaskRun of a           *)
(* PipelineRun is created once, asked to stop only while it runs, and      *)
(* never taken back, which is what ChildRun allows and what the TaskRun    *)
(* reconciler is shown to implement (ImplementsChildRun in TaskRun.tla).   *)
(***************************************************************************)
ChildrenAreChildRuns ==
  /\ \A r \in TaskRuns : Child(r)!Init
  /\ [][\A r \in TaskRuns : [Child(r)!Next]_(Child(r)!vars)]_vars
=============================================================================
