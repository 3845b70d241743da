-------------------------- MODULE PipelineRunFacts --------------------------
(***************************************************************************)
(* What one reconcile of a PipelineRun concludes from what it sees: the    *)
(* methods of ResolvedPipelineTask and PipelineRunFacts                    *)
(* (pkg/reconciler/pipelinerun/resources).                                 *)
(*                                                                         *)
(* The facts f of a reconcile are a record                                 *)
(*   view  what the TaskRun and CustomRun listers returned, by run,        *)
(*   spec  spec.status of the PipelineRun,                                 *)
(*   vf    ValidationFailedTask,                                           *)
(*   el    the deadlines that have passed, by the reconciler's clock.      *)
(***************************************************************************)
EXTENDS Naturals, Sequences, FiniteSets

CONSTANTS
  DagTasks,             \* spec.tasks
  FinalTasks,           \* spec.finally
  TaskOrder,            \* the order the pipeline lists its tasks in
  Prev,                 \* Node.Prev of the DAG tasks, as dag.Build made it
  ResultRefs,           \* the tasks whose results a task uses
  WhenFalse,            \* tasks whose when expressions do not allow execution
  OnErrorContinue,      \* tasks with onError: continue
  EmptyMatrix,          \* tasks with an empty array in their matrix
  CustomTasks,          \* tasks run by a CustomRun, not a TaskRun
  Width                 \* how many runs a task fans out into

Tasks == DagTasks \cup FinalTasks
RunsOf(t) == {<<t, i>> : i \in 1..Width[t]}
Run == UNION {RunsOf(t) : t \in Tasks}

\* Position of a task in the pipeline.
At(t) == CHOOSE i \in 1..Len(TaskOrder) : TaskOrder[i] = t

(***************************************************************************)
(* What validation and dag.Build establish about a pipeline.  Two things   *)
(* are narrower than the code: a task is listed after the tasks it depends *)
(* on, and a task whose results are used is not a matrix.                  *)
(***************************************************************************)
ASSUME PipelineAssumption ==
  /\ IsFiniteSet(Tasks)
  /\ DagTasks \cap FinalTasks = {}
  /\ Prev \in [DagTasks -> SUBSET DagTasks]
  /\ ResultRefs \in [Tasks -> SUBSET DagTasks]
  /\ \A t \in DagTasks : ResultRefs[t] \subseteq Prev[t]
  /\ WhenFalse \subseteq Tasks
  /\ OnErrorContinue \subseteq Tasks
  /\ EmptyMatrix \subseteq Tasks
  /\ CustomTasks \subseteq Tasks
  /\ Width \in [Tasks -> Nat \ {0}]

ASSUME OrderAssumption ==
  /\ TaskOrder \in Seq(Tasks)
  /\ \A t \in Tasks : \E i \in 1..Len(TaskOrder) : TaskOrder[i] = t
  /\ \A t \in DagTasks : \A p \in Prev[t] : At(p) < At(t)
  /\ \A t \in Tasks : \A p \in ResultRefs[t] : Width[p] = 1

(***************************************************************************)
(* A child run as the API server holds it: its state, what spec.status     *)
(* asks of it ("Cancel", or "TimeOut" for a cancel with the timeout        *)
(* message) and whether it holds the results other tasks use.              *)
(***************************************************************************)
RunState == {"Absent", "Running", "Succeeded", "Failed", "Cancelled"}
DoneState == {"Succeeded", "Failed", "Cancelled"}
RunRecord == [st : RunState, req : {"", "Cancel", "TimeOut"}, res : BOOLEAN]
Absent == [st |-> "Absent", req |-> "", res |-> FALSE]
Created == [st |-> "Running", req |-> "", res |-> FALSE]

-----------------------------------------------------------------------------
\* ResolvedPipelineTask: the runs of a task that the listers returned.
runsSeen(f, t) == {r \in RunsOf(t) : f.view[r].st # "Absent"}
\* Mutant: a task whose runs have ended does not count as scheduled.
isScheduledWhileRunning(f, t) == \E r \in RunsOf(t) : f.view[r].st = "Running"
isScheduled(f, t) == runsSeen(f, t) # {}
runsDone(f, t) == \A r \in runsSeen(f, t) : f.view[r].st \in DoneState

\* Mutant: no failure is enough.
noneFailed(f, t) ==
  isScheduled(f, t) /\ \A r \in runsSeen(f, t) : f.view[r].st \notin {"Failed", "Cancelled"}

isSuccessful(f, t) ==
  isScheduled(f, t) /\ \A r \in runsSeen(f, t) : f.view[r].st = "Succeeded"

haveAnyRunsFailed(f, t) ==
  \E r \in runsSeen(f, t) : f.view[r].st \in {"Failed", "Cancelled"}

isFailure(f, t) == haveAnyRunsFailed(f, t) /\ runsDone(f, t)

isCancelled(f, t) ==
  runsDone(f, t) /\ \E r \in runsSeen(f, t) : f.view[r].st = "Cancelled"

isCancelledForTimeOut(f, t) ==
  /\ runsDone(f, t)
  /\ \E r \in runsSeen(f, t) : f.view[r].st = "Cancelled" /\ f.view[r].req = "TimeOut"

finished(f, t) == isSuccessful(f, t) \/ isFailure(f, t)

IsRunning(f, t) == isScheduled(f, t) /\ ~finished(f, t)

\* Tasks that are resolved to no Task: their ResolvedTask is a nil pointer.
NilResolvedTask == CustomTasks \cup EmptyMatrix

\* isValidationFailed compares ResolvedTask pointers, so one task with a nil
\* pointer that fails validation stands for all of them.
isValidationFailed(f, t) ==
  \/ t \in f.vf
  \/ t \in NilResolvedTask /\ f.vf \cap NilResolvedTask # {}

\* The references of t that cannot be resolved: ResolveResultRefs and
\* CheckMissingResultReferences.
unresolved(f, t) ==
  {p \in ResultRefs[t] :
     ~finished(f, p) \/ \E r \in runsSeen(f, p) : ~f.view[r].res}

missingResults(f, t) ==
  \E p \in ResultRefs[t] :
    ~isScheduled(f, p) \/ \E r \in runsSeen(f, p) : ~f.view[r].res

\* Mutant: validation failures do not stop the pipeline.
stoppedByRunsOnly(f) == \E t \in DagTasks \ OnErrorContinue : isFailure(f, t)

IsStopping(f) ==
  \E t \in DagTasks \ OnErrorContinue : isFailure(f, t) \/ isValidationFailed(f, t)

-----------------------------------------------------------------------------
\* Mutant: a task is done as soon as it has a run.
doneOnceScheduled(f, s, t) ==
  s[t] # "None" \/ isScheduled(f, t) \/ isValidationFailed(f, t)

\* isDone, given the skipping reasons s of the tasks it is asked about.
isDone(f, s, t) == s[t] # "None" \/ finished(f, t) \/ isValidationFailed(f, t)

\* The reference the resolution of t's results fails at.
firstUnresolved(f, t) ==
  CHOOSE p \in unresolved(f, t) : \A q \in unresolved(f, t) : At(p) <= At(q)

(***************************************************************************)
(* ResolvedPipelineTask.skip for a DAG task, given the skipping reasons s  *)
(* of its parents.  A parent that is skipped for its when expressions does *)
(* not make t skipped; any other skipped parent does.                      *)
(***************************************************************************)
skip(f, s, t) ==
  LET parentsDone == \A p \in Prev[t] : isDone(f, s, p)
  IN  IF isScheduled(f, t) \/ isValidationFailed(f, t) THEN "None"
      ELSE IF IsStopping(f) THEN "Stopping"
      ELSE IF f.spec = "CancelledRunFinally" THEN "GracefullyCancelled"
      ELSE IF f.spec = "StoppedRunFinally" THEN "GracefullyStopped"
      ELSE IF parentsDone /\ t \in WhenFalse THEN "When"
      ELSE IF \E p \in Prev[t] : s[p] \notin {"None", "When"} THEN "ParentTasks"
      ELSE IF /\ parentsDone
              /\ unresolved(f, t) # {}
              /\ t \in OnErrorContinue \/ s[firstUnresolved(f, t)] = "When"
           THEN "MissingResults"
      ELSE IF parentsDone /\ f.el \cap {"pipeline", "tasks"} # {} THEN "TimedOut"
      ELSE IF t \in EmptyMatrix THEN "EmptyMatrix"
      ELSE "None"

SkipReason ==
  {"None", "Stopping", "GracefullyCancelled", "GracefullyStopped", "When",
   "ParentTasks", "MissingResults", "TimedOut", "EmptyMatrix"}

\* Skip over the whole DAG: the recursion through the parents.
Skips(f) ==
  LET s[t \in DagTasks] == skip(f, s, t) IN s

(***************************************************************************)
(* dag.GetCandidateTasks: the DAG tasks reached from the roots through     *)
(* done tasks, the candidates and the error (see DagCandidates).           *)
(***************************************************************************)
visited(done) ==
  LET v[n \in DagTasks] == Prev[n] = {} \/ \E p \in Prev[n] \cap done : v[p]
  IN  {n \in DagTasks : v[n]}

GetCandidateTasks(done) == {n \in DagTasks \ done : Prev[n] \subseteq done}

invalidDoneTasks(done) == ~(done \subseteq visited(done))

completedOrSkippedDAGTasks(f, s) == {t \in DagTasks : isDone(f, s, t)}

\* DAGExecutionQueue: nothing new is started once the run is to stop.
DAGExecutionQueue(f, s) ==
  IF f.spec = "CancelledRunFinally" \/ f.spec = "StoppedRunFinally" \/ IsStopping(f)
    THEN {}
    ELSE {t \in GetCandidateTasks(completedOrSkippedDAGTasks(f, s)) : ~isScheduled(f, t)}

DAGExecutionError(f, s) ==
  f.spec # "CancelledRunFinally" /\ invalidDoneTasks(completedOrSkippedDAGTasks(f, s))

(***************************************************************************)
(* SkipCache.  Skip is memoised; a task that still has result references   *)
(* (ResolvePipelineTask replaced the ones that can be resolved) and is not *)
(* skipped for them empties the cache.  When the tasks have been asked in  *)
(* their order, the reasons still cached are those of the tasks that come  *)
(* after the last one that emptied it.                                     *)
(***************************************************************************)
resetsCache(f, s, t) ==
  /\ unresolved(f, t) # {}
  /\ ~isScheduled(f, t)
  /\ s[t] \in {"None", "TimedOut", "EmptyMatrix"}
  /\ \A p \in Prev[t] : isDone(f, s, p)

skipCache(f, s) ==
  {t \in DagTasks : \A u \in DagTasks : resetsCache(f, s, u) => At(u) <= At(t)}

\* checkDAGTasksDone once validation failures are known (f): a cached
\* reason, from before they were known (s), is used as it is.
checkDAGTasksDone(f, s, cache, fresh) ==
  \A t \in DagTasks :
    isDone(f, [u \in DagTasks |-> IF u \in cache THEN s[u] ELSE fresh[u]], t)

\* IsFinallySkipped for a final task, once all DAG tasks are done.
finallySkip(f, t) ==
  IF isScheduled(f, t) THEN "None"
  ELSE IF unresolved(f, t) # {} THEN "MissingResults"
  ELSE IF t \in WhenFalse THEN "When"
  ELSE IF "pipeline" \in f.el THEN "PipelineTimedOut"
  ELSE IF "finally" \in f.el THEN "FinallyTimedOut"
  ELSE IF t \in EmptyMatrix THEN "EmptyMatrix"
  ELSE "None"

-----------------------------------------------------------------------------
\* Mutant: the failure of every task is ignored.
alwaysIgnored(t) == "IgnoredFailed"

\* The count of a task whose runs failed.
failureCount(t) == IF t \in OnErrorContinue THEN "IgnoredFailed" ELSE "Failed"

(***************************************************************************)
(* getPipelineTasksCount: the count a task falls under.  fs are the        *)
(* skipping reasons of the final tasks.                                    *)
(***************************************************************************)
countedAs(f, s, fs, t) ==
  IF isSuccessful(f, t) THEN "Succeeded"
  ELSE IF isCancelledForTimeOut(f, t) THEN "Failed"
  ELSE IF isCancelled(f, t) THEN "Cancelled"
  ELSE IF isFailure(f, t) THEN failureCount(t)
  ELSE IF isValidationFailed(f, t) THEN "ValidationFailed"
  ELSE IF t \in DagTasks /\ s[t] = "TimedOut" THEN "SkippedDueToTimeout"
  ELSE IF t \in FinalTasks /\ fs[t] = "FinallyTimedOut" THEN "SkippedDueToTimeout"
  ELSE IF t \in DagTasks /\ s[t] # "None" THEN "Skipped"
  ELSE IF t \in FinalTasks /\ fs[t] # "None" THEN "Skipped"
  ELSE "Incomplete"

finallySkips(f, s) ==
  [t \in FinalTasks |->
     IF \A u \in DagTasks : isDone(f, s, u) THEN finallySkip(f, t) ELSE "None"]

\* GetPipelineConditionStatus: the reason of the Succeeded condition.
GetPipelineConditionStatus(f, s) ==
  LET counts == {countedAs(f, s, finallySkips(f, s), t) : t \in Tasks}
      graceful == f.spec \in {"CancelledRunFinally", "StoppedRunFinally"}
  IN  IF "pipeline" \in f.el THEN "TimedOut"
      ELSE IF "Incomplete" \notin counts THEN
        IF "ValidationFailed" \in counts THEN "FailedValidation"
        ELSE IF counts \cap {"Failed", "SkippedDueToTimeout"} # {} THEN "Failed"
        ELSE IF graceful \/ "Cancelled" \in counts THEN "Cancelled"
        ELSE IF "Skipped" \in counts THEN "Completed"
        ELSE "Succeeded"
      ELSE IF f.spec = "CancelledRunFinally" THEN "CancelledRunningFinally"
      ELSE IF f.spec = "StoppedRunFinally" THEN "StoppedRunningFinally"
      ELSE IF \/ "Cancelled" \in counts
              \/ "Failed" \in counts /\ \A t \in FinalTasks :
                                         finished(f, t) \/ isValidationFailed(f, t)
           THEN "Stopping"
      ELSE "Running"

\* Mutant: final tasks are not reported.
skippedDAGTasks(f, s) == {t \in DagTasks : s[t] # "None"}

\* GetSkippedTasks.
GetSkippedTasks(f, s) ==
  {t \in DagTasks : s[t] # "None"} \cup {t \in FinalTasks : finallySkips(f, s)[t] # "None"}
=============================================================================
