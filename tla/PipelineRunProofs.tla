------------------------- MODULE PipelineRunProofs -------------------------
(***************************************************************************)
(* Proofs about PipelineRun, for every pipeline and every environment:     *)
(* types, what one reconcile concludes from what it sees, dependency       *)
(* order, what each step does to the status, and that a final condition    *)
(* and the child references stay.                                          *)
(***************************************************************************)
EXTENDS PipelineRun, WellFoundedInduction, TLAPS

-----------------------------------------------------------------------------
(***************************************************************************)
(* Types.                                                                  *)
(***************************************************************************)
\* The runs of a task are runs.
LEMMA RunsOfType == \A t \in Tasks : RunsOf(t) \subseteq Run
BY DEF Run

\* The record of no reconcile has the type of one.
LEMMA NoReconcileType == NoReconcile \in ReconcileType
BY DEF NoReconcile, ReconcileType, NewStatus, Status, SpecStatus, OngoingReason,
       Absent, RunRecord, RunState

\* What a reconcile does to its own record keeps the type of the record.
LEMMA EndType ==
  ASSUME NEW R \in ReconcileType, NEW st \in Status,
         NEW out \in {"ok", "nil", "retry", "permanent", "resolving"}
  PROVE  end(R, out, st) \in ReconcileType
BY Zenon DEF end, ReconcileType

\* So does going on to patch runs (cancelPipelineTaskRuns, timeoutPipelineTasks).
LEMMA PatchType ==
  ASSUME NEW R \in ReconcileType, NEW todo \in SUBSET Run,
         NEW why \in {"cancel", "graceful", "tasks", "pipeline", "long"}
  PROVE  patch(R, why, todo) \in ReconcileType
BY Zenon DEF patch, ReconcileType

\* A status with another reason for its condition is a status.
LEMMA ReasonType ==
  ASSUME NEW st \in Status,
         NEW reason \in SucceededReason \cup FailedReason \cup OngoingReason
  PROVE  [st EXCEPT !.reason = reason] \in Status
BY DEF Status

\* Applying the tasks and finally timeouts keeps the type.
LEMMA ApplyTaskTimeoutsType ==
  ASSUME NEW R \in ReconcileType
  PROVE  applyTaskTimeouts(R) \in ReconcileType
<1>1. runsOfTasks(R.st, tasksToTimeOut(R)) \in SUBSET Run
  BY Zenon DEF runsOfTasks, ReconcileType, Status
<1>2. [R EXCEPT !.pc = "plan"] \in ReconcileType
  BY Zenon DEF ReconcileType
<1> QED  BY <1>1, <1>2, PatchType DEF applyTaskTimeouts

\* Applying a graceful cancel keeps the type.
LEMMA ApplyGracefulCancelType ==
  ASSUME NEW R \in ReconcileType
  PROVE  applyGracefulCancel(R) \in ReconcileType
<1>1. R.st.childRefs \in SUBSET Run
  BY Zenon DEF ReconcileType, Status
<1> QED  BY <1>1, PatchType, ApplyTaskTimeoutsType DEF applyGracefulCancel

\* updatePipelineRunStatusFromInformer keeps the type.
LEMMA SyncChildRefsType ==
  ASSUME NEW R \in ReconcileType
  PROVE  syncChildRefs(R) \in ReconcileType
<1>1. exists(R.view) \subseteq Run
  BY DEF exists
<1>2. [R.st EXCEPT !.childRefs = @ \cup exists(R.view)] \in Status
  BY Zenon, <1>1 DEF Status, ReconcileType
<1> QED  BY Zenon, <1>2 DEF syncChildRefs, ReconcileType

\* A reconcile that has just begun has its type.
LEMMA BegunType ==
  ASSUME TypeOK
  PROVE  begun \in ReconcileType
<1> DEFINE R == [NoReconcile EXCEPT !.spec = prCache.spec, !.orig = prCache.st,
                   !.st = prCache.st, !.view = lister,
                   !.late = prCache.st.started /\ "pipeline" \in elapsed]
<1>1. R \in ReconcileType
  <2>1. (prCache.st.started /\ "pipeline" \in elapsed) \in BOOLEAN
    OBVIOUS
  <2> QED  BY Zenon, <2>1, NoReconcileType DEF TypeOK, ReconcileType
<1>2. [R.st EXCEPT !.started = TRUE, !.reason = "Started"] \in Status
  <2>1. R.st \in Status
    BY Zenon, <1>1 DEF ReconcileType
  <2> HIDE DEF R
  <2> QED  BY Zenon, <2>1 DEF Status, OngoingReason
<1> HIDE DEF R
<1>3. InitializeConditions(R) \in ReconcileType
  BY <1>1, <1>2, ZenonT(60) DEF InitializeConditions, ReconcileType
<1> QED  BY <1>3 DEF begun, R

\* runNextSchedulableTask, up to the creation of runs, keeps the type.
LEMMA ScheduleType ==
  ASSUME NEW R \in ReconcileType, NEW f, NEW s, NEW vf \in SUBSET DagTasks, NEW fresh
  PROVE  schedule(R, f, s, vf, fresh) \in ReconcileType
<1> DEFINE g == [f EXCEPT !.vf = vf]
           dagDone == checkDAGTasksDone(g, s, skipCache(f, s), fresh)
           GetFinalTasks == {t \in FinalTasks : dagDone /\ ~isScheduled(f, t)}
           fNext == {t \in GetFinalTasks : unresolved(f, t) = {}}
           IsFinalTaskStarted == dagDone /\ \E t \in FinalTasks : isScheduled(f, t)
           next == (IF vf = {} THEN DAGExecutionQueue(f, s) ELSE {}) \cup fNext
           todo == UNION {GetNamesOfTaskRuns(R.st, t) : t \in next}
           fin == R.st.fin \/ IsFinalTaskStarted \/ fNext # {}
<1>1. next \subseteq Tasks
  BY DEF DAGExecutionQueue, GetCandidateTasks, Tasks
<1>2. \A t \in Tasks : GetNamesOfTaskRuns(R.st, t) \subseteq Run
  BY Zenon, RunsOfType DEF GetNamesOfTaskRuns, runsOfTasks, ReconcileType, Status
<1>3. todo \in SUBSET Run
  BY <1>1, <1>2
<1>4. fin \in BOOLEAN
  OBVIOUS
<1>5. schedule(R, f, s, vf, fresh) =
        [R EXCEPT !.pc = "create", !.vf = vf, !.st.fin = fin, !.todo = todo]
  BY DEF schedule
<1> HIDE DEF fin, todo
<1>6. [R.st EXCEPT !.fin = fin] \in Status
  BY Zenon, <1>4 DEF ReconcileType, Status
<1> QED  BY Zenon, <1>3, <1>5, <1>6 DEF ReconcileType

\* The status reconcile ends with is a status.
LEMMA ConcludedType ==
  ASSUME TypeOK, NEW f, NEW s
  PROVE  concluded(f, s) \in Status
<1>1. GetPipelineConditionStatus(f, s) \in SucceededReason \cup FailedReason \cup OngoingReason
  BY DEF GetPipelineConditionStatus, SucceededReason, FailedReason, OngoingReason
<1>2. exists(rec.view) \in SUBSET Run
  BY DEF exists
<1>3. GetSkippedTasks(f, s) \in SUBSET Tasks
  BY DEF GetSkippedTasks, Tasks
<1>4. rec.st \in Status
  BY Zenon DEF TypeOK, ReconcileType
<1> QED  BY Zenon, <1>1, <1>2, <1>3, <1>4 DEF concluded, Status

\* The initial state has the types.
LEMMA InitTypeOK == Init => TypeOK
<1> SUFFICES ASSUME Init PROVE TypeOK
  OBVIOUS
<1>1. NewStatus \in Status
  BY DEF NewStatus, Status, OngoingReason
<1>2. [r \in Run |-> Absent] \in [Run -> RunRecord]
  BY DEF Absent, RunRecord, RunState
<1> QED  BY <1>1, <1>2, NoReconcileType, EnvironmentAssumption DEF Init, TypeOK

\* The first part of ReconcileKind keeps the types.
LEMMA BeginTypeOK == TypeOK /\ Begin => TypeOK'
<1> SUFFICES ASSUME TypeOK, Begin PROVE TypeOK'
  OBVIOUS
<1>1. begun \in ReconcileType
  BY BegunType
<1>2. syncChildRefs(begun) \in ReconcileType
  BY <1>1, SyncChildRefsType
<1>3. [syncChildRefs(begun) EXCEPT !.clean = FALSE] \in ReconcileType
  BY Zenon, <1>2 DEF ReconcileType
<1>4. \A R \in ReconcileType : R.st \in Status
  BY Zenon DEF ReconcileType
<1>5. prCache.st.childRefs \in SUBSET Run
  BY DEF TypeOK, Status
<1>6. ASSUME NEW R \in ReconcileType, NEW out \in {"ok", "nil", "retry", "permanent", "resolving"},
             NEW reason \in {"Pending", "Invalid", "Resolving"}
      PROVE  end(R, out, [R.st EXCEPT !.reason = reason]) \in ReconcileType
  BY Zenon, <1>4, EndType, ReasonType DEF FailedReason, OngoingReason
<1>7. rec' \in ReconcileType
  <2>1. CASE ReconcileDone
    BY <2>1 DEF ReconcileDone, TypeOK
  <2>2. CASE ReconcileLongTimeout
    BY <2>2, <1>1, <1>5, PatchType DEF ReconcileLongTimeout
  <2>3. CASE ReconcileCancelled
    BY <2>3, <1>1, <1>5, PatchType DEF ReconcileCancelled
  <2>4. CASE ReconcilePending
    BY Zenon, <2>4, <1>2, <1>6 DEF ReconcilePending
  <2>5. CASE Reconcile
    BY <2>5, <1>2, ApplyGracefulCancelType DEF Reconcile
  <2>6. CASE ReconcileInvalid
    BY Zenon, <2>6, <1>2, <1>6 DEF ReconcileInvalid
  <2>7. CASE ReconcileRetry
    BY Zenon, <2>7, <1>3, <1>4, EndType DEF ReconcileRetry
  <2>8. CASE ReconcileResolving
    BY Zenon, <2>8, <1>2, <1>6 DEF ReconcileResolving
  <2> QED  BY <2>1, <2>2, <2>3, <2>4, <2>5, <2>6, <2>7, <2>8 DEF Begin
<1>8. queued' \in BOOLEAN /\ UNCHANGED <<pr, prCache, runs, lister, elapsed, snooze>>
  BY Zenon DEF Begin, ReconcileDone, ReconcileLongTimeout, ReconcileCancelled, ReconcilePending,
         Reconcile, ReconcileInvalid, ReconcileRetry, ReconcileResolving, reconciles, Dequeue
<1>9. faults' \in 0..MaxFaults
  BY EnvironmentAssumption
     DEF Begin, ReconcileDone, ReconcileLongTimeout, ReconcileCancelled, ReconcilePending,
         Reconcile, ReconcileInvalid, ReconcileRetry, ReconcileResolving, TypeOK
<1> QED  BY <1>7, <1>8, <1>9 DEF TypeOK

\* Patching child runs keeps the types.
LEMMA PatchingTypeOK == TypeOK /\ Patching => TypeOK'
<1> SUFFICES ASSUME TypeOK, Patching PROVE TypeOK'
  OBVIOUS
<1>1. rec \in ReconcileType /\ rec.st \in Status
  BY Zenon DEF TypeOK, ReconcileType
<1>2. ASSUME NEW out \in {"ok", "nil", "retry", "permanent", "resolving"},
             NEW reason \in {"Cancelled", "CouldntCancel", "TimedOut", "CouldntTimeOut"}
      PROVE  end(rec, out, [rec.st EXCEPT !.reason = reason]) \in ReconcileType
  BY Zenon, <1>1, EndType, ReasonType DEF FailedReason, OngoingReason
<1>3. [rec EXCEPT !.pc = "plan"] \in ReconcileType
  BY Zenon, <1>1 DEF ReconcileType
<1>4. [rec EXCEPT !.pc = "conclude", !.st.reason = "TimedOut"] \in ReconcileType
  <2>1. [rec.st EXCEPT !.reason = "TimedOut"] \in Status
    BY <1>1, ReasonType DEF FailedReason
  <2> QED  BY Zenon, <1>1, <2>1 DEF ReconcileType
<1>5. ASSUME NEW r, NEW errs \in BOOLEAN, NEW clean \in BOOLEAN
      PROVE  /\ [rec EXCEPT !.todo = @ \ {r}] \in ReconcileType
             /\ [rec EXCEPT !.todo = @ \ {r}, !.errs = errs, !.clean = clean]
                  \in ReconcileType
  BY ZenonT(60), <1>1 DEF ReconcileType
<1>6. CASE PatchRun
  <2>1. PICK r \in rec.todo :
          /\ rec' = [rec EXCEPT !.todo = @ \ {r}]
          /\ \/ runs' = [runs EXCEPT ![r].req = requested(rec.why)]
             \/ runs' = runs
    BY Zenon, <1>6 DEF PatchRun
  <2>2. requested(rec.why) \in {"", "Cancel", "TimeOut"} /\ r \in Run
    BY Zenon, <1>1 DEF requested, ReconcileType
  <2>3. [runs[r] EXCEPT !.req = requested(rec.why)] \in RunRecord
    BY <2>2, ZenonT(60) DEF TypeOK, RunRecord
  <2>4. runs' \in [Run -> RunRecord]
    BY <2>1, <2>3 DEF TypeOK
  <2> QED  BY Zenon, <1>5, <1>6, <2>1, <2>4 DEF PatchRun, TypeOK
<1>7. CASE PatchRunFails
  <2>1. rec' \in ReconcileType
    BY ZenonT(60), <1>5, <1>7 DEF PatchRunFails
  <2> QED  BY SMTT(60), <1>7, <2>1, EnvironmentAssumption DEF PatchRunFails, TypeOK
<1>8. CASE CancelDone
  <2>1. rec' \in ReconcileType
    BY <1>2, <1>8 DEF CancelDone
  <2> QED  BY <1>8, <2>1 DEF CancelDone, patchesDone, env, TypeOK
<1>9. CASE GracefulCancelDone
  <2>1. rec' \in ReconcileType
    BY <1>1, <1>2, <1>9, ApplyTaskTimeoutsType DEF GracefulCancelDone
  <2> QED  BY <1>9, <2>1 DEF GracefulCancelDone, patchesDone, env, TypeOK
<1>10. CASE TaskTimeoutsDone
  <2>1. rec' \in ReconcileType
    BY <1>1, <1>3, <1>10, EndType DEF TaskTimeoutsDone
  <2> QED  BY <1>10, <2>1 DEF TaskTimeoutsDone, patchesDone, env, TypeOK
<1>11. CASE PipelineTimeoutDone
  <2>1. rec' \in ReconcileType
    BY <1>2, <1>4, <1>11 DEF PipelineTimeoutDone
  <2> QED  BY <1>11, <2>1 DEF PipelineTimeoutDone, patchesDone, env, TypeOK
<1>12. CASE LongTimeoutDone
  <2>1. rec' \in ReconcileType
    BY <1>2, <1>12 DEF LongTimeoutDone
  <2> QED  BY <1>12, <2>1 DEF LongTimeoutDone, patchesDone, env, TypeOK
<1> QED  BY <1>6, <1>7, <1>8, <1>9, <1>10, <1>11, <1>12 DEF Patching

\* A run that was just created is a run record.
LEMMA CreatedType == Created \in RunRecord
BY DEF Created, RunRecord, RunState

\* Scheduling and creating runs keeps the types.
LEMMA SchedulingTypeOK == TypeOK /\ Scheduling => TypeOK'
<1> SUFFICES ASSUME TypeOK, Scheduling PROVE TypeOK'
  OBVIOUS
<1>1. rec \in ReconcileType /\ rec.st \in Status
  BY Zenon DEF TypeOK, ReconcileType
<1>2. [rec EXCEPT !.clean = FALSE] \in ReconcileType
  BY Zenon, <1>1 DEF ReconcileType
<1>3. CASE RunNextSchedulableTask
  <2>1. PICK f, s, vf, fresh :
          /\ vf = {t \in DAGExecutionQueue(f, s) : missingResults(f, t)}
          /\ \/ rec' = end(rec, "permanent", rec.st)
             \/ rec' = schedule(rec, f, s, vf, fresh)
    BY Zenon, <1>3 DEF RunNextSchedulableTask
  <2>2. vf \in SUBSET DagTasks
    BY <2>1 DEF DAGExecutionQueue, GetCandidateTasks
  <2>3. rec' \in ReconcileType
    BY <1>1, <2>1, <2>2, EndType, ScheduleType
  <2> QED  BY <1>3, <2>3 DEF RunNextSchedulableTask, env, TypeOK
<1>4. CASE CreateRun
  <2>1. PICK r \in Run :
          \/ /\ runs' = [runs EXCEPT ![r] = Created]
             /\ rec' = [rec EXCEPT !.todo = @ \ {r}, !.view[r] = Created]
          \/ /\ rec' = end([rec EXCEPT !.clean = FALSE], "retry", rec.st)
             /\ runs' = runs
    BY Zenon, <1>4 DEF CreateRun
  <2>2. runs' \in [Run -> RunRecord]
    BY <2>1, CreatedType DEF TypeOK
  <2>3. [rec.view EXCEPT ![r] = Created] \in [Run -> RunRecord]
    BY Zenon, <1>1, CreatedType DEF ReconcileType
  <2>4. [rec EXCEPT !.todo = @ \ {r}, !.view[r] = Created] \in ReconcileType
    BY Zenon, <1>1, <2>3 DEF ReconcileType
  <2>5. rec' \in ReconcileType
    BY <1>1, <1>2, <2>1, <2>4, EndType
  <2> QED  BY <1>4, <2>2, <2>5 DEF CreateRun, TypeOK
<1>5. CASE CreateRunFails
  <2>1. [rec EXCEPT !.clean = FALSE].st = rec.st
    BY Zenon, <1>1 DEF ReconcileType
  <2>2. [rec.st EXCEPT !.reason = "CreateRunFailed"] \in Status
    BY <1>1, ReasonType DEF FailedReason
  <2>3. rec' \in ReconcileType
    BY <1>1, <1>2, <1>5, <2>1, <2>2, EndType DEF CreateRunFails
  <2> QED  BY <1>5, <2>3, EnvironmentAssumption DEF CreateRunFails, TypeOK
<1>6. CASE SkipFinalTask
  <2>1. rec' \in ReconcileType
    BY <1>1, <1>6, ZenonT(60) DEF SkipFinalTask, ReconcileType
  <2> QED  BY <1>6, <2>1 DEF SkipFinalTask, env, TypeOK
<1>7. CASE ScheduleDone
  <2>1. rec.st.childRefs \in SUBSET Run /\ [rec EXCEPT !.pc = "conclude"] \in ReconcileType
    BY Zenon, <1>1 DEF ReconcileType, Status
  <2>2. rec' \in ReconcileType
    BY <1>1, <1>7, <2>1, PatchType DEF ScheduleDone
  <2> QED  BY <1>7, <2>2 DEF ScheduleDone, env, TypeOK
<1> QED  BY <1>3, <1>4, <1>5, <1>6, <1>7 DEF Scheduling

\* Concluding a reconcile and writing the status keeps the types.
LEMMA FinishingTypeOK == TypeOK /\ Finishing => TypeOK'
<1> SUFFICES ASSUME TypeOK, Finishing PROVE TypeOK'
  OBVIOUS
<1>1. rec \in ReconcileType /\ rec.st \in Status
  BY Zenon DEF TypeOK, ReconcileType
<1>2. CASE Conclude
  <2>1. rec' \in ReconcileType
    BY <1>1, <1>2, ConcludedType, EndType DEF Conclude
  <2> QED  BY <1>2, <2>1 DEF Conclude, env, TypeOK
<1>3. CASE ConcludeWithoutResult
  <2>1. PICK f, s : rec' = end(rec, "retry",
                      [concluded(f, s) EXCEPT !.reason = "CouldntGetPipelineResult"])
    BY <1>3 DEF ConcludeWithoutResult
  <2>2. [concluded(f, s) EXCEPT !.reason = "CouldntGetPipelineResult"] \in Status
    BY ConcludedType, ReasonType DEF FailedReason
  <2>3. rec' \in ReconcileType
    BY <1>1, <2>1, <2>2, EndType
  <2> QED  BY <1>3, <2>3 DEF ConcludeWithoutResult, env, TypeOK
<1>4. CASE UpdateStatus
  <2>1. pr' \in [spec : SpecStatus, st : Status]
    BY <1>1, <1>4 DEF UpdateStatus, TypeOK
  <2>2. waitTime(rec.st) \subseteq Deadline
    BY EnvironmentAssumption DEF waitTime, Deadline
  <2>3. snooze' \subseteq Deadline /\ queued' \in BOOLEAN
    BY <1>4, <2>2 DEF UpdateStatus, TypeOK
  <2> QED  BY <1>4, <2>1, <2>3, NoReconcileType DEF UpdateStatus, TypeOK
<1>5. CASE UpdateStatusFails
  BY <1>5, NoReconcileType, EnvironmentAssumption DEF UpdateStatusFails, TypeOK
<1> QED  BY <1>2, <1>3, <1>4, <1>5 DEF Finishing

\* The user, the clock, the informers and the child runs keep the types.
LEMMA EnvironmentTypeOK == TypeOK /\ Environment => TypeOK'
<1> SUFFICES ASSUME TypeOK, Environment PROVE TypeOK'
  OBVIOUS
<1>1. CASE SetSpecStatus
  <2>1. pr' \in [spec : SpecStatus, st : Status]
    BY <1>1, EnvironmentAssumption DEF SetSpecStatus, TypeOK
  <2> QED  BY <1>1, <2>1 DEF SetSpecStatus, TypeOK
<1>2. CASE InformPipelineRun
  BY <1>2 DEF InformPipelineRun, TypeOK
<1>3. ASSUME NEW ts, InformRuns(ts) PROVE TypeOK'
  BY <1>3 DEF InformRuns, TypeOK
<1>4. ASSUME NEW r \in Run, RunEnds(r) PROVE TypeOK'
  <2>1. PICK st \in DoneState, res \in BOOLEAN :
          runs' = [runs EXCEPT ![r] = [@ EXCEPT !.st = st, !.res = res]]
    BY <1>4, ZenonT(60) DEF RunEnds
  <2>2. [runs[r] EXCEPT !.st = st, !.res = res] \in RunRecord
    <3>1. \A x \in RunRecord : [x EXCEPT !.st = st, !.res = res] \in RunRecord
      BY Zenon DEF RunRecord, RunState, DoneState
    <3> QED  BY Zenon, <3>1 DEF TypeOK
  <2>3. runs' \in [Run -> RunRecord]
    BY <2>1, <2>2 DEF TypeOK
  <2> QED  BY <1>4, <2>3, ZenonT(60) DEF RunEnds, TypeOK
<1>5. CASE DeadlinePasses
  <2>1. elapsed' \subseteq Deadline /\ snooze' \subseteq Deadline /\ queued' \in BOOLEAN
    BY <1>5, EnvironmentAssumption DEF DeadlinePasses, TypeOK
  <2> QED  BY <1>5, <2>1 DEF DeadlinePasses, TypeOK
<1>6. CASE Crash
  BY <1>6, NoReconcileType, EnvironmentAssumption DEF Crash, TypeOK
<1>7. CASE Rest
  BY <1>7 DEF Rest, vars, TypeOK
<1> QED  BY <1>1, <1>2, <1>3, <1>4, <1>5, <1>6, <1>7
         DEF Environment, InformTaskRuns, InformCustomRuns

\* Every variable of the reconciler, of the API server's objects and of the
\* caches keeps its type, whatever the pipeline and the environment.
THEOREM TypeCorrect == Spec => []TypeOK
<1>1. TypeOK /\ [Next]_vars => TypeOK'
  <2> SUFFICES ASSUME TypeOK, [Next]_vars PROVE TypeOK'
    OBVIOUS
  <2>1. CASE UNCHANGED vars
    BY <2>1 DEF vars, TypeOK
  <2> QED  BY <2>1, BeginTypeOK, PatchingTypeOK, SchedulingTypeOK, FinishingTypeOK,
              EnvironmentTypeOK DEF Next, Reconciler
<1> QED  BY <1>1, InitTypeOK, PTL DEF Spec

-----------------------------------------------------------------------------
(***************************************************************************)
(* Skipping.                                                               *)
(*                                                                         *)
(* A set of naturals that is not empty has a least element: what induction *)
(* over the position of tasks rests on.                                    *)
(***************************************************************************)
LEMMA Least ==
  ASSUME NEW T \in SUBSET Nat, T # {}
  PROVE  \E x \in T : \A y \in T : x <= y
<1> DEFINE R == {ss \in Nat \X Nat : ss[1] < ss[2]}
<1>0. IsWellFoundedOn(R, Nat)
  BY NatLessThanWellFounded DEF OpToRel
<1>1. \E x \in T : \A y \in T : ~ (<<y, x>> \in R)
  BY Zenon, <1>0, WFMin
<1>2. \A x, y \in Nat : y < x => <<y, x>> \in R
  OBVIOUS
<1>3. \A x, y \in Nat : ~(y < x) => x <= y
  OBVIOUS
<1> HIDE DEF R
<1> QED BY Zenon, <1>1, <1>2, <1>3

\* Every task has a position in the pipeline (TaskOrder).
LEMMA AtType == /\ Len(TaskOrder) \in Nat
                /\ \A t \in Tasks : At(t) \in Nat /\ 1 <= At(t) /\ At(t) <= Len(TaskOrder)
<1>1. Len(TaskOrder) \in Nat
  BY OrderAssumption
<1>2. ASSUME NEW t \in Tasks PROVE At(t) \in 1..Len(TaskOrder)
  <2>1. \E i \in 1..Len(TaskOrder) : TaskOrder[i] = t
    BY OrderAssumption
  <2> QED  BY <2>1 DEF At
<1> QED  BY <1>1, <1>2

\* firstUnresolved: the reference at which resolving the results of a task fails is one of them.
LEMMA FirstUnresolved ==
  ASSUME NEW f, NEW t \in Tasks, unresolved(f, t) # {}
  PROVE  firstUnresolved(f, t) \in unresolved(f, t)
<1> DEFINE U == unresolved(f, t)
<1>1. U \subseteq Tasks
  BY PipelineAssumption DEF unresolved, Tasks
<1>2. {At(p) : p \in U} \in SUBSET Nat
  BY <1>1, AtType
<1>3. {At(p) : p \in U} # {}
  OBVIOUS
<1>4. \E x \in {At(p) : p \in U} : \A y \in {At(p) : p \in U} : x <= y
  BY Zenon, <1>2, <1>3, Least
<1>5. \E p \in U : \A q \in U : At(p) <= At(q)
  BY <1>4
<1> QED  BY <1>5 DEF firstUnresolved

\* Skip of a task looks at the skipping reasons of its parents only.
LEMMA SkipLooksAtParents ==
  ASSUME NEW f, NEW t \in DagTasks, NEW g, NEW h, \A p \in Prev[t] : g[p] = h[p]
  PROVE  skip(f, g, t) = skip(f, h, t)
<1>1. unresolved(f, t) # {} => g[firstUnresolved(f, t)] = h[firstUnresolved(f, t)]
  <2> SUFFICES ASSUME unresolved(f, t) # {}
               PROVE  firstUnresolved(f, t) \in Prev[t]
    OBVIOUS
  <2>1. firstUnresolved(f, t) \in unresolved(f, t)
    BY FirstUnresolved DEF Tasks
  <2> QED  BY <2>1, PipelineAssumption DEF unresolved
<1>2. \A p \in Prev[t] : isDone(f, g, p) <=> isDone(f, h, p)
  BY DEF isDone
<1>3. (\A p \in Prev[t] : isDone(f, g, p)) <=> (\A p \in Prev[t] : isDone(f, h, p))
  BY <1>2
<1>4. (\E p \in Prev[t] : g[p] \notin {"None", "When"}) <=> (\E p \in Prev[t] : h[p] \notin {"None", "When"})
  OBVIOUS
<1> HIDE DEF isDone, isScheduled
<1> QED  BY <1>1, <1>3, <1>4, Zenon DEF skip

\* Skip returns a skipping reason.
LEMMA SkipIsReason == \A f, s, t : skip(f, s, t) \in SkipReason
BY DEF skip, SkipReason

\* The DAG tasks up to position n, and skipping reasons for them.
UpTo(n) == {t \in DagTasks : At(t) <= n}
Solves(f, n, g) ==
  g \in [UpTo(n) -> SkipReason] /\ \A t \in UpTo(n) : g[t] = skip(f, g, t)

\* Going through the tasks in their order, skip gives each a reason: its parents
\* have theirs already.
LEMMA SolvableUpTo == \A f : \A n \in Nat : \E g : Solves(f, n, g)
<1> SUFFICES ASSUME NEW f, {n \in Nat : ~\E g : Solves(f, n, g)} # {} PROVE FALSE
  OBVIOUS
<1>1. PICK n \in Nat : (~\E g : Solves(f, n, g)) /\ \A m \in Nat : m < n => \E g : Solves(f, m, g)
  <2> DEFINE T == {k \in Nat : ~\E g : Solves(f, k, g)}
  <2>1. PICK n \in T : \A m \in T : n <= m
    BY Zenon, Least
  <2>2. \A m \in Nat : m < n => ~(n <= m)
    OBVIOUS
  <2> QED  BY <2>1, <2>2
<1>2. CASE n = 0
  <2>1. UpTo(0) = {}
    BY AtType DEF UpTo, Tasks
  <2>2. Solves(f, 0, [t \in UpTo(0) |-> "None"])
    BY <2>1 DEF Solves
  <2> QED  BY <1>1, <1>2, <2>2
<1>3. CASE n # 0
  <2>1. n - 1 \in Nat /\ n - 1 < n
    BY <1>3
  <2>2. PICK g : Solves(f, n - 1, g)
    BY <1>1, <2>1
  <2> DEFINE h == [t \in UpTo(n) |-> IF t \in UpTo(n - 1) THEN g[t] ELSE skip(f, g, t)]
  <2>3. UpTo(n - 1) \subseteq UpTo(n)
    BY <2>1, AtType DEF UpTo, Tasks
  <2>4. \A t \in UpTo(n) : \A p \in Prev[t] : p \in UpTo(n - 1)
    BY <2>1, AtType, OrderAssumption, PipelineAssumption DEF UpTo, Tasks
  <2>5. h \in [UpTo(n) -> SkipReason]
    BY <2>2, SkipIsReason DEF Solves
  <2>6. ASSUME NEW t \in UpTo(n) PROVE h[t] = skip(f, h, t)
    <3>1. \A p \in Prev[t] : h[p] = g[p]
      BY <2>3, <2>4
    <3>2. t \in DagTasks
      BY DEF UpTo
    <3> HIDE DEF h
    <3>3. skip(f, h, t) = skip(f, g, t)
      BY ZenonT(60), <3>1, <3>2, SkipLooksAtParents
    <3>4. h[t] = skip(f, g, t)
      BY ZenonT(60), <2>2 DEF h, Solves
    <3> QED  BY <3>3, <3>4
  <2> HIDE DEF h
  <2>7. Solves(f, n, h)
    BY ZenonT(60), <2>5, <2>6 DEF Solves
  <2> QED  BY <1>1, <2>7
<1> QED  BY <1>2, <1>3

\* The equations of Skip: every DAG task has the reason that skip computes from
\* the reasons of its parents.
AreSkips(f, s) ==
  s \in [DagTasks -> SkipReason] /\ \A t \in DagTasks : s[t] = skip(f, s, t)

(***************************************************************************)
(* The recursion of Skip through the parents of a task ends with a reason  *)
(* for every DAG task, in every pipeline and whatever a reconcile sees.    *)
(***************************************************************************)
THEOREM SkipsSolve == \A f : AreSkips(f, Skips(f))
<1> SUFFICES ASSUME NEW f PROVE AreSkips(f, Skips(f))
  OBVIOUS
<1>1. UpTo(Len(TaskOrder)) = DagTasks
  BY AtType DEF UpTo, Tasks
<1>2. PICK g : Solves(f, Len(TaskOrder), g)
  BY Zenon, SolvableUpTo, AtType
<1>3. g = [t \in DagTasks |-> skip(f, g, t)]
  BY <1>1, <1>2 DEF Solves
<1> DEFINE Def(s) == s = [t \in DagTasks |-> skip(f, s, t)]
<1>4. Skips(f) = CHOOSE s : Def(s)
  BY DEF Skips
<1>5. Def(g)
  BY <1>3
<1> HIDE DEF Def
<1>6. Def(Skips(f))
  BY <1>4, <1>5
<1>7. Skips(f) = [t \in DagTasks |-> skip(f, Skips(f), t)]
  BY ZenonT(60), <1>6 DEF Def
<1> QED  BY <1>7, SkipIsReason DEF AreSkips

\* The skipping reasons of a reconcile are determined by what it sees.
LEMMA SkipsUnique ==
  ASSUME NEW f, NEW s, NEW u, AreSkips(f, s), AreSkips(f, u)
  PROVE  s = u
<1> DEFINE D == {At(t) : t \in {x \in DagTasks : s[x] # u[x]}}
<1>1. SUFFICES ASSUME D # {} PROVE FALSE
  <2>1. \A t \in DagTasks : s[t] = u[t]
    BY ZenonT(60), <1>1
  <2> QED  BY <2>1 DEF AreSkips
<1>2. D \in SUBSET Nat
  BY AtType DEF Tasks
<1>3. PICK n \in D : \A m \in D : n <= m
  <2> HIDE DEF D
  <2> QED  BY ZenonT(60), <1>1, <1>2, Least
<1>4. PICK t \in DagTasks : n = At(t) /\ s[t] # u[t]
  BY ZenonT(60), <1>3
<1>5. \A p \in Prev[t] : s[p] = u[p]
  <2> SUFFICES ASSUME NEW p \in Prev[t], s[p] # u[p] PROVE FALSE
    BY ZenonT(60)
  <2>1. p \in DagTasks /\ At(p) < At(t)
    BY ZenonT(60), PipelineAssumption, OrderAssumption
  <2>2. At(p) \in D
    BY ZenonT(60), <2>1
  <2>3. At(t) <= At(p)
    BY ZenonT(60), <1>3, <1>4, <2>2
  <2>4. At(p) \in Nat /\ At(t) \in Nat
    BY ZenonT(60), <2>1, AtType DEF Tasks
  <2> QED  BY <2>1, <2>3, <2>4
<1>6. s[t] = u[t]
  BY <1>5, SkipLooksAtParents DEF AreSkips
<1> QED  BY ZenonT(60), <1>4, <1>6

\* The deadlines that matter to the DAG tasks.
dagDeadlines(f) == f.el \cap {"pipeline", "tasks"}

\* Once the tasks or the pipeline deadline has passed, no DAG task is ready.
LEMMA LateQueue ==
  ASSUME NEW f, f.vf = {}, dagDeadlines(f) # {}
  PROVE  DAGExecutionQueue(f, Skips(f)) = {}
<1> DEFINE s == Skips(f)
<1>1. AreSkips(f, s)
  BY ZenonT(60), SkipsSolve
<1> HIDE DEF s
<1>2. \A t : ~isValidationFailed(f, t)
  BY ZenonT(60) DEF isValidationFailed
<1>3. ASSUME NEW t \in DAGExecutionQueue(f, s) PROVE FALSE
  <2>1. /\ t \in DagTasks /\ ~isScheduled(f, t) /\ ~IsStopping(f)
        /\ ~isDone(f, s, t) /\ \A p \in Prev[t] : isDone(f, s, p)
        /\ f.spec # "CancelledRunFinally" /\ f.spec # "StoppedRunFinally"
    BY ZenonT(60), <1>3 DEF DAGExecutionQueue, GetCandidateTasks, completedOrSkippedDAGTasks
  <2>2. s[t] = skip(f, s, t) /\ s[t] = "None"
    BY ZenonT(60), <1>1, <2>1 DEF AreSkips, isDone
  <2>3. skip(f, s, t) # "None"
    BY ZenonT(60), <1>2, <2>1 DEF skip, dagDeadlines
  <2> QED  BY ZenonT(60), <2>2, <2>3
<1> QED  BY Zenon, <1>3 DEF s

-----------------------------------------------------------------------------
(***************************************************************************)
(* Pipelines that cannot come to a standstill (used in                     *)
(* PipelineRunProgressProofs): a DAG task is skipped for its when          *)
(* expressions, or because the PipelineRun is to stop or late, but not     *)
(* for an empty matrix or for results that are missing.  The results a DAG *)
(* task uses are those of tasks that cannot be skipped by themselves, do   *)
(* not go on after an error, and produce them if they succeed.             *)
(***************************************************************************)
SkipsByWhenOnly ==
  /\ DagTasks \cap EmptyMatrix = {}
  /\ \A t \in DagTasks : \A p \in ResultRefs[t] :
       p \notin WhenFalse /\ p \notin OnErrorContinue /\ p \notin MayOmitResults

\* What a reconcile sees of the tasks whose results DAG tasks use.
ResultsSeen(f) ==
  \A t \in DagTasks : \A p \in ResultRefs[t] : \A r \in RunsOf(p) :
    f.view[r].st = "Succeeded" => f.view[r].res

\* The PipelineRun may start DAG tasks.
Running(f) ==
  /\ f.vf = {} /\ ~IsStopping(f) /\ dagDeadlines(f) = {}
  /\ f.spec \notin {"CancelledRunFinally", "StoppedRunFinally"}

\* The parts of PipelineAssumption and OrderAssumption about one task.
LEMMA Parents ==
  ASSUME NEW t \in DagTasks
  PROVE  /\ t \in Tasks /\ At(t) \in Nat
         /\ \A p \in Prev[t] : p \in DagTasks /\ At(p) \in Nat /\ At(p) < At(t)
         /\ ResultRefs[t] \subseteq Prev[t]
<1>1. t \in Tasks /\ \A p \in Prev[t] : p \in DagTasks /\ p \in Tasks
  BY Zenon, PipelineAssumption DEF Tasks
<1>2. At(t) \in Nat /\ \A p \in Prev[t] : At(p) \in Nat
  BY Zenon, <1>1, AtType
<1>3. \A p \in Prev[t] : At(p) < At(t)
  BY Zenon, OrderAssumption
<1>4. ResultRefs[t] \subseteq Prev[t]
  BY Zenon, PipelineAssumption
<1> QED  BY Zenon, <1>1, <1>2, <1>3, <1>4

\* A set of DAG tasks that is not empty has one whose parents are not in it.
LEMMA FirstTask ==
  ASSUME NEW X \in SUBSET DagTasks, X # {}
  PROVE  \E t \in X : \A p \in Prev[t] : p \notin X
<1> DEFINE D == {At(t) : t \in X}
<1>1. D \in SUBSET Nat /\ D # {}
  BY Zenon, Parents
<1>2. PICK n \in D : \A m \in D : n <= m
  <2> HIDE DEF D
  <2> QED  BY Zenon, <1>1, Least
<1>3. PICK t \in X : n = At(t)
  BY Zenon, <1>2
<1>4. ASSUME NEW p \in Prev[t], p \in X PROVE FALSE
  <2>1. At(p) < At(t) /\ At(p) \in Nat /\ At(t) \in Nat
    BY Zenon, Parents
  <2>2. At(t) <= At(p)
    BY Zenon, <1>2, <1>3, <1>4
  <2> QED  BY <2>1, <2>2
<1> QED  BY Zenon, <1>3, <1>4

\* A finished task whose results are used has them.
LEMMA ResultsThere ==
  ASSUME SkipsByWhenOnly, NEW f, Running(f), ResultsSeen(f),
         NEW t \in DagTasks, NEW p \in ResultRefs[t], finished(f, p)
  PROVE  isScheduled(f, p) /\ \A r \in runsSeen(f, p) : f.view[r].res
<1>1. p \in DagTasks /\ p \notin OnErrorContinue
  BY Zenon, Parents DEF SkipsByWhenOnly
<1>2. isSuccessful(f, p)
  BY Zenon, <1>1 DEF Running, IsStopping, finished
<1> QED  BY Zenon, <1>2 DEF isSuccessful, ResultsSeen, runsSeen

\* While the PipelineRun may start tasks, they are skipped for their when expressions only.
LEMMA OnlyWhen ==
  ASSUME SkipsByWhenOnly, NEW f, Running(f), ResultsSeen(f), NEW t \in DagTasks
  PROVE  Skips(f)[t] = "None" \/ (Skips(f)[t] = "When" /\ t \in WhenFalse)
<1> DEFINE s == Skips(f)
           X == {u \in DagTasks : s[u] # "None" /\ s[u] # "When"}
<1>1. AreSkips(f, s)
  BY Zenon, SkipsSolve
<1> HIDE DEF s
<1>2. \A u : ~isValidationFailed(f, u)
  BY Zenon DEF Running, isValidationFailed
<1>3. \A u \in DagTasks : s[u] = skip(f, s, u)
  BY Zenon, <1>1 DEF AreSkips
<1>4. \A u \in DagTasks : s[u] = "When" => u \in WhenFalse
  BY Zenon, <1>3 DEF skip
<1>5. ASSUME NEW u \in DagTasks, \A p \in Prev[u] : s[p] = "None" \/ s[p] = "When",
             \A p \in Prev[u] : isDone(f, s, p)
      PROVE  unresolved(f, u) = {}
  <2> SUFFICES ASSUME NEW p \in unresolved(f, u) PROVE FALSE
    BY Zenon
  <2>1. p \in ResultRefs[u] /\ p \in Prev[u] /\ p \in DagTasks
    BY Zenon, Parents DEF unresolved
  <2>2. s[p] = "None"
    BY Zenon, <1>4, <1>5, <2>1 DEF SkipsByWhenOnly
  <2>3. finished(f, p)
    BY Zenon, <1>2, <1>5, <2>1, <2>2 DEF isDone
  <2> QED  BY Zenon, <2>1, <2>3, ResultsThere DEF unresolved
<1>6. ASSUME NEW u \in DagTasks, \A p \in Prev[u] : s[p] = "None" \/ s[p] = "When"
      PROVE  s[u] = "None" \/ s[u] = "When"
  <2>1. /\ ~IsStopping(f) /\ f.spec # "CancelledRunFinally" /\ f.spec # "StoppedRunFinally"
        /\ f.el \cap {"pipeline", "tasks"} = {} /\ u \notin EmptyMatrix
    BY Zenon DEF Running, dagDeadlines, SkipsByWhenOnly
  <2>2. (\A p \in Prev[u] : isDone(f, s, p)) => unresolved(f, u) = {}
    BY Zenon, <1>5, <1>6
  <2> QED  BY Zenon, <1>2, <1>3, <1>6, <2>1, <2>2 DEF skip
<1>7. X = {}
  <2>1. X # {} => \E u \in X : \A p \in Prev[u] : p \notin X
    BY Zenon, FirstTask
  <2>2. ASSUME NEW u \in X, \A p \in Prev[u] : p \notin X PROVE FALSE
    <3>1. \A p \in Prev[u] : p \in DagTasks
      BY Zenon, Parents
    <3> QED  BY Zenon, <1>6, <2>2, <3>1
  <2> QED  BY Zenon, <2>1, <2>2
<1> QED  BY Zenon, <1>4, <1>7 DEF s

\* No task that is ready lacks results.
LEMMA NoMissing ==
  ASSUME SkipsByWhenOnly, NEW f, f.vf = {}, ResultsSeen(f)
  PROVE  /\ {t \in DAGExecutionQueue(f, Skips(f)) : missingResults(f, t)} = {}
         /\ DAGExecutionQueue(f, Skips(f)) # {} => Running(f)
<1> DEFINE s == Skips(f)
<1>1. DAGExecutionQueue(f, s) # {} => Running(f)
  BY Zenon, LateQueue DEF Running, DAGExecutionQueue
<1>2. ASSUME NEW t \in DAGExecutionQueue(f, s), missingResults(f, t) PROVE FALSE
  <2>1. PICK p \in ResultRefs[t] : ~isScheduled(f, p) \/ \E r \in runsSeen(f, p) : ~f.view[r].res
    BY Zenon, <1>2 DEF missingResults
  <2>2. t \in DagTasks /\ Prev[t] \subseteq completedOrSkippedDAGTasks(f, s)
    BY Zenon, <1>2 DEF DAGExecutionQueue, GetCandidateTasks
  <2>3. p \in Prev[t] /\ p \in DagTasks /\ p \notin WhenFalse
    BY Zenon, <2>1, <2>2, Parents DEF SkipsByWhenOnly
  <2>4. Running(f)
    BY Zenon, <1>1, <1>2
  <2>5. s[p] = "None"
    BY Zenon, <2>3, <2>4, OnlyWhen
  <2>6. ~isValidationFailed(f, p)
    BY Zenon DEF isValidationFailed
  <2> HIDE DEF s
  <2>7. finished(f, p)
    BY Zenon, <2>2, <2>3, <2>5, <2>6 DEF completedOrSkippedDAGTasks, isDone
  <2> QED  BY Zenon, <2>1, <2>2, <2>4, <2>7, ResultsThere
<1> QED  BY Zenon, <1>1, <1>2

-----------------------------------------------------------------------------
(***************************************************************************)
(* What GetCandidateTasks reaches.  The recursion of visited has a         *)
(* solution: the least set that holds every task it reaches.               *)
(***************************************************************************)
Reaches(done, Y, n) == Prev[n] = {} \/ \E p \in Prev[n] \cap done : p \in Y

LEMMA ReachableSet ==
  ASSUME NEW done
  PROVE  \E X \in SUBSET DagTasks : \A n \in DagTasks : n \in X <=> Reaches(done, X, n)
<1> DEFINE Closed(Y) == \A n \in DagTasks : Reaches(done, Y, n) => n \in Y
           X == {n \in DagTasks : \A Y \in SUBSET DagTasks : Closed(Y) => n \in Y}
<1>1. ASSUME NEW n \in DagTasks, Reaches(done, X, n) PROVE n \in X
  <2>1. ASSUME NEW Y \in SUBSET DagTasks, Closed(Y) PROVE n \in Y
    <3>1. \A p \in X : p \in Y
      BY Zenon, <2>1
    <3>2. Reaches(done, Y, n)
      BY Zenon, <1>1, <3>1 DEF Reaches
    <3> QED  BY Zenon, <2>1, <3>2
  <2> QED  BY Zenon, <2>1
<1>2. ASSUME NEW n \in X, ~Reaches(done, X, n) PROVE FALSE
  <2> DEFINE Y == X \ {n}
  <2>1. ASSUME NEW m \in DagTasks, Reaches(done, Y, m) PROVE m \in Y
    <3>1. Reaches(done, X, m)
      BY Zenon, <2>1 DEF Reaches
    <3>2. m \in X /\ m # n
      BY Zenon, <1>1, <1>2, <3>1
    <3> QED  BY Zenon, <3>2
  <2>2. Y \in SUBSET DagTasks /\ Closed(Y)
    BY Zenon, <2>1
  <2>3. n \in Y
    BY Zenon, <1>2, <2>2
  <2> QED  BY Zenon, <2>3
<1>3. X \in SUBSET DagTasks
  BY Zenon
<1> HIDE DEF X
<1> QED  BY Zenon, <1>1, <1>2, <1>3

LEMMA VisitedSolves ==
  ASSUME NEW done, NEW n \in DagTasks
  PROVE  n \in visited(done) <=> Reaches(done, visited(done), n)
<1> DEFINE Def(v) == [m \in DagTasks |-> Prev[m] = {} \/ \E p \in Prev[m] \cap done : v[p]]
           w == CHOOSE v : v = Def(v)
<1>1. \E v : v = Def(v)
  <2>1. PICK X \in SUBSET DagTasks : \A m \in DagTasks : m \in X <=> Reaches(done, X, m)
    BY Zenon, ReachableSet
  <2> DEFINE v == [m \in DagTasks |-> m \in X]
  <2>2. ASSUME NEW m \in DagTasks
        PROVE  (m \in X) = (Prev[m] = {} \/ \E p \in Prev[m] \cap done : v[p])
    <3>1. \A p \in Prev[m] : p \in DagTasks
      BY Zenon, Parents
    <3>2. \A p \in Prev[m] : v[p] <=> p \in X
      BY Zenon, <3>1
    <3> HIDE DEF v
    <3>3. (\E p \in Prev[m] \cap done : v[p]) <=> (\E p \in Prev[m] \cap done : p \in X)
      BY Zenon, <3>2
    <3>4. (m \in X) <=> (Prev[m] = {} \/ \E p \in Prev[m] \cap done : v[p])
      BY Zenon, <2>1, <3>3 DEF Reaches
    <3> QED  BY <3>4
  <2>3. v = Def(v)
    BY Zenon, <2>2
  <2> QED  BY Zenon, <2>3
<1>2. w = Def(w)
  <2> HIDE DEF Def
  <2> QED  BY Zenon, <1>1
<1>3. visited(done) = {m \in DagTasks : w[m]}
  BY Zenon DEF visited
<1> HIDE DEF w
<1>4. \A m \in DagTasks : w[m] <=> (Prev[m] = {} \/ \E p \in Prev[m] \cap done : w[p])
  BY Zenon, <1>2
<1>5. \A p \in Prev[n] : w[p] <=> p \in visited(done)
  BY Zenon, <1>3, Parents
<1> QED  BY Zenon, <1>3, <1>4, <1>5 DEF Reaches

-----------------------------------------------------------------------------
(***************************************************************************)
(* A reconcile that sees no run going.                                     *)
(***************************************************************************)
NoneRunning(f) ==
  \A r \in Run : f.view[r].st \in RunState /\ f.view[r].st # "Running"

AllDone(f) == \A t \in DagTasks : isDone(f, Skips(f), t)

\* Every task it sees a run of is finished.
LEMMA SeenIsFinished ==
  ASSUME NEW f, NoneRunning(f), NEW t \in Tasks, isScheduled(f, t)
  PROVE  finished(f, t)
<1>1. \A r \in runsSeen(f, t) : f.view[r].st \in DoneState
  BY Zenon, RunsOfType DEF runsSeen, NoneRunning, RunState, DoneState
<1>2. CASE \A r \in runsSeen(f, t) : f.view[r].st = "Succeeded"
  BY Zenon, <1>2 DEF finished, isSuccessful
<1>3. CASE \E r \in runsSeen(f, t) : f.view[r].st # "Succeeded"
  BY Zenon, <1>1, <1>3 DEF finished, isFailure, haveAnyRunsFailed, runsDone, DoneState
<1> QED  BY Zenon, <1>2, <1>3

\* If it has nothing to start, every task is done,
LEMMA NothingLeft ==
  ASSUME NEW f, f.vf = {}, NoneRunning(f), DAGExecutionQueue(f, Skips(f)) = {}
  PROVE  AllDone(f)
<1> DEFINE s == Skips(f)
           X == {t \in DagTasks : ~isDone(f, s, t)}
<1>1. AreSkips(f, s)
  BY Zenon, SkipsSolve
<1>2. DAGExecutionQueue(f, s) = {}
  BY Zenon
<1> HIDE DEF s
<1>3. \A t : ~isValidationFailed(f, t)
  BY Zenon DEF isValidationFailed
<1>4. ASSUME NEW t \in X PROVE s[t] = "None" /\ ~isScheduled(f, t) /\ t \in DagTasks
  BY Zenon, <1>4, SeenIsFinished DEF isDone, Tasks
<1>5. ASSUME NEW t \in X, \A p \in Prev[t] : p \notin X PROVE FALSE
  <2>1. /\ skip(f, s, t) = "None" /\ ~isScheduled(f, t) /\ t \in DagTasks
    BY Zenon, <1>1, <1>4, <1>5 DEF AreSkips
  <2>2. ~IsStopping(f) /\ f.spec # "CancelledRunFinally" /\ f.spec # "StoppedRunFinally"
    BY Zenon, <1>3, <2>1 DEF skip
  <2>3. \A p \in Prev[t] : p \in DagTasks /\ isDone(f, s, p)
    BY Zenon, <1>5, Parents
  <2>4. t \in DAGExecutionQueue(f, s)
    BY Zenon, <1>5, <2>1, <2>2, <2>3 DEF DAGExecutionQueue, GetCandidateTasks,
                                         completedOrSkippedDAGTasks
  <2> QED  BY Zenon, <1>2, <2>4
<1>6. X # {} => \E t \in X : \A p \in Prev[t] : p \notin X
  BY Zenon, FirstTask
<1>7. X = {}
  BY Zenon, <1>5, <1>6
<1> QED  BY Zenon, <1>7 DEF AllDone, s

\* and the graph is accepted.
LEMMA AllDoneAccepted ==
  ASSUME NEW f, AllDone(f)
  PROVE  ~DAGExecutionError(f, Skips(f))
<1> DEFINE done == completedOrSkippedDAGTasks(f, Skips(f))
           X == {t \in DagTasks : t \notin visited(done)}
<1>1. done = DagTasks
  BY Zenon DEF AllDone, completedOrSkippedDAGTasks
<1> HIDE DEF done
<1>2. ASSUME NEW t \in X, \A p \in Prev[t] : p \notin X PROVE FALSE
  <2>1. \A p \in Prev[t] : p \in DagTasks /\ p \in visited(done)
    BY Zenon, <1>2, Parents
  <2>2. Reaches(done, visited(done), t)
    BY Zenon, <1>1, <2>1 DEF Reaches
  <2> QED  BY Zenon, <1>2, <2>2, VisitedSolves
<1>3. X # {} => \E t \in X : \A p \in Prev[t] : p \notin X
  BY Zenon, FirstTask
<1>4. done \subseteq visited(done)
  BY Zenon, <1>1, <1>2, <1>3
<1> QED  BY Zenon, <1>4 DEF DAGExecutionError, invalidDoneTasks, done

\* If some tasks may still start, the tasks that have runs explain each other: Z holds
\* them and everything they depend on, and each task in it has runs or is skipped for
\* its when expressions.  Then the graph is accepted too.
LEMMA Accepted ==
  ASSUME SkipsByWhenOnly, NEW f, f.vf = {}, NoneRunning(f), ResultsSeen(f),
         NEW Z \in SUBSET DagTasks,
         \A z \in Z : Prev[z] \subseteq Z /\ (z \in WhenFalse \/ isScheduled(f, z)),
         \A t \in DagTasks : isScheduled(f, t) => t \in Z
  PROVE  ~DAGExecutionError(f, Skips(f))
<1> DEFINE s == Skips(f)
           done == completedOrSkippedDAGTasks(f, s)
           X == {z \in Z : z \notin done \/ z \notin visited(done)}
           Y == {d \in done : d \notin visited(done)}
<1>1. CASE DAGExecutionQueue(f, s) = {}
  BY Zenon, <1>1, NothingLeft, AllDoneAccepted
<1>2. CASE DAGExecutionQueue(f, s) # {}
  <2>1. Running(f)
    BY Zenon, <1>2, NoMissing
  <2>2. AreSkips(f, s) /\ \A t \in DagTasks : s[t] = "None" \/ s[t] = "When"
    BY Zenon, <2>1, SkipsSolve, OnlyWhen
  <2> HIDE DEF s
  <2>3. \A t : ~isValidationFailed(f, t)
    BY Zenon DEF isValidationFailed
  <2>4. \A t : t \in done <=> t \in DagTasks /\ isDone(f, s, t)
    BY Zenon DEF completedOrSkippedDAGTasks
  <2> HIDE DEF done
  <2>5. ASSUME NEW z \in X, \A p \in Prev[z] : p \notin X PROVE FALSE
    <3>1. z \in Z /\ z \in DagTasks /\ (z \in WhenFalse \/ isScheduled(f, z))
      BY Zenon
    <3>2. \A p \in Prev[z] : p \in done /\ p \in visited(done)
      BY Zenon, <2>5, <3>1
    <3>3. z \in visited(done)
      BY Zenon, <3>1, <3>2, VisitedSolves DEF Reaches
    <3>4. CASE isScheduled(f, z)
      BY Zenon, <2>4, <2>5, <3>1, <3>3, <3>4, SeenIsFinished DEF isDone, Tasks
    <3>5. CASE ~isScheduled(f, z) /\ z \in WhenFalse
      <4>1. \A p \in Prev[z] : isDone(f, s, p)
        BY Zenon, <2>4, <3>2
      <4>2. /\ ~IsStopping(f) /\ f.spec # "CancelledRunFinally" /\ f.spec # "StoppedRunFinally"
        BY Zenon, <2>1 DEF Running
      <4>3. skip(f, s, z) = "When"
        BY Zenon, <2>3, <3>5, <4>1, <4>2 DEF skip
      <4>4. s[z] = "When"
        BY Zenon, <2>2, <3>1, <4>3 DEF AreSkips
      <4> QED  BY Zenon, <2>4, <2>5, <3>1, <3>3, <4>4 DEF isDone
    <3> QED  BY Zenon, <3>1, <3>4, <3>5
  <2>6. X # {} => \E z \in X : \A p \in Prev[z] : p \notin X
    BY Zenon, FirstTask
  <2>7. \A z \in Z : z \in visited(done)
    BY Zenon, <2>5, <2>6
  <2>8. ASSUME NEW d \in Y, \A p \in Prev[d] : p \notin Y PROVE FALSE
    <3>1. d \in DagTasks /\ isDone(f, s, d) /\ d \notin visited(done)
      BY Zenon, <2>4
    <3>2. ~isScheduled(f, d)
      BY Zenon, <2>7, <3>1
    <3>3. s[d] = "When"
      BY Zenon, <2>2, <2>3, <3>1, <3>2
         DEF isDone, finished, isSuccessful, isFailure, haveAnyRunsFailed, isScheduled
    <3>4. skip(f, s, d) = "When"
      BY Zenon, <2>2, <3>1, <3>3 DEF AreSkips
    <3>5. \A p \in Prev[d] : isDone(f, s, p)
      BY Zenon, <3>4 DEF skip
    <3>6. \A p \in Prev[d] : p \in done
      BY Zenon, <2>4, <3>1, <3>5, Parents
    <3>7. \A p \in Prev[d] : p \in visited(done)
      BY Zenon, <2>8, <3>6
    <3>8. Reaches(done, visited(done), d)
      BY Zenon, <3>6, <3>7 DEF Reaches
    <3> QED  BY Zenon, <3>1, <3>8, VisitedSolves
  <2>9. Y \in SUBSET DagTasks
    BY Zenon, <2>4
  <2>10. Y # {} => \E d \in Y : \A p \in Prev[d] : p \notin Y
    <3> HIDE DEF Y
    <3> QED  BY Zenon, <2>9, FirstTask
  <2>11. done \subseteq visited(done)
    BY Zenon, <2>8, <2>10
  <2> QED  BY Zenon, <2>11 DEF DAGExecutionError, invalidDoneTasks, done, s
<1> QED  BY Zenon, <1>1, <1>2

-----------------------------------------------------------------------------
(***************************************************************************)
(* Time.  Deadlines that pass while a reconcile sees no run going change   *)
(* nothing in that every task is done.                                     *)
(***************************************************************************)
Later(f, g) == g.view = f.view /\ g.spec = f.spec /\ g.vf = f.vf /\ f.el \subseteq g.el

\* What is said of a task without looking at the clock.
LEMMA LaterTasks ==
  ASSUME NEW f, NEW g, Later(f, g), NEW t
  PROVE  /\ isScheduled(g, t) = isScheduled(f, t) /\ finished(g, t) = finished(f, t)
         /\ isFailure(g, t) = isFailure(f, t) /\ unresolved(g, t) = unresolved(f, t)
         /\ isValidationFailed(g, t) = isValidationFailed(f, t)
<1>1. g.view = f.view /\ g.vf = f.vf
  BY Zenon DEF Later
<1>2. \A u : /\ runsSeen(g, u) = runsSeen(f, u) /\ isScheduled(g, u) = isScheduled(f, u)
             /\ isFailure(g, u) = isFailure(f, u) /\ finished(g, u) = finished(f, u)
  BY <1>1 DEF runsSeen, isScheduled, isFailure, haveAnyRunsFailed, runsDone, finished,
              isSuccessful
<1>3. unresolved(g, t) = unresolved(f, t)
  BY <1>1, <1>2 DEF unresolved
<1>4. isValidationFailed(g, t) = isValidationFailed(f, t)
  BY <1>1 DEF isValidationFailed
<1> QED  BY <1>2, <1>3, <1>4

LEMMA LaterSkips ==
  ASSUME NEW f, NEW g, Later(f, g), dagDeadlines(g) = {}
  PROVE  Skips(g) = Skips(f)
<1> DEFINE s == Skips(f)
<1>1. AreSkips(f, s)
  BY Zenon, SkipsSolve
<1> HIDE DEF s
<1>2. dagDeadlines(f) = {} /\ f.spec = g.spec
  BY Zenon DEF Later, dagDeadlines
<1>3. IsStopping(g) = IsStopping(f)
  BY LaterTasks DEF IsStopping
<1>4. ASSUME NEW t \in DagTasks PROVE skip(g, s, t) = skip(f, s, t)
  <2>1. \A p : isDone(g, s, p) = isDone(f, s, p)
    BY LaterTasks DEF isDone
  <2>2. /\ isScheduled(g, t) = isScheduled(f, t) /\ unresolved(g, t) = unresolved(f, t)
        /\ isValidationFailed(g, t) = isValidationFailed(f, t)
    BY Zenon, LaterTasks
  <2>3. firstUnresolved(g, t) = firstUnresolved(f, t)
    BY Zenon, <2>2 DEF firstUnresolved
  <2>4. (\A p \in Prev[t] : isDone(g, s, p)) = (\A p \in Prev[t] : isDone(f, s, p))
    BY <2>1
  <2>5. g.el \cap {"pipeline", "tasks"} = {} /\ f.el \cap {"pipeline", "tasks"} = {}
    BY Zenon, <1>2 DEF dagDeadlines
  <2> QED  BY <1>2, <1>3, <2>2, <2>3, <2>4, <2>5 DEF skip
<1>5. AreSkips(g, s)
  BY Zenon, <1>1, <1>4 DEF AreSkips
<1> QED  BY Zenon, <1>5, SkipsSolve, SkipsUnique DEF s

\* Every task is done, and every final task has runs or is skipped.
Decided(f, t) == isScheduled(f, t) \/ finallySkip(f, t) # "None"

Settled(f) == AllDone(f) /\ \A t \in FinalTasks : Decided(f, t)

LEMMA StaysDone ==
  ASSUME NEW f, NEW g, Later(f, g), f.vf = {}, NoneRunning(f), AllDone(f)
  PROVE  AllDone(g)
<1>1. g.vf = {} /\ NoneRunning(g)
  BY Zenon DEF Later, NoneRunning
<1>2. CASE dagDeadlines(g) # {}
  BY Zenon, <1>1, <1>2, LateQueue, NothingLeft
<1>3. CASE dagDeadlines(g) = {}
  <2>1. Skips(g) = Skips(f)
    BY Zenon, <1>3, LaterSkips
  <2>2. \A t : finished(g, t) = finished(f, t) /\ isValidationFailed(g, t) = isValidationFailed(f, t)
    BY Zenon, LaterTasks
  <2> QED  BY Zenon, <2>1, <2>2 DEF AllDone, isDone
<1> QED  BY Zenon, <1>2, <1>3

LEMMA StaysDecided ==
  ASSUME NEW f, NEW g, Later(f, g), NEW t, Decided(f, t)
  PROVE  Decided(g, t)
<1>1. /\ isScheduled(g, t) = isScheduled(f, t) /\ unresolved(g, t) = unresolved(f, t)
      /\ "pipeline" \in f.el => "pipeline" \in g.el
      /\ "finally" \in f.el => "finally" \in g.el
  BY Zenon, LaterTasks DEF Later
<1> QED  BY Zenon, <1>1 DEF Decided, finallySkip

\* What a reconcile that sees this concludes: the PipelineRun is done.
LEMMA SettledIsDone ==
  ASSUME NEW f, f.vf = {}, NoneRunning(f), Settled(f)
  PROVE  GetPipelineConditionStatus(f, Skips(f)) \in SucceededReason \cup FailedReason
<1> DEFINE s == Skips(f)
           fs == finallySkips(f, s)
<1>1. \A t \in DagTasks : isDone(f, s, t)
  BY Zenon DEF Settled, AllDone
<1>2. \A t \in FinalTasks : fs[t] = finallySkip(f, t)
  BY Zenon, <1>1 DEF finallySkips
<1>3. \A t : ~isValidationFailed(f, t)
  BY Zenon DEF isValidationFailed
<1> HIDE DEF s
<1>4. ASSUME NEW t \in Tasks PROVE countedAs(f, s, fs, t) # "Incomplete"
  <2>1. \/ finished(f, t)
        \/ t \in DagTasks /\ s[t] # "None"
        \/ t \in FinalTasks /\ fs[t] # "None"
    BY Zenon, <1>1, <1>2, <1>3, SeenIsFinished DEF isDone, Settled, Decided, Tasks
  <2> HIDE DEF fs
  <2>2. failureCount(t) # "Incomplete"
    BY Zenon DEF failureCount
  <2> QED  BY Zenon, <2>1, <2>2 DEF countedAs, finished
<1>5. "Incomplete" \notin {countedAs(f, s, fs, t) : t \in Tasks}
  BY Zenon, <1>4
<1>6. GetPipelineConditionStatus(f, s) \in
        {"TimedOut", "FailedValidation", "Failed", "Cancelled", "Completed", "Succeeded"}
  <2> HIDE DEF fs
  <2> DEFINE counts == {countedAs(f, s, fs, t) : t \in Tasks}
  <2>1. "Incomplete" \notin counts
    BY Zenon, <1>5
  <2>2. counts = {countedAs(f, s, finallySkips(f, s), t) : t \in Tasks}
    BY Zenon DEF fs
  <2> HIDE DEF counts
  <2> QED  BY Zenon, <2>1, <2>2 DEF GetPipelineConditionStatus
<1> QED  BY Zenon, <1>6 DEF SucceededReason, FailedReason, s

-----------------------------------------------------------------------------
(***************************************************************************)
(* Dependency order.                                                       *)
(*                                                                         *)
(* A view v of the runs is behind the cluster but never wrong: a run it    *)
(* shows exists, and one it shows as done has ended that way, with the     *)
(* same results.                                                           *)
(***************************************************************************)
Behind(v) ==
  \A r \in Run : /\ v[r].st # "Absent" => runs[r].st # "Absent"
                 /\ v[r].st \in DoneState => /\ runs[r].st = v[r].st
                                             /\ runs[r].res = v[r].res

ViewsInv == Behind(lister) /\ Behind(rec.view)

\* With ReadsOwnWrites a reconcile sees every run there is.
SeesAllInv == ReadsOwnWrites /\ rec.pc # "idle" => exists(rec.view) = exists(runs)

\* Missing results are looked for once in a reconcile, after the patches that
\* come before scheduling.
ValidationInv ==
  rec.pc = "plan" \/ (rec.pc = "patch" /\ rec.why \in {"graceful", "tasks"})
    => rec.vf = {}

\* A DAG task whose when expressions do not hold never has a run.
WhenInv == \A r \in Run : r[1] \in DagTasks \cap WhenFalse => runs[r].st = "Absent"

\* In view v, task p is over in a way that lets its dependents start.
Over(v, p) ==
  \/ p \in WhenFalse
  \/ /\ \E r \in RunsOf(p) : v[r].st # "Absent"
     /\ \A r \in RunsOf(p) :
          v[r].st # "Absent" => /\ v[r].st \in DoneState
                                /\ p \in OnErrorContinue \/ v[r].st = "Succeeded"

\* The DAG tasks whose runs are being created could be started.
ReadyInv ==
  rec.pc = "create" =>
    \A r \in rec.todo : r[1] \in DagTasks =>
      /\ r[1] \notin WhenFalse
      /\ \A p \in Prev[r[1]] : Over(rec.view, p) /\ \A q \in rec.todo : q[1] # p

IInv == TypeOK /\ ViewsInv /\ SeesAllInv /\ ValidationInv /\ WhenInv /\ ReadyInv

(***************************************************************************)
(* What runNextSchedulableTask queues: every parent of a queued task is    *)
(* over, and is not queued itself.                                         *)
(***************************************************************************)
LEMMA QueueReady ==
  ASSUME NEW f, f.vf = {}, NEW s, AreSkips(f, s), NEW t \in DAGExecutionQueue(f, s)
  PROVE  /\ t \in DagTasks /\ t \notin WhenFalse
         /\ \A p \in Prev[t] : Over(f.view, p) /\ p \notin DAGExecutionQueue(f, s)
<1>1. \A x : ~isValidationFailed(f, x)
  BY DEF isValidationFailed
<1>2. /\ t \in DagTasks /\ ~isScheduled(f, t) /\ ~IsStopping(f)
      /\ f.spec # "CancelledRunFinally" /\ f.spec # "StoppedRunFinally"
      /\ t \notin completedOrSkippedDAGTasks(f, s)
      /\ Prev[t] \subseteq completedOrSkippedDAGTasks(f, s)
  BY DEF DAGExecutionQueue, GetCandidateTasks
<1>3. s[t] = "None" /\ \A p \in Prev[t] : p \in DagTasks /\ isDone(f, s, p)
  BY <1>2 DEF completedOrSkippedDAGTasks, isDone
<1>4. s[t] = skip(f, s, t)
  BY ZenonT(60), <1>2 DEF AreSkips
<1>5. t \notin WhenFalse
  BY ZenonT(60), <1>1, <1>2, <1>3, <1>4 DEF skip
<1>6. \A p \in Prev[t] : s[p] \in {"None", "When"}
  BY ZenonT(60), <1>1, <1>2, <1>3, <1>4 DEF skip
<1>7. ASSUME NEW p \in Prev[t] PROVE Over(f.view, p)
  <2>1. CASE s[p] = "When"
    <3>1. s[p] = skip(f, s, p)
      BY ZenonT(60), <1>3 DEF AreSkips
    <3>2. p \in WhenFalse
      BY <2>1, <3>1 DEF skip
    <3> QED  BY <3>2 DEF Over
  <2>2. CASE s[p] = "None"
    <3>1. finished(f, p)
      BY ZenonT(60), <1>1, <1>3, <2>2 DEF isDone
    <3>2. isFailure(f, p) => p \in OnErrorContinue
      BY ZenonT(60), <1>2, <1>3 DEF IsStopping
    <3>3. CASE isSuccessful(f, p)
      BY ZenonT(60), <3>3 DEF isSuccessful, isScheduled, runsSeen, Over, DoneState
    <3>4. CASE isFailure(f, p)
      BY ZenonT(60), <3>2, <3>4 DEF isFailure, haveAnyRunsFailed, runsDone, runsSeen, Over
    <3> QED  BY ZenonT(60), <3>1, <3>3, <3>4 DEF finished
  <2> QED  BY ZenonT(60), <1>6, <2>1, <2>2
<1>8. ASSUME NEW p \in Prev[t] PROVE p \notin DAGExecutionQueue(f, s)
  BY <1>2, <1>8 DEF DAGExecutionQueue, GetCandidateTasks
<1> QED  BY ZenonT(60), <1>2, <1>5, <1>7, <1>8

-----------------------------------------------------------------------------
\* What the steps of a reconcile leave alone.
LEMMA EndKeeps ==
  ASSUME NEW R \in ReconcileType, NEW out, NEW st
  PROVE  /\ end(R, out, st).view = R.view
         /\ end(R, out, st).pc = "write"
BY Zenon DEF end, ReconcileType

\* Going on to patch runs leaves what the reconcile saw alone.
LEMMA PatchKeeps ==
  ASSUME NEW R \in ReconcileType, NEW why, NEW todo
  PROVE  /\ patch(R, why, todo).view = R.view
         /\ patch(R, why, todo).vf = R.vf
         /\ patch(R, why, todo).pc = "patch"
         /\ patch(R, why, todo).why = why
BY Zenon DEF patch, ReconcileType

\* So does applying the tasks and finally timeouts.
LEMMA ApplyTaskTimeoutsKeeps ==
  ASSUME NEW R \in ReconcileType
  PROVE  /\ applyTaskTimeouts(R).view = R.view
         /\ applyTaskTimeouts(R).vf = R.vf
         /\ applyTaskTimeouts(R).pc \in {"patch", "plan"}
<1>1. LET S == [R EXCEPT !.pc = "plan"] IN S.view = R.view /\ S.vf = R.vf /\ S.pc = "plan"
  BY Zenon DEF ReconcileType
<1> QED  BY <1>1, PatchKeeps DEF applyTaskTimeouts

\* So does applying a graceful cancel.
LEMMA ApplyGracefulCancelKeeps ==
  ASSUME NEW R \in ReconcileType
  PROVE  /\ applyGracefulCancel(R).view = R.view
         /\ applyGracefulCancel(R).vf = R.vf
         /\ applyGracefulCancel(R).pc \in {"patch", "plan"}
BY PatchKeeps, ApplyTaskTimeoutsKeeps DEF applyGracefulCancel

\* So does updatePipelineRunStatusFromInformer.
LEMMA SyncChildRefsKeeps ==
  ASSUME NEW R \in ReconcileType
  PROVE  syncChildRefs(R).view = R.view /\ syncChildRefs(R).vf = R.vf
BY Zenon DEF syncChildRefs, ReconcileType

\* A reconcile that has just begun sees what the caches hold, and no failure.
LEMMA BegunKeeps ==
  ASSUME TypeOK
  PROVE  begun.view = lister /\ begun.vf = {}
<1> DEFINE R == [NoReconcile EXCEPT !.spec = prCache.spec, !.orig = prCache.st,
                   !.st = prCache.st, !.view = lister,
                   !.late = prCache.st.started /\ "pipeline" \in elapsed]
<1>1. R.view = lister /\ R.vf = {}
  BY DEF NoReconcile
<1>2. InitializeConditions(R).view = R.view /\ InitializeConditions(R).vf = R.vf
  <2>1. DOMAIN R = DOMAIN NoReconcile
    OBVIOUS
  <2>2. "view" \in DOMAIN R /\ "vf" \in DOMAIN R
    BY <2>1 DEF NoReconcile
  <2> HIDE DEF R
  <2> QED  BY <2>2 DEF InitializeConditions
<1> QED  BY <1>1, <1>2 DEF begun

\* A run that is created exists from then on; one that has ended stays so.
LEMMA BehindStable ==
  ASSUME NEW v, Behind(v),
         \A r \in Run : /\ runs[r].st # "Absent" => runs'[r].st # "Absent"
                        /\ runs[r].st \in DoneState => /\ runs'[r].st = runs[r].st
                                                       /\ runs'[r].res = runs[r].res
  PROVE  \A r \in Run : /\ v[r].st # "Absent" => runs'[r].st # "Absent"
                        /\ v[r].st \in DoneState => /\ runs'[r].st = v[r].st
                                                    /\ runs'[r].res = v[r].res
BY DEF Behind, DoneState

\* A step within a reconcile that changes neither the runs nor what is seen of
\* them keeps what is said of the two.
LEMMA ViewsKept ==
  ASSUME ViewsInv, SeesAllInv, WhenInv, rec.pc # "idle",
         UNCHANGED <<runs, lister>>, rec'.view = rec.view
  PROVE  ViewsInv' /\ SeesAllInv' /\ WhenInv'
<1>1. ViewsInv'
  BY DEF ViewsInv, Behind
<1>2. SeesAllInv' /\ WhenInv'
  BY DEF SeesAllInv, WhenInv, exists
<1> QED  BY ZenonT(60), <1>1, <1>2

\* No reconcile: nothing seen, nothing to create.
LEMMA NoReconcileSeesNothing ==
  NoReconcile.pc = "idle" /\ \A r \in Run : NoReconcile.view[r].st = "Absent"
BY ZenonT(60) DEF NoReconcile, Absent

\* The invariant holds initially.
LEMMA InitIInv == Init => IInv
<1> SUFFICES ASSUME Init PROVE IInv
  OBVIOUS
<1>1. TypeOK
  BY InitTypeOK
<1>2. rec.pc = "idle" /\ rec.view = [r \in Run |-> Absent]
  BY Zenon DEF Init, NoReconcile
<1> QED  BY Zenon, <1>1, <1>2 DEF Init, IInv, ViewsInv, Behind, SeesAllInv, ValidationInv,
                                  WhenInv,
                       ReadyInv, Absent, DoneState

\* The first part of ReconcileKind keeps the invariant: the view is the cache's.
LEMMA BeginIInv == IInv /\ Begin => IInv'
<1> SUFFICES ASSUME IInv, Begin PROVE IInv'
  OBVIOUS
<1> USE DEF IInv
<1>1. TypeOK'
  BY SMTT(60), BeginTypeOK
<1>2. /\ UNCHANGED <<runs, lister>>
      /\ rec.pc = "idle"
      /\ ReadsOwnWrites => exists(lister) = exists(runs)
  BY Zenon DEF Begin, ReconcileDone, ReconcileLongTimeout, ReconcileCancelled, ReconcilePending,
         Reconcile, ReconcileInvalid, ReconcileRetry, ReconcileResolving, reconciles, Dequeue
<1>3. CASE ReconcileDone
  BY Zenon, <1>1, <1>2, <1>3 DEF ReconcileDone, ViewsInv, Behind, SeesAllInv, ValidationInv,
                                 WhenInv,
                          ReadyInv
<1>4. CASE ~ReconcileDone
  <2>1. begun \in ReconcileType /\ begun.view = lister /\ begun.vf = {}
    BY BegunType, BegunKeeps
  <2>2. LET R == syncChildRefs(begun)
        IN  R \in ReconcileType /\ R.view = lister /\ R.vf = {}
    BY <2>1, SyncChildRefsType, SyncChildRefsKeeps
  <2>3. LET R == [syncChildRefs(begun) EXCEPT !.clean = FALSE]
        IN  R \in ReconcileType /\ R.view = lister
    BY Zenon, <2>2 DEF ReconcileType
  <2>4. /\ rec'.view = lister
        /\ rec'.pc \in {"patch", "plan", "write"}
        /\ rec'.pc \in {"patch", "plan"} => rec'.vf = {}
    <3>1. CASE ReconcileLongTimeout
      BY SMTT(60), <2>1, <3>1, PatchKeeps DEF ReconcileLongTimeout
    <3>2. CASE ReconcileCancelled
      BY <2>1, <3>2, PatchKeeps DEF ReconcileCancelled
    <3>3. CASE ReconcilePending
      BY ZenonT(60), <2>2, <3>3, EndKeeps DEF ReconcilePending
    <3>4. CASE Reconcile
      BY <2>2, <3>4, ApplyGracefulCancelKeeps DEF Reconcile
    <3>5. CASE ReconcileInvalid
      BY <2>2, <3>5, EndKeeps DEF ReconcileInvalid
    <3>6. CASE ReconcileRetry
      <4> DEFINE R == [syncChildRefs(begun) EXCEPT !.clean = FALSE]
      <4>1. R \in ReconcileType /\ R.view = lister
        BY <2>3
      <4>2. rec' = end(R, "retry", R.st)
        BY <3>6 DEF ReconcileRetry
      <4> HIDE DEF R
      <4> QED  BY <4>1, <4>2, EndKeeps
    <3>7. CASE ReconcileResolving
      BY <2>2, <3>7, EndKeeps DEF ReconcileResolving
    <3> QED  BY ZenonT(60), <1>4, <3>1, <3>2, <3>3, <3>4, <3>5, <3>6, <3>7 DEF Begin
  <2> QED  BY <1>1, <1>2, <2>4 DEF ViewsInv, Behind, SeesAllInv, exists, ValidationInv,
                                  WhenInv, ReadyInv
<1> QED  BY <1>3, <1>4

\* Patching keeps the invariant: a patch changes no run's state.
LEMMA PatchingIInv == IInv /\ Patching => IInv'
<1> SUFFICES ASSUME IInv, Patching PROVE IInv'
  OBVIOUS
<1> USE DEF IInv
<1>1. TypeOK'
  BY PatchingTypeOK
<1>2. rec \in ReconcileType /\ rec.pc = "patch"
  BY Zenon DEF TypeOK, Patching, PatchRun, PatchRunFails, CancelDone, GracefulCancelDone,
         TaskTimeoutsDone, PipelineTimeoutDone, LongTimeoutDone, patchesDone
<1>3. lister' = lister /\ \A r \in Run : runs'[r].st = runs[r].st /\ runs'[r].res = runs[r].res
  <2>1. CASE PatchRun
    <3>1. PICK r \in rec.todo :
            \/ runs' = [runs EXCEPT ![r].req = requested(rec.why)]
            \/ runs' = runs
      BY <2>1, ZenonT(60) DEF PatchRun
    <3>2. \A x \in RunRecord : /\ [x EXCEPT !.req = requested(rec.why)].st = x.st
                               /\ [x EXCEPT !.req = requested(rec.why)].res = x.res
      BY Zenon DEF RunRecord
    <3>3. \A q \in Run : runs'[q].st = runs[q].st /\ runs'[q].res = runs[q].res
      BY <3>1, <3>2, ZenonT(60) DEF TypeOK
    <3> QED  BY <2>1, <3>3 DEF PatchRun
  <2>2. CASE ~PatchRun
    BY Zenon, <2>2 DEF Patching, PatchRunFails, CancelDone, GracefulCancelDone, TaskTimeoutsDone,
                PipelineTimeoutDone, LongTimeoutDone, patchesDone, env
  <2> QED  BY <2>1, <2>2
<1>4. /\ rec'.view = rec.view
      /\ rec'.pc \in {"patch", "plan", "conclude", "write"}
      /\ \/ rec'.pc \in {"conclude", "write"}
         \/ rec'.vf = rec.vf /\ rec.why \in {"graceful", "tasks"}
         \/ rec'.pc = "patch" /\ rec'.vf = rec.vf /\ rec'.why = rec.why
  <2>1. CASE PatchRun
    BY Zenon, <1>2, <2>1 DEF PatchRun, ReconcileType
  <2>2. CASE PatchRunFails
    BY Zenon, <1>2, <2>2 DEF PatchRunFails, ReconcileType
  <2>3. CASE CancelDone
    BY <1>2, <2>3, EndKeeps DEF CancelDone
  <2>4. CASE GracefulCancelDone
    BY <1>2, <2>4, EndKeeps, ApplyTaskTimeoutsKeeps DEF GracefulCancelDone, patchesDone
  <2>5. CASE TaskTimeoutsDone
    <3>1. LET S == [rec EXCEPT !.pc = "plan"]
          IN  S.view = rec.view /\ S.vf = rec.vf /\ S.pc = "plan"
      BY Zenon, <1>2 DEF ReconcileType
    <3> QED  BY <1>2, <2>5, <3>1, EndKeeps DEF TaskTimeoutsDone, patchesDone
  <2>6. CASE PipelineTimeoutDone
    <3>1. LET S == [rec EXCEPT !.pc = "conclude", !.st.reason = "TimedOut"]
          IN  S.view = rec.view /\ S.pc = "conclude"
      BY Zenon, <1>2 DEF ReconcileType
    <3> QED  BY <1>2, <2>6, <3>1, EndKeeps DEF PipelineTimeoutDone
  <2>7. CASE LongTimeoutDone
    BY <1>2, <2>7, EndKeeps, SMTT(60) DEF LongTimeoutDone
  <2> QED  BY <2>1, <2>2, <2>3, <2>4, <2>5, <2>6, <2>7 DEF Patching
<1>5. ViewsInv' /\ SeesAllInv' /\ WhenInv'
  BY ZenonT(60), <1>2, <1>3, <1>4 DEF ViewsInv, Behind, SeesAllInv, exists, WhenInv
<1>6. ValidationInv' /\ ReadyInv'
  BY <1>2, <1>4 DEF ValidationInv, ReadyInv
<1> QED  BY <1>1, <1>5, <1>6, SMTT(60)

\* Concluding and writing the status keeps the invariant: no run is touched.
LEMMA FinishingIInv == IInv /\ Finishing => IInv'
<1> SUFFICES ASSUME IInv, Finishing PROVE IInv'
  OBVIOUS
<1> USE DEF IInv
<1>1. TypeOK'
  BY FinishingTypeOK
<1>2. rec \in ReconcileType /\ rec.pc # "idle" /\ UNCHANGED <<runs, lister>>
  BY Zenon DEF TypeOK, Finishing, Conclude, ConcludeWithoutResult, UpdateStatus,
               UpdateStatusFails, env
<1>3. CASE Conclude \/ ConcludeWithoutResult
  <2>1. rec'.view = rec.view /\ rec'.pc = "write"
    BY <1>2, <1>3, EndKeeps DEF Conclude, ConcludeWithoutResult
  <2>2. ViewsInv' /\ SeesAllInv' /\ WhenInv'
    BY ZenonT(60), <1>2, <2>1, ViewsKept
  <2> QED  BY Zenon, <1>1, <2>1, <2>2 DEF ValidationInv, ReadyInv
<1>4. CASE UpdateStatus \/ UpdateStatusFails
  <2>1. rec'.pc = "idle" /\ \A r \in Run : rec'.view[r].st = "Absent"
    BY Zenon, <1>4, NoReconcileSeesNothing DEF UpdateStatus, UpdateStatusFails
  <2> QED  BY <1>1, <1>2, <2>1 DEF ViewsInv, Behind, SeesAllInv, ValidationInv, WhenInv,
                                  ReadyInv, DoneState
<1> QED  BY <1>3, <1>4 DEF Finishing

\* The environment keeps the invariant: runs only ever end.
LEMMA EnvironmentIInv == IInv /\ Environment => IInv'
<1> SUFFICES ASSUME IInv, Environment PROVE IInv'
  OBVIOUS
<1> USE DEF IInv
<1>1. TypeOK'
  BY EnvironmentTypeOK
<1>2. CASE SetSpecStatus \/ InformPipelineRun \/ DeadlinePasses \/ Rest
  <2>1. UNCHANGED <<runs, lister, rec>>
    BY <1>2 DEF SetSpecStatus, InformPipelineRun, DeadlinePasses, Rest, vars
  <2> QED  BY <1>1, <2>1, ZenonT(60) DEF ViewsInv, Behind, SeesAllInv, exists, ValidationInv,
                                         WhenInv,
                            ReadyInv, Over
<1>3. ASSUME NEW ts, InformRuns(ts) PROVE IInv'
  <2>1. UNCHANGED <<runs, rec>>
    BY <1>3 DEF InformRuns
  <2>2. Behind(lister)'
    BY <1>3, <2>1 DEF InformRuns, ViewsInv, Behind
  <2> QED  BY <1>1, <2>1, <2>2, ZenonT(60) DEF ViewsInv, Behind, SeesAllInv, exists,
                                               ValidationInv, WhenInv,
                                  ReadyInv, Over
<1>4. ASSUME NEW r \in Run, RunEnds(r) PROVE IInv'
  <2>1. UNCHANGED <<lister, rec>> /\ runs[r].st = "Running"
    BY Zenon, <1>4 DEF RunEnds
  <2>2. PICK st \in DoneState, res \in BOOLEAN :
          runs' = [runs EXCEPT ![r] = [@ EXCEPT !.st = st, !.res = res]]
    BY Zenon, <1>4 DEF RunEnds
  <2>3. \A x \in RunRecord : [x EXCEPT !.st = st, !.res = res].st = st
    BY Zenon DEF RunRecord
  <2>4. runs'[r].st \in DoneState /\ \A q \in Run \ {r} : runs'[q] = runs[q]
    BY <2>2, <2>3 DEF TypeOK
  <2>5. \A q \in Run : /\ runs[q].st # "Absent" <=> runs'[q].st # "Absent"
                       /\ runs[q].st \in DoneState => /\ runs'[q].st = runs[q].st
                                                      /\ runs'[q].res = runs[q].res
    BY ZenonT(60), <2>1, <2>4 DEF DoneState
  <2>6. ViewsInv'
    BY ZenonT(60), <2>1, <2>5, BehindStable DEF ViewsInv, Behind
  <2>7. SeesAllInv' /\ WhenInv'
    BY ZenonT(60), <2>1, <2>5 DEF SeesAllInv, exists, WhenInv
  <2> QED  BY <1>1, <2>1, <2>6, <2>7 DEF ValidationInv, ReadyInv, Over
<1>5. CASE Crash
  <2>1. rec'.pc = "idle" /\ \A r \in Run : rec'.view[r].st = "Absent"
    BY <1>5, NoReconcileSeesNothing DEF Crash
  <2>2. runs' = runs /\ lister' = runs
    BY <1>5, ZenonT(60) DEF Crash
  <2> QED  BY ZenonT(60), <1>1, <2>1, <2>2 DEF ViewsInv, Behind, SeesAllInv, ValidationInv,
                                               WhenInv,
                                  ReadyInv, DoneState
<1> QED  BY <1>2, <1>3, <1>4, <1>5 DEF Environment, InformTaskRuns, InformCustomRuns

\* schedule keeps the view, and what it queues is ready.
LEMMA ScheduleReady ==
  ASSUME NEW R \in ReconcileType, NEW f, f.vf = {}, f.view = R.view, NEW s, AreSkips(f, s),
         NEW vf, NEW fresh
  PROVE  LET S == schedule(R, f, s, vf, fresh)
         IN  /\ S.view = R.view
             /\ S.pc = "create"
             /\ \A r \in S.todo : r[1] \in DagTasks =>
                  /\ r[1] \notin WhenFalse
                  /\ \A p \in Prev[r[1]] : Over(R.view, p) /\ \A q \in S.todo : q[1] # p
<1> DEFINE g == [f EXCEPT !.vf = vf]
           dagDone == checkDAGTasksDone(g, s, skipCache(f, s), fresh)
           GetFinalTasks == {t \in FinalTasks : dagDone /\ ~isScheduled(f, t)}
           fNext == {t \in GetFinalTasks : unresolved(f, t) = {}}
           IsFinalTaskStarted == dagDone /\ \E t \in FinalTasks : isScheduled(f, t)
           next == (IF vf = {} THEN DAGExecutionQueue(f, s) ELSE {}) \cup fNext
           todo == UNION {GetNamesOfTaskRuns(R.st, t) : t \in next}
           fin == R.st.fin \/ IsFinalTaskStarted \/ fNext # {}
<1>1. schedule(R, f, s, vf, fresh) =
        [R EXCEPT !.pc = "create", !.vf = vf, !.st.fin = fin, !.todo = todo]
  BY DEF schedule
<1>2. \A t \in next : t \in DAGExecutionQueue(f, s) \/ t \in FinalTasks
  OBVIOUS
<1>3. \A t : \A r \in GetNamesOfTaskRuns(R.st, t) : r[1] = t
  BY DEF GetNamesOfTaskRuns, runsOfTasks, RunsOf
<1>4. \A r \in todo : r[1] \in DAGExecutionQueue(f, s) \/ r[1] \in FinalTasks
  BY <1>2, <1>3
<1> HIDE DEF fin, todo
<1>5. LET S == schedule(R, f, s, vf, fresh)
      IN  S.view = R.view /\ S.pc = "create" /\ S.todo = todo
  BY ZenonT(60), <1>1 DEF ReconcileType
<1>6. ASSUME NEW r \in todo, r[1] \in DagTasks
      PROVE  /\ r[1] \notin WhenFalse
             /\ \A p \in Prev[r[1]] : Over(R.view, p) /\ \A q \in todo : q[1] # p
  <2>1. r[1] \in DAGExecutionQueue(f, s)
    BY ZenonT(60), <1>4, <1>6, PipelineAssumption
  <2>2. \A p \in Prev[r[1]] : p \notin FinalTasks
    BY ZenonT(60), <1>6, PipelineAssumption
  <2>3. /\ r[1] \notin WhenFalse
        /\ \A p \in Prev[r[1]] : Over(f.view, p) /\ p \notin DAGExecutionQueue(f, s)
    BY ZenonT(60), <2>1, QueueReady
  <2> QED  BY ZenonT(60), <1>4, <2>2, <2>3
<1> QED  BY <1>5, <1>6

\* Scheduling keeps the invariant: what is queued is ready, what is created was queued.
LEMMA SchedulingIInv == IInv /\ Scheduling => IInv'
<1> SUFFICES ASSUME IInv, Scheduling PROVE IInv'
  OBVIOUS
<1> USE DEF IInv
<1>1. TypeOK'
  BY SchedulingTypeOK
<1>2. rec \in ReconcileType
  BY DEF TypeOK
<1>3. CASE RunNextSchedulableTask
  <2> DEFINE fx == Facts(rec)
             s == Skips(fx)
             vf == {t \in DAGExecutionQueue(fx, s) : missingResults(fx, t)}
             fresh == Skips([fx EXCEPT !.vf = vf])
  <2>1. /\ rec.pc = "plan" /\ AreSkips(fx, s) /\ UNCHANGED <<runs, lister>>
        /\ \/ rec' = end(rec, "permanent", rec.st)
           \/ rec' = schedule(rec, fx, s, vf, fresh)
    BY ZenonT(60), <1>3, SkipsSolve DEF RunNextSchedulableTask, env
  <2>2. fx.vf = {} /\ fx.view = rec.view
    <3>1. rec.vf = {}
      BY <1>3, ZenonT(60) DEF RunNextSchedulableTask, ValidationInv
    <3> QED  BY <3>1 DEF Facts
  <2> HIDE DEF fx, s, vf, fresh
  <2>3. CASE rec' = end(rec, "permanent", rec.st)
    <3>1. rec'.view = rec.view /\ rec'.pc = "write"
      BY SMTT(60), <1>2, <2>3, EndKeeps
    <3>2. ViewsInv' /\ SeesAllInv' /\ WhenInv'
      BY ZenonT(60), <2>1, <3>1, ViewsKept
    <3> QED  BY ZenonT(60), <1>1, <3>1, <3>2 DEF ValidationInv, ReadyInv
  <2>4. CASE rec' = schedule(rec, fx, s, vf, fresh)
    <3> DEFINE S == schedule(rec, fx, s, vf, fresh)
    <3>1. /\ S.view = rec.view
          /\ S.pc = "create"
          /\ \A r \in S.todo : r[1] \in DagTasks =>
               /\ r[1] \notin WhenFalse
               /\ \A p \in Prev[r[1]] : Over(rec.view, p) /\ \A q \in S.todo : q[1] # p
      BY <1>2, <2>1, <2>2, ScheduleReady
    <3> HIDE DEF S
    <3>2. rec' = S
      BY <2>4 DEF S
    <3>3. /\ rec'.view = rec.view
          /\ rec'.pc = "create"
          /\ \A r \in rec'.todo : r[1] \in DagTasks =>
               /\ r[1] \notin WhenFalse
               /\ \A p \in Prev[r[1]] : Over(rec.view, p) /\ \A q \in rec'.todo : q[1] # p
      BY <3>1, <3>2, ZenonT(60)
    <3>4. ReadyInv'
      BY <3>3, ZenonT(60) DEF ReadyInv, Over
    <3>5. ViewsInv' /\ SeesAllInv' /\ WhenInv'
      BY <2>1, <3>3, ViewsKept
    <3> QED  BY ZenonT(60), <1>1, <3>3, <3>4, <3>5 DEF ValidationInv
  <2> QED  BY <2>1, <2>3, <2>4
<1>4. CASE CreateRun
  <2>1. PICK r \in Run :
          /\ rec.pc = "create" /\ r \in rec.todo
          /\ \/ /\ runs[r] = Absent
                /\ runs' = [runs EXCEPT ![r] = Created]
                /\ rec' = [rec EXCEPT !.todo = @ \ {r}, !.view[r] = Created]
             \/ /\ rec' = end([rec EXCEPT !.clean = FALSE], "retry", rec.st)
                /\ runs' = runs
    BY Zenon, <1>4 DEF CreateRun, creating
  <2>2. lister' = lister
    BY SMTT(60), <1>4 DEF CreateRun
  <2>3. CASE runs' = runs /\ rec' = end([rec EXCEPT !.clean = FALSE], "retry", rec.st)
    <3> DEFINE S == [rec EXCEPT !.clean = FALSE]
    <3>1. S \in ReconcileType /\ S.view = rec.view
      BY Zenon, <1>2 DEF ReconcileType
    <3>2. rec' = end(S, "retry", rec.st)
      BY ZenonT(60), <2>3
    <3> HIDE DEF S
    <3>3. rec'.view = rec.view /\ rec'.pc = "write"
      BY <3>1, <3>2, EndKeeps
    <3>4. ViewsInv' /\ SeesAllInv' /\ WhenInv'
      BY ZenonT(60), <2>1, <2>2, <2>3, <3>3, ViewsKept
    <3> QED  BY <1>1, <3>3, <3>4 DEF ValidationInv, ReadyInv
  <2>4. CASE /\ runs[r] = Absent
             /\ runs' = [runs EXCEPT ![r] = Created]
             /\ rec' = [rec EXCEPT !.todo = @ \ {r}, !.view[r] = Created]
    <3>1. /\ rec'.pc = "create" /\ rec'.todo = rec.todo \ {r}
          /\ rec'.view = [rec.view EXCEPT ![r] = Created]
      BY Zenon, <1>2, <2>1, <2>4 DEF ReconcileType
    <3>2. /\ runs'[r].st = "Running" /\ rec'.view[r].st = "Running"
          /\ \A q \in Run \ {r} : runs'[q] = runs[q] /\ rec'.view[q] = rec.view[q]
      <4>1. Created.st = "Running"
        BY DEF Created
      <4>2. runs \in [Run -> RunRecord] /\ rec.view \in [Run -> RunRecord]
        BY Zenon, <1>2 DEF TypeOK, ReconcileType
      <4> QED  BY ZenonT(60), <2>4, <3>1, <4>1, <4>2
    <3>3. runs[r].st = "Absent"
      <4>1. Absent.st = "Absent"
        BY ZenonT(60) DEF Absent
      <4> QED  BY <2>4, <4>1
    <3>4. ViewsInv'
      BY <2>2, <3>2, <3>3 DEF ViewsInv, Behind, DoneState
    <3>5. SeesAllInv'
      BY <2>1, <3>2 DEF SeesAllInv, exists
    <3>6. WhenInv'
      BY ZenonT(60), <2>1, <3>2 DEF WhenInv, ReadyInv
    <3>7. ReadyInv'
      <4>1. ASSUME NEW q \in rec'.todo, q[1] \in DagTasks, NEW p \in Prev[q[1]]
            PROVE  Over(rec.view, p) => Over(rec'.view, p)
        <5>1. r[1] # p
          BY ZenonT(60), <2>1, <3>1, <4>1 DEF ReadyInv
        <5>2. \A x \in RunsOf(p) : x \in Run /\ x # r
          BY SMTT(60), <4>1, <5>1, RunsOfType, PipelineAssumption DEF RunsOf, Tasks
        <5>3. \A x \in RunsOf(p) : rec'.view[x] = rec.view[x]
          BY <3>2, <5>2, ZenonT(60)
        <5> QED  BY <5>3 DEF Over
      <4> QED  BY ZenonT(60), <2>1, <3>1, <4>1 DEF ReadyInv, Over
    <3> QED  BY ZenonT(60), <1>1, <3>1, <3>4, <3>5, <3>6, <3>7 DEF ValidationInv
  <2> QED  BY <2>1, <2>3, <2>4
<1>5. CASE CreateRunFails
  <2> DEFINE S == [rec EXCEPT !.clean = FALSE]
  <2>1. S \in ReconcileType /\ S.view = rec.view
    BY Zenon, <1>2 DEF ReconcileType
  <2>2. rec.pc = "create" /\ UNCHANGED <<runs, lister>> /\ \E st : \E out : rec' = end(S, out, st)
    BY ZenonT(60), <1>5 DEF CreateRunFails, creating
  <2> HIDE DEF S
  <2>3. rec'.view = rec.view /\ rec'.pc = "write"
    BY <2>1, <2>2, EndKeeps
  <2>4. ViewsInv' /\ SeesAllInv' /\ WhenInv'
    BY ZenonT(60), <2>2, <2>3, ViewsKept
  <2> QED  BY <1>1, <2>3, <2>4 DEF ValidationInv, ReadyInv
<1>6. CASE SkipFinalTask
  <2>1. PICK q \in Run : /\ rec.pc = "create" /\ UNCHANGED <<runs, lister>>
                         /\ rec' = [rec EXCEPT !.todo = @ \ RunsOf(q[1])]
    BY Zenon, <1>6 DEF SkipFinalTask, creating, env
  <2>2. rec'.view = rec.view /\ rec'.pc = "create" /\ rec'.todo \subseteq rec.todo
    BY Zenon, <1>2, <2>1 DEF ReconcileType
  <2>3. ViewsInv' /\ SeesAllInv' /\ WhenInv'
    BY ZenonT(60), <2>1, <2>2, ViewsKept
  <2> QED  BY <1>1, <2>1, <2>2, <2>3 DEF ValidationInv, ReadyInv, Over
<1>7. CASE ScheduleDone
  <2>1. LET S == [rec EXCEPT !.pc = "conclude"] IN S.view = rec.view /\ S.pc = "conclude"
    BY Zenon, <1>2 DEF ReconcileType
  <2>2. /\ rec.pc = "create" /\ UNCHANGED <<runs, lister>>
        /\ \/ rec' = patch(rec, "pipeline", rec.st.childRefs)
           \/ rec' = [rec EXCEPT !.pc = "conclude"]
    BY <1>7 DEF ScheduleDone, env
  <2>3. /\ rec'.view = rec.view
        /\ rec'.pc = "conclude" \/ (rec'.pc = "patch" /\ rec'.why = "pipeline")
    <3>1. CASE rec' = [rec EXCEPT !.pc = "conclude"]
      BY ZenonT(60), <2>1, <3>1
    <3>2. CASE rec' = patch(rec, "pipeline", rec.st.childRefs)
      BY <1>2, <3>2, PatchKeeps
    <3> QED  BY <2>2, <3>1, <3>2
  <2>4. ViewsInv' /\ SeesAllInv' /\ WhenInv'
    BY ZenonT(60), <2>2, <2>3, ViewsKept
  <2> QED  BY <1>1, <2>3, <2>4 DEF ValidationInv, ReadyInv
<1> QED  BY ZenonT(60), <1>3, <1>4, <1>5, <1>6, <1>7 DEF Scheduling

-----------------------------------------------------------------------------
\* The inductive invariant holds: caches and reconciles lag behind the cluster
\* without being wrong, and what is being created was ready.
THEOREM IInvHolds == Spec => []IInv
<1>1. IInv /\ [Next]_vars => IInv'
  <2> SUFFICES ASSUME IInv, [Next]_vars PROVE IInv'
    OBVIOUS
  <2>1. CASE UNCHANGED vars
    <3>1. UNCHANGED <<runs, lister, rec>> /\ TypeOK'
      BY <2>1 DEF vars, IInv, TypeOK
    <3> QED  BY <3>1, ZenonT(60) DEF IInv, ViewsInv, Behind, SeesAllInv, exists, ValidationInv,
                                     WhenInv,
                        ReadyInv, Over
  <2> QED  BY <2>1, BeginIInv, PatchingIInv, SchedulingIInv, FinishingIInv, EnvironmentIInv
           DEF Next, Reconciler
<1> QED  BY <1>1, InitIInv, PTL DEF Spec

\* Either the caches hold what the reconciler created, or no task fans out.
CachesSuffice == ReadsOwnWrites \/ \A t \in DagTasks : Width[t] = 1

\* Only CreateRun brings a run into being.
LEMMA OnlyCreateRunCreates ==
  ASSUME TypeOK, [Next]_vars, ~CreateRun, NEW r \in Run, runs[r].st = "Absent"
  PROVE  runs'[r].st = "Absent"
<1>1. CASE PatchRun
  <2>1. PICK q \in rec.todo : \/ runs' = [runs EXCEPT ![q].req = requested(rec.why)]
                             \/ runs' = runs
    BY Zenon, <1>1 DEF PatchRun
  <2>2. \A x \in RunRecord : [x EXCEPT !.req = requested(rec.why)].st = x.st
    BY Zenon DEF RunRecord
  <2> QED  BY <2>1, <2>2, ZenonT(60) DEF TypeOK
<1>2. ASSUME NEW q \in Run, RunEnds(q) PROVE runs'[r].st = "Absent"
  <2>1. runs[q].st = "Running"
    BY Zenon, <1>2 DEF RunEnds
  <2>2. \E x : runs' = [runs EXCEPT ![q] = x]
    BY Zenon, <1>2 DEF RunEnds
  <2> QED  BY <2>1, <2>2 DEF TypeOK
<1>3. CASE UNCHANGED runs
  BY <1>3
<1>4. CASE UNCHANGED vars
  BY SMTT(60), <1>4 DEF vars
<1>5. Begin \/ Finishing => UNCHANGED runs
  BY Zenon DEF Begin, ReconcileDone, ReconcileLongTimeout, ReconcileCancelled, ReconcilePending,
         Reconcile, ReconcileInvalid, ReconcileRetry, ReconcileResolving, reconciles, Dequeue,
         Finishing, Conclude, ConcludeWithoutResult, UpdateStatus, UpdateStatusFails, env
<1>6. Patching /\ ~PatchRun => UNCHANGED runs
  BY Zenon DEF Patching, PatchRunFails, CancelDone, GracefulCancelDone, TaskTimeoutsDone,
         PipelineTimeoutDone, LongTimeoutDone, patchesDone, env
<1>7. Scheduling => UNCHANGED runs
  BY DEF Scheduling, RunNextSchedulableTask, CreateRunFails, SkipFinalTask, ScheduleDone, env
<1>8. Environment => UNCHANGED runs \/ \E q \in Run : RunEnds(q)
  BY DEF Environment, SetSpecStatus, InformPipelineRun, InformTaskRuns, InformCustomRuns,
         InformRuns, DeadlinePasses, Crash, Rest, vars
<1> QED  BY <1>1, <1>2, <1>3, <1>4, <1>5, <1>6, <1>7, <1>8 DEF Next, Reconciler

\* A run that CreateRun creates finds the runs of its task's parents over.
LEMMA CreationInOrder ==
  ASSUME CachesSuffice, IInv, [Next]_vars, NEW t \in DagTasks, created(t), NEW p \in Prev[t]
  PROVE  parentAllows(p)
<1>1. PICK r \in RunsOf(t) : runs[r].st = "Absent" /\ runs'[r].st # "Absent"
  BY ZenonT(60) DEF created
<1>2. r \in Run /\ r[1] = t /\ p \in DagTasks
  BY RunsOfType, PipelineAssumption DEF RunsOf, Tasks
<1>3. CreateRun
  BY <1>1, <1>2, OnlyCreateRunCreates DEF IInv
<1>4. PICK q \in Run : /\ rec.pc = "create" /\ q \in rec.todo
                       /\ runs' = [runs EXCEPT ![q] = Created] \/ runs' = runs
  BY ZenonT(60), <1>3 DEF CreateRun, creating
<1>5. q = r
  BY ZenonT(60), <1>1, <1>2, <1>4 DEF IInv, TypeOK
<1>6. Over(rec.view, p)
  BY ZenonT(60), <1>2, <1>4, <1>5 DEF IInv, ReadyInv
<1>7. \A x \in RunsOf(p) : x \in Run /\ x[1] = p
  BY SMTT(60), <1>2, RunsOfType DEF RunsOf, Tasks
<1>8. CASE p \in WhenFalse
  BY ZenonT(60), <1>2, <1>7, <1>8 DEF IInv, WhenInv, parentAllows, ended, existing
<1>9. CASE p \notin WhenFalse
  <2>1. PICK y \in RunsOf(p) : rec.view[y].st # "Absent"
    BY ZenonT(60), <1>6, <1>9 DEF Over
  <2>2. ASSUME NEW x \in existing(p) PROVE rec.view[x].st # "Absent"
    <3>1. x \in RunsOf(p) /\ runs[x].st # "Absent"
      BY ZenonT(60) DEF existing
    <3>2. CASE ReadsOwnWrites
      <4>1. exists(rec.view) = exists(runs)
        BY Zenon, <1>4, <3>2 DEF IInv, SeesAllInv
      <4> QED  BY SMTT(60), <1>7, <3>1, <4>1 DEF exists
    <3>3. CASE Width[p] = 1
      <4>1. x = y
        BY <2>1, <3>1, <3>3 DEF RunsOf
      <4> QED  BY ZenonT(60), <2>1, <4>1
    <3> QED  BY ZenonT(60), <1>2, <3>2, <3>3 DEF CachesSuffice
  <2>3. ASSUME NEW x \in existing(p)
        PROVE  runs[x].st \in DoneState /\ (p \in OnErrorContinue \/ runs[x].st = "Succeeded")
    <3>1. x \in RunsOf(p) /\ x \in Run
      BY ZenonT(60), <1>7 DEF existing
    <3>2. rec.view[x].st \in DoneState /\ (p \in OnErrorContinue \/ rec.view[x].st = "Succeeded")
      BY ZenonT(60), <1>6, <1>9, <2>2, <3>1 DEF Over
    <3>3. runs[x].st = rec.view[x].st
      BY <3>1, <3>2 DEF IInv, ViewsInv, Behind
    <3> QED  BY ZenonT(60), <3>2, <3>3
  <2> QED  BY ZenonT(60), <2>3 DEF parentAllows, ended
<1> QED  BY <1>8, <1>9

(***************************************************************************)
(* A run of a DAG task is created only when every task it depends on is    *)
(* over in the cluster and has not failed, unless with onError: continue.  *)
(* It holds of every pipeline and of stale caches, faults, cancellation    *)
(* and timeouts, provided a matrix is not read from stale caches.          *)
(***************************************************************************)
THEOREM CreatesInDependencyOrder == CachesSuffice => (Spec => DependencyOrder)
<1> SUFFICES ASSUME CachesSuffice PROVE Spec => DependencyOrder
  OBVIOUS
<1>1. IInv /\ [Next]_vars =>
        [\A t \in DagTasks : created(t) => \A p \in Prev[t] : parentAllows(p)]_vars
  BY CreationInOrder
<1> QED  BY <1>1, IInvHolds, PTL DEF Spec, DependencyOrder

-----------------------------------------------------------------------------
(***************************************************************************)
(* What the steps of a reconcile do to its record, beyond its view.        *)
(***************************************************************************)
\* The end of a reconcile sets the status and nothing else that matters later.
LEMMA EndSets ==
  ASSUME NEW R \in ReconcileType, NEW out, NEW st
  PROVE  LET S == end(R, out, st)
         IN  /\ S.pc = "write" /\ S.st = st /\ S.orig = R.orig /\ S.spec = R.spec
             /\ S.view = R.view /\ S.vf = R.vf /\ S.errs = R.errs /\ S.out = out
BY Zenon DEF end, ReconcileType

\* Going on to patch runs leaves the status alone.
LEMMA PatchSets ==
  ASSUME NEW R \in ReconcileType, NEW why, NEW todo
  PROVE  LET S == patch(R, why, todo)
         IN  /\ S.pc = "patch" /\ S.why = why /\ S.todo = todo /\ ~S.errs
             /\ S.st = R.st /\ S.orig = R.orig /\ S.spec = R.spec
             /\ S.view = R.view /\ S.vf = R.vf
BY ZenonT(60) DEF patch, ReconcileType

\* So does applying the tasks and finally timeouts.
LEMMA ApplyTaskTimeoutsSets ==
  ASSUME NEW R \in ReconcileType
  PROVE  LET S == applyTaskTimeouts(R)
         IN  /\ \/ S.pc = "plan" /\ S.errs = R.errs
                \/ S.pc = "patch" /\ S.why = "tasks" /\ ~S.errs
             /\ S.st = R.st /\ S.orig = R.orig /\ S.spec = R.spec
             /\ S.view = R.view /\ S.vf = R.vf
<1>1. LET S == [R EXCEPT !.pc = "plan"]
      IN  /\ S.pc = "plan" /\ S.errs = R.errs
          /\ S.st = R.st /\ S.orig = R.orig /\ S.spec = R.spec
          /\ S.view = R.view /\ S.vf = R.vf
  BY Zenon DEF ReconcileType
<1>2. CASE tasksToTimeOut(R) = {}
  BY ZenonT(60), <1>1, <1>2 DEF applyTaskTimeouts
<1>3. CASE tasksToTimeOut(R) # {}
  <2> DEFINE S == patch(R, "tasks", runsOfTasks(R.st, tasksToTimeOut(R)))
  <2>1. applyTaskTimeouts(R) = S
    BY ZenonT(60), <1>3 DEF applyTaskTimeouts
  <2>2. /\ S.pc = "patch" /\ S.why = "tasks" /\ ~S.errs
        /\ S.st = R.st /\ S.orig = R.orig /\ S.spec = R.spec
        /\ S.view = R.view /\ S.vf = R.vf
    BY SMTT(60), PatchSets
  <2> HIDE DEF S
  <2> QED  BY <2>1, <2>2
<1> QED  BY <1>2, <1>3

\* So does applying a graceful cancel.
LEMMA ApplyGracefulCancelSets ==
  ASSUME NEW R \in ReconcileType
  PROVE  LET S == applyGracefulCancel(R)
         IN  /\ \/ S.pc = "plan" /\ S.errs = R.errs
                \/ S.pc = "patch" /\ S.why \in {"graceful", "tasks"} /\ ~S.errs
             /\ S.st = R.st /\ S.orig = R.orig /\ S.spec = R.spec
             /\ S.view = R.view /\ S.vf = R.vf
<1>1. CASE applyGracefulCancel(R) = applyTaskTimeouts(R)
  BY ZenonT(60), <1>1, ApplyTaskTimeoutsSets
<1>2. CASE applyGracefulCancel(R) = patch(R, "graceful", R.st.childRefs)
  <2> DEFINE S == patch(R, "graceful", R.st.childRefs)
  <2>1. /\ S.pc = "patch" /\ S.why = "graceful" /\ ~S.errs
        /\ S.st = R.st /\ S.orig = R.orig /\ S.spec = R.spec
        /\ S.view = R.view /\ S.vf = R.vf
    BY PatchSets
  <2> HIDE DEF S
  <2> QED  BY ZenonT(60), <1>2, <2>1 DEF S
<1> QED  BY ZenonT(60), <1>1, <1>2 DEF applyGracefulCancel

\* updatePipelineRunStatusFromInformer adds to childReferences what it sees.
LEMMA SyncChildRefsSets ==
  ASSUME NEW R \in ReconcileType
  PROVE  LET S == syncChildRefs(R)
         IN  /\ S.st = [R.st EXCEPT !.childRefs = R.st.childRefs \cup exists(R.view)]
             /\ S.orig = R.orig /\ S.spec = R.spec /\ S.errs = R.errs
             /\ S.view = R.view /\ S.vf = R.vf
BY Zenon DEF syncChildRefs, ReconcileType

\* A reconcile that has just begun works on what the caches hold.
LEMMA BegunSets ==
  ASSUME TypeOK
  PROVE  /\ begun.orig = prCache.st /\ begun.spec = prCache.spec /\ begun.errs = FALSE
         /\ begun.view = lister /\ begun.vf = {}
         /\ begun.st.childRefs = prCache.st.childRefs
         /\ begun.st.skipped = prCache.st.skipped
         /\ prCache.st.started => begun.st.started
         /\ begun.st.reason \in {prCache.st.reason, "Started"}
<1> DEFINE R == [NoReconcile EXCEPT !.spec = prCache.spec, !.orig = prCache.st,
                   !.st = prCache.st, !.view = lister,
                   !.late = prCache.st.started /\ "pipeline" \in elapsed]
           T == [prCache.st EXCEPT !.started = TRUE, !.reason = "Started"]
<1>1. /\ R.orig = prCache.st /\ R.spec = prCache.spec /\ R.errs = FALSE
      /\ R.view = lister /\ R.vf = {} /\ R.st = prCache.st
      /\ DOMAIN R = DOMAIN NoReconcile
  BY ZenonT(60) DEF NoReconcile
<1>2. DOMAIN NoReconcile = {"pc", "spec", "orig", "st", "view", "vf", "why", "todo", "errs",
                            "out", "late", "clean"}
  BY DEF NoReconcile
<1>3. /\ T.childRefs = prCache.st.childRefs /\ T.skipped = prCache.st.skipped
      /\ T.started = TRUE /\ T.reason = "Started"
  BY DEF TypeOK, Status
<1> HIDE DEF R
<1>4. \/ InitializeConditions(R) = R
      \/ InitializeConditions(R) = [R EXCEPT !.st = T]
  BY <1>1 DEF InitializeConditions
<1>5. begun = InitializeConditions(R)
  BY DEF begun, R
<1> HIDE DEF T
<1>6. CASE begun = R
  BY ZenonT(60), <1>1, <1>6
<1>7. CASE begun = [R EXCEPT !.st = T]
  <2>1. "st" \in DOMAIN R
    BY <1>1, <1>2
  <2>2. begun.st = T
    BY <1>7, <2>1
  <2>3. /\ begun.orig = R.orig /\ begun.spec = R.spec /\ begun.errs = R.errs
        /\ begun.view = R.view /\ begun.vf = R.vf
    BY <1>1, <1>2, <1>7
  <2> QED  BY ZenonT(60), <1>1, <1>3, <2>2, <2>3
<1> QED  BY Zenon, <1>4, <1>5, <1>6, <1>7

(***************************************************************************)
(* The kinds of steps, by what they do to the reconcile and to the         *)
(* objects it reads.  A reconcile starts from the caches;                  *)
(***************************************************************************)
Starts ==
  /\ rec.pc = "idle"
  /\ UNCHANGED <<pr, prCache, runs, lister, elapsed, snooze>>
  /\ ReadsOwnWrites => exists(lister) = exists(runs) /\ prCache.st = pr.st
  /\ ~IsDone(prCache.st)
  /\ rec'.orig = prCache.st /\ rec'.spec = prCache.spec
  /\ rec'.view = lister /\ rec'.vf = {} /\ ~rec'.errs
  /\ prCache.st.started => rec'.st.started
  /\ rec'.st.skipped = prCache.st.skipped
  /\ \/ /\ rec'.pc = "patch"
        /\ \/ rec'.why = "long"
           \/ rec'.why = "cancel" /\ rec'.todo = prCache.st.childRefs
        /\ ~IsDone(rec'.st)
        /\ rec'.st.childRefs = prCache.st.childRefs
     \/ /\ \/ rec'.pc = "plan"
           \/ rec'.pc = "patch" /\ rec'.why \in {"graceful", "tasks"}
        /\ ~IsDone(rec'.st) /\ prCache.spec # "Cancelled"
        /\ rec'.st.childRefs = prCache.st.childRefs \cup exists(lister)
     \/ /\ rec'.pc = "write"
        /\ IsDone(rec'.st) => rec'.st.reason = "Invalid"
        /\ rec'.st.childRefs = prCache.st.childRefs \cup exists(lister)

\* it works towards its end without writing the status;
Works ==
  /\ rec.pc \notin {"idle", "write"} /\ rec'.pc # "idle"
  /\ UNCHANGED <<pr, prCache, lister, elapsed>>
  /\ rec'.orig = rec.orig /\ rec'.spec = rec.spec
  /\ rec'.st.started = rec.st.started
  /\ \/ /\ rec'.pc \in {"patch", "plan", "create"}
        /\ rec.pc # "conclude"
        /\ rec'.st.reason = rec.st.reason
        /\ rec'.st.childRefs = rec.st.childRefs /\ rec'.st.skipped = rec.st.skipped
     \/ /\ rec'.pc = "conclude" /\ rec.pc # "conclude"
        /\ rec'.st.childRefs = rec.st.childRefs
     \/ /\ rec'.pc = "write" /\ rec.pc # "conclude"
        /\ rec'.st.childRefs = rec.st.childRefs
        /\ rec'.st.reason \in {rec.st.reason, "CouldntCancel", "Cancelled", "CouldntTimeOut",
                                "TimedOut", "CreateRunFailed"}
        /\ rec'.st.reason = "Cancelled" =>
             \/ rec.st.reason = "Cancelled"
             \/ rec.pc = "patch" /\ rec.why = "cancel" /\ rec.todo = {} /\ ~rec.errs
     \/ /\ rec'.pc = "write" /\ rec.pc = "conclude"
        /\ UNCHANGED runs
        /\ LET st == concluded(Facts(rec), Skips(Facts(rec)))
           IN  \/ rec'.st = st
              \/ rec'.st = [st EXCEPT !.reason = "CouldntGetPipelineResult"]

\* and it stops, with its status written or not.
Stops ==
  /\ rec' = NoReconcile
  /\ UNCHANGED <<runs, elapsed>>
  /\ pr'.spec = pr.spec
  /\ \/ /\ rec.pc = "write"
        /\ \/ pr'.st = rec.st
           \/ pr' = pr /\ rec.st = rec.orig
        /\ UNCHANGED <<prCache, lister>>
     \/ /\ faults < MaxFaults
        /\ pr' = pr
        /\ \/ UNCHANGED <<prCache, lister>>
           \/ prCache' = pr /\ lister' = runs

\* Meanwhile, the rest of the cluster.
GoesOn ==
  /\ rec' = rec
  /\ pr'.st = pr.st
  /\ pr'.spec = pr.spec \/ \E u \in UserSteps : u[1] = pr.spec /\ u[2] = pr'.spec
  /\ prCache' \in {prCache, pr}
  /\ exists(runs') = exists(runs)
  /\ \A r \in Run : lister'[r] \in {lister[r], runs[r]}
  /\ elapsed' = elapsed \/ (elapsed \subseteq elapsed' /\ pr.st.started)

\* Patching child runs is work.
LEMMA PatchingWorks == TypeOK /\ Patching => Works
<1> SUFFICES ASSUME TypeOK, Patching PROVE Works
  OBVIOUS
<1>1. rec \in ReconcileType /\ rec.st \in Status /\ rec.pc = "patch"
  BY ZenonT(40) DEF TypeOK, ReconcileType, Patching, PatchRun, PatchRunFails, CancelDone,
         GracefulCancelDone, TaskTimeoutsDone, PipelineTimeoutDone, LongTimeoutDone, patchesDone
<1>2. UNCHANGED <<pr, prCache, lister, elapsed>>
  BY Zenon DEF Patching, PatchRun, PatchRunFails, CancelDone, GracefulCancelDone,
               TaskTimeoutsDone,
         PipelineTimeoutDone, LongTimeoutDone, patchesDone, env
<1>3. \A x : /\ [rec.st EXCEPT !.reason = x].reason = x
             /\ [rec.st EXCEPT !.reason = x].childRefs = rec.st.childRefs
             /\ [rec.st EXCEPT !.reason = x].started = rec.st.started
  BY <1>1 DEF Status
<1>4. CASE PatchRun \/ PatchRunFails
  <2>1. /\ rec'.pc = "patch" /\ rec'.orig = rec.orig /\ rec'.spec = rec.spec
        /\ rec'.st = rec.st
    BY Zenon, <1>1, <1>4 DEF PatchRun, PatchRunFails, ReconcileType
  <2> QED  BY <1>1, <1>2, <2>1 DEF Works
<1>5. ASSUME NEW out, NEW reason, rec' = end(rec, out, [rec.st EXCEPT !.reason = reason]),
             reason \in {"CouldntCancel", "Cancelled", "CouldntTimeOut", "TimedOut"},
             reason = "Cancelled" => rec.why = "cancel" /\ rec.todo = {} /\ ~rec.errs
      PROVE  Works
  <2>1. /\ rec'.pc = "write" /\ rec'.orig = rec.orig /\ rec'.spec = rec.spec
        /\ rec'.st = [rec.st EXCEPT !.reason = reason]
    BY <1>1, <1>5, EndSets
  <2>2. /\ rec'.st.reason = reason /\ rec'.st.childRefs = rec.st.childRefs
        /\ rec'.st.started = rec.st.started
    BY <1>3, <2>1
  <2> QED  BY ZenonT(60), <1>1, <1>2, <1>5, <2>1, <2>2 DEF Works
<1>6. CASE CancelDone
  BY <1>5, <1>6 DEF CancelDone, patchesDone
<1>7. CASE GracefulCancelDone
  <2>1. CASE rec' = applyTaskTimeouts(rec)
    <3>1. /\ rec'.pc \in {"patch", "plan"} /\ rec'.orig = rec.orig /\ rec'.spec = rec.spec
          /\ rec'.st = rec.st
      BY <1>1, <2>1, ApplyTaskTimeoutsSets
    <3> QED  BY ZenonT(60), <1>1, <1>2, <3>1 DEF Works
  <2> QED  BY <1>5, <1>7, <2>1 DEF GracefulCancelDone, patchesDone
<1>8. CASE TaskTimeoutsDone
  <2>1. CASE rec' = [rec EXCEPT !.pc = "plan"]
    <3>1. /\ rec'.pc = "plan" /\ rec'.orig = rec.orig /\ rec'.spec = rec.spec
          /\ rec'.st = rec.st
      BY Zenon, <1>1, <2>1 DEF ReconcileType
    <3> QED  BY <1>1, <1>2, <3>1 DEF Works
  <2>2. CASE rec' = end(rec, "retry", rec.st)
    <3>1. /\ rec'.pc = "write" /\ rec'.orig = rec.orig /\ rec'.spec = rec.spec
          /\ rec'.st = rec.st
      BY <1>1, <2>2, EndSets
    <3> QED  BY ZenonT(60), <1>1, <1>2, <3>1 DEF Works
  <2> QED  BY <1>8, <2>1, <2>2 DEF TaskTimeoutsDone
<1>9. CASE PipelineTimeoutDone
  <2>1. CASE rec' = [rec EXCEPT !.pc = "conclude", !.st.reason = "TimedOut"]
    <3>1. /\ rec'.pc = "conclude" /\ rec'.orig = rec.orig /\ rec'.spec = rec.spec
          /\ rec'.st = [rec.st EXCEPT !.reason = "TimedOut"]
      BY Zenon, <1>1, <2>1 DEF ReconcileType
    <3>2. /\ rec'.st.childRefs = rec.st.childRefs /\ rec'.st.started = rec.st.started
      BY <1>3, <3>1
    <3> QED  BY ZenonT(60), <1>1, <1>2, <3>1, <3>2 DEF Works
  <2> QED  BY <1>5, <1>9, <2>1 DEF PipelineTimeoutDone, patchesDone
<1>10. CASE LongTimeoutDone
  BY <1>5, <1>10 DEF LongTimeoutDone, patchesDone
<1> QED  BY ZenonT(60), <1>4, <1>6, <1>7, <1>8, <1>9, <1>10 DEF Patching

\* So is scheduling and creating them.
LEMMA SchedulingWorks == TypeOK /\ Scheduling => Works
<1> SUFFICES ASSUME TypeOK, Scheduling PROVE Works
  OBVIOUS
<1>1. rec \in ReconcileType /\ rec.st \in Status /\ rec.pc \in {"plan", "create"}
  BY ZenonT(40) DEF TypeOK, ReconcileType, Scheduling, RunNextSchedulableTask, CreateRun,
                    CreateRunFails,
         SkipFinalTask, ScheduleDone, creating
<1>2. UNCHANGED <<pr, prCache, lister, elapsed>>
  BY Zenon DEF Scheduling, RunNextSchedulableTask, CreateRun, CreateRunFails, SkipFinalTask,
         ScheduleDone, env
<1>3. ASSUME NEW R \in ReconcileType, R.st = rec.st, R.orig = rec.orig, R.spec = rec.spec,
             NEW out, rec' = end(R, out, rec.st)
      PROVE  Works
  <2>1. /\ rec'.pc = "write" /\ rec'.orig = rec.orig /\ rec'.spec = rec.spec
        /\ rec'.st = rec.st
    BY <1>3, EndSets
  <2> QED  BY ZenonT(60), <1>1, <1>2, <2>1 DEF Works
<1>4. LET R == [rec EXCEPT !.clean = FALSE]
      IN  R \in ReconcileType /\ R.st = rec.st /\ R.orig = rec.orig /\ R.spec = rec.spec
  BY Zenon, <1>1 DEF ReconcileType
<1>5. ASSUME rec'.pc \in {"patch", "create"}, rec'.orig = rec.orig, rec'.spec = rec.spec,
             rec'.st = rec.st
      PROVE  Works
  BY <1>1, <1>2, <1>5 DEF Works
<1>6. CASE RunNextSchedulableTask
  <2>1. CASE rec' = end(rec, "permanent", rec.st)
    BY <1>1, <1>3, <2>1
  <2>2. ASSUME NEW f, NEW s, NEW vf, NEW fresh, rec' = schedule(rec, f, s, vf, fresh)
        PROVE  Works
    <3>1. PICK fin, todo : rec' = [rec EXCEPT !.pc = "create", !.vf = vf, !.st.fin = fin,
                                              !.todo = todo]
      BY Zenon, <2>2 DEF schedule
    <3>2. /\ rec'.pc = "create" /\ rec'.orig = rec.orig /\ rec'.spec = rec.spec
          /\ rec'.st = [rec.st EXCEPT !.fin = fin]
      BY Zenon, <1>1, <3>1 DEF ReconcileType
    <3>3. /\ rec'.st.reason = rec.st.reason /\ rec'.st.childRefs = rec.st.childRefs
          /\ rec'.st.started = rec.st.started /\ rec'.st.skipped = rec.st.skipped
      BY <1>1, <3>2 DEF Status
    <3> QED  BY ZenonT(60), <1>1, <1>2, <3>2, <3>3 DEF Works
  <2> QED  BY ZenonT(60), <1>6, <2>1, <2>2 DEF RunNextSchedulableTask
<1>7. CASE CreateRun
  <2>1. PICK r \in Run :
          \/ rec' = [rec EXCEPT !.todo = @ \ {r}, !.view[r] = Created]
          \/ rec' = end([rec EXCEPT !.clean = FALSE], "retry", rec.st)
    BY Zenon, <1>7 DEF CreateRun
  <2>2. CASE rec' = [rec EXCEPT !.todo = @ \ {r}, !.view[r] = Created]
    <3>1. /\ rec'.pc = rec.pc /\ rec'.orig = rec.orig /\ rec'.spec = rec.spec
          /\ rec'.st = rec.st
      BY Zenon, <1>1, <2>2 DEF ReconcileType
    <3>2. rec.pc = "create"
      BY <1>7 DEF CreateRun, creating
    <3> QED  BY ZenonT(60), <1>5, <3>1, <3>2
  <2> QED  BY Zenon, <1>3, <1>4, <2>1, <2>2
<1>8. CASE CreateRunFails
  <2> DEFINE R == [rec EXCEPT !.clean = FALSE]
             st == [rec.st EXCEPT !.reason = "CreateRunFailed"]
  <2>1. R \in ReconcileType /\ R.st = rec.st /\ R.orig = rec.orig /\ R.spec = rec.spec
    BY <1>4
  <2>2. rec' = end(R, "retry", R.st) \/ rec' = end(R, "permanent", [R.st EXCEPT !.reason = "CreateRunFailed"])
    BY <1>8 DEF CreateRunFails
  <2> HIDE DEF R
  <2>3. rec' = end(R, "retry", rec.st) \/ rec' = end(R, "permanent", st)
    BY ZenonT(60), <2>1, <2>2
  <2>4. CASE rec' = end(R, "permanent", st)
    <3>1. /\ st.reason = "CreateRunFailed" /\ st.childRefs = rec.st.childRefs
          /\ st.started = rec.st.started
      BY ZenonT(60), <1>1 DEF Status
    <3> HIDE DEF st
    <3>2. /\ rec'.pc = "write" /\ rec'.orig = rec.orig /\ rec'.spec = rec.spec
          /\ rec'.st = st
      BY <2>1, <2>4, EndSets
    <3> QED  BY ZenonT(60), <1>1, <1>2, <3>1, <3>2 DEF Works
  <2> QED  BY ZenonT(60), <1>3, <2>1, <2>3, <2>4
<1>9. CASE SkipFinalTask
  <2>1. PICK T : rec' = [rec EXCEPT !.todo = @ \ T] /\ rec.pc = "create"
    BY Zenon, <1>9 DEF SkipFinalTask, creating
  <2>2. /\ rec'.pc = "create" /\ rec'.orig = rec.orig /\ rec'.spec = rec.spec
        /\ rec'.st = rec.st
    BY Zenon, <1>1, <2>1 DEF ReconcileType
  <2> QED  BY <1>5, <2>2
<1>10. CASE ScheduleDone
  <2>1. CASE rec' = patch(rec, "pipeline", rec.st.childRefs)
    <3>1. /\ rec'.pc = "patch" /\ rec'.orig = rec.orig /\ rec'.spec = rec.spec
          /\ rec'.st = rec.st
      BY <1>1, <2>1, PatchSets
    <3> QED  BY ZenonT(60), <1>5, <3>1
  <2>2. CASE rec' = [rec EXCEPT !.pc = "conclude"]
    <3>1. /\ rec'.pc = "conclude" /\ rec'.orig = rec.orig /\ rec'.spec = rec.spec
          /\ rec'.st = rec.st
      BY Zenon, <1>1, <2>2 DEF ReconcileType
    <3> QED  BY <1>1, <1>2, <3>1 DEF Works
  <2> QED  BY ZenonT(60), <1>10, <2>1, <2>2 DEF ScheduleDone
<1> QED  BY ZenonT(60), <1>6, <1>7, <1>8, <1>9, <1>10 DEF Scheduling

\* Concluding is work; writing the status, or failing to, is the end.
LEMMA FinishingStops == TypeOK /\ Finishing => Works \/ Stops
<1> SUFFICES ASSUME TypeOK, Finishing PROVE Works \/ Stops
  OBVIOUS
<1>1. rec \in ReconcileType /\ rec.st \in Status
  BY Zenon DEF TypeOK, ReconcileType
<1>2. CASE Conclude \/ ConcludeWithoutResult
  <2> DEFINE st == concluded(Facts(rec), Skips(Facts(rec)))
  <2>1. PICK out : \/ rec' = end(rec, out, st)
                   \/ rec' = end(rec, out, [st EXCEPT !.reason = "CouldntGetPipelineResult"])
    BY <1>2 DEF Conclude, ConcludeWithoutResult
  <2>2. rec.pc = "conclude" /\ UNCHANGED <<pr, prCache, runs, lister, elapsed>>
    BY <1>2 DEF Conclude, ConcludeWithoutResult, env
  <2>3. st \in Status /\ st.started = rec.st.started
    BY Zenon, <1>1, ConcludedType DEF concluded, Status
  <2>4. [st EXCEPT !.reason = "CouldntGetPipelineResult"].started = st.started
    BY <2>3 DEF Status
  <2>5. /\ rec'.pc = "write" /\ rec'.orig = rec.orig /\ rec'.spec = rec.spec
        /\ \/ rec'.st = st
           \/ rec'.st = [st EXCEPT !.reason = "CouldntGetPipelineResult"]
    BY <1>1, <2>1, EndSets
  <2>6. rec'.st.started = rec.st.started
    BY Zenon, <2>3, <2>4, <2>5
  <2> QED  BY ZenonT(60), <2>2, <2>5, <2>6 DEF Works
<1>3. CASE UpdateStatus
  <2>1. pr' = [pr EXCEPT !.st = rec.st] => pr'.st = rec.st /\ pr'.spec = pr.spec
    BY ZenonT(60) DEF TypeOK
  <2> QED  BY <1>3, <2>1 DEF UpdateStatus, Stops
<1>4. CASE UpdateStatusFails
  BY <1>4 DEF UpdateStatusFails, Stops
<1> QED  BY <1>2, <1>3, <1>4 DEF Finishing

\* The first part of ReconcileKind: a PipelineRun that is done is left alone, any
\* other is begun on.
LEMMA BeginStarts == TypeOK /\ Begin => Starts \/ GoesOn
<1> SUFFICES ASSUME TypeOK, Begin PROVE Starts \/ GoesOn
  OBVIOUS
<1>1. /\ rec.pc = "idle"
      /\ UNCHANGED <<pr, prCache, runs, lister, elapsed, snooze>>
      /\ ReadsOwnWrites => exists(lister) = exists(runs) /\ prCache.st = pr.st
  BY Zenon DEF Begin, ReconcileDone, ReconcileLongTimeout, ReconcileCancelled, ReconcilePending,
         Reconcile, ReconcileInvalid, ReconcileRetry, ReconcileResolving, reconciles, Dequeue
<1>2. CASE ReconcileDone
  BY ZenonT(60), <1>1, <1>2 DEF ReconcileDone, GoesOn, exists
<1>3. CASE ~ReconcileDone
  <2>1. ~IsDone(prCache.st)
    BY <1>3 DEF Begin, ReconcileLongTimeout, ReconcileCancelled, ReconcilePending,
         Reconcile, ReconcileInvalid, ReconcileRetry, ReconcileResolving, reconciles, proceeds
  <2> DEFINE B == begun
             C == syncChildRefs(begun)
  <2>2. /\ B \in ReconcileType
        /\ B.orig = prCache.st /\ B.spec = prCache.spec /\ ~B.errs
        /\ B.view = lister /\ B.vf = {}
        /\ B.st.childRefs = prCache.st.childRefs
        /\ B.st.skipped = prCache.st.skipped
        /\ prCache.st.started => B.st.started
        /\ B.st.reason \in {prCache.st.reason, "Started"}
    BY Zenon, BegunType, BegunSets
  <2>3. ~IsDone(B.st)
    BY <2>1, <2>2 DEF IsDone, SucceededReason, FailedReason
  <2>4. /\ C \in ReconcileType /\ C.st = [B.st EXCEPT !.childRefs = B.st.childRefs \cup exists(B.view)]
        /\ C.orig = B.orig /\ C.spec = B.spec /\ C.errs = B.errs
        /\ C.view = B.view /\ C.vf = B.vf
    <3> HIDE DEF B
    <3>1. syncChildRefs(B) \in ReconcileType
      BY <2>2, SyncChildRefsType
    <3> QED  BY ZenonT(60), <2>2, <3>1, SyncChildRefsSets DEF B
  <2>5. B.st \in Status
    BY Zenon, <2>2 DEF ReconcileType
  <2> HIDE DEF B, C
  <2>6. /\ C.st.childRefs = prCache.st.childRefs \cup exists(lister)
        /\ C.st.skipped = B.st.skipped /\ C.st.started = B.st.started
        /\ C.st.reason = B.st.reason /\ C.st \in Status
    BY ZenonT(60), <2>2, <2>4, <2>5 DEF Status, ReconcileType
  <2>7. ~IsDone(C.st)
    BY <2>3, <2>6 DEF IsDone
  <2>8. ASSUME NEW why, NEW todo, rec' = patch(B, why, todo),
               why = "long" \/ (why = "cancel" /\ todo = prCache.st.childRefs)
        PROVE  Starts
    <3>1. /\ rec'.pc = "patch" /\ rec'.why = why /\ rec'.todo = todo /\ ~rec'.errs
          /\ rec'.st = B.st /\ rec'.orig = B.orig /\ rec'.spec = B.spec
          /\ rec'.view = B.view /\ rec'.vf = B.vf
      BY <2>2, <2>8, PatchSets
    <3> QED  BY ZenonT(60), <1>1, <2>1, <2>2, <2>3, <2>8, <3>1 DEF Starts
  <2>9. ASSUME NEW R \in ReconcileType, NEW out, NEW st, rec' = end(R, out, st),
               R.orig = C.orig, R.spec = C.spec, R.errs = C.errs, R.view = C.view, R.vf = C.vf,
               st.childRefs = C.st.childRefs, st.started = C.st.started, st.skipped = C.st.skipped,
               IsDone(st) => st.reason = "Invalid"
        PROVE  Starts
    <3>1. /\ rec'.pc = "write" /\ rec'.st = st /\ rec'.orig = R.orig /\ rec'.spec = R.spec
          /\ rec'.view = R.view /\ rec'.vf = R.vf /\ rec'.errs = R.errs
      BY <2>9, EndSets
    <3>2. /\ rec'.orig = prCache.st /\ rec'.spec = prCache.spec
          /\ rec'.view = lister /\ rec'.vf = {} /\ ~rec'.errs
      BY ZenonT(60), <2>2, <2>4, <2>9, <3>1
    <3>3. /\ prCache.st.started => rec'.st.started
          /\ rec'.st.skipped = prCache.st.skipped
          /\ rec'.st.childRefs = prCache.st.childRefs \cup exists(lister)
          /\ IsDone(rec'.st) => rec'.st.reason = "Invalid"
      BY ZenonT(40), <2>2, <2>6, <2>9, <3>1
    <3> QED  BY ZenonT(60), <1>1, <2>1, <3>1, <3>2, <3>3 DEF Starts
  <2>10. ASSUME NEW out, NEW reason \in {"Pending", "Resolving", "Invalid"},
                rec' = end(C, out, [C.st EXCEPT !.reason = reason])
         PROVE  Starts
    <3> DEFINE st == [C.st EXCEPT !.reason = reason]
    <3>1. /\ st.childRefs = C.st.childRefs /\ st.started = C.st.started
          /\ st.skipped = C.st.skipped /\ st.reason = reason
      BY Zenon, <2>6 DEF Status
    <3>2. IsDone(st) => st.reason = "Invalid"
      BY <3>1 DEF IsDone, SucceededReason, FailedReason
    <3>3. rec' = end(C, out, st)
      BY <2>10
    <3> HIDE DEF st
    <3> QED  BY Zenon, <2>4, <2>9, <3>1, <3>2, <3>3
  <2>11. CASE ReconcileLongTimeout
    BY ZenonT(60), <2>8, <2>11 DEF ReconcileLongTimeout, B
  <2>12. CASE ReconcileCancelled
    BY <2>8, <2>12 DEF ReconcileCancelled, B
  <2>13. CASE ReconcilePending
    BY <2>10, <2>13 DEF ReconcilePending, C
  <2>14. CASE Reconcile
    <3>1. rec' = applyGracefulCancel(C) /\ prCache.spec # "Cancelled"
      BY <2>14 DEF Reconcile, reconciles, C
    <3>2. /\ \/ rec'.pc = "plan" /\ rec'.errs = C.errs
             \/ rec'.pc = "patch" /\ rec'.why \in {"graceful", "tasks"} /\ ~rec'.errs
          /\ rec'.st = C.st /\ rec'.orig = C.orig /\ rec'.spec = C.spec
          /\ rec'.view = C.view /\ rec'.vf = C.vf
      BY ZenonT(60), <2>4, <3>1, ApplyGracefulCancelSets
    <3>3. ~rec'.errs
      BY ZenonT(60), <2>2, <2>4, <3>2
    <3> QED  BY Zenon, <1>1, <2>1, <2>2, <2>4, <2>6, <2>7, <3>1, <3>2, <3>3 DEF Starts
  <2>15. CASE ReconcileInvalid
    BY ZenonT(60), <2>10, <2>15 DEF ReconcileInvalid, C
  <2>16. CASE ReconcileRetry
    <3> DEFINE R == [C EXCEPT !.clean = FALSE]
    <3>1. /\ R \in ReconcileType /\ R.st = C.st /\ R.orig = C.orig /\ R.spec = C.spec
          /\ R.errs = C.errs /\ R.view = C.view /\ R.vf = C.vf
      BY Zenon, <2>4 DEF ReconcileType
    <3>2. rec' = end(R, "retry", R.st)
      BY <2>16 DEF ReconcileRetry, C
    <3> HIDE DEF R
    <3> QED  BY ZenonT(60), <2>7, <2>9, <3>1, <3>2
  <2>17. CASE ReconcileResolving
    BY ZenonT(60), <2>10, <2>17 DEF ReconcileResolving, C
  <2> QED  BY ZenonT(60), <1>3, <2>11, <2>12, <2>13, <2>14, <2>15, <2>16, <2>17 DEF Begin
<1> QED  BY <1>2, <1>3

\* The environment lets the reconcile go on, unless the controller crashes.
LEMMA EnvironmentGoesOn == TypeOK /\ Environment => GoesOn \/ Stops
<1> SUFFICES ASSUME TypeOK, Environment PROVE GoesOn \/ Stops
  OBVIOUS
<1>1. CASE SetSpecStatus
  <2>1. \A x : [pr EXCEPT !.spec = x].st = pr.st /\ [pr EXCEPT !.spec = x].spec = x
    BY DEF TypeOK
  <2>2. PICK u \in UserSteps : pr.spec = u[1] /\ pr' = [pr EXCEPT !.spec = u[2]]
    BY ZenonT(60), <1>1 DEF SetSpecStatus
  <2> QED  BY Zenon, <1>1, <2>1, <2>2 DEF SetSpecStatus, GoesOn, exists
<1>2. CASE Crash
  BY ZenonT(60), <1>2 DEF Crash, Stops
<1>3. CASE InformPipelineRun \/ Rest
  BY ZenonT(60), <1>3 DEF InformPipelineRun, Rest, vars, GoesOn, exists
<1>4. CASE DeadlinePasses
  BY ZenonT(60), <1>4 DEF DeadlinePasses, GoesOn, exists
<1>5. ASSUME NEW ts, InformRuns(ts) PROVE GoesOn
  <2>1. \A r \in Run : lister'[r] \in {lister[r], runs[r]}
    BY ZenonT(60), <1>5 DEF InformRuns
  <2> QED  BY ZenonT(60), <1>5, <2>1 DEF InformRuns, GoesOn, exists
<1>6. ASSUME NEW r \in Run, RunEnds(r) PROVE GoesOn
  <2>1. PICK st \in DoneState, res \in BOOLEAN :
          runs' = [runs EXCEPT ![r] = [@ EXCEPT !.st = st, !.res = res]]
    BY Zenon, <1>6 DEF RunEnds
  <2>2. runs[r].st = "Running"
    BY Zenon, <1>6 DEF RunEnds
  <2>3. \A x \in RunRecord : [x EXCEPT !.st = st, !.res = res].st = st
    BY Zenon DEF RunRecord
  <2>4. runs'[r].st = st /\ \A q \in Run \ {r} : runs'[q] = runs[q]
    BY ZenonT(60), <2>1, <2>3 DEF TypeOK
  <2>5. exists(runs') = exists(runs)
    BY <2>2, <2>4 DEF exists, DoneState
  <2>6. UNCHANGED <<pr, prCache, lister, elapsed, rec>>
    BY Zenon, <1>6 DEF RunEnds
  <2> QED  BY ZenonT(60), <2>5, <2>6 DEF GoesOn
<1> QED  BY ZenonT(60), <1>1, <1>2, <1>3, <1>4, <1>5, <1>6
            DEF Environment, InformTaskRuns, InformCustomRuns

\* Every step is of one of the four kinds.
LEMMA StepKinds == TypeOK /\ [Next]_vars => Starts \/ Works \/ Stops \/ GoesOn
<1>1. UNCHANGED vars => GoesOn
  BY DEF vars, GoesOn, exists
<1> QED  BY ZenonT(60), <1>1, BeginStarts, PatchingWorks, SchedulingWorks, FinishingStops,
            EnvironmentGoesOn DEF Next, Reconciler

\* Child runs are changed by patches, by creations and by themselves.
LEMMA RunChanges ==
  ASSUME [Next]_vars
  PROVE  UNCHANGED runs \/ PatchRun \/ CreateRun \/ \E r \in Run : RunEnds(r)
<1>1. UNCHANGED vars => UNCHANGED runs
  BY DEF vars
<1>2. Begin \/ Finishing => UNCHANGED runs
  BY Zenon DEF Begin, ReconcileDone, ReconcileLongTimeout, ReconcileCancelled, ReconcilePending,
         Reconcile, ReconcileInvalid, ReconcileRetry, ReconcileResolving, reconciles, Dequeue,
         Finishing, Conclude, ConcludeWithoutResult, UpdateStatus, UpdateStatusFails, env
<1>3. Patching => PatchRun \/ UNCHANGED runs
  BY Zenon DEF Patching, PatchRunFails, CancelDone, GracefulCancelDone, TaskTimeoutsDone,
         PipelineTimeoutDone, LongTimeoutDone, patchesDone, env
<1>4. Scheduling => CreateRun \/ UNCHANGED runs
  BY DEF Scheduling, RunNextSchedulableTask, CreateRunFails, SkipFinalTask, ScheduleDone, env
<1>5. Environment => UNCHANGED runs \/ \E q \in Run : RunEnds(q)
  BY DEF Environment, SetSpecStatus, InformPipelineRun, InformTaskRuns, InformCustomRuns,
         InformRuns, DeadlinePasses, Crash, Rest, vars
<1> QED  BY ZenonT(60), <1>1, <1>2, <1>3, <1>4, <1>5 DEF Next, Reconciler

\* A child run stays, keeps how it ended, and does not forget that it was asked
\* to stop.
LEMMA RunsGoOn ==
  ASSUME TypeOK, [Next]_vars, NEW r \in Run
  PROVE  /\ runs[r].st # "Absent" => runs'[r].st # "Absent"
         /\ runs[r].st \in DoneState => runs'[r].st = runs[r].st /\ runs'[r].res = runs[r].res
         /\ runs[r].st # "Absent" /\ runs[r].req # "" => runs'[r].req # ""
         /\ runs[r].st # "Absent" /\ runs'[r].st = "Running" => runs[r].st = "Running"
<1>1. runs \in [Run -> RunRecord] /\ runs[r] \in RunRecord
  BY DEF TypeOK
<1>2. CASE UNCHANGED runs
  BY Zenon, <1>2
<1>3. CASE PatchRun
  <2>1. PICK q \in rec.todo : \/ runs' = [runs EXCEPT ![q].req = requested(rec.why)]
                              \/ runs' = runs
    BY <1>3, ZenonT(60) DEF PatchRun
  <2>2. requested(rec.why) # ""
    BY DEF requested
  <2>3. \A x \in RunRecord :
          /\ [x EXCEPT !.req = requested(rec.why)].st = x.st
          /\ [x EXCEPT !.req = requested(rec.why)].res = x.res
          /\ [x EXCEPT !.req = requested(rec.why)].req = requested(rec.why)
    BY Zenon DEF RunRecord
  <2>4. runs'[r] = runs[r] \/ runs'[r] = [runs[r] EXCEPT !.req = requested(rec.why)]
    BY <1>1, <2>1, ZenonT(60)
  <2> QED  BY Zenon, <1>1, <2>2, <2>3, <2>4
<1>4. CASE CreateRun
  <2>1. PICK q \in Run : runs' = runs \/ (runs[q] = Absent /\ runs' = [runs EXCEPT ![q] = Created])
    BY ZenonT(60), <1>4 DEF CreateRun
  <2>2. Absent.st = "Absent" /\ "Absent" \notin DoneState
    BY DEF Absent, DoneState
  <2>3. \A x \in Run \ {q} : runs'[x] = runs[x]
    BY ZenonT(60), <1>1, <2>1
  <2> QED  BY Zenon, <2>1, <2>2, <2>3
<1>5. ASSUME NEW q \in Run, RunEnds(q)
      PROVE  /\ runs[r].st # "Absent" => runs'[r].st # "Absent"
             /\ runs[r].st \in DoneState => runs'[r].st = runs[r].st /\ runs'[r].res = runs[r].res
             /\ runs[r].req # "" => runs'[r].req # ""
             /\ runs'[r].st = "Running" => runs[r].st = "Running"
  <2>1. PICK st \in DoneState, res \in BOOLEAN :
          runs' = [runs EXCEPT ![q] = [@ EXCEPT !.st = st, !.res = res]]
    BY Zenon, <1>5 DEF RunEnds
  <2>2. runs[q].st = "Running"
    BY Zenon, <1>5 DEF RunEnds
  <2>3. \A x \in RunRecord : /\ [x EXCEPT !.st = st, !.res = res].st = st
                             /\ [x EXCEPT !.st = st, !.res = res].req = x.req
    BY Zenon DEF RunRecord
  <2>4. CASE r = q
    BY Zenon, <1>1, <2>1, <2>2, <2>3, <2>4 DEF DoneState
  <2>5. CASE r # q
    BY Zenon, <1>1, <2>1, <2>5
  <2> QED  BY ZenonT(40), <2>4, <2>5
<1> QED  BY Zenon, <1>2, <1>3, <1>4, <1>5, RunChanges

-----------------------------------------------------------------------------
(***************************************************************************)
(* The status.                                                             *)
(*                                                                         *)
(* A reconcile works on a PipelineRun that is not done, and its status is  *)
(* the one it began with, as long as the caches hold the reconciler's own  *)
(* writes.  Until it concludes it does not end the PipelineRun.            *)
(***************************************************************************)
StatusInv ==
  rec.pc # "idle" =>
    /\ ~IsDone(rec.orig)
    /\ rec.pc \notin {"conclude", "write"} => ~IsDone(rec.st)
    /\ ReadsOwnWrites => rec.orig = pr.st
    /\ rec.orig.started => rec.st.started

\* childReferences names runs that exist, and a reconcile loses none of those.
RefsInv ==
  /\ pr.st.childRefs \subseteq exists(runs) /\ prCache.st.childRefs \subseteq exists(runs)
  /\ rec.orig.childRefs \subseteq exists(runs) /\ rec.st.childRefs \subseteq exists(runs)
  /\ rec.pc \notin {"idle", "write"} => rec.orig.childRefs \subseteq rec.st.childRefs
  /\ rec.pc = "write" /\ ReadsOwnWrites =>
       rec.orig.childRefs \cap exists(runs) \subseteq rec.st.childRefs

SInv == IInv /\ StatusInv /\ RefsInv

\* Before anything happens there is no status to speak of.
LEMMA InitSInv == Init => SInv
<1> SUFFICES ASSUME Init PROVE SInv
  OBVIOUS
<1>1. IInv
  BY InitIInv
<1>2. rec.pc = "idle" /\ NewStatus.childRefs = {}
  BY Zenon DEF Init, NoReconcile, NewStatus
<1>3. pr.st = NewStatus /\ prCache.st = NewStatus
  BY DEF Init
<1>4. rec.orig = NewStatus /\ rec.st = NewStatus
  BY Zenon DEF Init, NoReconcile
<1> QED  BY Zenon, <1>1, <1>2, <1>3, <1>4 DEF SInv, StatusInv, RefsInv

\* Every step keeps what is said of the status.
LEMMA NextSInv == SInv /\ IInv' /\ [Next]_vars => SInv'
<1> SUFFICES ASSUME SInv, IInv', [Next]_vars PROVE StatusInv' /\ RefsInv'
  BY ZenonT(60) DEF SInv
<1>1. TypeOK /\ rec \in ReconcileType
  BY DEF SInv, IInv, TypeOK
<1>2. exists(runs) \subseteq exists(runs')
  BY Zenon, <1>1, RunsGoOn DEF exists
<1>3. CASE Starts
  <2>1. exists(lister) \subseteq exists(runs)
    BY DEF SInv, IInv, ViewsInv, Behind, exists
  <2>2. StatusInv'
    BY Zenon, <1>3 DEF Starts, StatusInv, IsDone, SucceededReason, FailedReason
  <2>3. RefsInv'
    BY Zenon, <1>3, <2>1, <1>2 DEF Starts, SInv, RefsInv
  <2> QED  BY ZenonT(60), <2>2, <2>3
<1>4. CASE Works
  <2>1. StatusInv'
    BY <1>4 DEF Works, SInv, StatusInv, IsDone
  <2>2. /\ rec.pc \notin {"idle", "write"} /\ rec'.orig = rec.orig /\ UNCHANGED <<pr, prCache>>
        /\ \/ rec'.st.childRefs = rec.st.childRefs
           \/ /\ rec.pc = "conclude" /\ rec'.pc = "write" /\ UNCHANGED runs
              /\ rec'.st.childRefs = exists(rec.view)
    <3>1. rec.st \in Status
      BY Zenon, <1>1 DEF ReconcileType
    <3>2. LET st == concluded(Facts(rec), Skips(Facts(rec)))
          IN  /\ st.childRefs = exists(rec.view)
              /\ [st EXCEPT !.reason = "CouldntGetPipelineResult"].childRefs = exists(rec.view)
      BY ZenonT(60), <3>1 DEF concluded, Status
    <3> QED  BY Zenon, <1>4, <3>2 DEF Works
  <2>3. rec.orig.childRefs \subseteq rec.st.childRefs
    BY <2>2 DEF SInv, RefsInv
  <2>4. /\ pr'.st.childRefs \subseteq exists(runs') /\ prCache'.st.childRefs \subseteq exists(runs')
        /\ rec'.orig.childRefs \subseteq exists(runs') /\ rec.st.childRefs \subseteq exists(runs')
    BY Zenon, <1>2, <2>2 DEF SInv, RefsInv
  <2>5. CASE rec'.st.childRefs = rec.st.childRefs
    BY Zenon, <2>1, <2>2, <2>3, <2>4, <2>5 DEF RefsInv
  <2>6. CASE /\ rec.pc = "conclude" /\ rec'.pc = "write" /\ UNCHANGED runs
             /\ rec'.st.childRefs = exists(rec.view)
    <3>1. exists(rec.view) \subseteq exists(runs)
      BY DEF SInv, IInv, ViewsInv, Behind, exists
    <3>2. ReadsOwnWrites => exists(rec.view) = exists(runs)
      BY Zenon, <2>2 DEF SInv, IInv, SeesAllInv
    <3>3. /\ rec'.st.childRefs \subseteq exists(runs') /\ rec'.pc = "write"
          /\ ReadsOwnWrites => rec'.st.childRefs = exists(runs')
      BY Zenon, <2>6, <3>1, <3>2
    <3> QED  BY ZenonT(60), <2>1, <2>4, <3>3 DEF RefsInv
  <2> QED  BY Zenon, <2>2, <2>5, <2>6
<1>5. CASE Stops
  <2>1. NoReconcile.pc = "idle" /\ NoReconcile.orig.childRefs = {} /\ NoReconcile.st.childRefs = {}
    BY ZenonT(60) DEF NoReconcile, NewStatus
  <2>2. StatusInv'
    BY ZenonT(60), <1>5, <2>1 DEF Stops, StatusInv
  <2>3. pr'.st \in {pr.st, rec.st} /\ prCache'.st \in {pr.st, prCache.st}
    BY <1>5 DEF Stops
  <2>4. RefsInv'
    BY ZenonT(60), <1>2, <1>5, <2>1, <2>3 DEF Stops, SInv, RefsInv
  <2> QED  BY <2>2, <2>4
<1>6. CASE GoesOn
  <2>1. StatusInv'
    BY <1>6 DEF GoesOn, SInv, StatusInv
  <2>2. RefsInv'
    BY Zenon, <1>6 DEF GoesOn, SInv, RefsInv
  <2> QED  BY <2>1, <2>2
<1> QED  BY ZenonT(60), <1>1, <1>3, <1>4, <1>5, <1>6, StepKinds

\* What is said of the status holds throughout.
LEMMA SInvHolds == Spec => []SInv
<1>1. SInv /\ IInv' /\ [Next]_vars => SInv'
  BY NextSInv
<1> QED  BY <1>1, InitSInv, IInvHolds, PTL DEF Spec

\* Runs are created only by a reconcile that is at it.
LEMMA CreatedByReconcile ==
  ASSUME TypeOK, [Next]_vars, NEW t \in Tasks, created(t)
  PROVE  CreateRun /\ rec.pc = "create"
<1>1. PICK r \in RunsOf(t) : runs[r].st = "Absent" /\ runs'[r].st # "Absent"
  BY DEF created
<1>2. r \in Run
  BY ZenonT(60), RunsOfType
<1>3. CreateRun
  BY ZenonT(60), <1>1, <1>2, OnlyCreateRunCreates
<1> QED  BY Zenon, <1>3 DEF CreateRun, creating

(***************************************************************************)
(* Once done, a PipelineRun keeps its condition and starts no run: with    *)
(* caches that hold the reconciler's writes, no reconcile is under way     *)
(* when the PipelineRun is done, and none gets past the first test of      *)
(* ReconcileKind.                                                          *)
(***************************************************************************)
THEOREM DoneStays == ReadsOwnWrites => (Spec => DoneIsFinal)
<1> SUFFICES ASSUME ReadsOwnWrites PROVE Spec => DoneIsFinal
  OBVIOUS
<1>1. ASSUME SInv, [Next]_vars, IsDone(pr.st)
      PROVE  pr'.st.reason = pr.st.reason /\ \A t \in Tasks : ~created(t)
  <2>1. TypeOK /\ rec.pc = "idle"
    BY <1>1 DEF SInv, IInv, StatusInv
  <2>2. pr'.st = pr.st
    BY Zenon, <1>1, <2>1, StepKinds DEF Starts, Works, Stops, GoesOn
  <2>3. \A t \in Tasks : ~created(t)
    BY ZenonT(60), <1>1, <2>1, CreatedByReconcile
  <2> QED  BY ZenonT(60), <2>2, <2>3
<1>2. SInv /\ [Next]_vars =>
        [IsDone(pr.st) => pr'.st.reason = pr.st.reason /\ \A t \in Tasks : ~created(t)]_vars
  BY <1>1
<1> QED  BY <1>2, SInvHolds, PTL DEF Spec, DoneIsFinal

(***************************************************************************)
(* status.childReferences loses no run that exists: not when the status    *)
(* is made anew at the end of reconcile, nor on any of the early returns.  *)
(***************************************************************************)
THEOREM ChildRefsStay == ReadsOwnWrites => (Spec => ChildRefsKept)
<1> SUFFICES ASSUME ReadsOwnWrites PROVE Spec => ChildRefsKept
  OBVIOUS
<1>1. ASSUME SInv, [Next]_vars
      PROVE  pr.st.childRefs \cap exists(runs) \subseteq pr'.st.childRefs
  <2>1. pr'.st = pr.st \/ (rec.pc = "write" /\ pr'.st = rec.st)
    BY Zenon, <1>1, StepKinds DEF SInv, IInv, Starts, Works, Stops, GoesOn
  <2>2. CASE rec.pc = "write" /\ pr'.st = rec.st
    BY Zenon, <1>1, <2>2 DEF SInv, StatusInv, RefsInv
  <2> QED  BY Zenon, <2>1, <2>2
<1>2. SInv /\ [Next]_vars =>
        [pr.st.childRefs \cap exists(runs) \subseteq pr'.st.childRefs]_vars
  BY Zenon, <1>1
<1> QED  BY <1>2, SInvHolds, PTL DEF Spec, ChildRefsKept

-----------------------------------------------------------------------------
\* What a step does to a TaskRun, ChildRun allows.
LEMMA ChildSteps ==
  ASSUME TypeOK, [Next]_vars, NEW r \in TaskRuns
  PROVE  [Child(r)!Next]_(Child(r)!vars)
<1>1. runs \in [Run -> RunRecord] /\ runs[r] \in RunRecord /\ r \in Run /\ r[1] \notin CustomTasks
  BY DEF TypeOK, TaskRuns
<1>2. CASE UNCHANGED runs
  BY <1>2 DEF Child!vars
<1>3. CASE PatchRun
  <2>1. PICK q \in rec.todo :
          \/ runs' = runs
          \/ /\ runs[q].st = "Running" \/ q[1] \in CustomTasks
             /\ runs' = [runs EXCEPT ![q].req = requested(rec.why)]
    BY Zenon, <1>3 DEF PatchRun
  <2>2. requested(rec.why) \in {"Cancel", "TimeOut"}
    BY DEF requested
  <2>3. \/ runs'[r] = runs[r]
        \/ runs[r].st = "Running" /\ runs'[r] = [runs[r] EXCEPT !.req = requested(rec.why)]
    BY ZenonT(60), <1>1, <2>1
  <2>4. \/ runs'[r].st = runs[r].st /\ runs'[r].req = runs[r].req
        \/ /\ runs[r].st = "Running" /\ runs'[r].st = runs[r].st
           /\ runs'[r].req \in {"Cancel", "TimeOut"}
    BY <1>1, <2>2, <2>3 DEF RunRecord
  <2> QED  BY Zenon, <2>4 DEF Child!Next, Child!Ask, Child!Request, Child!vars
<1>4. CASE CreateRun
  <2>1. PICK q \in Run : runs' = runs \/ (runs[q] = Absent /\ runs' = [runs EXCEPT ![q] = Created])
    BY <1>4 DEF CreateRun
  <2>2. runs'[r] = runs[r] \/ (runs[r] = Absent /\ runs'[r] = Created)
    BY Zenon, <1>1, <2>1
  <2>3. \/ runs'[r].st = runs[r].st /\ runs'[r].req = runs[r].req
        \/ runs[r].st = "Absent" /\ runs'[r].st = "Running" /\ runs'[r].req = runs[r].req
    <3>1. Absent.st = "Absent" /\ Created.st = "Running" /\ Created.req = Absent.req
      BY Zenon DEF Absent, Created
    <3> QED  BY Zenon, <2>2, <3>1
  <2> QED  BY Zenon, <2>3 DEF Child!Next, Child!Create, Child!vars
<1>5. ASSUME NEW q \in Run, RunEnds(q)
      PROVE  [Child(r)!Next]_(Child(r)!vars)
  <2>1. PICK st \in DoneState, res \in BOOLEAN :
          /\ st = "Cancelled" => runs[q].req # ""
          /\ runs' = [runs EXCEPT ![q] = [@ EXCEPT !.st = st, !.res = res]]
    BY Zenon, <1>5 DEF RunEnds
  <2>2. runs[q].st = "Running"
    BY Zenon, <1>5 DEF RunEnds
  <2>3. \/ runs'[r] = runs[r]
        \/ r = q /\ runs'[r] = [runs[r] EXCEPT !.st = st, !.res = res]
    BY Zenon, <1>1, <2>1
  <2>4. \/ runs'[r].st = runs[r].st /\ runs'[r].req = runs[r].req
        \/ /\ runs[r].st = "Running" /\ runs'[r].st \in DoneState
           /\ runs'[r].st = "Cancelled" => runs[r].req # ""
           /\ runs'[r].req = runs[r].req
    <3>1. \A x \in RunRecord : /\ [x EXCEPT !.st = st, !.res = res].st = st
                               /\ [x EXCEPT !.st = st, !.res = res].req = x.req
      BY Zenon DEF RunRecord
    <3> QED  BY Zenon, <1>1, <2>1, <2>2, <2>3, <3>1
  <2> QED  BY Zenon, <2>4 DEF Child!Next, Child!End, Child!vars, DoneState, Child!DoneState
<1> QED  BY Zenon, <1>2, <1>3, <1>4, <1>5, RunChanges

(***************************************************************************)
(* The PipelineRun reconciler keeps its side of the interface ChildRun:    *)
(* whatever the pipeline, the faults and the caches, a TaskRun is created  *)
(* once, asked to stop only while it runs (the patch of a run that is done *)
(* is refused), and never taken back.  The TaskRun reconciler keeps the    *)
(* other side (TaskRunIsChildRun in TaskRunProofs).                        *)
(***************************************************************************)
THEOREM TaskRunsAreChildRuns == Spec => ChildrenAreChildRuns
<1>1. Init => \A r \in TaskRuns : Child(r)!Init
  <2>1. ASSUME Init, NEW r \in TaskRuns PROVE Child(r)!Init
    BY <2>1 DEF Init, TaskRuns, Absent, Child!Init
  <2> QED  BY ZenonT(60), <2>1
<1>2. TypeOK /\ [Next]_vars => [\A r \in TaskRuns : [Child(r)!Next]_(Child(r)!vars)]_vars
  BY ChildSteps
<1> QED  BY <1>1, <1>2, TypeCorrect, PTL DEF Spec, ChildrenAreChildRuns
=============================================================================
