--------------------- MODULE PipelineRunChildrenProofs ----------------------
(***************************************************************************)
(* Which child runs a PipelineRun has: a matrix has all its runs, success  *)
(* means that they all succeeded, a cancel and the pipeline timeout reach  *)
(* every one, and a task reported as skipped has none.  Proofs about       *)
(* PipelineRun, for every pipeline.                                        *)
(***************************************************************************)
EXTENDS PipelineRunOutcomeProofs

-----------------------------------------------------------------------------
(***************************************************************************)
(* Fan-out.                                                                *)
(*                                                                         *)
(* A run that does not exist has not been asked anything: patches are of   *)
(* runs that exist.                                                        *)
(***************************************************************************)
AbsentInv ==
  /\ \A r \in Run : runs[r].st = "Absent" => runs[r] = Absent
  /\ rec.pc = "patch" => rec.todo \subseteq exists(runs)

\* The runs that reconcile sets out to patch are named in childReferences.
LEMMA PatchesNamed ==
  ASSUME TypeOK, [Next]_vars, rec'.pc = "patch"
  PROVE  \/ rec.pc = "patch" /\ rec'.todo \subseteq rec.todo
         \/ rec'.todo \subseteq rec'.st.childRefs
<1>1. rec \in ReconcileType
  BY ZenonT(60) DEF TypeOK
<1>2. ASSUME NEW R \in ReconcileType, NEW why, NEW todo, todo \subseteq R.st.childRefs,
             rec' = patch(R, why, todo)
      PROVE  rec'.todo \subseteq rec'.st.childRefs
  BY SMTT(60), <1>2, PatchSets
<1>3. ASSUME NEW R \in ReconcileType, rec' = applyTaskTimeouts(R)
      PROVE  rec'.todo \subseteq rec'.st.childRefs
  <2>1. rec' = [R EXCEPT !.pc = "plan"] => rec'.pc = "plan"
    BY Zenon DEF ReconcileType
  <2>2. runsOfTasks(R.st, tasksToTimeOut(R)) \subseteq R.st.childRefs
    BY ZenonT(60) DEF runsOfTasks
  <2> QED  BY ZenonT(60), <1>2, <1>3, <2>1, <2>2 DEF applyTaskTimeouts
<1>4. ASSUME NEW R \in ReconcileType, NEW out, NEW st, rec' = end(R, out, st) PROVE FALSE
  BY ZenonT(60), <1>4, EndSets
<1>5. CASE Begin
  <2>1. begun \in ReconcileType /\ syncChildRefs(begun) \in ReconcileType
    BY ZenonT(60), BegunType, SyncChildRefsType
  <2>2. begun.st.childRefs = prCache.st.childRefs
    BY ZenonT(60), BegunSets
  <2>3. [syncChildRefs(begun) EXCEPT !.clean = FALSE] \in ReconcileType
    BY Zenon, <2>1 DEF ReconcileType
  <2>4. CASE ReconcileDone
    BY ZenonT(60), <2>4 DEF ReconcileDone
  <2>5. CASE ReconcileLongTimeout \/ ReconcileCancelled
    BY ZenonT(60), <1>2, <2>1, <2>2, <2>5 DEF ReconcileLongTimeout, ReconcileCancelled
  <2>6. CASE Reconcile
    BY ZenonT(60), <1>2, <1>3, <2>1, <2>6 DEF Reconcile, applyGracefulCancel
  <2>7. CASE ReconcilePending \/ ReconcileInvalid \/ ReconcileRetry \/ ReconcileResolving
    BY ZenonT(60), <1>4, <2>1, <2>3, <2>7 DEF ReconcilePending, ReconcileInvalid, ReconcileRetry,
                                  ReconcileResolving
  <2> QED  BY ZenonT(60), <1>5, <2>4, <2>5, <2>6, <2>7 DEF Begin
<1>6. CASE Patching
  <2>1. CASE PatchRun \/ PatchRunFails
    <3>1. PICK r : \/ rec' = [rec EXCEPT !.todo = @ \ {r}]
                   \/ rec' = [rec EXCEPT !.todo = @ \ {r}, !.errs = TRUE, !.clean = FALSE]
      BY ZenonT(40), <2>1 DEF PatchRun, PatchRunFails
    <3>2. rec'.todo = rec.todo \ {r} /\ rec.pc = "patch"
      BY Zenon, <1>1, <2>1, <3>1 DEF PatchRun, PatchRunFails, ReconcileType
    <3> QED  BY ZenonT(60), <3>2
  <2>2. CASE CancelDone \/ LongTimeoutDone
    BY ZenonT(60), <1>1, <1>4, <2>2 DEF CancelDone, LongTimeoutDone
  <2>3. CASE GracefulCancelDone
    BY ZenonT(60), <1>1, <1>3, <1>4, <2>3 DEF GracefulCancelDone
  <2>4. CASE TaskTimeoutsDone
    <3>1. rec' = [rec EXCEPT !.pc = "plan"] => rec'.pc = "plan"
      BY Zenon, <1>1 DEF ReconcileType
    <3> QED  BY ZenonT(60), <1>1, <1>4, <2>4, <3>1 DEF TaskTimeoutsDone
  <2>5. CASE PipelineTimeoutDone
    <3>1. rec' = [rec EXCEPT !.pc = "conclude", !.st.reason = "TimedOut"] => rec'.pc = "conclude"
      BY Zenon, <1>1 DEF ReconcileType
    <3> QED  BY ZenonT(60), <1>1, <1>4, <2>5, <3>1 DEF PipelineTimeoutDone
  <2> QED  BY ZenonT(60), <1>6, <2>1, <2>2, <2>3, <2>4, <2>5 DEF Patching
<1>7. CASE Scheduling
  <2>1. CASE RunNextSchedulableTask
    <3>1. ASSUME NEW f, NEW s, NEW vf, NEW fresh, rec' = schedule(rec, f, s, vf, fresh) PROVE FALSE
      BY ZenonT(60), <1>1, <3>1, ScheduleSets
    <3> QED  BY ZenonT(60), <2>1, <3>1, NextSchedules
  <2>2. CASE ScheduleDone
    <3>1. rec' = [rec EXCEPT !.pc = "conclude"] => rec'.pc = "conclude"
      BY ZenonT(40), <1>1 DEF ReconcileType
    <3> QED  BY ZenonT(60), <1>1, <1>2, <2>2, <3>1 DEF ScheduleDone
  <2>3. CASE CreateRun \/ CreateRunFails
    <3> DEFINE R == [rec EXCEPT !.clean = FALSE]
    <3>1. R \in ReconcileType
      BY ZenonT(40), <1>1 DEF ReconcileType
    <3>2. rec.pc = "create" /\ \E r : \/ rec' = [rec EXCEPT !.todo = @ \ {r}, !.view[r] = Created]
                                     \/ \E out, st : rec' = end(R, out, st)
      BY ZenonT(60), <2>3 DEF CreateRun, CreateRunFails, creating
    <3>3. \A r : rec' = [rec EXCEPT !.todo = @ \ {r}, !.view[r] = Created] => rec'.pc = rec.pc
      BY Zenon, <1>1 DEF ReconcileType
    <3> HIDE DEF R
    <3> QED  BY Zenon, <1>4, <3>1, <3>2, <3>3
  <2>4. CASE SkipFinalTask
    <3>1. PICK T : rec.pc = "create" /\ rec' = [rec EXCEPT !.todo = @ \ T]
      BY ZenonT(60), <2>4 DEF SkipFinalTask, creating
    <3> QED  BY Zenon, <1>1, <3>1 DEF ReconcileType
  <2> QED  BY ZenonT(60), <1>7, <2>1, <2>2, <2>3, <2>4 DEF Scheduling
<1>8. CASE Finishing
  <2>1. UpdateStatus \/ UpdateStatusFails => rec'.pc = "idle"
    BY Zenon, NoReconcileSeesNothing DEF UpdateStatus, UpdateStatusFails
  <2> QED  BY ZenonT(60), <1>1, <1>4, <1>8, <2>1 DEF Finishing, Conclude, ConcludeWithoutResult
<1>9. Environment \/ UNCHANGED vars => rec' = rec
  <2>1. Crash => rec'.pc = "idle"
    BY ZenonT(60), NoReconcileSeesNothing DEF Crash
  <2> QED  BY Zenon, <2>1 DEF Environment, SetSpecStatus, InformPipelineRun, InformTaskRuns,
              InformCustomRuns, InformRuns, RunEnds, DeadlinePasses, Rest, vars
<1> QED  BY ZenonT(60), <1>5, <1>6, <1>7, <1>8, <1>9 DEF Next, Reconciler

\* Every step keeps runs that do not exist as they are.
LEMMA NextAbsentInv ==
  ASSUME SInv, AbsentInv, SInv', [Next]_vars
  PROVE  AbsentInv'
<1>1. TypeOK
  BY ZenonT(60) DEF SInv, IInv
<1>2. exists(runs) \subseteq exists(runs')
  BY Zenon, <1>1, RunsGoOn DEF exists
<1>3. rec'.pc = "patch" => rec'.todo \subseteq exists(runs')
  BY Zenon, <1>1, <1>2, PatchesNamed DEF AbsentInv, SInv, RefsInv
<1>4. ASSUME NEW r \in Run, runs'[r].st = "Absent" PROVE runs'[r] = Absent
  <2>1. runs[r].st = "Absent" /\ runs[r] = Absent
    BY Zenon, <1>1, <1>4, RunsGoOn DEF AbsentInv
  <2>2. CASE PatchRun
    <3>1. PICK q \in rec.todo : \/ runs' = [runs EXCEPT ![q].req = requested(rec.why)]
                                \/ runs' = runs
      BY <2>2, ZenonT(60) DEF PatchRun
    <3>2. q # r
      BY ZenonT(60), <2>1, <2>2 DEF PatchRun, AbsentInv, exists
    <3> QED  BY <1>1, <2>1, <3>1, <3>2, ZenonT(60) DEF TypeOK
  <2>3. CASE CreateRun
    <3>1. PICK q \in Run : runs' = runs \/ runs' = [runs EXCEPT ![q] = Created]
      BY ZenonT(60), <2>3 DEF CreateRun
    <3>2. Created.st # "Absent"
      BY ZenonT(60) DEF Created
    <3> QED  BY ZenonT(60), <1>1, <1>4, <2>1, <3>1, <3>2 DEF TypeOK
  <2>4. ASSUME NEW q \in Run, RunEnds(q) PROVE runs'[r] = Absent
    <3>1. runs[q].st = "Running" /\ \E x : runs' = [runs EXCEPT ![q] = x]
      BY Zenon, <2>4 DEF RunEnds
    <3> QED  BY ZenonT(60), <1>1, <2>1, <3>1 DEF TypeOK
  <2> QED  BY ZenonT(60), <2>1, <2>2, <2>3, <2>4, RunChanges
<1> QED  BY Zenon, <1>3, <1>4 DEF AbsentInv

(***************************************************************************)
(* The tasks whose runs are scheduled have none: with ReadsOwnWrites, none *)
(* in the cluster either, so all of them are queued and none is taken.     *)
(***************************************************************************)
LEMMA ScheduledAnew ==
  ASSUME SInv, ReadsOwnWrites, RunNextSchedulableTask, rec'.pc = "create", NEW r \in rec'.todo
  PROVE  /\ r[1] \in Tasks /\ r \in RunsOf(r[1]) /\ RunsOf(r[1]) \subseteq rec'.todo
         /\ \A q \in RunsOf(r[1]) : runs[q].st = "Absent"
<1> DEFINE f == Facts(rec)
           s == Skips(f)
           vf == {t \in DAGExecutionQueue(f, s) : missingResults(f, t)}
           fresh == Skips([f EXCEPT !.vf = vf])
           t == r[1]
<1>1. TypeOK /\ rec \in ReconcileType
  BY ZenonT(60) DEF SInv, IInv, TypeOK
<1>2. rec.pc = "plan" /\ rec' = schedule(rec, f, s, vf, fresh) /\ f.view = rec.view
  BY ZenonT(60), <1>1, NextSchedules, FactsOfRec
<1> HIDE DEF f, s, vf, fresh
<1>3. /\ GetNamesOfTaskRuns(rec.st, t) \subseteq rec'.todo
      /\ r \in GetNamesOfTaskRuns(rec.st, t)
      /\ t \in DAGExecutionQueue(f, s) \/ (t \in FinalTasks /\ ~isScheduled(f, t))
  BY SMTT(60), <1>1, <1>2, ScheduleSets
<1>4. t \in Tasks /\ ~isScheduled(f, t)
  BY <1>3 DEF DAGExecutionQueue, GetCandidateTasks, Tasks
<1>5. exists(rec.view) = exists(runs)
  BY Zenon, <1>2 DEF SInv, IInv, SeesAllInv
<1>6. \A q \in RunsOf(t) : runs[q].st = "Absent"
  <2>1. \A q \in RunsOf(t) : q \in Run /\ rec.view[q].st = "Absent"
    BY ZenonT(60), <1>2, <1>4, RunsOfType DEF isScheduled, runsSeen
  <2> QED  BY ZenonT(60), <1>5, <2>1 DEF exists
<1>7. \A q \in Run : q[1] = t => q \in RunsOf(t)
  BY DEF Run, RunsOf
<1>8. runsOfTasks(rec.st, {t}) = {}
  <2>1. rec.st.childRefs \subseteq exists(runs)
    BY Zenon DEF SInv, RefsInv
  <2> QED  BY ZenonT(60), <1>6, <1>7, <2>1 DEF runsOfTasks, exists
<1> QED  BY ZenonT(40), <1>3, <1>4, <1>6, <1>8 DEF GetNamesOfTaskRuns

\* While a reconcile creates runs, the environment lets it go on or the controller crashes.
LEMMA CreatingSteps ==
  ASSUME TypeOK, [Next]_vars, rec.pc = "create"
  PROVE  \/ CreateRun \/ CreateRunFails \/ SkipFinalTask \/ ScheduleDone \/ Crash
         \/ rec' = rec /\ exists(runs') = exists(runs)
<1>1. ~Begin
  BY DEF Begin, ReconcileDone, ReconcileLongTimeout, ReconcileCancelled, ReconcilePending,
         Reconcile, ReconcileInvalid, ReconcileRetry, ReconcileResolving, reconciles, Dequeue
<1>2. ~Patching /\ ~RunNextSchedulableTask
  BY DEF Patching, PatchRun, PatchRunFails, CancelDone, GracefulCancelDone, TaskTimeoutsDone,
         PipelineTimeoutDone, LongTimeoutDone, patchesDone, RunNextSchedulableTask
<1>3. ~Finishing
  BY DEF Finishing, Conclude, ConcludeWithoutResult, UpdateStatus, UpdateStatusFails
<1>4. Environment \/ UNCHANGED vars => rec' = rec \/ Crash
  BY Zenon DEF Environment, SetSpecStatus, InformPipelineRun, InformTaskRuns,
         InformCustomRuns, InformRuns, RunEnds, DeadlinePasses, Rest, vars
<1>5. \A r \in Run : ~CreateRun => (runs[r].st = "Absent" <=> runs'[r].st = "Absent")
  BY Zenon, OnlyCreateRunCreates, RunsGoOn
<1>6. ~CreateRun => exists(runs') = exists(runs)
  BY ZenonT(60), <1>5 DEF exists
<1> QED  BY ZenonT(60), <1>1, <1>2, <1>3, <1>4, <1>6 DEF Next, Reconciler, Scheduling

\* No API call fails, the controller does not crash, and its caches hold its writes.
NoFaults == ReadsOwnWrites /\ MaxFaults = 0

\* What is about to be created does not exist, and a task has all its runs planned or none.
FanInv ==
  /\ rec.pc = "create" => \A r \in rec.todo : r[1] \in Tasks /\ runs[r].st = "Absent"
  /\ \A t \in Tasks :
       (\E r \in RunsOf(t) : Planned(r)) => \A r \in RunsOf(t) : Planned(r)

\* A final task that is skipped when its turn comes has no run.
LEMMA SkippedNowHasNone ==
  ASSUME SInv, ReadsOwnWrites, rec.pc = "create", NEW t, skippedNow(t)
  PROVE  t \in FinalTasks /\ \A r \in RunsOf(t) : runs[r].st = "Absent"
<1>1. t \in FinalTasks /\ ~isScheduled(Facts(rec), t) /\ t \in Tasks
  BY DEF skippedNow, finallySkip, Tasks
<1>2. exists(rec.view) = exists(runs)
  BY Zenon DEF SInv, IInv, SeesAllInv
<1>3. \A r \in RunsOf(t) : r \in Run /\ rec.view[r].st = "Absent"
  BY ZenonT(60), <1>1, FactsOfRec, RunsOfType DEF isScheduled, runsSeen
<1> QED  BY ZenonT(60), <1>1, <1>2, <1>3 DEF exists

\* Every step keeps fan-outs whole.
LEMMA NextFanInv ==
  ASSUME NoFaults, SInv, AbsentInv, FanInv, [Next]_vars
  PROVE  FanInv'
<1>1. TypeOK /\ rec \in ReconcileType /\ runs \in [Run -> RunRecord] /\ ReadsOwnWrites
  BY ZenonT(60) DEF SInv, IInv, TypeOK, NoFaults
<1>2. ~(faults < MaxFaults)
  BY SMTT(60), <1>1 DEF TypeOK, NoFaults
<1>3. \A t \in Tasks : \A r \in RunsOf(t) : r \in Run /\ r[1] = t
  BY SMTT(60), RunsOfType DEF RunsOf
<1>4. ASSUME \A r \in Run : Planned(r) <=> Planned(r)',
             rec'.pc = "create" => \A r \in rec'.todo : r[1] \in Tasks /\ runs'[r].st = "Absent"
      PROVE  FanInv'
  BY ZenonT(60), <1>3, <1>4 DEF FanInv
<1>5. CASE rec.pc = "create"
  <2>1. CASE CreateRun
    <3>1. PICK r \in Run :
            /\ r \in rec.todo
            /\ runs[r] = Absent => /\ runs' = [runs EXCEPT ![r] = Created]
                                   /\ rec' = [rec EXCEPT !.todo = @ \ {r}, !.view[r] = Created]
      BY Zenon, <2>1 DEF CreateRun, creating
    <3>2. runs[r] = Absent
      BY ZenonT(60), <1>5, <3>1 DEF FanInv, AbsentInv
    <3>3. rec'.pc = "create" /\ rec'.todo = rec.todo \ {r}
      BY ZenonT(60), <1>1, <1>5, <3>1, <3>2 DEF ReconcileType
    <3>4. runs'[r].st # "Absent" /\ \A q \in Run \ {r} : runs'[q] = runs[q]
      <4>1. Created.st = "Running" /\ runs' = [runs EXCEPT ![r] = Created]
        BY Zenon, <3>1, <3>2 DEF Created
      <4> QED  BY ZenonT(60), <1>1, <4>1
    <3>5. rec.todo \subseteq Run
      BY Zenon, <1>1 DEF ReconcileType
    <3>6. \A q \in rec'.todo : q[1] \in Tasks /\ runs'[q].st = "Absent"
      BY ZenonT(60), <1>5, <3>3, <3>4, <3>5 DEF FanInv
    <3> QED  BY ZenonT(60), <1>4, <1>5, <3>1, <3>3, <3>4, <3>6 DEF Planned
  <2>2. CASE SkipFinalTask
    <3>1. PICK r \in Run : /\ r \in rec.todo /\ skippedNow(r[1])
                           /\ rec' = [rec EXCEPT !.todo = @ \ RunsOf(r[1])]
                           /\ runs' = runs
      BY Zenon, <2>2 DEF SkipFinalTask, creating, env
    <3>2. rec'.pc = "create" /\ rec'.todo = rec.todo \ RunsOf(r[1])
      BY ZenonT(60), <1>1, <1>5, <3>1 DEF ReconcileType
    <3>3. r[1] \in Tasks /\ \A q \in RunsOf(r[1]) : runs[q].st = "Absent"
      BY ZenonT(60), <1>1, <1>5, <3>1, SkippedNowHasNone DEF Tasks
    <3>4. ASSUME NEW t \in Tasks, \E q \in RunsOf(t) : Planned(q)'
          PROVE  \A q \in RunsOf(t) : Planned(q)'
      <4>1. t # r[1]
        BY ZenonT(60), <3>1, <3>2, <3>3, <3>4 DEF Planned
      <4>2. \A q \in RunsOf(t) : q \notin RunsOf(r[1])
        BY ZenonT(60), <1>3, <3>3, <4>1
      <4>3. \A q \in RunsOf(t) : Planned(q) <=> Planned(q)'
        BY ZenonT(60), <1>5, <3>1, <3>2, <4>2 DEF Planned
      <4> QED  BY ZenonT(60), <3>4, <4>3 DEF FanInv
    <3>5. \A q \in rec'.todo : q[1] \in Tasks /\ runs'[q].st = "Absent"
      BY ZenonT(60), <1>5, <3>1, <3>2 DEF FanInv
    <3> QED  BY ZenonT(60), <3>4, <3>5 DEF FanInv
  <2>3. CASE ScheduleDone
    <3>1. rec.todo = {} /\ runs' = runs
      BY ZenonT(60), <2>3 DEF ScheduleDone, env
    <3>2. rec'.pc # "create"
      <4>1. rec' = [rec EXCEPT !.pc = "conclude"] => rec'.pc = "conclude"
        BY Zenon, <1>1 DEF ReconcileType
      <4>2. rec' = patch(rec, "pipeline", rec.st.childRefs) => rec'.pc = "patch"
        BY SMTT(60), <1>1, PatchSets
      <4> QED  BY ZenonT(60), <2>3, <4>1, <4>2 DEF ScheduleDone
    <3> QED  BY ZenonT(60), <1>4, <3>1, <3>2 DEF Planned
  <2>4. CASE rec' = rec /\ exists(runs') = exists(runs)
    <3>1. \A r \in Run : runs[r].st = "Absent" <=> runs'[r].st = "Absent"
      BY ZenonT(60), <2>4 DEF exists
    <3>2. rec.todo \subseteq Run
      BY Zenon, <1>1 DEF ReconcileType
    <3>3. \A r \in rec.todo : r[1] \in Tasks /\ runs'[r].st = "Absent"
      BY ZenonT(60), <1>5, <3>1, <3>2 DEF FanInv
    <3> QED  BY ZenonT(60), <1>4, <2>4, <3>1, <3>3 DEF Planned
  <2>5. ~CreateRunFails /\ ~Crash
    BY ZenonT(60), <1>2 DEF CreateRunFails, Crash
  <2> QED  BY ZenonT(60), <1>1, <1>5, <2>1, <2>2, <2>3, <2>4, <2>5, CreatingSteps
<1>6. CASE rec.pc # "create"
  <2>1. \A r \in Run : runs[r].st = "Absent" <=> runs'[r].st = "Absent"
    BY ZenonT(60), <1>6, NoneCreated DEF exists
  <2>2. CASE rec'.pc # "create"
    BY ZenonT(60), <1>4, <1>6, <2>1, <2>2 DEF Planned
  <2>3. CASE rec'.pc = "create"
    <3>1. RunNextSchedulableTask
      <4>1. rec.pc # "idle"
        BY Zenon, <1>1, <1>6, <2>3, StepKinds, NoReconcileSeesNothing
           DEF Starts, Works, Stops, GoesOn
      <4>2. ~CreateRun
        BY Zenon, <1>6 DEF CreateRun, creating
      <4> QED  BY ZenonT(60), <1>1, <1>6, <2>3, <4>1, <4>2, WorkSees DEF SeesTheSame
    <3>2. \A r \in rec'.todo : /\ r[1] \in Tasks /\ r \in RunsOf(r[1]) /\ RunsOf(r[1]) \subseteq rec'.todo
                               /\ \A q \in RunsOf(r[1]) : runs[q].st = "Absent"
      BY ZenonT(60), <1>1, <2>3, <3>1, ScheduledAnew
    <3>3. ASSUME NEW t \in Tasks, NEW r \in RunsOf(t), Planned(r)', NEW q \in RunsOf(t)
          PROVE  Planned(q)'
      <4>1. CASE r \in rec'.todo
        BY ZenonT(60), <1>3, <2>3, <3>2, <4>1 DEF Planned
      <4>2. CASE runs'[r].st # "Absent"
        <5>1. Planned(r)
          BY ZenonT(60), <1>3, <2>1, <4>2 DEF Planned
        <5>2. Planned(q)
          BY ZenonT(60), <5>1 DEF FanInv
        <5> QED  BY ZenonT(60), <1>3, <1>6, <2>1, <5>2 DEF Planned
      <4> QED  BY ZenonT(60), <3>3, <4>1, <4>2 DEF Planned
    <3>4. \A r \in rec'.todo : r[1] \in Tasks /\ runs'[r].st = "Absent"
      BY ZenonT(60), <1>3, <2>1, <3>2
    <3> QED  BY ZenonT(60), <3>3, <3>4 DEF FanInv
  <2> QED  BY ZenonT(60), <2>2, <2>3
<1> QED  BY ZenonT(60), <1>5, <1>6

\* Runs that do not exist are left alone, and without faults fan-outs are whole.
LEMMA FanInvHolds == Spec => [](SInv /\ AbsentInv /\ (NoFaults => FanInv))
<1>1. Init => AbsentInv /\ FanInv
  <2> SUFFICES ASSUME Init PROVE AbsentInv /\ FanInv
    BY ZenonT(60)
  <2>1. rec.pc = "idle" /\ runs = [r \in Run |-> Absent]
    BY ZenonT(60), NoReconcileSeesNothing DEF Init
  <2>2. Absent.st = "Absent"
    BY ZenonT(60) DEF Absent
  <2>3. \A t \in Tasks : \A r \in RunsOf(t) : r \in Run
    BY ZenonT(60), RunsOfType
  <2> QED  BY ZenonT(60), <2>1, <2>2, <2>3 DEF AbsentInv, FanInv, Planned
<1>2. SInv /\ SInv' /\ AbsentInv /\ [Next]_vars => AbsentInv'
  BY ZenonT(60), NextAbsentInv
<1>3. SInv /\ AbsentInv /\ (NoFaults => FanInv) /\ [Next]_vars => (NoFaults => FanInv)'
  BY ZenonT(60), NextFanInv DEF NoFaults
<1>4. Init => (NoFaults => FanInv)
  BY ZenonT(60), <1>1
<1> QED  BY <1>1, <1>2, <1>3, <1>4, SInvHolds, PTL DEF Spec

(***************************************************************************)
(* Without faults, the runs of a task are created in one reconcile, so     *)
(* that one that sets out to schedule finds all of them or none: the       *)
(* comment in reconcile that scheduling relies on.                         *)
(***************************************************************************)
THEOREM FansOutAtOnce == NoFaults => (Spec => []FannedOutAtOnce)
<1> SUFFICES ASSUME NoFaults PROVE Spec => []FannedOutAtOnce
  OBVIOUS
<1>1. (NoFaults => FanInv) => FannedOutAtOnce
  BY ZenonT(60) DEF FanInv, Planned, FannedOutAtOnce, existing
<1> QED  BY <1>1, FanInvHolds, PTL

\* Fan-outs are whole because nothing fails, or because there are none.
WholeFanOuts == NoFaults \/ \A t \in Tasks : Width[t] = 1

\* What a status st of a PipelineRun that succeeded says of the runs.
Complete(st) ==
  st.reason \in SucceededReason =>
    \A t \in Tasks :
      \/ \A r \in RunsOf(t) : \/ runs[r].st = "Succeeded"
                              \/ runs[r].st = "Failed" /\ t \in OnErrorContinue
      \/ st.reason = "Completed" /\ t \in st.skipped

CompleteInv == Complete(pr.st) /\ (rec.pc = "write" => Complete(rec.st))

\* What a reconcile that concludes with success found.
LEMMA ConcludesComplete ==
  ASSUME WholeFanOuts, SInv, NoFaults => FanInv, rec.pc = "conclude",
         GetPipelineConditionStatus(Facts(rec), Skips(Facts(rec))) \in SucceededReason,
         NEW t \in Tasks
  PROVE  \/ \A r \in RunsOf(t) : \/ runs[r].st = "Succeeded"
                                 \/ runs[r].st = "Failed" /\ t \in OnErrorContinue
         \/ /\ GetPipelineConditionStatus(Facts(rec), Skips(Facts(rec))) = "Completed"
            /\ t \in GetSkippedTasks(Facts(rec), Skips(Facts(rec)))
<1> DEFINE f == Facts(rec)
           s == Skips(f)
           count == countedAs(f, s, finallySkips(f, s), t)
<1>1. AreSkips(f, s) /\ f.view = rec.view
  BY ZenonT(60), SkipsSolve, FactsOfRec
<1>2. GetPipelineConditionStatus(f, s) \in SucceededReason
  BY ZenonT(60)
<1> HIDE DEF f, s
<1>3. /\ count \notin {"Incomplete", "ValidationFailed", "Failed", "SkippedDueToTimeout", "Cancelled"}
      /\ count = "Skipped" => GetPipelineConditionStatus(f, s) = "Completed"
  BY ZenonT(60), <1>2, ReasonCounts DEF EndsByItself, SucceededReason
<1>4. \/ isSuccessful(f, t)
      \/ isFailure(f, t) /\ ~isCancelled(f, t) /\ t \in OnErrorContinue
      \/ /\ count = "Skipped"
         /\ (t \in DagTasks /\ s[t] # "None") \/ (t \in FinalTasks /\ finallySkips(f, s)[t] # "None")
  BY ZenonT(60), <1>3 DEF countedAs, failureCount
<1>5. ASSUME isScheduled(f, t), NEW r \in RunsOf(t) PROVE rec.view[r].st # "Absent"
  <2>1. PICK q \in RunsOf(t) : rec.view[q].st # "Absent"
    BY ZenonT(60), <1>1, <1>5 DEF isScheduled, runsSeen
  <2>2. CASE Width[t] = 1
    BY SMTT(60), <2>1, <2>2 DEF RunsOf
  <2>3. CASE NoFaults
    <3>1. q \in Run /\ r \in Run
      BY ZenonT(60), RunsOfType
    <3>2. runs[q].st # "Absent"
      BY ZenonT(60), <2>1, <3>1 DEF SInv, IInv, ViewsInv, Behind
    <3>3. runs[r].st # "Absent"
      BY ZenonT(60), <2>3, <3>2 DEF FanInv, Planned
    <3>4. exists(rec.view) = exists(runs)
      BY Zenon, <2>3 DEF NoFaults, SInv, IInv, SeesAllInv
    <3> QED  BY ZenonT(60), <3>1, <3>3, <3>4 DEF exists
  <2> QED  BY ZenonT(60), <2>2, <2>3 DEF WholeFanOuts
<1>6. ASSUME NEW r \in RunsOf(t), rec.view[r].st \in DoneState PROVE runs[r].st = rec.view[r].st
  BY ZenonT(60), <1>6, RunsOfType DEF SInv, IInv, ViewsInv, Behind
<1>7. CASE isSuccessful(f, t)
  <2>1. \A r \in RunsOf(t) : rec.view[r].st = "Succeeded"
    BY ZenonT(60), <1>1, <1>5, <1>7 DEF isSuccessful, runsSeen
  <2> QED  BY ZenonT(60), <1>6, <2>1 DEF DoneState
<1>8. CASE isFailure(f, t) /\ ~isCancelled(f, t) /\ t \in OnErrorContinue
  <2>1. isScheduled(f, t)
    BY ZenonT(60), <1>8 DEF isFailure, haveAnyRunsFailed, isScheduled
  <2>2. \A r \in RunsOf(t) : rec.view[r].st \in {"Succeeded", "Failed"}
    BY ZenonT(60), <1>1, <1>5, <1>8, <2>1 DEF isFailure, isCancelled, runsDone, runsSeen,
                                              DoneState
  <2> QED  BY ZenonT(60), <1>6, <1>8, <2>2 DEF DoneState
<1> HIDE DEF count
<1>9. CASE /\ count = "Skipped"
           /\ (t \in DagTasks /\ s[t] # "None") \/ (t \in FinalTasks /\ finallySkips(f, s)[t] # "None")
  <2>1. t \in GetSkippedTasks(f, s) /\ GetPipelineConditionStatus(f, s) = "Completed"
    BY ZenonT(60), <1>3, <1>9 DEF GetSkippedTasks
  <2> QED  BY ZenonT(60), <2>1 DEF f, s
<1> QED  BY ZenonT(60), <1>4, <1>7, <1>8, <1>9

\* Every step keeps what is said of success.
LEMMA NextCompleteInv ==
  ASSUME WholeFanOuts, SInv, NoFaults => FanInv, CompleteInv, [Next]_vars
  PROVE  CompleteInv'
<1>1. TypeOK
  BY ZenonT(60) DEF SInv, IInv
<1>2. ASSUME NEW st, Complete(st)
      PROVE  st.reason \in SucceededReason =>
               \A t \in Tasks :
                 \/ \A r \in RunsOf(t) : \/ runs'[r].st = "Succeeded"
                                         \/ runs'[r].st = "Failed" /\ t \in OnErrorContinue
                 \/ st.reason = "Completed" /\ t \in st.skipped
  <2>1. \A t \in Tasks : \A r \in RunsOf(t) :
          runs[r].st \in {"Succeeded", "Failed"} => runs'[r].st = runs[r].st
    BY ZenonT(60), <1>1, RunsOfType, RunsGoOn DEF DoneState
  <2> QED  BY ZenonT(60), <1>2, <2>1 DEF Complete
<1>3. Complete(pr.st)'
  <2>1. pr'.st = pr.st \/ (rec.pc = "write" /\ pr'.st = rec.st)
    BY ZenonT(60), WrittenStatus
  <2> QED  BY ZenonT(60), <1>2, <2>1 DEF CompleteInv, Complete
<1>4. ASSUME rec'.pc = "write" PROVE Complete(rec.st)'
  <2>1. CASE rec.pc = "write"
    <3>1. rec' = rec
      BY ZenonT(60), <1>4, <2>1, WrittenStatus
    <3> QED  BY ZenonT(60), <1>2, <2>1, <3>1 DEF CompleteInv, Complete
  <2>2. CASE rec.pc # "write"
    <3>1. SUFFICES ASSUME rec'.st.reason \in SucceededReason
                   PROVE  Complete(rec.st)'
      BY ZenonT(60) DEF Complete
    <3>2. /\ UNCHANGED runs /\ rec.pc = "conclude"
          /\ rec'.st.reason = GetPipelineConditionStatus(Facts(rec), Skips(Facts(rec)))
          /\ rec'.st.skipped = GetSkippedTasks(Facts(rec), Skips(Facts(rec)))
      BY ZenonT(60), <1>4, <2>2, <3>1, WrittenReasons DEF EndsByItself, SucceededReason
    <3>3. \A t \in Tasks :
            \/ \A r \in RunsOf(t) : \/ runs[r].st = "Succeeded"
                                    \/ runs[r].st = "Failed" /\ t \in OnErrorContinue
            \/ rec'.st.reason = "Completed" /\ t \in rec'.st.skipped
      BY ZenonT(60), <3>1, <3>2, ConcludesComplete
    <3> QED  BY ZenonT(60), <3>2, <3>3 DEF Complete
  <2> QED  BY ZenonT(60), <2>1, <2>2
<1> QED  BY ZenonT(60), <1>3, <1>4 DEF CompleteInv

(***************************************************************************)
(* A PipelineRun that succeeded ran every task in its full width, each run *)
(* succeeding unless onError: continue; if Completed, a task may have been *)
(* skipped instead.  Stale caches, crashes and failing calls do not change *)
(* that, as long as they leave no fan-out in part.                         *)
(***************************************************************************)
THEOREM SuccessIsComplete == WholeFanOuts => (Spec => []SuccessMeansComplete)
<1> SUFFICES ASSUME WholeFanOuts PROVE Spec => []SuccessMeansComplete
  OBVIOUS
<1>1. Init => CompleteInv
  <2> SUFFICES ASSUME Init PROVE CompleteInv
    BY ZenonT(60)
  <2>1. rec.pc = "idle" /\ pr.st = NewStatus
    BY SMTT(60), NoReconcileSeesNothing DEF Init
  <2>2. NewStatus.reason = ""
    BY DEF NewStatus
  <2> QED  BY Zenon, <2>1, <2>2 DEF CompleteInv, Complete, SucceededReason
<1>2. SInv /\ (NoFaults => FanInv) /\ CompleteInv /\ [Next]_vars => CompleteInv'
  BY ZenonT(60), NextCompleteInv
<1>3. CompleteInv => SuccessMeansComplete
  BY ZenonT(60) DEF CompleteInv, Complete, SuccessMeansComplete
<1> QED  BY <1>1, <1>2, <1>3, FanInvHolds, PTL DEF Spec

-----------------------------------------------------------------------------
(***************************************************************************)
(* Cancelling.                                                             *)
(*                                                                         *)
(* The stages a reconcile goes through when nothing fails: only patches    *)
(* for tasks come before planning, and from creating runs or timing out    *)
(* the pipeline it goes on to conclude.                                    *)
(***************************************************************************)
PatchesEarly == rec.pc = "patch" /\ rec.why # "pipeline"

LEMMA WorkOrder ==
  ASSUME TypeOK, [Next]_vars, ~(faults < MaxFaults), ~rec.errs, rec.pc \notin {"idle", "write"},
         rec.pc = "create" => \A r \in rec.todo : runs[r] = Absent
  PROVE  \/ rec' = rec
         \/ /\ ~rec'.errs
            /\ rec'.pc = "plan" \/ (rec'.pc = "patch" /\ rec'.why # "pipeline") =>
                 PatchesEarly
            /\ rec'.pc = "write" => rec.pc \in {"conclude", "plan"} \/ PatchesEarly
            /\ rec'.pc = "patch" /\ rec'.why = "cancel" => PatchRun /\ rec.why = "cancel"
<1> DEFINE Goal == \/ rec' = rec
                   \/ /\ ~rec'.errs
                      /\ rec'.pc = "plan" \/ (rec'.pc = "patch" /\ rec'.why # "pipeline") =>
                           PatchesEarly
                      /\ rec'.pc = "write" => rec.pc \in {"conclude", "plan"} \/ PatchesEarly
                      /\ rec'.pc = "patch" /\ rec'.why = "cancel" => PatchRun /\ rec.why = "cancel"
<1> SUFFICES Goal
  BY ZenonT(60)
<1>1. rec \in ReconcileType
  BY ZenonT(60) DEF TypeOK
<1>2. ASSUME NEW out, NEW st, rec' = end(rec, out, st),
             rec.pc \in {"conclude", "plan"} \/ PatchesEarly
      PROVE  Goal
  BY SMTT(60), <1>1, <1>2, EndSets
<1>3. CASE PatchRun
  <2>1. PICK r : rec' = [rec EXCEPT !.todo = @ \ {r}]
    BY ZenonT(60), <1>3 DEF PatchRun
  <2>2. rec'.pc = rec.pc /\ rec'.why = rec.why /\ ~rec'.errs
    BY Zenon, <1>1, <2>1 DEF ReconcileType
  <2> QED  BY Zenon, <1>3, <2>2 DEF PatchesEarly, PatchRun
<1>4. ~PatchRunFails
  BY Zenon DEF PatchRunFails
<1>5. CASE CancelDone \/ LongTimeoutDone
  BY ZenonT(60), <1>2, <1>5 DEF CancelDone, LongTimeoutDone, patchesDone, PatchesEarly
<1>6. CASE GracefulCancelDone
  <2>1. rec' = applyTaskTimeouts(rec) /\ PatchesEarly
    BY ZenonT(60), <1>6 DEF GracefulCancelDone, patchesDone, PatchesEarly
  <2>2. \/ rec'.pc = "plan" /\ rec'.errs = rec.errs
        \/ rec'.pc = "patch" /\ rec'.why = "tasks" /\ ~rec'.errs
    BY ZenonT(60), <1>1, <2>1, ApplyTaskTimeoutsSets
  <2> QED  BY ZenonT(60), <2>1, <2>2
<1>7. CASE TaskTimeoutsDone
  <2>1. rec' = [rec EXCEPT !.pc = "plan"] /\ PatchesEarly
    BY <1>7 DEF TaskTimeoutsDone, patchesDone, PatchesEarly
  <2>2. rec'.pc = "plan" /\ ~rec'.errs
    BY ZenonT(60), <1>1, <2>1 DEF ReconcileType
  <2> QED  BY ZenonT(60), <2>1, <2>2
<1>8. CASE PipelineTimeoutDone
  <2>1. rec' = [rec EXCEPT !.pc = "conclude", !.st.reason = "TimedOut"]
    BY <1>8 DEF PipelineTimeoutDone
  <2>2. rec'.pc = "conclude" /\ ~rec'.errs
    BY ZenonT(60), <1>1, <2>1 DEF ReconcileType
  <2> QED  BY <2>2
<1>9. CASE RunNextSchedulableTask
  <2>1. CASE rec' = end(rec, "permanent", rec.st)
    BY ZenonT(60), <1>2, <1>9, <2>1 DEF RunNextSchedulableTask
  <2>2. ASSUME NEW f, NEW s, NEW vf, NEW fresh, rec' = schedule(rec, f, s, vf, fresh) PROVE Goal
    <3>1. PICK fin, todo : rec' = [rec EXCEPT !.pc = "create", !.vf = vf, !.st.fin = fin,
                                              !.todo = todo]
      BY Zenon, <2>2 DEF schedule
    <3>2. rec'.pc = "create" /\ ~rec'.errs
      BY ZenonT(40), <1>1, <3>1 DEF ReconcileType
    <3> QED  BY <3>2
  <2> QED  BY ZenonT(60), <1>9, <2>1, <2>2 DEF RunNextSchedulableTask
<1>10. CASE CreateRun
  <2>1. PICK r : rec.pc = "create" /\ rec' = [rec EXCEPT !.todo = @ \ {r}, !.view[r] = Created]
    BY Zenon, <1>10 DEF CreateRun, creating
  <2>2. rec'.pc = "create" /\ ~rec'.errs
    BY Zenon, <1>1, <2>1 DEF ReconcileType
  <2> QED  BY <2>2
<1>11. ~CreateRunFails
  BY ZenonT(60) DEF CreateRunFails
<1>12. CASE SkipFinalTask
  <2>1. PICK T : rec.pc = "create" /\ rec' = [rec EXCEPT !.todo = @ \ T]
    BY Zenon, <1>12 DEF SkipFinalTask, creating
  <2>2. rec'.pc = "create" /\ ~rec'.errs
    BY ZenonT(60), <1>1, <2>1 DEF ReconcileType
  <2> QED  BY <2>2
<1>13. CASE ScheduleDone
  <2>1. CASE rec' = [rec EXCEPT !.pc = "conclude"]
    <3>1. rec'.pc = "conclude" /\ ~rec'.errs
      BY ZenonT(60), <1>1, <2>1 DEF ReconcileType
    <3> QED  BY <3>1
  <2>2. CASE rec' = patch(rec, "pipeline", rec.st.childRefs)
    BY SMTT(60), <1>1, <2>2, PatchSets
  <2> QED  BY ZenonT(60), <1>13, <2>1, <2>2 DEF ScheduleDone
<1>14. CASE Finishing
  BY ZenonT(60), <1>2, <1>14 DEF Finishing, Conclude, ConcludeWithoutResult, UpdateStatus,
                            UpdateStatusFails
<1>15. ~Begin
  BY Zenon DEF Begin, ReconcileDone, ReconcileLongTimeout, ReconcileCancelled, ReconcilePending,
         Reconcile, ReconcileInvalid, ReconcileRetry, ReconcileResolving, reconciles, Dequeue
<1>16. Environment \/ UNCHANGED vars => rec' = rec
  BY Zenon DEF Environment, SetSpecStatus, InformPipelineRun, InformTaskRuns,
         InformCustomRuns, InformRuns, RunEnds, DeadlinePasses, Rest, Crash, vars
<1> HIDE DEF Goal
<1>17. rec' = rec => Goal
  BY DEF Goal
<1> QED  BY ZenonT(60), <1>3, <1>4, <1>5, <1>6, <1>7, <1>8, <1>9, <1>10, <1>11, <1>12, <1>13,
            <1>14, <1>15,
            <1>16, <1>17 DEF Next, Reconciler, Patching, Scheduling

\* Without faults, the status names every child run, except while a reconcile adds some.
OrphansInv ==
  /\ ~rec.errs
  /\ rec.pc = "idle" => exists(runs) \subseteq pr.st.childRefs
  /\ rec.pc = "plan" \/ PatchesEarly => exists(runs) \subseteq rec.orig.childRefs
  /\ rec.pc = "write" => exists(runs) \subseteq rec.st.childRefs

\* What cancelling has not asked to stop yet is still to be patched.
CancelInv ==
  /\ rec.pc = "patch" /\ rec.why = "cancel" =>
       \A r \in Run : runs[r].st = "Running" /\ runs[r].req = "" => r \in rec.todo
  /\ rec.pc = "write" /\ rec.st.reason = "Cancelled" => allToldToStop
  /\ pr.st.reason = "Cancelled" => allToldToStop

\* Every step keeps the children named.
LEMMA NextOrphansInv ==
  ASSUME NoFaults, SInv, AbsentInv, FanInv, OrphansInv, [Next]_vars
  PROVE  OrphansInv'
<1>1. TypeOK /\ rec \in ReconcileType /\ ReadsOwnWrites /\ ~(faults < MaxFaults)
  BY DEF SInv, IInv, TypeOK, NoFaults
<1>2. CASE Starts
  <2>1. exists(runs') = exists(runs) /\ exists(runs) \subseteq rec'.orig.childRefs
    BY ZenonT(60), <1>1, <1>2 DEF Starts, OrphansInv, exists
  <2> QED  BY ZenonT(60), <1>2, <2>1 DEF Starts, OrphansInv, PatchesEarly
<1>3. CASE Stops
  <2>1. NoReconcile.pc = "idle" /\ ~NoReconcile.errs
    BY ZenonT(60) DEF NoReconcile
  <2>2. rec.pc = "write" /\ UNCHANGED runs /\ (pr'.st = rec.st \/ (pr' = pr /\ rec.st = rec.orig))
    BY ZenonT(60), <1>1, <1>3 DEF Stops
  <2>3. pr'.st = rec.st
    BY ZenonT(60), <1>1, <2>2 DEF SInv, StatusInv
  <2>4. exists(runs') \subseteq pr'.st.childRefs
    BY ZenonT(60), <2>2, <2>3 DEF OrphansInv, exists
  <2> QED  BY ZenonT(60), <1>3, <2>1, <2>4 DEF Stops, OrphansInv, PatchesEarly
<1>4. CASE rec' = rec /\ GoesOn
  BY Zenon, <1>4 DEF GoesOn, OrphansInv, PatchesEarly
<1>5. CASE Works /\ rec' # rec
  <2>1. rec.pc = "create" => \A r \in rec.todo : runs[r] = Absent
    <3>1. rec.todo \subseteq Run
      BY Zenon, <1>1 DEF ReconcileType
    <3> QED  BY ZenonT(60), <3>1 DEF FanInv, AbsentInv
  <2>2. /\ ~rec'.errs
        /\ rec'.pc = "plan" \/ (rec'.pc = "patch" /\ rec'.why # "pipeline") => PatchesEarly
        /\ rec'.pc = "write" => rec.pc \in {"conclude", "plan"} \/ PatchesEarly
    BY ZenonT(60), <1>1, <1>5, <2>1, WorkOrder DEF Works, OrphansInv
  <2>3. rec.pc # "create" => exists(runs') = exists(runs)
    BY Zenon, NoneCreated
  <2>4. ASSUME rec'.pc = "plan" \/ (rec'.pc = "patch" /\ rec'.why # "pipeline")
        PROVE  exists(runs') \subseteq rec'.orig.childRefs
    BY Zenon, <1>5, <2>2, <2>3, <2>4 DEF Works, OrphansInv, PatchesEarly
  <2>5. ASSUME rec'.pc = "write" PROVE exists(runs') \subseteq rec'.st.childRefs
    <3>1. CASE rec.pc = "conclude"
      <4>1. exists(rec.view) = exists(runs)
        BY Zenon, <1>1, <3>1 DEF SInv, IInv, SeesAllInv
      <4>2. rec.st \in Status
        BY Zenon, <1>1 DEF ReconcileType
      <4>3. LET st == concluded(Facts(rec), Skips(Facts(rec)))
            IN  /\ st.childRefs = exists(rec.view)
                /\ [st EXCEPT !.reason = "CouldntGetPipelineResult"].childRefs = exists(rec.view)
        BY <4>2 DEF concluded, Status
      <4>4. rec'.st.childRefs = exists(rec.view)
        BY ZenonT(60), <1>5, <2>5, <3>1, <4>3 DEF Works
      <4> QED  BY ZenonT(60), <2>3, <3>1, <4>1, <4>4
    <3>2. CASE rec.pc # "conclude"
      <4>1. rec.pc \in {"plan", "patch"} /\ exists(runs) \subseteq rec.orig.childRefs
        BY ZenonT(60), <2>2, <2>5, <3>2 DEF OrphansInv, PatchesEarly
      <4>2. rec.orig.childRefs \subseteq rec.st.childRefs
        BY ZenonT(60), <4>1 DEF SInv, RefsInv
      <4>3. rec'.st.childRefs = rec.st.childRefs
        BY ZenonT(60), <1>5, <2>5, <3>2 DEF Works
      <4> QED  BY ZenonT(60), <2>3, <4>1, <4>2, <4>3
    <3> QED  BY Zenon, <3>1, <3>2
  <2> QED  BY ZenonT(60), <1>5, <2>2, <2>4, <2>5 DEF Works, OrphansInv, PatchesEarly
<1>6. CASE rec' = rec /\ Works
  <2>1. CASE rec.pc # "create"
    <3>1. exists(runs') = exists(runs)
      BY ZenonT(60), <2>1, NoneCreated
    <3> QED  BY Zenon, <1>6, <3>1 DEF Works, OrphansInv, PatchesEarly
  <2>2. CASE rec.pc = "create"
    BY ZenonT(60), <1>6, <2>2 DEF OrphansInv, PatchesEarly
  <2> QED  BY ZenonT(60), <2>1, <2>2
<1> QED  BY ZenonT(60), <1>1, <1>2, <1>3, <1>4, <1>5, <1>6, StepKinds DEF GoesOn

\* Without new runs, what was told to stop stays so.
LEMMA ToldToStopStays ==
  ASSUME TypeOK, [Next]_vars, exists(runs') = exists(runs), allToldToStop
  PROVE  allToldToStop'
<1>1. \A r \in Run : runs'[r].st = "Running" => runs[r].st = "Running" /\ runs[r].st # "Absent"
  BY Zenon, RunsGoOn DEF exists
<1> QED  BY Zenon, <1>1, RunsGoOn DEF allToldToStop

\* Every step keeps what is said of cancelling.
LEMMA NextCancelInv ==
  ASSUME NoFaults, SInv, AbsentInv, FanInv, OrphansInv, CancelInv, [Next]_vars
  PROVE  CancelInv'
<1>1. TypeOK /\ rec \in ReconcileType /\ ReadsOwnWrites /\ ~(faults < MaxFaults)
  BY DEF SInv, IInv, TypeOK, NoFaults
<1>2. rec.pc # "create" => exists(runs') = exists(runs)
  BY Zenon, NoneCreated
<1>3. ASSUME rec'.pc = "patch", rec'.why = "cancel", NEW r \in Run,
             runs'[r].st = "Running", runs'[r].req = ""
      PROVE  r \in rec'.todo
  <2>1. CASE rec.pc = "idle"
    <3>1. Starts
      BY ZenonT(60), <1>1, <1>3, <2>1, StepKinds, NoReconcileSeesNothing DEF Works, Stops, GoesOn
    <3>2. rec'.todo = pr.st.childRefs /\ UNCHANGED runs
      BY Zenon, <1>1, <1>3, <3>1 DEF Starts
    <3> QED  BY ZenonT(60), <1>3, <2>1, <3>2 DEF OrphansInv, exists
  <2>2. CASE rec' = rec
    <3>1. exists(runs') = exists(runs)
      BY Zenon, <1>2, <1>3, <2>2
    <3>2. runs[r].st = "Running" /\ runs[r].req = ""
      BY ZenonT(60), <1>1, <1>3, <3>1, RunsGoOn DEF exists
    <3> QED  BY Zenon, <1>3, <2>2, <3>2 DEF CancelInv
  <2>3. CASE rec.pc # "idle" /\ rec' # rec
    <3>1. rec.pc # "write"
      BY ZenonT(60), <1>3, <2>3, WrittenStatus
    <3>2. rec.pc = "create" => \A q \in rec.todo : runs[q] = Absent
      <4>1. rec.todo \subseteq Run
        BY Zenon, <1>1 DEF ReconcileType
      <4> QED  BY ZenonT(60), <4>1 DEF FanInv, AbsentInv
    <3>3. PatchRun /\ rec.why = "cancel"
      BY ZenonT(60), <1>1, <1>3, <2>3, <3>1, <3>2, WorkOrder DEF OrphansInv
    <3>4. PICK q \in rec.todo :
            /\ rec' = [rec EXCEPT !.todo = @ \ {q}]
            /\ runs' = IF runs[q].st = "Running" \/ q[1] \in CustomTasks
                         THEN [runs EXCEPT ![q].req = requested(rec.why)] ELSE runs
      BY <3>3, ZenonT(60) DEF PatchRun
    <3>5. rec'.todo = rec.todo \ {q} /\ rec.pc = "patch"
      BY ZenonT(60), <1>1, <3>3, <3>4 DEF ReconcileType, PatchRun
    <3>6. runs[r].st = "Running" /\ runs[r].req = ""
      BY ZenonT(60), <1>1, <1>2, <1>3, <3>5, RunsGoOn DEF exists
    <3>7. r # q
      <4>1. requested(rec.why) # "" /\ runs \in [Run -> RunRecord]
        BY ZenonT(60), <1>1 DEF requested, TypeOK
      <4>2. \A x \in RunRecord : [x EXCEPT !.req = requested(rec.why)].req = requested(rec.why)
        BY Zenon DEF RunRecord
      <4>3. r = q => runs'[r] = [runs[r] EXCEPT !.req = requested(rec.why)]
        BY Zenon, <3>4, <3>6, <4>1
      <4> QED  BY ZenonT(60), <1>3, <4>1, <4>2, <4>3
    <3> QED  BY ZenonT(60), <3>3, <3>5, <3>6, <3>7 DEF CancelInv
  <2> QED  BY ZenonT(60), <2>1, <2>2, <2>3
<1>4. ASSUME rec'.pc = "write", rec'.st.reason = "Cancelled" PROVE allToldToStop'
  <2>1. CASE rec.pc = "write"
    <3>1. rec' = rec
      BY ZenonT(60), <1>4, <2>1, WrittenStatus
    <3> QED  BY ZenonT(60), <1>1, <1>2, <1>4, <2>1, <3>1, ToldToStopStays DEF CancelInv
  <2>2. CASE rec.pc # "write"
    <3>1. /\ UNCHANGED runs
          /\ \/ /\ rec.pc = "conclude"
                /\ GetPipelineConditionStatus(Facts(rec), Skips(Facts(rec))) = "Cancelled"
             \/ rec.pc = "patch" /\ rec.why = "cancel" /\ rec.todo = {}
      BY ZenonT(60), <1>4, <2>2, WrittenReasons
    <3>2. CASE rec.pc = "patch" /\ rec.why = "cancel" /\ rec.todo = {}
      BY Zenon, <3>1, <3>2 DEF CancelInv, allToldToStop
    <3>3. CASE /\ rec.pc = "conclude"
               /\ GetPipelineConditionStatus(Facts(rec), Skips(Facts(rec))) = "Cancelled"
      <4> DEFINE f == Facts(rec)
                 s == Skips(f)
      <4>1. AreSkips(f, s) /\ GetPipelineConditionStatus(f, s) = "Cancelled"
        BY ZenonT(60), <3>3, SkipsSolve
      <4> HIDE DEF f, s
      <4>2. ASSUME NEW t \in Tasks PROVE runsDone(f, t)
        BY ZenonT(60), <4>1, ReasonCounts, CountedIsOver
      <4>3. \A t \in Tasks : ended(t)
        BY ZenonT(60), <1>1, <3>3, <4>2, SeenDoneEnded DEF f
      <4>4. \A r \in Run : \E t \in Tasks : r \in RunsOf(t)
        BY ZenonT(60) DEF Run
      <4>5. \A r \in Run : runs[r].st # "Running"
        BY ZenonT(60), <4>3, <4>4 DEF ended, existing, DoneState
      <4> QED  BY Zenon, <3>1, <4>5 DEF allToldToStop
    <3> QED  BY ZenonT(60), <3>1, <3>2, <3>3
  <2> QED  BY ZenonT(60), <2>1, <2>2
<1>5. ASSUME pr'.st.reason = "Cancelled" PROVE allToldToStop'
  <2>1. CASE rec.pc = "write" /\ pr'.st = rec.st
    BY ZenonT(60), <1>1, <1>2, <1>5, <2>1, ToldToStopStays DEF CancelInv
  <2>2. CASE pr'.st = pr.st
    <3>1. rec.pc = "idle"
      BY ZenonT(60), <1>1, <1>5, <2>2 DEF SInv, StatusInv, IsDone, FailedReason
    <3> QED  BY ZenonT(60), <1>1, <1>2, <1>5, <2>2, <3>1, ToldToStopStays DEF CancelInv
  <2> QED  BY ZenonT(60), <2>1, <2>2, WrittenStatus
<1> QED  BY ZenonT(60), <1>3, <1>4, <1>5 DEF CancelInv

\* Without faults, that holds of every reachable state.
LEMMA OrphansInvHolds == Spec => [](NoFaults => OrphansInv)
<1>1. Init => OrphansInv
  <2> SUFFICES ASSUME Init PROVE OrphansInv
    BY ZenonT(60)
  <2>1. rec = NoReconcile /\ pr.st = NewStatus /\ runs = [r \in Run |-> Absent]
    BY SMTT(60) DEF Init
  <2>2. NoReconcile.pc = "idle" /\ ~NoReconcile.errs /\ Absent.st = "Absent"
    BY DEF NoReconcile, Absent
  <2> QED  BY Zenon, <2>1, <2>2 DEF OrphansInv, PatchesEarly, exists
<1>2. /\ SInv /\ AbsentInv /\ (NoFaults => FanInv) /\ (NoFaults => OrphansInv) /\ [Next]_vars
      => (NoFaults => OrphansInv)'
  BY Zenon, NextOrphansInv DEF NoFaults
<1>3. Init => (NoFaults => OrphansInv)
  BY Zenon, <1>1
<1> QED  BY <1>2, <1>3, FanInvHolds, PTL DEF Spec

(***************************************************************************)
(* Without faults, a PipelineRun that is marked Cancelled has no child run *)
(* that goes on without having been asked to stop: the children that       *)
(* cancelPipelineRun reads from the status are all there are.              *)
(***************************************************************************)
THEOREM CancelStopsAll == NoFaults => (Spec => []CancelledStopsAll)
<1> SUFFICES ASSUME NoFaults PROVE Spec => []CancelledStopsAll
  OBVIOUS
<1>1. Init => CancelInv
  <2> SUFFICES ASSUME Init PROVE CancelInv
    BY ZenonT(60)
  <2>1. rec = NoReconcile /\ pr.st = NewStatus
    BY SMTT(60) DEF Init
  <2>2. NoReconcile.pc = "idle" /\ NewStatus.reason = ""
    BY DEF NoReconcile, NewStatus
  <2> QED  BY Zenon, <2>1, <2>2 DEF CancelInv
<1>2. /\ SInv /\ AbsentInv /\ (NoFaults => FanInv) /\ (NoFaults => OrphansInv) /\ CancelInv
      /\ [Next]_vars
      => CancelInv'
  BY ZenonT(60), NextCancelInv
<1>3. CancelInv => CancelledStopsAll
  BY Zenon DEF CancelInv, CancelledStopsAll
<1> QED  BY <1>1, <1>2, <1>3, FanInvHolds, OrphansInvHolds, PTL DEF Spec

\* What a reconcile that nothing fails in has still to create does not exist.
LEMMA NothingTaken ==
  ASSUME TypeOK, AbsentInv, FanInv, rec.pc = "create"
  PROVE  \A r \in rec.todo : runs[r] = Absent
<1>1. rec.todo \subseteq Run
  BY Zenon DEF TypeOK, ReconcileType
<1> QED  BY Zenon, <1>1 DEF FanInv, AbsentInv

-----------------------------------------------------------------------------
(***************************************************************************)
(* Skipped tasks.                                                          *)
(*                                                                         *)
(* A task may be reported as skipped at first and be run later (see the    *)
(* README), but then its report is taken back before the status is         *)
(* written: none of the tasks in skippedTasks has a run, except while a    *)
(* reconcile that will report them anew is creating some.                  *)
(***************************************************************************)
NoneOf(ts) == \A t \in ts : existing(t) = {}

SkipInv ==
  /\ rec.pc = "idle" => NoneOf(pr.st.skipped)
  /\ rec.pc \in {"plan", "write"} \/ PatchesEarly => NoneOf(rec.st.skipped)

\* What GetSkippedTasks reports has no run.
LEMMA ReportedHasNone ==
  ASSUME SInv, ReadsOwnWrites, rec.pc # "idle",
         NEW t \in GetSkippedTasks(Facts(rec), Skips(Facts(rec)))
  PROVE  existing(t) = {}
<1> DEFINE f == Facts(rec)
           s == Skips(f)
<1>1. AreSkips(f, s) /\ t \in GetSkippedTasks(f, s) /\ f.view = rec.view
  BY Zenon, SkipsSolve, FactsOfRec
<1> HIDE DEF f, s
<1>2. t \in Tasks /\ ~isScheduled(f, t)
  BY Zenon, <1>1, SkippedHasNoRun DEF GetSkippedTasks, Tasks
<1>3. exists(rec.view) = exists(runs)
  BY Zenon DEF SInv, IInv, SeesAllInv
<1>4. \A r \in RunsOf(t) : r \in Run /\ rec.view[r].st = "Absent"
  BY ZenonT(60), <1>1, <1>2, RunsOfType DEF isScheduled, runsSeen
<1> QED  BY Zenon, <1>3, <1>4 DEF existing, exists

\* Every step keeps what is said of skipped tasks.
LEMMA NextSkipInv ==
  ASSUME NoFaults, SInv, AbsentInv, FanInv, OrphansInv, SkipInv, [Next]_vars
  PROVE  SkipInv'
<1>1. TypeOK /\ rec \in ReconcileType /\ ReadsOwnWrites /\ ~(faults < MaxFaults)
  BY DEF SInv, IInv, TypeOK, NoFaults
<1>2. pr.st.skipped \in SUBSET Tasks /\ rec.st.skipped \in SUBSET Tasks
  BY Zenon, <1>1 DEF TypeOK, ReconcileType, Status
<1>3. rec.pc # "create" => exists(runs') = exists(runs)
  BY Zenon, NoneCreated
<1>4. NoReconcile.pc = "idle"
  BY Zenon, NoReconcileSeesNothing
<1>5. CASE Starts
  <2>1. NoneOf(pr.st.skipped) /\ rec'.st.skipped = pr.st.skipped /\ rec'.pc # "idle" /\ rec.pc = "idle"
    BY Zenon, <1>1, <1>5 DEF Starts, SkipInv
  <2>2. NoneOf(pr.st.skipped)'
    <3>1. UNCHANGED <<pr, runs>>
      BY Zenon, <1>5 DEF Starts
    <3> QED  BY Zenon, <2>1, <3>1 DEF NoneOf, existing
  <2>3. NoneOf(rec.st.skipped)'
    <3>1. UNCHANGED pr
      BY Zenon, <1>5 DEF Starts
    <3> QED  BY Zenon, <2>1, <2>2, <3>1 DEF NoneOf
  <2> QED  BY Zenon, <2>1, <2>3 DEF SkipInv
<1>6. CASE Stops
  <2>1. rec.pc = "write" /\ pr'.st = rec.st /\ rec'.pc = "idle"
    BY Zenon, <1>1, <1>4, <1>6 DEF Stops, SInv, StatusInv
  <2>2. NoneOf(rec.st.skipped)
    BY Zenon, <2>1 DEF SkipInv
  <2>3. NoneOf(pr.st.skipped)'
    <3>1. \A t \in rec.st.skipped : existing(t)' = {}
      BY Zenon, <1>6, <2>2 DEF Stops, NoneOf, existing
    <3> QED  BY Zenon, <2>1, <3>1 DEF NoneOf
  <2> QED  BY Zenon, <2>1, <2>3 DEF SkipInv, PatchesEarly
<1>7. CASE rec' = rec /\ GoesOn
  <2>1. exists(runs') = exists(runs) /\ pr'.st = pr.st
    BY Zenon, <1>7 DEF GoesOn
  <2>2. \A t \in Tasks : existing(t) = {} => existing(t)' = {}
    <3>1. \A t \in Tasks : \A r \in RunsOf(t) : r \in Run
      BY Zenon, RunsOfType
    <3> QED  BY Zenon, <2>1, <3>1 DEF existing, exists
  <2> QED  BY Zenon, <1>2, <1>7, <2>1, <2>2 DEF SkipInv, NoneOf, PatchesEarly
<1>8. CASE Move
  <2>1. rec.pc \notin {"idle", "write"} /\ rec'.pc # "idle"
    BY Zenon, <1>8 DEF Move, PatchesOne, PatchesMore, PatchedAll, Schedules, Creates, CreatedAll,
                       Concludes
  <2>2. CASE Concludes
    <3>1. /\ rec.pc = "conclude" /\ rec'.pc = "write" /\ UNCHANGED runs
          /\ rec'.st.skipped = GetSkippedTasks(Facts(rec), Skips(Facts(rec)))
      BY Zenon, <2>2 DEF Concludes
    <3>2. \A t \in rec'.st.skipped : existing(t) = {}
      BY ZenonT(60), <1>1, <3>1, ReportedHasNone
    <3>3. NoneOf(rec.st.skipped)'
      BY ZenonT(60), <3>1, <3>2 DEF NoneOf, existing
    <3> QED  BY Zenon, <3>1, <3>3 DEF SkipInv
  <2>3. CASE ~Concludes /\ (rec'.pc \in {"plan", "write"} \/ PatchesEarly')
    <3>1. rec'.st.skipped = rec.st.skipped
      BY ZenonT(60), <1>8, <2>3 DEF Move, Alike, PatchesOne, PatchesMore, PatchedAll, Schedules,
                               Creates,
                         CreatedAll
    <3>2. rec.pc \in {"plan", "write"} \/ PatchesEarly
      <4>1. rec.pc = "create" => \A r \in rec.todo : runs[r] = Absent
        BY ZenonT(60), <1>1, NothingTaken
      <4>2. ~Creates \/ rec'.pc = "create"
        BY ZenonT(60), <1>1, <4>1 DEF Creates
      <4>3. PatchedAll /\ rec'.pc = "write" => PatchesEarly
        BY Zenon DEF PatchedAll, OrphansInv, PatchesEarly
      <4>4. PatchesOne \/ PatchesMore => (PatchesEarly' => PatchesEarly) /\ (rec'.pc = "plan" => PatchesEarly)
        BY Zenon DEF PatchesOne, PatchesMore, PatchesEarly
      <4>5. PatchesOne \/ PatchesMore => rec'.pc # "write"
        BY Zenon DEF PatchesOne, PatchesMore
      <4>6. Schedules => rec.pc = "plan"
        BY Zenon DEF Schedules
      <4>7. CreatedAll => rec'.pc # "write" /\ rec'.pc # "plan" /\ ~PatchesEarly'
        BY Zenon DEF CreatedAll, PatchesEarly
      <4>8. PatchedAll => rec'.pc # "plan" /\ ~PatchesEarly'
        BY Zenon DEF PatchedAll, PatchesEarly
      <4>9. Creates => rec'.pc # "plan" /\ ~PatchesEarly'
        BY Zenon DEF Creates, PatchesEarly
      <4> QED  BY Zenon, <1>8, <2>3, <4>2, <4>3, <4>4, <4>5, <4>6, <4>7, <4>8, <4>9 DEF Move
    <3>3. NoneOf(rec.st.skipped) /\ rec.pc # "create"
      BY Zenon, <3>2 DEF SkipInv, PatchesEarly
    <3>4. \A t \in rec.st.skipped : existing(t)' = {}
      <4>1. \A t \in rec.st.skipped : \A r \in RunsOf(t) : r \in Run
        BY Zenon, <1>2, RunsOfType
      <4> QED  BY Zenon, <1>3, <3>3, <4>1 DEF NoneOf, existing, exists
    <3> QED  BY ZenonT(60), <2>1, <3>1, <3>4 DEF SkipInv, NoneOf
  <2> QED  BY Zenon, <2>1, <2>2, <2>3 DEF SkipInv
<1>9. CASE rec.pc \notin {"idle", "write"}
  BY Zenon, <1>1, <1>7, <1>8, <1>9, WorkMoves
<1>10. CASE rec.pc \in {"idle", "write"}
  BY Zenon, <1>1, <1>5, <1>6, <1>7, <1>10, StepKinds DEF Works, GoesOn
<1> QED  BY ZenonT(60), <1>9, <1>10

(***************************************************************************)
(* Without faults, a task that a PipelineRun reports as skipped has no run *)
(* (GetSkippedTasks, and the reconciles that end without asking it).       *)
(***************************************************************************)
THEOREM SkippedIsNotRun == NoFaults => (Spec => []SkippedNeverRun)
<1> SUFFICES ASSUME NoFaults PROVE Spec => []SkippedNeverRun
  OBVIOUS
<1>1. Init => SkipInv
  <2> SUFFICES ASSUME Init PROVE SkipInv
    BY Zenon
  <2>1. rec.pc = "idle" /\ pr.st = NewStatus
    BY NoReconcileSeesNothing DEF Init
  <2>2. NewStatus.skipped = {}
    BY Zenon DEF NewStatus
  <2> QED  BY ZenonT(60), <2>1, <2>2 DEF SkipInv, PatchesEarly, NoneOf
<1>2. /\ SInv /\ AbsentInv /\ (NoFaults => FanInv) /\ (NoFaults => OrphansInv)
      /\ SkipInv /\ [Next]_vars
      => SkipInv'
  BY Zenon, NextSkipInv
<1>3. SInv /\ SkipInv => SkippedNeverRun
  BY Zenon DEF SkipInv, NoneOf, SkippedNeverRun, SInv, StatusInv, NoFaults
<1> QED  BY <1>1, <1>2, <1>3, FanInvHolds, OrphansInvHolds, PTL DEF Spec

-----------------------------------------------------------------------------
(***************************************************************************)
(* Pending PipelineRuns.                                                   *)
(*                                                                         *)
(* Nobody makes a PipelineRun pending that is not so from the beginning    *)
(* (validation refuses it once the run has started).  Then a PipelineRun   *)
(* that is pending, or that the reconciler takes to be, has not started.   *)
(***************************************************************************)
NeverMadePending == \A u \in UserSteps : u[2] # "Pending"

PendingInv ==
  /\ pr.spec = "Pending" => prCache.spec = "Pending" /\ ~pr.st.started
  /\ prCache.spec = "Pending" => ~prCache.st.started
  /\ rec.pc # "idle" => /\ pr.spec = "Pending" => rec.spec = "Pending"
                        /\ rec.spec = "Pending" => ~rec.st.started

LEMMA NextPendingInv ==
  ASSUME NeverMadePending, SInv, PendingInv, [Next]_vars
  PROVE  PendingInv'
<1>1. TypeOK /\ NoReconcile.pc = "idle"
  BY Zenon, NoReconcileSeesNothing DEF SInv, IInv
<1>2. CASE Starts
  <2>1. UNCHANGED <<pr, prCache>> /\ rec'.spec = prCache.spec /\ rec.pc = "idle" /\ rec'.pc # "idle"
    BY Zenon, <1>2 DEF Starts
  <2>2. Begin
    BY Zenon, <1>1, <2>1, BeginsFromIdle
  <2>3. prCache.spec = "Pending" => rec'.st.started = prCache.st.started
    BY Zenon, <1>1, <2>1, <2>2, BeginsLate
  <2> QED  BY ZenonT(60), <2>1, <2>3 DEF PendingInv
<1>3. CASE Works
  BY Zenon, <1>3 DEF Works, PendingInv
<1>4. CASE Stops
  <2>1. rec'.pc = "idle" /\ pr'.spec = pr.spec /\ prCache' \in {prCache, pr}
    BY Zenon, <1>1, <1>4 DEF Stops
  <2>2. pr'.st = pr.st \/ (rec.pc = "write" /\ pr'.st = rec.st)
    BY Zenon, <1>4 DEF Stops
  <2>3. pr'.spec = "Pending" => ~pr'.st.started
    BY Zenon, <2>1, <2>2 DEF PendingInv
  <2>4. pr'.spec = "Pending" => prCache'.spec = "Pending"
    BY Zenon, <2>1 DEF PendingInv
  <2>5. prCache'.spec = "Pending" => ~prCache'.st.started
    BY Zenon, <2>1 DEF PendingInv
  <2> QED  BY Zenon, <2>1, <2>3, <2>4, <2>5 DEF PendingInv
<1>5. CASE GoesOn
  <2>1. pr'.spec = "Pending" => pr.spec = "Pending"
    BY Zenon, <1>5 DEF GoesOn, NeverMadePending
  <2>2. rec' = rec /\ pr'.st = pr.st /\ prCache' \in {prCache, pr}
    BY Zenon, <1>5 DEF GoesOn
  <2> QED  BY Zenon, <2>1, <2>2 DEF PendingInv
<1> QED  BY Zenon, <1>1, <1>2, <1>3, <1>4, <1>5, StepKinds

LEMMA PendingInvHolds == Spec => [](NeverMadePending => PendingInv)
<1>1. Init => PendingInv
  <2> SUFFICES ASSUME Init PROVE PendingInv
    BY Zenon
  <2>1. rec.pc = "idle" /\ pr.st = NewStatus /\ prCache = pr
    BY NoReconcileSeesNothing DEF Init
  <2>2. ~NewStatus.started
    BY Zenon DEF NewStatus
  <2> QED  BY Zenon, <2>1, <2>2 DEF PendingInv
<1>2. SInv /\ (NeverMadePending => PendingInv) /\ [Next]_vars => (NeverMadePending => PendingInv)'
  BY ZenonT(60), NextPendingInv DEF NeverMadePending
<1>3. Init => (NeverMadePending => PendingInv)
  BY Zenon, <1>1
<1> QED  BY <1>2, <1>3, SInvHolds, PTL DEF Spec

-----------------------------------------------------------------------------
(***************************************************************************)
(* The pipeline timeout.                                                   *)
(*                                                                         *)
(* A reconcile that began late creates nothing.  It asks every child run   *)
(* to stop before it ends the PipelineRun, unless it gives up on it: the   *)
(* pipeline is not valid, or GetCandidateTasks rejects what is done.       *)
(***************************************************************************)
GivenUp == rec.out = "permanent" /\ rec.st.reason # "TimedOut"

LateInv ==
  rec.late /\ rec.pc # "idle" =>
    /\ rec.orig.started /\ "pipeline" \in elapsed
    /\ rec.pc = "create" =>
         /\ exists(runs) \subseteq rec.st.childRefs
         /\ \A r \in rec.todo : r[1] \in FinalTasks /\ ~isScheduled(Facts(rec), r[1])
    /\ rec.pc = "patch" /\ rec.why \in {"cancel", "long", "pipeline"} =>
         \A r \in Run : runs[r].st = "Running" /\ runs[r].req = "" => r \in rec.todo
    /\ rec.pc = "conclude" => allToldToStop
    /\ rec.pc = "write" => GivenUp \/ (IsDone(rec.st) /\ allToldToStop)

\* Such a reconcile finds nothing to create but final tasks that it skips.
LEMMA LateSkips ==
  ASSUME TypeOK, LateInv, rec.late, rec.pc = "create", NEW r \in rec.todo
  PROVE  skippedNow(r[1])
<1>1. Facts(rec).el = deadlinesPassed(rec)
  BY Zenon DEF Facts
<1>2. "pipeline" \in deadlinesPassed(rec)
  BY DEF LateInv, deadlinesPassed
<1>3. r[1] \in FinalTasks /\ ~isScheduled(Facts(rec), r[1])
  BY Zenon DEF LateInv
<1>4. "pipeline" \in Facts(rec).el
  BY ZenonT(60), <1>1, <1>2
<1> HIDE DEF Facts
<1> QED  BY Zenon, <1>3, <1>4 DEF skippedNow, finallySkip

LEMMA LateSchedules ==
  ASSUME SInv, OrphansInv, LateInv, rec.late, Move, Schedules
  PROVE  /\ rec'.pc = "write" => rec'.out = "permanent" /\ rec'.st.reason # "TimedOut"
         /\ rec'.pc = "create" =>
              /\ exists(runs') \subseteq rec'.st.childRefs
              /\ \A r \in rec'.todo : r[1] \in FinalTasks /\ ~isScheduled(Facts(rec)', r[1])
<1> DEFINE f == Facts(rec)
           s == Skips(f)
           vf == {t \in DAGExecutionQueue(f, s) : missingResults(f, t)}
           fresh == Skips([f EXCEPT !.vf = vf])
<1>1. TypeOK /\ rec \in ReconcileType
  BY Zenon DEF SInv, IInv, TypeOK
<1>2. /\ rec.pc = "plan" /\ UNCHANGED runs
      /\ \/ /\ rec'.pc = "write" /\ rec'.st = rec.st /\ rec'.out = "permanent"
         \/ rec'.pc = "create" /\ rec' = schedule(rec, f, s, vf, fresh)
  BY Zenon DEF Schedules
<1>3. rec.st.reason # "TimedOut"
  BY Zenon, <1>2 DEF SInv, StatusInv, IsDone, FailedReason
<1>4. f.vf = {} /\ f.el = deadlinesPassed(rec) /\ f.view = rec.view
  BY Zenon, <1>2 DEF SInv, IInv, ValidationInv, Facts
<1>5. "pipeline" \in deadlinesPassed(rec)
  BY <1>2 DEF LateInv, deadlinesPassed
<1>6. DAGExecutionQueue(f, s) = {}
  <2>1. dagDeadlines(f) # {}
    BY Zenon, <1>4, <1>5 DEF dagDeadlines
  <2> QED  BY Zenon, <1>4, <2>1, LateQueue
<1>7. exists(runs) \subseteq rec.st.childRefs
  BY Zenon, <1>2 DEF OrphansInv, SInv, RefsInv
<1> HIDE DEF f, s, vf, fresh
<1>8. ASSUME rec'.pc = "create"
      PROVE  /\ exists(runs') \subseteq rec'.st.childRefs
             /\ \A r \in rec'.todo : r[1] \in FinalTasks /\ ~isScheduled(Facts(rec)', r[1])
  <2>1. rec' = schedule(rec, f, s, vf, fresh)
    BY ZenonT(60), <1>2, <1>8
  <2>2. rec'.view = rec.view /\ rec'.st.childRefs = rec.st.childRefs
    BY <1>1, <2>1, ScheduleSets
  <2>3. \A r \in rec'.todo : r[1] \in FinalTasks /\ ~isScheduled(f, r[1])
    BY <1>1, <1>6, <2>1, ScheduleSets
  <2>4. Facts(rec)'.view = f.view
    BY ZenonT(60), <1>4, <2>2 DEF Facts
  <2>5. \A t : isScheduled(Facts(rec)', t) = isScheduled(f, t)
    BY Zenon, <2>4 DEF isScheduled, runsSeen
  <2> QED  BY Zenon, <1>2, <1>7, <2>2, <2>3, <2>5 DEF exists
<1> QED  BY ZenonT(60), <1>2, <1>3, <1>8

\* A patch asks one more run to stop.
LEMMA LatePatches ==
  ASSUME TypeOK, PatchesOne, ~(faults < MaxFaults), exists(runs') = exists(runs), [Next]_vars,
         \A r \in Run : runs[r].st = "Running" /\ runs[r].req = "" => r \in rec.todo
  PROVE  \A r \in Run : runs'[r].st = "Running" /\ runs'[r].req = "" => r \in rec'.todo
<1>1. PICK q \in rec.todo :
        /\ rec'.todo = rec.todo \ {q}
        /\ runs' = IF runs[q].st = "Running" \/ q[1] \in CustomTasks
                     THEN [runs EXCEPT ![q].req = requested(rec.why)] ELSE runs
  BY Zenon DEF PatchesOne
<1>2. SUFFICES ASSUME NEW r \in Run, runs'[r].st = "Running", runs'[r].req = ""
               PROVE  r \in rec'.todo
  BY Zenon
<1>3. runs[r].st = "Running" /\ runs[r].req = ""
  BY Zenon, <1>2, RunsGoOn DEF exists
<1>4. r # q
  <2>1. requested(rec.why) # "" /\ runs \in [Run -> RunRecord]
    BY Zenon DEF requested, TypeOK
  <2>2. \A x \in RunRecord : [x EXCEPT !.req = requested(rec.why)].req = requested(rec.why)
    BY Zenon DEF RunRecord
  <2>3. r = q => runs'[r] = [runs[r] EXCEPT !.req = requested(rec.why)]
    BY ZenonT(60), <1>1, <1>3, <2>1
  <2> QED  BY Zenon, <1>2, <2>1, <2>2, <2>3
<1> QED  BY Zenon, <1>1, <1>3, <1>4

\* Every step keeps what is said of late reconciles.
LEMMA NextLateInv ==
  ASSUME NoFaults, NeverMadePending, SInv, AbsentInv, FanInv, OrphansInv, PendingInv, LateInv,
         [Next]_vars
  PROVE  LateInv'
<1> SUFFICES ASSUME rec'.late, rec'.pc # "idle" PROVE LateInv'
  BY Zenon DEF LateInv
<1>1. TypeOK /\ rec \in ReconcileType /\ ReadsOwnWrites /\ ~(faults < MaxFaults)
  BY DEF SInv, IInv, TypeOK, NoFaults
<1>2. rec.pc # "create" => exists(runs') = exists(runs)
  BY Zenon, NoneCreated
<1>3. NoReconcile.pc = "idle"
  BY Zenon, NoReconcileSeesNothing
<1>4. CASE rec.pc = "idle"
  <2>1. Begin /\ Starts
    BY Zenon, <1>1, <1>4, BeginsFromIdle
  <2>2. /\ UNCHANGED <<pr, prCache, runs, elapsed>> /\ rec'.orig = prCache.st
        /\ prCache.st = pr.st /\ rec'.pc \notin {"create", "conclude"}
    BY ZenonT(60), <1>1, <2>1 DEF Starts
  <2>3. prCache.st.started /\ "pipeline" \in elapsed
    BY Zenon, <1>1, <2>1, BeginsLate
  <2>4. prCache.spec # "Pending"
    BY Zenon, <2>3 DEF PendingInv
  <2>5. rec'.pc = "write" => rec'.out = "permanent" /\ rec'.st.reason # "TimedOut"
    BY Zenon, <1>1, <2>1, <2>4, BeginsLate
  <2>6. rec'.pc = "patch" /\ rec'.why \in {"cancel", "long", "pipeline"} => rec'.todo = pr.st.childRefs
    BY ZenonT(60), <1>1, <2>1, <2>2, BeginsLate
  <2>7. \A r \in Run : runs[r].st = "Running" => r \in pr.st.childRefs
    BY Zenon, <1>4 DEF OrphansInv, exists
  <2> QED  BY Zenon, <2>2, <2>3, <2>5, <2>6, <2>7 DEF LateInv, GivenUp
<1>5. CASE rec.pc # "idle" /\ rec' = rec
  <2>1. elapsed \subseteq elapsed'
    BY ZenonT(60), <1>1, StepKinds DEF Starts, Works, Stops, GoesOn
  <2>2. ASSUME rec.pc = "create" PROVE exists(runs') = exists(runs)
    <3>1. Move => ~Concludes /\ ~Schedules /\ ~PatchesOne /\ ~PatchesMore /\ ~PatchedAll
      BY Zenon, <2>2 DEF Concludes, Schedules, PatchesOne, PatchesMore, PatchedAll
    <3>2. Creates => UNCHANGED runs
      BY ZenonT(60), <1>1, <1>5, LateSkips, <2>2 DEF Creates
    <3>3. CreatedAll => UNCHANGED runs
      BY Zenon DEF CreatedAll
    <3>4. GoesOn \/ UNCHANGED runs
      BY ZenonT(60), <1>1, <1>3, <1>5, <2>2, <3>1, <3>2, <3>3, WorkMoves DEF Move
    <3> QED  BY Zenon, <3>4 DEF GoesOn, exists
  <2>3. exists(runs') = exists(runs)
    BY Zenon, <1>2, <2>2
  <2>4. allToldToStop => allToldToStop'
    BY ZenonT(60), <1>1, <2>3, ToldToStopStays
  <2>5. \A r \in Run : runs'[r].st = "Running" /\ runs'[r].req = ""
                         => runs[r].st = "Running" /\ runs[r].req = ""
    BY Zenon, <1>1, <2>3, RunsGoOn DEF exists
  <2>6. \A t : isScheduled(Facts(rec)', t) = isScheduled(Facts(rec), t)
    <3>1. Facts(rec)'.view = Facts(rec).view
      BY Zenon, <1>5 DEF Facts
    <3> QED  BY Zenon, <3>1 DEF isScheduled, runsSeen
  <2> QED  BY ZenonT(60), <1>5, <2>1, <2>3, <2>4, <2>5, <2>6 DEF LateInv, GivenUp
<1>6. CASE rec.pc # "idle" /\ rec' # rec
  <2>1. rec.pc # "write"
    BY ZenonT(60), <1>6, WrittenStatus
  <2>2. Move
    BY Zenon, <1>1, <1>3, <1>6, <2>1, WorkMoves
  <2>3. /\ rec.late /\ rec'.orig = rec.orig /\ UNCHANGED elapsed
        /\ rec.orig.started /\ "pipeline" \in elapsed
    BY Zenon, <1>6, <2>2 DEF Move, Keeps, LateInv
  <2>4. CASE PatchesOne
    <3>1. rec.pc = "patch" /\ rec'.pc = "patch" /\ rec'.why = rec.why
      BY Zenon, <2>4 DEF PatchesOne
    <3>2. exists(runs') = exists(runs)
      BY ZenonT(60), <1>2, <3>1
    <3>3. rec'.why \in {"cancel", "long", "pipeline"} =>
            \A r \in Run : runs'[r].st = "Running" /\ runs'[r].req = "" => r \in rec'.todo
      BY ZenonT(60), <1>1, <2>3, <2>4, <3>1, <3>2, LatePatches DEF LateInv
    <3> QED  BY ZenonT(60), <2>3, <3>1, <3>3 DEF LateInv
  <2>5. CASE PatchesMore
    BY Zenon, <2>3, <2>5 DEF PatchesMore, LateInv
  <2>6. CASE PatchedAll
    <3>1. /\ UNCHANGED runs /\ rec.pc = "patch" /\ rec.todo = {}
          /\ \/ rec'.pc = "write" /\ rec.why \in {"cancel", "long"} /\ IsDone(rec'.st)
             \/ rec'.pc = "conclude" /\ rec.why = "pipeline"
      BY Zenon, <2>6 DEF PatchedAll, OrphansInv
    <3>2. allToldToStop
      BY Zenon, <2>3, <3>1 DEF LateInv, allToldToStop
    <3>3. allToldToStop'
      BY ZenonT(60), <3>1, <3>2 DEF allToldToStop
    <3> QED  BY ZenonT(60), <2>3, <3>1, <3>3 DEF LateInv
  <2>7. CASE Schedules
    <3>1. rec'.pc \in {"write", "create"}
      BY Zenon, <2>7 DEF Schedules
    <3> QED  BY ZenonT(60), <2>2, <2>3, <2>7, <3>1, LateSchedules DEF LateInv, GivenUp
  <2>8. CASE Creates
    <3>1. /\ rec.pc = "create" /\ rec'.pc = "create" /\ UNCHANGED runs /\ rec'.st = rec.st
          /\ rec'.todo \subseteq rec.todo /\ rec'.view = rec.view
      BY ZenonT(60), <1>1, <2>3, <2>8, LateSkips DEF Creates, Alike
    <3>2. \A t : isScheduled(Facts(rec)', t) = isScheduled(Facts(rec), t)
      <4>1. Facts(rec)'.view = Facts(rec).view
        BY Zenon, <3>1 DEF Facts
      <4> QED  BY Zenon, <4>1 DEF isScheduled, runsSeen
    <3> QED  BY Zenon, <2>3, <3>1, <3>2 DEF LateInv, exists
  <2>9. CASE CreatedAll
    <3>1. HasTimedOut(rec)
      BY <2>3 DEF HasTimedOut, deadlinesPassed
    <3>2. /\ rec.pc = "create" /\ UNCHANGED runs
          /\ rec'.pc = "patch" /\ rec'.why = "pipeline" /\ rec'.todo = rec.st.childRefs
      BY ZenonT(60), <2>9, <3>1 DEF CreatedAll
    <3>3. \A r \in Run : runs'[r].st = "Running" => r \in rec'.todo
      BY Zenon, <2>3, <3>2 DEF LateInv, exists
    <3> QED  BY ZenonT(60), <2>3, <3>2, <3>3 DEF LateInv
  <2>10. CASE Concludes
    <3>1. /\ rec.pc = "conclude" /\ rec'.pc = "write" /\ UNCHANGED runs
          /\ \/ rec'.st.reason = GetPipelineConditionStatus(Facts(rec), Skips(Facts(rec)))
             \/ rec'.st.reason = "CouldntGetPipelineResult"
      BY Zenon, <2>10 DEF Concludes
    <3>2. "pipeline" \in Facts(rec).el
      <4>1. Facts(rec).el = deadlinesPassed(rec)
        BY Zenon DEF Facts
      <4>2. "pipeline" \in deadlinesPassed(rec)
        BY <2>3 DEF deadlinesPassed
      <4> QED  BY Zenon, <4>1, <4>2
    <3>3. \A f, s : "pipeline" \in f.el => GetPipelineConditionStatus(f, s) = "TimedOut"
      BY Zenon DEF GetPipelineConditionStatus
    <3>4. IsDone(rec'.st)
      BY Zenon, <3>1, <3>2, <3>3 DEF IsDone, FailedReason
    <3>5. allToldToStop'
      BY ZenonT(60), <2>3, <3>1 DEF LateInv, allToldToStop
    <3> QED  BY Zenon, <2>3, <3>1, <3>4, <3>5 DEF LateInv
  <2> QED  BY ZenonT(60), <2>2, <2>4, <2>5, <2>6, <2>7, <2>8, <2>9, <2>10 DEF Move
<1> QED  BY ZenonT(60), <1>4, <1>5, <1>6

(***************************************************************************)
(* Without faults, and if nobody makes a PipelineRun pending, a reconcile  *)
(* that began after the pipeline timeout either gives up on the            *)
(* PipelineRun or enforces the timeout: it ends the PipelineRun, and every *)
(* child run has ended or been asked to stop (timeoutPipelineRun and the   *)
(* order of the steps in reconcile).                                       *)
(***************************************************************************)
THEOREM TimeoutIsEnforced ==
  NoFaults /\ NeverMadePending => (Spec => [](~GivenUp => TimeoutEnforced))
<1> SUFFICES ASSUME NoFaults, NeverMadePending
             PROVE  Spec => [](~GivenUp => TimeoutEnforced)
  OBVIOUS
<1>1. Init => LateInv
  BY Zenon, NoReconcileSeesNothing DEF Init, LateInv
<1>2. /\ SInv /\ AbsentInv /\ (NoFaults => FanInv) /\ (NoFaults => OrphansInv)
      /\ (NeverMadePending => PendingInv) /\ LateInv /\ [Next]_vars
      => LateInv'
  BY Zenon, NextLateInv
<1>3. LateInv => (~GivenUp => TimeoutEnforced)
  BY Zenon DEF LateInv, TimeoutEnforced
<1> QED  BY <1>1, <1>2, <1>3, FanInvHolds, OrphansInvHolds, PendingInvHolds, PTL DEF Spec
=============================================================================
