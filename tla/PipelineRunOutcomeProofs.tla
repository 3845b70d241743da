---------------------- MODULE PipelineRunOutcomeProofs ----------------------
(***************************************************************************)
(* What the steps of a reconcile do, what the end of a PipelineRun says of *)
(* its tasks, and when the tasks of finally run: proofs about PipelineRun, *)
(* for every pipeline.                                                     *)
(***************************************************************************)
EXTENDS PipelineRunProofs

-----------------------------------------------------------------------------
(***************************************************************************)
(* What a reconcile sees.                                                  *)
(*                                                                         *)
(* Apart from looking for what to run next and from creating a run, no     *)
(* step of a reconcile changes what it sees or adds to what it creates.    *)
(***************************************************************************)
SeesTheSame ==
  /\ rec'.view = rec.view /\ rec'.vf = rec.vf
  /\ rec'.pc = "create" => rec.pc = "create" /\ rec'.todo \subseteq rec.todo

LEMMA WorkSees ==
  ASSUME TypeOK, [Next]_vars, rec.pc # "idle", rec'.pc # "idle"
  PROVE  RunNextSchedulableTask \/ CreateRun \/ SeesTheSame
<1>1. rec \in ReconcileType /\ rec.st \in Status
  BY Zenon DEF TypeOK, ReconcileType
<1>2. ASSUME NEW R \in ReconcileType, R.view = rec.view, R.vf = rec.vf, NEW out, NEW st,
             rec' = end(R, out, st)
      PROVE  SeesTheSame
  BY <1>2, EndSets DEF SeesTheSame
<1>3. LET R == [rec EXCEPT !.clean = FALSE]
      IN  R \in ReconcileType /\ R.view = rec.view /\ R.vf = rec.vf
  BY Zenon, <1>1 DEF ReconcileType
<1>4. ASSUME NEW why, NEW todo, rec' = patch(rec, why, todo) PROVE SeesTheSame
  BY <1>1, <1>4, PatchSets DEF SeesTheSame
<1>5. CASE Patching
  <2>1. CASE PatchRun \/ PatchRunFails
    BY Zenon, <1>1, <2>1 DEF PatchRun, PatchRunFails, ReconcileType, SeesTheSame
  <2>2. CASE CancelDone \/ LongTimeoutDone
    BY ZenonT(60), <1>1, <1>2, <2>2 DEF CancelDone, LongTimeoutDone
  <2>3. CASE GracefulCancelDone
    <3>1. CASE rec' = applyTaskTimeouts(rec)
      <4>1. rec'.pc \in {"plan", "patch"} /\ rec'.view = rec.view /\ rec'.vf = rec.vf
        BY ZenonT(60), <1>1, <3>1, ApplyTaskTimeoutsSets
      <4> QED  BY ZenonT(60), <4>1 DEF SeesTheSame
    <3> QED  BY ZenonT(60), <1>1, <1>2, <2>3, <3>1 DEF GracefulCancelDone
  <2>4. CASE TaskTimeoutsDone
    <3>1. CASE rec' = [rec EXCEPT !.pc = "plan"]
      BY Zenon, <1>1, <3>1 DEF ReconcileType, SeesTheSame
    <3> QED  BY ZenonT(60), <1>1, <1>2, <2>4, <3>1 DEF TaskTimeoutsDone
  <2>5. CASE PipelineTimeoutDone
    <3>1. CASE rec' = [rec EXCEPT !.pc = "conclude", !.st.reason = "TimedOut"]
      BY Zenon, <1>1, <3>1 DEF ReconcileType, SeesTheSame
    <3> QED  BY ZenonT(60), <1>1, <1>2, <2>5, <3>1 DEF PipelineTimeoutDone
  <2> QED  BY ZenonT(60), <1>5, <2>1, <2>2, <2>3, <2>4, <2>5 DEF Patching
<1>6. CASE Scheduling
  <2>1. CASE CreateRunFails
    <3> DEFINE R == [rec EXCEPT !.clean = FALSE]
    <3>1. PICK out, st : rec' = end(R, out, st)
      BY <2>1 DEF CreateRunFails
    <3> QED  BY Zenon, <1>2, <1>3, <3>1
  <2>2. CASE SkipFinalTask
    <3>1. PICK T : rec' = [rec EXCEPT !.todo = @ \ T] /\ rec.pc = "create"
      BY Zenon, <2>2 DEF SkipFinalTask, creating
    <3> QED  BY Zenon, <1>1, <3>1 DEF ReconcileType, SeesTheSame
  <2>3. CASE ScheduleDone
    <3>1. CASE rec' = [rec EXCEPT !.pc = "conclude"]
      BY Zenon, <1>1, <3>1 DEF ReconcileType, SeesTheSame
    <3> QED  BY ZenonT(60), <1>4, <2>3, <3>1 DEF ScheduleDone
  <2> QED  BY ZenonT(60), <1>6, <2>1, <2>2, <2>3 DEF Scheduling
<1>7. CASE Finishing
  <2>1. CASE Conclude \/ ConcludeWithoutResult
    BY ZenonT(60), <1>1, <1>2, <2>1 DEF Conclude, ConcludeWithoutResult
  <2>2. UpdateStatus \/ UpdateStatusFails => rec'.pc = "idle"
    BY Zenon, NoReconcileSeesNothing DEF UpdateStatus, UpdateStatusFails
  <2> QED  BY ZenonT(60), <1>7, <2>1, <2>2 DEF Finishing
<1>8. ~Begin
  BY Zenon DEF Begin, ReconcileDone, ReconcileLongTimeout, ReconcileCancelled, ReconcilePending,
         Reconcile, ReconcileInvalid, ReconcileRetry, ReconcileResolving, reconciles, Dequeue
<1>9. rec' = rec => SeesTheSame
  BY DEF SeesTheSame
<1>10. Environment \/ UNCHANGED vars => rec' = rec
  <2>1. Crash => rec'.pc = "idle"
    BY ZenonT(60), NoReconcileSeesNothing DEF Crash
  <2> QED  BY Zenon, <2>1 DEF Environment, SetSpecStatus, InformPipelineRun, InformTaskRuns,
              InformCustomRuns, InformRuns, RunEnds, DeadlinePasses, Rest, vars
<1> QED  BY ZenonT(60), <1>5, <1>6, <1>7, <1>8, <1>9, <1>10 DEF Next, Reconciler

\* The test for running the tasks of finally, once missing results are known.
dagDone(f, s, vf, fresh) == checkDAGTasksDone([f EXCEPT !.vf = vf], s, skipCache(f, s), fresh)

\* What schedule leaves alone, and whose runs it queues.
LEMMA ScheduleSets ==
  ASSUME NEW R \in ReconcileType, NEW f, NEW s, NEW vf, NEW fresh
  PROVE  LET S == schedule(R, f, s, vf, fresh)
         IN  /\ S.pc = "create" /\ S.view = R.view /\ S.vf = vf /\ S.orig = R.orig
             /\ S.spec = R.spec /\ S.st.childRefs = R.st.childRefs
             /\ \A r \in S.todo :
                  /\ GetNamesOfTaskRuns(R.st, r[1]) \subseteq S.todo
                  /\ r \in GetNamesOfTaskRuns(R.st, r[1])
                  /\ \/ r[1] \in DAGExecutionQueue(f, s) /\ vf = {}
                     \/ /\ r[1] \in FinalTasks /\ ~isScheduled(f, r[1])
                        /\ dagDone(f, s, vf, fresh)
<1> DEFINE g == [f EXCEPT !.vf = vf]
           dd == checkDAGTasksDone(g, s, skipCache(f, s), fresh)
           GetFinalTasks == {t \in FinalTasks : dd /\ ~isScheduled(f, t)}
           fNext == {t \in GetFinalTasks : unresolved(f, t) = {}}
           IsFinalTaskStarted == dd /\ \E t \in FinalTasks : isScheduled(f, t)
           next == (IF vf = {} THEN DAGExecutionQueue(f, s) ELSE {}) \cup fNext
           todo == UNION {GetNamesOfTaskRuns(R.st, t) : t \in next}
           fin == R.st.fin \/ IsFinalTaskStarted \/ fNext # {}
<1>1. schedule(R, f, s, vf, fresh) =
        [R EXCEPT !.pc = "create", !.vf = vf, !.st.fin = fin, !.todo = todo]
  BY DEF schedule
<1>2. \A t \in next : \/ t \in DAGExecutionQueue(f, s) /\ vf = {}
                      \/ t \in FinalTasks /\ ~isScheduled(f, t) /\ dagDone(f, s, vf, fresh)
  BY DEF dagDone
<1>3. \A t : \A r \in GetNamesOfTaskRuns(R.st, t) : r[1] = t
  BY DEF GetNamesOfTaskRuns, runsOfTasks, RunsOf
<1> HIDE DEF fin, next
<1>4. \A r \in todo : /\ r[1] \in next /\ r \in GetNamesOfTaskRuns(R.st, r[1])
                      /\ GetNamesOfTaskRuns(R.st, r[1]) \subseteq todo
  BY <1>3
<1> HIDE DEF todo
<1>5. R.st \in Status
  BY Zenon DEF ReconcileType
<1>6. LET S == schedule(R, f, s, vf, fresh)
      IN  /\ S.pc = "create" /\ S.view = R.view /\ S.vf = vf /\ S.orig = R.orig
          /\ S.spec = R.spec /\ S.st = [R.st EXCEPT !.fin = fin] /\ S.todo = todo
  BY Zenon, <1>1 DEF ReconcileType
<1>7. [R.st EXCEPT !.fin = fin].childRefs = R.st.childRefs
  BY ZenonT(60), <1>5 DEF Status
<1> QED  BY ZenonT(60), <1>2, <1>4, <1>6, <1>7

\* runNextSchedulableTask gives up on an inconsistent graph, or schedules.
LEMMA NextSchedules ==
  ASSUME TypeOK, RunNextSchedulableTask
  PROVE  LET f == Facts(rec)
             s == Skips(f)
             vf == {t \in DAGExecutionQueue(f, s) : missingResults(f, t)}
             fresh == Skips([f EXCEPT !.vf = vf])
         IN  /\ rec.pc = "plan" /\ AreSkips(f, s)
             /\ UNCHANGED <<pr, prCache, runs, lister, elapsed>>
             /\ \/ /\ rec'.pc = "write" /\ rec'.st = rec.st
                   /\ rec'.view = rec.view /\ rec'.vf = rec.vf
                \/ rec' = schedule(rec, f, s, vf, fresh)
<1> DEFINE f == Facts(rec)
           s == Skips(f)
           vf == {t \in DAGExecutionQueue(f, s) : missingResults(f, t)}
           fresh == Skips([f EXCEPT !.vf = vf])
<1>1. /\ rec.pc = "plan" /\ AreSkips(f, s)
      /\ UNCHANGED <<pr, prCache, runs, lister, elapsed>>
      /\ rec' = end(rec, "permanent", rec.st) \/ rec' = schedule(rec, f, s, vf, fresh)
  BY ZenonT(60), SkipsSolve DEF RunNextSchedulableTask, env
<1>2. rec \in ReconcileType
  BY DEF TypeOK
<1> HIDE DEF f, s, vf, fresh
<1>3. CASE rec' = end(rec, "permanent", rec.st)
  BY <1>1, <1>2, <1>3, EndSets DEF f, s, vf, fresh
<1> QED  BY ZenonT(60), <1>1, <1>3 DEF f, s, vf, fresh

-----------------------------------------------------------------------------
(***************************************************************************)
(* The steps of a reconcile, one by one.  None of them changes the objects *)
(* it reads, or when and on what it began.                                 *)
(***************************************************************************)
Keeps ==
  /\ UNCHANGED <<pr, prCache, lister, elapsed, queued>>
  /\ rec'.orig = rec.orig /\ rec'.spec = rec.spec /\ rec'.late = rec.late

\* It sees the same, and reports the same tasks as skipped.
Alike ==
  rec'.view = rec.view /\ rec'.vf = rec.vf /\ rec'.st.skipped = rec.st.skipped

\* One run is patched, or the call fails.
PatchesOne ==
  /\ rec.pc = "patch" /\ rec'.pc = "patch" /\ rec'.why = rec.why /\ Alike
  /\ \E q \in rec.todo :
       /\ rec'.todo = rec.todo \ {q}
       /\ \/ faults < MaxFaults
          \/ runs' = IF runs[q].st = "Running" \/ q[1] \in CustomTasks
                       THEN [runs EXCEPT ![q].req = requested(rec.why)] ELSE runs

\* The runs of some tasks are patched, and it goes on.
PatchesMore ==
  /\ rec.pc = "patch" /\ rec.why \in {"graceful", "tasks"} /\ Alike /\ UNCHANGED runs
  /\ rec'.pc = "plan" \/ (rec'.pc = "patch" /\ rec'.why = "tasks")

\* All runs are patched, or some calls failed.
PatchedAll ==
  /\ rec.pc = "patch" /\ rec.todo = {} /\ Alike /\ UNCHANGED runs
  /\ \/ rec'.pc = "write" /\ rec.errs /\ rec'.out = "retry"
     \/ /\ rec'.pc = "write" /\ ~rec.errs /\ rec.why \in {"cancel", "long"} /\ IsDone(rec'.st)
     \/ rec'.pc = "conclude" /\ rec.why = "pipeline"

\* The graph is not accepted, or what to run next is found.
Schedules ==
  LET f == Facts(rec)
      s == Skips(f)
      vf == {t \in DAGExecutionQueue(f, s) : missingResults(f, t)}
      fresh == Skips([f EXCEPT !.vf = vf])
  IN  /\ rec.pc = "plan" /\ UNCHANGED runs /\ rec'.st.skipped = rec.st.skipped
      /\ \/ /\ rec'.pc = "write" /\ rec'.st = rec.st /\ rec'.out = "permanent"
            /\ DAGExecutionError(f, s)
         \/ rec'.pc = "create" /\ rec' = schedule(rec, f, s, vf, fresh)

\* A run is created, or that fails, or a final task is skipped.
Creates ==
  /\ rec.pc = "create" /\ rec'.st.skipped = rec.st.skipped
  /\ \E r \in rec.todo :
       \/ /\ rec'.pc = "create" /\ rec'.vf = rec.vf /\ ~skippedNow(r[1]) /\ r \in Run
          /\ rec'.todo = rec.todo \ {r}
          /\ runs[r] = Absent /\ runs' = [runs EXCEPT ![r] = Created]
       \/ /\ rec'.pc = "write" /\ UNCHANGED runs /\ Alike /\ ~skippedNow(r[1])
          /\ rec'.out = "retry" \/ IsDone(rec'.st)
          /\ runs[r] # Absent \/ faults < MaxFaults
       \/ /\ rec'.pc = "create" /\ UNCHANGED runs /\ Alike /\ skippedNow(r[1])
          /\ rec'.todo = rec.todo \ RunsOf(r[1])
          /\ rec'.st = rec.st

\* Everything is created.
CreatedAll ==
  /\ rec.pc = "create" /\ rec.todo = {} /\ Alike /\ UNCHANGED runs
  /\ \/ /\ HasTimedOut(rec)
        /\ rec'.pc = "patch" /\ rec'.why = "pipeline" /\ rec'.todo = rec.st.childRefs
     \/ ~HasTimedOut(rec) /\ rec'.pc = "conclude"

\* It concludes, with a result or without.
Concludes ==
  LET f == Facts(rec)
      s == Skips(f)
  IN  /\ rec.pc = "conclude" /\ rec'.pc = "write" /\ UNCHANGED runs
      /\ rec'.st.skipped = GetSkippedTasks(f, s)
      /\ \/ rec'.st.reason = GetPipelineConditionStatus(f, s)
         \/ rec'.st.reason = "CouldntGetPipelineResult"

Move ==
  /\ Keeps
  /\ \/ PatchesOne \/ PatchesMore \/ PatchedAll
     \/ Schedules \/ Creates \/ CreatedAll \/ Concludes

\* What the end of a reconcile and going on to patch leave alone besides.
LEMMA EndKeepsLate ==
  ASSUME NEW R \in ReconcileType, NEW out, NEW st
  PROVE  end(R, out, st).late = R.late
BY Zenon DEF end, ReconcileType

LEMMA PatchKeepsLate ==
  ASSUME NEW R \in ReconcileType, NEW why, NEW todo
  PROVE  patch(R, why, todo).late = R.late
BY Zenon DEF patch, ReconcileType

LEMMA ApplyTaskTimeoutsKeepsLate ==
  ASSUME NEW R \in ReconcileType
  PROVE  applyTaskTimeouts(R).late = R.late
<1>1. [R EXCEPT !.pc = "plan"].late = R.late
  BY Zenon DEF ReconcileType
<1> QED  BY ZenonT(60), <1>1, PatchKeepsLate DEF applyTaskTimeouts

\* Patching child runs.
LEMMA PatchingMoves == TypeOK /\ Patching => Move
<1> SUFFICES ASSUME TypeOK, Patching PROVE Move
  OBVIOUS
<1>1. rec \in ReconcileType /\ rec.st \in Status
  BY Zenon DEF TypeOK, ReconcileType
<1>2. CASE PatchRun
  <2>1. PICK q \in rec.todo :
          /\ rec' = [rec EXCEPT !.todo = @ \ {q}]
          /\ runs' = IF runs[q].st = "Running" \/ q[1] \in CustomTasks
                       THEN [runs EXCEPT ![q].req = requested(rec.why)] ELSE runs
    BY Zenon, <1>2 DEF PatchRun
  <2>2. /\ rec'.pc = rec.pc /\ rec'.why = rec.why /\ rec'.todo = rec.todo \ {q}
        /\ rec'.orig = rec.orig /\ rec'.spec = rec.spec /\ rec'.late = rec.late
        /\ rec'.view = rec.view /\ rec'.vf = rec.vf /\ rec'.st = rec.st
    BY Zenon, <1>1, <2>1 DEF ReconcileType
  <2> QED  BY Zenon, <1>2, <2>1, <2>2 DEF PatchRun, Move, Keeps, PatchesOne, Alike
<1>3. CASE PatchRunFails
  <2>1. PICK q \in rec.todo :
          rec' = [rec EXCEPT !.todo = @ \ {q}, !.errs = TRUE, !.clean = FALSE]
    BY Zenon, <1>3 DEF PatchRunFails
  <2>2. /\ rec'.pc = rec.pc /\ rec'.why = rec.why /\ rec'.todo = rec.todo \ {q}
        /\ rec'.orig = rec.orig /\ rec'.spec = rec.spec /\ rec'.late = rec.late
        /\ rec'.view = rec.view /\ rec'.vf = rec.vf /\ rec'.st = rec.st
    BY Zenon, <1>1, <2>1 DEF ReconcileType
  <2> QED  BY Zenon, <1>3, <2>1, <2>2 DEF PatchRunFails, Move, Keeps, PatchesOne, Alike
<1>4. ASSUME NEW why, patchesDone(why)
      PROVE  /\ rec.pc = "patch" /\ rec.todo = {} /\ rec.why = why /\ UNCHANGED runs
             /\ UNCHANGED <<pr, prCache, lister, elapsed, queued>>
  BY Zenon, <1>4 DEF patchesDone, env
<1>5. ASSUME rec.pc = "patch", rec.todo = {}, UNCHANGED runs,
             UNCHANGED <<pr, prCache, lister, elapsed, queued>>,
             NEW out, NEW reason, rec' = end(rec, out, [rec.st EXCEPT !.reason = reason]),
             \/ rec.errs /\ out = "retry"
             \/ ~rec.errs /\ rec.why \in {"cancel", "long"} /\ reason \in {"Cancelled", "TimedOut"}
      PROVE  Move
  <2> DEFINE st == [rec.st EXCEPT !.reason = reason]
  <2>1. st.reason = reason /\ st.skipped = rec.st.skipped
    BY Zenon, <1>1 DEF Status
  <2> HIDE DEF st
  <2>2. /\ rec'.pc = "write" /\ rec'.st = st /\ rec'.orig = rec.orig /\ rec'.spec = rec.spec
        /\ rec'.view = rec.view /\ rec'.vf = rec.vf /\ rec'.out = out /\ rec'.late = rec.late
    BY <1>1, <1>5, EndSets, EndKeepsLate DEF st
  <2>3. reason \in {"Cancelled", "TimedOut"} => IsDone(st)
    BY Zenon, <2>1 DEF IsDone, FailedReason
  <2> QED  BY Zenon, <1>5, <2>1, <2>2, <2>3 DEF Move, Keeps, PatchedAll, Alike
<1>6. CASE CancelDone
  BY Zenon, <1>4, <1>5, <1>6 DEF CancelDone
<1>7. CASE LongTimeoutDone
  BY Zenon, <1>4, <1>5, <1>7 DEF LongTimeoutDone
<1>8. CASE GracefulCancelDone
  <2>1. CASE rec' = applyTaskTimeouts(rec)
    <3>1. /\ rec'.pc = "plan" \/ (rec'.pc = "patch" /\ rec'.why = "tasks")
          /\ rec'.st = rec.st /\ rec'.orig = rec.orig /\ rec'.spec = rec.spec
          /\ rec'.view = rec.view /\ rec'.vf = rec.vf /\ rec'.late = rec.late
      BY Zenon, <1>1, <2>1, ApplyTaskTimeoutsSets, ApplyTaskTimeoutsKeepsLate
    <3> QED  BY Zenon, <1>4, <1>8, <3>1 DEF GracefulCancelDone, Move, Keeps, PatchesMore, Alike
  <2> QED  BY Zenon, <1>4, <1>5, <1>8, <2>1 DEF GracefulCancelDone
<1>9. CASE TaskTimeoutsDone
  <2>1. CASE rec' = [rec EXCEPT !.pc = "plan"]
    <3>1. /\ rec'.pc = "plan"
          /\ rec'.st = rec.st /\ rec'.orig = rec.orig /\ rec'.spec = rec.spec
          /\ rec'.view = rec.view /\ rec'.vf = rec.vf /\ rec'.late = rec.late
      BY Zenon, <1>1, <2>1 DEF ReconcileType
    <3> QED  BY Zenon, <1>4, <1>9, <3>1 DEF TaskTimeoutsDone, Move, Keeps, PatchesMore, Alike
  <2>2. CASE rec.errs /\ rec' = end(rec, "retry", rec.st)
    <3>1. /\ rec'.pc = "write" /\ rec'.st = rec.st /\ rec'.orig = rec.orig /\ rec'.spec = rec.spec
          /\ rec'.view = rec.view /\ rec'.vf = rec.vf /\ rec'.out = "retry" /\ rec'.late = rec.late
      BY <1>1, <2>2, EndSets, EndKeepsLate
    <3> QED  BY Zenon, <1>4, <1>9, <2>2, <3>1 DEF TaskTimeoutsDone, Move, Keeps, PatchedAll, Alike
  <2> QED  BY Zenon, <1>9, <2>1, <2>2 DEF TaskTimeoutsDone
<1>10. CASE PipelineTimeoutDone
  <2>1. CASE rec' = [rec EXCEPT !.pc = "conclude", !.st.reason = "TimedOut"]
    <3>1. /\ rec'.pc = "conclude" /\ rec'.st.skipped = rec.st.skipped
          /\ rec'.orig = rec.orig /\ rec'.spec = rec.spec
          /\ rec'.view = rec.view /\ rec'.vf = rec.vf /\ rec'.late = rec.late
      BY Zenon, <1>1, <2>1 DEF ReconcileType, Status
    <3> QED  BY Zenon, <1>4, <1>10, <3>1 DEF PipelineTimeoutDone, Move, Keeps, PatchedAll, Alike
  <2> QED  BY Zenon, <1>4, <1>5, <1>10, <2>1 DEF PipelineTimeoutDone
<1> QED  BY Zenon, <1>2, <1>3, <1>6, <1>7, <1>8, <1>9, <1>10 DEF Patching

\* What schedule leaves alone besides.
LEMMA ScheduleKeeps ==
  ASSUME NEW R \in ReconcileType, NEW f, NEW s, NEW vf, NEW fresh
  PROVE  LET S == schedule(R, f, s, vf, fresh)
         IN  S.pc = "create" /\ S.late = R.late /\ S.st.skipped = R.st.skipped
<1>1. PICK fin, todo : schedule(R, f, s, vf, fresh) =
        [R EXCEPT !.pc = "create", !.vf = vf, !.st.fin = fin, !.todo = todo]
  BY Zenon DEF schedule
<1>2. \A x : [R.st EXCEPT !.fin = x].skipped = R.st.skipped
  BY Zenon DEF ReconcileType, Status
<1>3. schedule(R, f, s, vf, fresh) =
        [R EXCEPT !.pc = "create", !.vf = vf, !.st = [R.st EXCEPT !.fin = fin], !.todo = todo]
  BY Zenon, <1>1 DEF ReconcileType
<1> DEFINE S == schedule(R, f, s, vf, fresh)
           st == [R.st EXCEPT !.fin = fin]
<1>4. S = [R EXCEPT !.pc = "create", !.vf = vf, !.st = st, !.todo = todo] /\ st.skipped = R.st.skipped
  BY Zenon, <1>2, <1>3
<1> HIDE DEF S, st
<1>5. S.pc = "create" /\ S.late = R.late /\ S.st = st
  BY Zenon, <1>4 DEF ReconcileType
<1> QED  BY Zenon, <1>4, <1>5 DEF S

\* Looking for what to run next, and creating it.
LEMMA SchedulingMoves == TypeOK /\ Scheduling => Move
<1> SUFFICES ASSUME TypeOK, Scheduling PROVE Move
  OBVIOUS
<1>1. rec \in ReconcileType /\ rec.st \in Status
  BY Zenon DEF TypeOK, ReconcileType
<1>2. CASE RunNextSchedulableTask
  <2> DEFINE f == Facts(rec)
             s == Skips(f)
             vf == {t \in DAGExecutionQueue(f, s) : missingResults(f, t)}
             fresh == Skips([f EXCEPT !.vf = vf])
  <2>1. /\ rec.pc = "plan" /\ UNCHANGED <<runs, pr, prCache, lister, elapsed, queued>>
        /\ \/ DAGExecutionError(f, s) /\ rec' = end(rec, "permanent", rec.st)
           \/ rec' = schedule(rec, f, s, vf, fresh)
    BY Zenon, <1>2 DEF RunNextSchedulableTask, env
  <2> HIDE DEF f, s, vf, fresh
  <2>2. CASE DAGExecutionError(f, s) /\ rec' = end(rec, "permanent", rec.st)
    <3>1. /\ rec'.pc = "write" /\ rec'.st = rec.st /\ rec'.orig = rec.orig /\ rec'.spec = rec.spec
          /\ rec'.out = "permanent" /\ rec'.late = rec.late
      BY <1>1, <2>2, EndSets, EndKeepsLate
    <3> QED  BY Zenon, <2>1, <2>2, <3>1 DEF Move, Keeps, Schedules, f, s
  <2>3. CASE rec' = schedule(rec, f, s, vf, fresh)
    <3>1. /\ rec'.pc = "create" /\ rec'.orig = rec.orig /\ rec'.spec = rec.spec
          /\ rec'.late = rec.late /\ rec'.st.skipped = rec.st.skipped
      BY <1>1, <2>3, ScheduleSets, ScheduleKeeps
    <3> QED  BY Zenon, <2>1, <2>3, <3>1 DEF Move, Keeps, Schedules, f, s, vf, fresh
  <2> QED  BY Zenon, <2>1, <2>2, <2>3
<1>3. ASSUME NEW r \in rec.todo, ~skippedNow(r[1]), rec.pc = "create",
             runs[r] # Absent \/ faults < MaxFaults,
             UNCHANGED <<runs, pr, prCache, lister, elapsed, queued>>,
             NEW out, NEW st, rec' = end([rec EXCEPT !.clean = FALSE], out, st),
             st.skipped = rec.st.skipped, out = "retry" \/ IsDone(st)
      PROVE  Move
  <2> DEFINE R == [rec EXCEPT !.clean = FALSE]
  <2>1. /\ R \in ReconcileType /\ R.orig = rec.orig /\ R.spec = rec.spec /\ R.view = rec.view
        /\ R.vf = rec.vf /\ R.late = rec.late
    BY Zenon, <1>1 DEF ReconcileType
  <2> HIDE DEF R
  <2>2. rec' = end(R, out, st)
    BY Zenon, <1>3 DEF R
  <2>3. /\ rec'.pc = "write" /\ rec'.st = st /\ rec'.orig = rec.orig /\ rec'.spec = rec.spec
        /\ rec'.view = rec.view /\ rec'.vf = rec.vf /\ rec'.out = out /\ rec'.late = rec.late
    BY <2>1, <2>2, EndSets, EndKeepsLate
  <2>4. rec'.st.skipped = rec.st.skipped /\ (rec'.out = "retry" \/ IsDone(rec'.st))
    BY Zenon, <1>3, <2>3
  <2>5. Alike /\ Keeps
    BY Zenon, <1>3, <2>3, <2>4 DEF Alike, Keeps
  <2> QED  BY Zenon, <1>3, <2>3, <2>4, <2>5 DEF Move, Creates
<1>4. CASE CreateRun
  <2>1. PICK r \in Run :
          /\ rec.pc = "create" /\ r \in rec.todo /\ ~skippedNow(r[1])
          /\ IF runs[r] = Absent
               THEN /\ runs' = [runs EXCEPT ![r] = Created]
                    /\ rec' = [rec EXCEPT !.todo = @ \ {r}, !.view[r] = Created]
               ELSE /\ rec' = end([rec EXCEPT !.clean = FALSE], "retry", rec.st)
                    /\ UNCHANGED runs
          /\ UNCHANGED <<pr, prCache, lister, elapsed, queued>>
    BY Zenon, <1>4 DEF CreateRun, creating
  <2>2. CASE runs[r] = Absent
    <3>1. /\ runs' = [runs EXCEPT ![r] = Created]
          /\ rec' = [rec EXCEPT !.todo = @ \ {r}, !.view[r] = Created]
      BY Zenon, <2>1, <2>2
    <3>2. /\ rec'.pc = rec.pc /\ rec'.orig = rec.orig /\ rec'.spec = rec.spec
          /\ rec'.late = rec.late /\ rec'.st = rec.st /\ rec'.vf = rec.vf
          /\ rec'.todo = rec.todo \ {r}
      BY Zenon, <1>1, <3>1 DEF ReconcileType
    <3> QED  BY Zenon, <2>1, <2>2, <3>1, <3>2 DEF Move, Keeps, Creates
  <2>3. CASE runs[r] # Absent
    BY Zenon, <1>3, <2>1, <2>3
  <2> QED  BY Zenon, <2>2, <2>3
<1>5. CASE CreateRunFails
  <2> DEFINE R == [rec EXCEPT !.clean = FALSE]
             st == [rec.st EXCEPT !.reason = "CreateRunFailed"]
  <2>1. R.st = rec.st
    BY Zenon, <1>1 DEF ReconcileType
  <2>2. PICK r \in Run :
          /\ rec.pc = "create" /\ r \in rec.todo /\ ~skippedNow(r[1]) /\ faults < MaxFaults
          /\ rec' = end(R, "retry", rec.st) \/ rec' = end(R, "permanent", st)
          /\ UNCHANGED <<runs, pr, prCache, lister, elapsed, queued>>
    BY Zenon, <1>5, <2>1 DEF CreateRunFails, creating
  <2>3. st.skipped = rec.st.skipped /\ st.reason = "CreateRunFailed"
    BY Zenon, <1>1 DEF Status
  <2>4. IsDone(st)
    BY Zenon, <2>3 DEF IsDone, FailedReason
  <2> HIDE DEF st
  <2> QED  BY Zenon, <1>3, <2>2, <2>3, <2>4
<1>6. CASE SkipFinalTask
  <2>1. PICK r \in Run :
          /\ rec.pc = "create" /\ r \in rec.todo /\ skippedNow(r[1])
          /\ rec' = [rec EXCEPT !.todo = @ \ RunsOf(r[1])]
          /\ UNCHANGED <<runs, pr, prCache, lister, elapsed, queued>>
    BY Zenon, <1>6 DEF SkipFinalTask, creating, env
  <2>2. /\ rec'.pc = rec.pc /\ rec'.todo = rec.todo \ RunsOf(r[1])
        /\ rec'.orig = rec.orig /\ rec'.spec = rec.spec /\ rec'.late = rec.late
        /\ rec'.view = rec.view /\ rec'.vf = rec.vf /\ rec'.st = rec.st
    BY Zenon, <1>1, <2>1 DEF ReconcileType
  <2> QED  BY Zenon, <2>1, <2>2 DEF Move, Keeps, Creates, Alike
<1>7. CASE ScheduleDone
  <2>1. /\ rec.pc = "create" /\ rec.todo = {}
        /\ UNCHANGED <<runs, pr, prCache, lister, elapsed, queued>>
        /\ rec' = IF HasTimedOut(rec) THEN patch(rec, "pipeline", rec.st.childRefs)
                                      ELSE [rec EXCEPT !.pc = "conclude"]
    BY Zenon, <1>7 DEF ScheduleDone, env
  <2>2. CASE HasTimedOut(rec)
    <3>1. /\ rec'.pc = "patch" /\ rec'.why = "pipeline" /\ rec'.todo = rec.st.childRefs
          /\ rec'.st = rec.st /\ rec'.orig = rec.orig /\ rec'.spec = rec.spec
          /\ rec'.view = rec.view /\ rec'.vf = rec.vf /\ rec'.late = rec.late
      BY <1>1, <2>1, <2>2, PatchSets, PatchKeepsLate
    <3> QED  BY Zenon, <2>1, <2>2, <3>1 DEF Move, Keeps, CreatedAll, Alike
  <2>3. CASE ~HasTimedOut(rec)
    <3>1. rec' = [rec EXCEPT !.pc = "conclude"]
      BY Zenon, <2>1, <2>3
    <3>2. /\ rec'.pc = "conclude" /\ rec'.st = rec.st /\ rec'.orig = rec.orig
          /\ rec'.spec = rec.spec /\ rec'.view = rec.view /\ rec'.vf = rec.vf
          /\ rec'.late = rec.late
      BY Zenon, <1>1, <3>1 DEF ReconcileType
    <3> QED  BY Zenon, <2>1, <2>3, <3>2 DEF Move, Keeps, CreatedAll, Alike
  <2> QED  BY Zenon, <2>2, <2>3
<1> QED  BY Zenon, <1>2, <1>4, <1>5, <1>6, <1>7 DEF Scheduling

\* Concluding.
LEMMA ConcludeMoves == TypeOK /\ (Conclude \/ ConcludeWithoutResult) => Move
<1> SUFFICES ASSUME TypeOK, Conclude \/ ConcludeWithoutResult PROVE Move
  OBVIOUS
<1>1. rec \in ReconcileType /\ rec.st \in Status
  BY Zenon DEF TypeOK, ReconcileType
<1> DEFINE f == Facts(rec)
           s == Skips(f)
           st == concluded(f, s)
           lost == [st EXCEPT !.reason = "CouldntGetPipelineResult"]
<1>2. /\ st.reason = GetPipelineConditionStatus(f, s) /\ st.skipped = GetSkippedTasks(f, s)
      /\ lost.reason = "CouldntGetPipelineResult" /\ lost.skipped = GetSkippedTasks(f, s)
  BY Zenon, <1>1 DEF concluded, Status
<1>3. /\ rec.pc = "conclude" /\ UNCHANGED <<runs, pr, prCache, lister, elapsed, queued>>
      /\ rec' = end(rec, "ok", st) \/ rec' = end(rec, "retry", lost)
  BY Zenon DEF Conclude, ConcludeWithoutResult, env
<1> HIDE DEF st, lost
<1>4. /\ rec'.pc = "write" /\ rec'.st \in {st, lost} /\ rec'.orig = rec.orig
      /\ rec'.spec = rec.spec /\ rec'.late = rec.late
  BY <1>1, <1>3, EndSets, EndKeepsLate
<1> QED  BY Zenon, <1>2, <1>3, <1>4 DEF Move, Keeps, Concludes

\* A reconcile at work makes a move, or waits while the cluster goes on, or crashes.
LEMMA WorkMoves ==
  ASSUME TypeOK, [Next]_vars, rec.pc \notin {"idle", "write"}
  PROVE  Move \/ (rec' = rec /\ GoesOn) \/ (faults < MaxFaults /\ rec' = NoReconcile)
<1>1. ~Begin
  BY Zenon DEF Begin, ReconcileDone, ReconcileLongTimeout, ReconcileCancelled, ReconcilePending,
         Reconcile, ReconcileInvalid, ReconcileRetry, ReconcileResolving, reconciles, Dequeue
<1>2. ~UpdateStatus /\ ~UpdateStatusFails
  BY Zenon DEF UpdateStatus, UpdateStatusFails
<1>3. UNCHANGED vars => GoesOn
  BY Zenon DEF vars, GoesOn, exists
<1>4. Environment => GoesOn \/ (faults < MaxFaults /\ rec' = NoReconcile)
  BY Zenon, EnvironmentGoesOn DEF Stops
<1>5. GoesOn => rec' = rec
  BY Zenon DEF GoesOn
<1> QED  BY Zenon, <1>1, <1>2, <1>3, <1>4, <1>5, PatchingMoves, SchedulingMoves, ConcludeMoves
            DEF Next, Reconciler, Finishing

-----------------------------------------------------------------------------
(***************************************************************************)
(* How a reconcile begins.                                                 *)
(***************************************************************************)
LEMMA BegunLate ==
  ASSUME TypeOK
  PROVE  /\ begun.late = (prCache.st.started /\ "pipeline" \in elapsed)
         /\ prCache.spec = "Pending" => begun.st = prCache.st
<1> DEFINE R == [NoReconcile EXCEPT !.spec = prCache.spec, !.orig = prCache.st,
                   !.st = prCache.st, !.view = lister,
                   !.late = prCache.st.started /\ "pipeline" \in elapsed]
           T == [R.st EXCEPT !.started = TRUE, !.reason = "Started"]
<1>1. /\ R.late = (prCache.st.started /\ "pipeline" \in elapsed) /\ R.spec = prCache.spec
      /\ R.st = prCache.st
  BY Zenon DEF NoReconcile
<1>2. DOMAIN R = DOMAIN NoReconcile
  BY Zenon
<1>3. "late" \in DOMAIN NoReconcile
  BY DEF NoReconcile
<1>4. begun = IF R.orig.started \/ R.spec = "Pending" THEN R ELSE [R EXCEPT !.st = T]
  BY Zenon DEF begun, InitializeConditions
<1> HIDE DEF R, T
<1>5. [R EXCEPT !.st = T].late = R.late
  BY Zenon, <1>2, <1>3
<1> QED  BY Zenon, <1>1, <1>4, <1>5

LEMMA SyncKeepsLate ==
  ASSUME NEW R \in ReconcileType
  PROVE  /\ syncChildRefs(R).late = R.late
         /\ syncChildRefs(R).st.started = R.st.started
<1>1. syncChildRefs(R).st = [R.st EXCEPT !.childRefs = R.st.childRefs \cup exists(R.view)]
  BY Zenon, SyncChildRefsSets
<1>2. \A x : [R.st EXCEPT !.childRefs = x].started = R.st.started
  BY Zenon DEF ReconcileType, Status
<1>3. syncChildRefs(R).late = R.late
  BY Zenon DEF syncChildRefs, ReconcileType
<1> QED  BY Zenon, <1>1, <1>2, <1>3

LEMMA GracefulKeepsLate ==
  ASSUME NEW R \in ReconcileType
  PROVE  applyGracefulCancel(R).late = R.late
BY Zenon, PatchKeepsLate, ApplyTaskTimeoutsKeepsLate DEF applyGracefulCancel

\* It knows whether it is late, and ends at once only on a pending PipelineRun, or one
\* that is not valid or cannot be resolved yet.
LEMMA BeginsLate ==
  ASSUME TypeOK, Begin, rec'.pc # "idle"
  PROVE  /\ rec'.late => prCache.st.started /\ "pipeline" \in elapsed
         /\ prCache.spec = "Pending" => rec'.st.started = prCache.st.started
         /\ rec'.pc = "patch" =>
              /\ rec'.why # "pipeline"
              /\ rec'.why \in {"cancel", "long"} => rec'.todo = prCache.st.childRefs
         /\ rec'.pc = "write" =>
              \/ faults < MaxFaults /\ rec'.out \in {"retry", "resolving"}
              \/ prCache.spec = "Pending"
              \/ rec'.out = "permanent" /\ rec'.st.reason = "Invalid"
<1> DEFINE B == begun
           C == syncChildRefs(begun)
           late == prCache.st.started /\ "pipeline" \in elapsed
<1>1. B \in ReconcileType /\ C \in ReconcileType
  BY Zenon, BegunType, SyncChildRefsType
<1>2. /\ B.late = late /\ C.late = late
      /\ prCache.spec = "Pending" => /\ B.st.started = prCache.st.started
                                     /\ C.st.started = prCache.st.started
  BY Zenon, <1>1, BegunLate, SyncKeepsLate
<1>3. C.st \in Status
  BY Zenon, <1>1 DEF ReconcileType
<1>4. late => prCache.st.started /\ "pipeline" \in elapsed
  BY Zenon
<1> HIDE DEF B, C, late
<1>5. ASSUME NEW why \in {"long", "cancel"}, rec' = patch(B, why, prCache.st.childRefs)
      PROVE  /\ rec'.pc = "patch" /\ rec'.why = why /\ rec'.todo = prCache.st.childRefs
             /\ rec'.late = late /\ rec'.st = B.st
  BY <1>1, <1>2, <1>5, PatchSets, PatchKeepsLate
<1>6. ASSUME NEW out, NEW st, rec' = end(C, out, st)
      PROVE  rec'.pc = "write" /\ rec'.out = out /\ rec'.st = st /\ rec'.late = late
  BY <1>1, <1>2, <1>6, EndSets, EndKeepsLate
<1>7. CASE ReconcileDone
  BY Zenon, <1>7 DEF ReconcileDone, Dequeue
<1>8. CASE ReconcileLongTimeout \/ ReconcileCancelled
  <2>1. \E why \in {"long", "cancel"} : rec' = patch(B, why, prCache.st.childRefs)
    BY Zenon, <1>8 DEF ReconcileLongTimeout, ReconcileCancelled, B
  <2> QED  BY Zenon, <1>4, <1>2, <1>5, <2>1
<1>9. CASE ReconcilePending
  <2> DEFINE st == [C.st EXCEPT !.reason = "Pending"]
  <2>1. prCache.spec = "Pending" /\ rec' = end(C, "ok", st)
    BY Zenon, <1>9 DEF ReconcilePending, C
  <2>2. st.started = C.st.started
    BY Zenon, <1>3 DEF Status
  <2> HIDE DEF st
  <2>3. rec'.pc = "write" /\ rec'.st.started = C.st.started /\ rec'.late = late
    BY Zenon, <1>6, <2>1, <2>2
  <2> QED  BY Zenon, <1>4, <1>2, <2>1, <2>3
<1>10. CASE Reconcile
  <2>1. rec' = applyGracefulCancel(C) /\ prCache.spec # "Pending"
    BY Zenon, <1>10 DEF Reconcile, reconciles, C
  <2>2. rec'.pc = "plan" \/ (rec'.pc = "patch" /\ rec'.why \in {"graceful", "tasks"})
    BY Zenon, <1>1, <2>1, ApplyGracefulCancelSets
  <2>3. rec'.late = late
    BY Zenon, <1>1, <1>2, <2>1, GracefulKeepsLate
  <2> QED  BY Zenon, <1>4, <2>1, <2>2, <2>3
<1>11. CASE ReconcileInvalid
  <2> DEFINE st == [C.st EXCEPT !.reason = "Invalid"]
  <2>1. /\ prCache.spec # "Pending"
        /\ rec' = end(C, "permanent", st)
    BY Zenon, <1>11 DEF ReconcileInvalid, reconciles, C
  <2>2. st.reason = "Invalid"
    BY Zenon, <1>3 DEF Status
  <2> HIDE DEF st
  <2>3. rec'.pc = "write" /\ rec'.out = "permanent" /\ rec'.st.reason = "Invalid" /\ rec'.late = late
    BY <1>6, <2>1, <2>2
  <2> QED  BY Zenon, <1>4, <2>1, <2>3
<1>12. CASE ReconcileResolving
  <2>1. /\ prCache.spec # "Pending" /\ faults < MaxFaults
        /\ rec' = end(C, "resolving", [C.st EXCEPT !.reason = "Resolving"])
    BY Zenon, <1>12 DEF ReconcileResolving, reconciles, C
  <2> QED  BY Zenon, <1>4, <1>6, <2>1
<1>13. CASE ReconcileRetry
  <2> DEFINE R == [C EXCEPT !.clean = FALSE]
  <2>1. prCache.spec # "Pending" /\ faults < MaxFaults /\ rec' = end(R, "retry", R.st)
    BY Zenon, <1>13 DEF ReconcileRetry, reconciles, C
  <2>2. R \in ReconcileType /\ R.late = C.late
    BY Zenon, <1>1 DEF ReconcileType
  <2> HIDE DEF R
  <2>3. rec'.pc = "write" /\ rec'.out = "retry" /\ rec'.late = R.late
    BY <2>1, <2>2, EndSets, EndKeepsLate
  <2> QED  BY Zenon, <1>4, <1>2, <2>1, <2>2, <2>3
<1> QED  BY Zenon, <1>7, <1>8, <1>9, <1>10, <1>11, <1>12, <1>13 DEF Begin

LEMMA BeginsFromIdle ==
  ASSUME TypeOK, [Next]_vars, rec.pc = "idle", rec'.pc # "idle"
  PROVE  Begin /\ Starts
<1>1. ~Patching
  BY Zenon DEF Patching, PatchRun, PatchRunFails, CancelDone, GracefulCancelDone,
               TaskTimeoutsDone,
         PipelineTimeoutDone, LongTimeoutDone, patchesDone
<1>2. ~Scheduling
  BY Zenon DEF Scheduling, RunNextSchedulableTask, CreateRun, CreateRunFails, SkipFinalTask,
         ScheduleDone, creating
<1>3. ~Finishing
  BY Zenon DEF Finishing, Conclude, ConcludeWithoutResult, UpdateStatus, UpdateStatusFails
<1>4. ~Environment /\ ~UNCHANGED vars
  BY Zenon, EnvironmentGoesOn, NoReconcileSeesNothing DEF GoesOn, Stops, vars
<1>5. Begin
  BY Zenon, <1>1, <1>2, <1>3, <1>4 DEF Next, Reconciler
<1> QED  BY Zenon, <1>5, BeginStarts DEF GoesOn

-----------------------------------------------------------------------------
\* A task that fails validation uses results, and has no run and gets none.
VfInv ==
  \A t \in rec.vf :
    /\ ResultRefs[t] # {}
    /\ \A r \in RunsOf(t) : rec.view[r].st = "Absent"
    /\ rec.pc = "create" => \A r \in rec.todo : r[1] # t

\* Every step keeps what is said of the tasks that fail validation.
LEMMA NextVfInv == TypeOK /\ VfInv /\ [Next]_vars => VfInv'
<1> SUFFICES ASSUME TypeOK, VfInv, [Next]_vars PROVE VfInv'
  BY ZenonT(60)
<1>1. rec \in ReconcileType
  BY ZenonT(60) DEF TypeOK
<1>2. CASE Starts
  BY <1>2 DEF Starts, VfInv
<1>3. CASE Stops
  <2>1. NoReconcile.vf = {}
    BY ZenonT(60) DEF NoReconcile
  <2> QED  BY ZenonT(60), <1>3, <2>1 DEF Stops, VfInv
<1>4. CASE GoesOn
  BY ZenonT(60), <1>4 DEF GoesOn, VfInv
<1>5. CASE Works
  <2>1. CASE SeesTheSame
    BY ZenonT(60), <2>1 DEF SeesTheSame, VfInv
  <2>2. CASE RunNextSchedulableTask
    <3> DEFINE f == Facts(rec)
               s == Skips(f)
               vf == {t \in DAGExecutionQueue(f, s) : missingResults(f, t)}
               fresh == Skips([f EXCEPT !.vf = vf])
    <3>1. /\ rec.pc = "plan"
          /\ \/ rec'.pc = "write" /\ rec'.view = rec.view /\ rec'.vf = rec.vf
             \/ rec' = schedule(rec, f, s, vf, fresh)
      BY ZenonT(60), <2>2, NextSchedules
    <3>2. CASE rec'.pc = "write" /\ rec'.view = rec.view /\ rec'.vf = rec.vf
      BY ZenonT(60), <3>2 DEF VfInv
    <3>3. CASE rec' = schedule(rec, f, s, vf, fresh)
      <4>1. f.view = rec.view
        BY DEF Facts
      <4>2. \A t \in vf : t \in DAGExecutionQueue(f, s) /\ missingResults(f, t)
        BY ZenonT(60)
      <4> HIDE DEF f, s, vf, fresh
      <4>3. \A t \in vf : t \in DagTasks /\ ~isScheduled(f, t) /\ ResultRefs[t] # {}
        BY ZenonT(60), <4>2 DEF DAGExecutionQueue, GetCandidateTasks, missingResults
      <4>4. /\ rec'.view = rec.view /\ rec'.vf = vf
            /\ \A r \in rec'.todo : vf = {} \/ r[1] \in FinalTasks
        BY <1>1, <3>3, ScheduleSets
      <4>5. \A t \in vf : \A r \in RunsOf(t) : rec.view[r].st = "Absent"
        BY ZenonT(60), <4>1, <4>3 DEF isScheduled, runsSeen
      <4>6. \A t \in vf : \A r \in rec'.todo : r[1] # t
        BY ZenonT(60), <4>3, <4>4, PipelineAssumption
      <4> QED  BY ZenonT(60), <4>3, <4>4, <4>5, <4>6 DEF VfInv
    <3> QED  BY ZenonT(60), <3>1, <3>2, <3>3
  <2>3. CASE CreateRun
    <3>1. PICK r \in Run :
            /\ rec.pc = "create" /\ r \in rec.todo
            /\ \/ rec' = [rec EXCEPT !.todo = @ \ {r}, !.view[r] = Created]
               \/ rec' = end([rec EXCEPT !.clean = FALSE], "retry", rec.st)
      BY Zenon, <2>3 DEF CreateRun, creating
    <3>2. CASE rec' = [rec EXCEPT !.todo = @ \ {r}, !.view[r] = Created]
      <4>1. /\ rec'.vf = rec.vf /\ rec'.todo = rec.todo \ {r}
            /\ rec'.view = [rec.view EXCEPT ![r] = Created]
        BY Zenon, <1>1, <3>2 DEF ReconcileType
      <4>2. rec.view \in [Run -> RunRecord] /\ rec.vf \subseteq DagTasks
        BY Zenon, <1>1 DEF ReconcileType
      <4>3. \A t \in rec.vf : r[1] # t
        BY ZenonT(60), <3>1 DEF VfInv
      <4>4. \A t \in rec.vf : \A q \in RunsOf(t) : q[1] = t /\ q \in Run
        BY <4>2, RunsOfType DEF RunsOf, Tasks
      <4>5. \A t \in rec.vf : \A q \in RunsOf(t) : rec'.view[q] = rec.view[q]
        BY SMTT(60), <4>1, <4>2, <4>3, <4>4
      <4> QED  BY <3>1, <4>1, <4>5 DEF VfInv
    <3>3. CASE rec' = end([rec EXCEPT !.clean = FALSE], "retry", rec.st)
      <4> DEFINE R == [rec EXCEPT !.clean = FALSE]
      <4>1. R \in ReconcileType /\ R.view = rec.view /\ R.vf = rec.vf
        BY Zenon, <1>1 DEF ReconcileType
      <4>2. rec' = end(R, "retry", rec.st)
        BY ZenonT(60), <3>3
      <4> HIDE DEF R
      <4>3. rec'.pc = "write" /\ rec'.view = R.view /\ rec'.vf = R.vf
        BY SMTT(60), <4>1, <4>2, EndSets
      <4> QED  BY ZenonT(60), <4>1, <4>3 DEF VfInv
    <3> QED  BY ZenonT(60), <3>1, <3>2, <3>3
  <2> QED  BY ZenonT(60), <1>5, <2>1, <2>2, <2>3, WorkSees DEF Works
<1> QED  BY ZenonT(60), <1>2, <1>3, <1>4, <1>5, StepKinds

-----------------------------------------------------------------------------
(***************************************************************************)
(* Outcomes.                                                               *)
(*                                                                         *)
(* isValidationFailed compares pointers, and those of tasks without a      *)
(* resolved Task are all nil.  They still tell the tasks that fail         *)
(* validation from the others if a DAG task without a resolved Task that   *)
(* uses results is the only task without one.                              *)
(***************************************************************************)
PointersTellApart ==
  \A t \in DagTasks \cap NilResolvedTask : ResultRefs[t] # {} => NilResolvedTask = {t}

\* The reasons of a PipelineRun that was not cancelled, timed out or given up.
EndsByItself == {"Succeeded", "Completed", "Failed", "FailedValidation"}

\* The count of every task allows the reason that GetPipelineConditionStatus chooses.
LEMMA ReasonCounts ==
  ASSUME NEW f, NEW s, NEW t \in Tasks
  PROVE  LET reason == GetPipelineConditionStatus(f, s)
             count == countedAs(f, s, finallySkips(f, s), t)
         IN  /\ reason \in EndsByItself \cup {"Cancelled"} => count # "Incomplete"
             /\ reason \in SucceededReason \cup {"Cancelled"} => count # "ValidationFailed"
             /\ reason \in SucceededReason =>
                  /\ count \notin {"Failed", "SkippedDueToTimeout", "Cancelled"}
                  /\ count = "Skipped" => reason = "Completed"
<1> DEFINE counts == {countedAs(f, s, finallySkips(f, s), u) : u \in Tasks}
           count == countedAs(f, s, finallySkips(f, s), t)
           graceful == f.spec \in {"CancelledRunFinally", "StoppedRunFinally"}
           reason == GetPipelineConditionStatus(f, s)
<1>1. count \in counts
  BY ZenonT(60)
<1>2. \/ reason \in {"TimedOut", "CancelledRunningFinally", "StoppedRunningFinally", "Stopping", "Running"}
      \/ /\ "Incomplete" \notin counts
         /\ reason = IF "ValidationFailed" \in counts THEN "FailedValidation"
                     ELSE IF counts \cap {"Failed", "SkippedDueToTimeout"} # {} THEN "Failed"
                     ELSE IF graceful \/ "Cancelled" \in counts THEN "Cancelled"
                     ELSE IF "Skipped" \in counts THEN "Completed"
                     ELSE "Succeeded"
  BY ZenonT(60) DEF GetPipelineConditionStatus
<1> HIDE DEF counts, count, graceful, reason
<1> QED  BY ZenonT(60), <1>1, <1>2 DEF EndsByItself, SucceededReason, counts, count, reason

\* The facts of a reconcile that knows its validation failures.
VfFacts(f) ==
  /\ f.vf \subseteq DagTasks
  /\ \A t \in f.vf : ResultRefs[t] # {} /\ \A r \in RunsOf(t) : f.view[r].st = "Absent"

\* What skip and finallySkip say of a task with a run.
LEMMA SkippedHasNoRun ==
  ASSUME NEW f, NEW s, AreSkips(f, s)
  PROVE  /\ \A t \in DagTasks : s[t] # "None" => ~isScheduled(f, t)
         /\ \A t \in FinalTasks : finallySkips(f, s)[t] # "None" => ~isScheduled(f, t)
<1>1. \A t \in DagTasks : s[t] # "None" => ~isScheduled(f, t)
  BY ZenonT(60) DEF AreSkips, skip
<1>2. \A t \in FinalTasks : finallySkip(f, t) # "None" => ~isScheduled(f, t)
  BY ZenonT(60) DEF finallySkip
<1> QED  BY ZenonT(60), <1>1, <1>2 DEF finallySkips

\* Only a task that has failed validation itself counts as such.
LEMMA ValidationTellsApart ==
  ASSUME PointersTellApart, NEW f, VfFacts(f), NEW t \in Tasks, isValidationFailed(f, t)
  PROVE  t \in f.vf
<1>1. CASE t \in NilResolvedTask /\ f.vf \cap NilResolvedTask # {}
  <2>1. PICK u \in f.vf : u \in NilResolvedTask
    BY ZenonT(60), <1>1
  <2> QED  BY <1>1, <2>1 DEF VfFacts, PointersTellApart
<1> QED  BY ZenonT(60), <1>1 DEF isValidationFailed

\* A task that is not incomplete has no run that is still going, or fails validation.
LEMMA CountedIsOver ==
  ASSUME NEW f, NEW s, AreSkips(f, s), NEW t \in Tasks,
         countedAs(f, s, finallySkips(f, s), t) # "Incomplete"
  PROVE  runsDone(f, t) \/ countedAs(f, s, finallySkips(f, s), t) = "ValidationFailed"
<1>1. isSuccessful(f, t) => runsDone(f, t)
  BY ZenonT(60) DEF isSuccessful, runsDone, DoneState
<1>2. isCancelledForTimeOut(f, t) \/ isCancelled(f, t) \/ isFailure(f, t) => runsDone(f, t)
  BY ZenonT(60) DEF isCancelledForTimeOut, isCancelled, isFailure
<1>3. ~isScheduled(f, t) => runsDone(f, t)
  BY DEF isScheduled, runsDone
<1> QED  BY ZenonT(60), <1>1, <1>2, <1>3, SkippedHasNoRun DEF countedAs

\* The facts of a reconcile.
LEMMA FactsOfRec == 
  /\ Facts(rec).view = rec.view /\ Facts(rec).vf = rec.vf
  /\ TypeOK /\ VfInv => VfFacts(Facts(rec))
BY ZenonT(60) DEF Facts, VfFacts, VfInv, TypeOK, ReconcileType

(***************************************************************************)
(* How a status comes to be written: it is that of the PipelineRun before, *)
(* or the one a reconcile ends with.  A reconcile that ends a PipelineRun  *)
(* has concluded, or has patched every child run to cancel it.             *)
(***************************************************************************)
LEMMA WrittenStatus ==
  ASSUME SInv, [Next]_vars
  PROVE  /\ pr'.st = pr.st \/ (rec.pc = "write" /\ pr'.st = rec.st)
         /\ rec.pc = "write" => rec'.pc = "idle" \/ rec' = rec
<1>1. TypeOK /\ NoReconcile.pc = "idle"
  BY NoReconcileSeesNothing DEF SInv, IInv
<1> QED  BY Zenon, <1>1, StepKinds DEF Starts, Works, Stops, GoesOn

LEMMA WrittenReasons ==
  ASSUME SInv, [Next]_vars, rec.pc # "write", rec'.pc = "write",
         rec'.st.reason \in EndsByItself \cup {"Cancelled"}
  PROVE  /\ UNCHANGED runs
         /\ \/ /\ rec.pc = "conclude"
               /\ rec'.st = concluded(Facts(rec), Skips(Facts(rec)))
               /\ rec'.st.reason = GetPipelineConditionStatus(Facts(rec), Skips(Facts(rec)))
               /\ rec'.st.skipped = GetSkippedTasks(Facts(rec), Skips(Facts(rec)))
            \/ /\ rec.pc = "patch" /\ rec.why = "cancel" /\ rec.todo = {}
               /\ rec'.st.reason = "Cancelled"
<1>1. TypeOK /\ NoReconcile.pc = "idle" /\ rec.st \in Status
  BY Zenon, NoReconcileSeesNothing DEF SInv, IInv, TypeOK, ReconcileType
<1>2. /\ EndsByItself \cup {"Cancelled"} \subseteq SucceededReason \cup FailedReason
      /\ "Invalid" \notin EndsByItself \cup {"Cancelled"}
      /\ EndsByItself \cap {"CouldntCancel", "CouldntTimeOut", "TimedOut", "CreateRunFailed"} = {}
      /\ "Cancelled" \notin EndsByItself
      /\ "CouldntGetPipelineResult" \notin EndsByItself \cup {"Cancelled"}
  BY DEF EndsByItself, SucceededReason, FailedReason
<1>3. Works
  <2>1. IsDone(rec'.st) /\ rec'.st.reason # "Invalid"
    BY ZenonT(60), <1>2 DEF IsDone
  <2> QED  BY Zenon, <1>1, <2>1, StepKinds DEF Starts, Stops, GoesOn
<1>4. CASE rec.pc = "conclude"
  <2> DEFINE st == concluded(Facts(rec), Skips(Facts(rec)))
  <2>1. /\ st.reason = GetPipelineConditionStatus(Facts(rec), Skips(Facts(rec)))
        /\ st.skipped = GetSkippedTasks(Facts(rec), Skips(Facts(rec)))
        /\ [st EXCEPT !.reason = "CouldntGetPipelineResult"].reason = "CouldntGetPipelineResult"
    BY ZenonT(60), <1>1 DEF concluded, Status
  <2>2. UNCHANGED runs /\ (rec'.st = st \/ rec'.st = [st EXCEPT !.reason = "CouldntGetPipelineResult"])
    BY ZenonT(60), <1>3, <1>4 DEF Works
  <2> HIDE DEF st
  <2>3. rec'.st = st
    BY ZenonT(40), <1>2, <2>1, <2>2
  <2> QED  BY ZenonT(60), <1>4, <2>1, <2>2, <2>3 DEF st
<1>5. CASE rec.pc # "conclude"
  <2>1. rec.st.reason \notin EndsByItself \cup {"Cancelled"}
    BY ZenonT(60), <1>2, <1>3, <1>5 DEF Works, SInv, StatusInv, IsDone
  <2>2. /\ rec'.st.reason = "Cancelled"
        /\ rec.pc = "patch" /\ rec.why = "cancel" /\ rec.todo = {}
    BY ZenonT(60), <1>2, <1>3, <1>5, <2>1 DEF Works
  <2>3. ~PatchRun /\ ~CreateRun /\ ~\E r \in Run : RunEnds(r)
    BY Zenon, <2>2 DEF PatchRun, CreateRun, creating, RunEnds
  <2>4. UNCHANGED runs
    BY ZenonT(60), <2>3, RunChanges
  <2> QED  BY ZenonT(60), <2>2, <2>4
<1> QED  BY ZenonT(60), <1>4, <1>5

\* No run is created while a status is written, nor once the PipelineRun is done.
LEMMA NoneCreated ==
  ASSUME SInv, [Next]_vars, rec.pc # "create"
  PROVE  exists(runs') = exists(runs)
<1>1. TypeOK
  BY DEF SInv, IInv
<1>2. ~CreateRun
  BY Zenon DEF CreateRun, creating
<1>3. \A r \in Run : runs[r].st = "Absent" <=> runs'[r].st = "Absent"
  BY Zenon, <1>1, <1>2, OnlyCreateRunCreates, RunsGoOn
<1> QED  BY ZenonT(60), <1>3 DEF exists

\* Without new runs, a task that has ended stays so.
LEMMA EndedStays ==
  ASSUME TypeOK, [Next]_vars, exists(runs') = exists(runs), NEW t \in Tasks, ended(t)
  PROVE  ended(t)'
<1>1. \A r \in RunsOf(t) : r \in Run /\ (runs[r].st # "Absent" <=> runs'[r].st # "Absent")
  BY ZenonT(60), RunsOfType DEF exists
<1>2. \A r \in RunsOf(t) : runs[r].st \in DoneState => runs'[r].st = runs[r].st
  BY Zenon, <1>1, RunsGoOn
<1> QED  BY ZenonT(60), <1>1, <1>2 DEF ended, existing

(***************************************************************************)
(* A PipelineRun that ends by itself leaves no run going, and no final     *)
(* task without a run that it does not report as skipped: what is said of  *)
(* the status st that is written or about to be.                           *)
(***************************************************************************)
Quiet(st) == st.reason \in EndsByItself => \A t \in Tasks : ended(t)

Guaranteed(st) ==
  st.reason \in EndsByItself => \A t \in FinalTasks : existing(t) # {} \/ t \in st.skipped

OutcomeInv ==
  /\ ReadsOwnWrites => Quiet(pr.st) /\ (rec.pc = "write" => Quiet(rec.st))
  /\ Guaranteed(pr.st) /\ (rec.pc = "write" => Guaranteed(rec.st))

\* With ReadsOwnWrites, a task whose runs a reconcile sees done has ended.
LEMMA SeenDoneEnded ==
  ASSUME SInv, ReadsOwnWrites, rec.pc # "idle", NEW t \in Tasks, runsDone(Facts(rec), t)
  PROVE  ended(t)
<1>1. exists(rec.view) = exists(runs)
  BY Zenon DEF SInv, IInv, SeesAllInv
<1>2. ASSUME NEW r \in existing(t) PROVE runs[r].st \in DoneState
  <2>1. r \in RunsOf(t) /\ r \in Run /\ runs[r].st # "Absent"
    BY ZenonT(60), RunsOfType DEF existing
  <2>2. rec.view[r].st # "Absent"
    BY ZenonT(60), <1>1, <2>1 DEF exists
  <2>3. rec.view[r].st \in DoneState
    BY ZenonT(60), <2>1, <2>2, FactsOfRec DEF runsDone, runsSeen
  <2> QED  BY ZenonT(60), <2>1, <2>3 DEF SInv, IInv, ViewsInv, Behind
<1> QED  BY ZenonT(60), <1>2 DEF ended

\* What a reconcile concludes is so.
LEMMA ConcludesOutcome ==
  ASSUME PointersTellApart, SInv, VfInv, rec.pc = "conclude",
         GetPipelineConditionStatus(Facts(rec), Skips(Facts(rec))) \in EndsByItself
  PROVE  /\ ReadsOwnWrites => \A t \in Tasks : ended(t)
         /\ \A t \in FinalTasks :
              existing(t) # {} \/ t \in GetSkippedTasks(Facts(rec), Skips(Facts(rec)))
<1> DEFINE f == Facts(rec)
           s == Skips(f)
<1>1. AreSkips(f, s) /\ VfFacts(f) /\ f.view = rec.view
  BY ZenonT(60), SkipsSolve, FactsOfRec DEF SInv, IInv
<1>2. GetPipelineConditionStatus(f, s) \in EndsByItself
  BY ZenonT(60)
<1> HIDE DEF f, s
<1>3. \A t \in Tasks : countedAs(f, s, finallySkips(f, s), t) # "Incomplete"
  BY ZenonT(60), <1>2, ReasonCounts
<1>4. ASSUME NEW t \in Tasks, isValidationFailed(f, t)
      PROVE  t \in DagTasks /\ ~isScheduled(f, t)
  <2>1. t \in f.vf
    BY ZenonT(60), <1>1, <1>4, ValidationTellsApart
  <2> QED  BY ZenonT(60), <1>1, <2>1 DEF VfFacts, isScheduled, runsSeen
<1>5. ASSUME NEW t \in Tasks PROVE runsDone(f, t)
  <2>1. \/ runsDone(f, t)
        \/ countedAs(f, s, finallySkips(f, s), t) = "ValidationFailed"
    BY ZenonT(60), <1>1, <1>3, CountedIsOver
  <2>2. CASE countedAs(f, s, finallySkips(f, s), t) = "ValidationFailed"
    <3>1. isValidationFailed(f, t)
      BY ZenonT(60), <2>2 DEF countedAs, failureCount
    <3> QED  BY ZenonT(60), <1>4, <3>1 DEF isScheduled, runsDone
  <2> QED  BY ZenonT(60), <2>1, <2>2
<1>6. ASSUME ReadsOwnWrites, NEW t \in Tasks PROVE ended(t)
  BY ZenonT(60), <1>5, <1>6, SeenDoneEnded DEF f
<1>7. ASSUME NEW t \in FinalTasks PROVE existing(t) # {} \/ t \in GetSkippedTasks(f, s)
  <2>1. t \in Tasks /\ t \notin DagTasks
    BY ZenonT(60), PipelineAssumption DEF Tasks
  <2>2. isScheduled(f, t) \/ finallySkips(f, s)[t] # "None"
    <3>1. isSuccessful(f, t) \/ isCancelledForTimeOut(f, t) \/ isCancelled(f, t) \/ isFailure(f, t)
            => isScheduled(f, t)
      BY ZenonT(60) DEF isSuccessful, isCancelledForTimeOut, isCancelled, isFailure,
                        haveAnyRunsFailed, isScheduled
    <3>2. ~isValidationFailed(f, t)
      BY ZenonT(60), <1>4, <2>1
    <3> QED  BY ZenonT(60), <1>3, <2>1, <3>1, <3>2 DEF countedAs
  <2>3. CASE isScheduled(f, t)
    <3>1. PICK r \in RunsOf(t) : rec.view[r].st # "Absent"
      BY ZenonT(60), <1>1, <2>3 DEF isScheduled, runsSeen
    <3>2. r \in Run
      BY ZenonT(60), <2>1, RunsOfType
    <3> QED  BY ZenonT(60), <3>1, <3>2 DEF SInv, IInv, ViewsInv, Behind, existing
  <2> QED  BY ZenonT(60), <2>2, <2>3 DEF GetSkippedTasks
<1> QED  BY ZenonT(60), <1>6, <1>7 DEF f, s

\* Every step keeps what is said of the outcome.
LEMMA NextOutcomeInv ==
  ASSUME PointersTellApart, SInv, VfInv, OutcomeInv, [Next]_vars
  PROVE  OutcomeInv'
<1>1. TypeOK
  BY DEF SInv, IInv
<1>2. EndsByItself \subseteq SucceededReason \cup FailedReason
  BY ZenonT(60) DEF EndsByItself, SucceededReason, FailedReason
<1>3. \A t \in FinalTasks : existing(t) # {} => existing(t)' # {}
  <2>1. \A t \in FinalTasks : \A r \in RunsOf(t) : r \in Run
    BY ZenonT(60), RunsOfType DEF Tasks
  <2> QED  BY Zenon, <1>1, <2>1, RunsGoOn DEF existing
<1>4. ASSUME NEW st, Guaranteed(st)
      PROVE  st.reason \in EndsByItself =>
               \A t \in FinalTasks : existing(t)' # {} \/ t \in st.skipped
  BY ZenonT(60), <1>3, <1>4 DEF Guaranteed
<1>5. ASSUME rec.pc # "create", NEW st, Quiet(st)
      PROVE  st.reason \in EndsByItself => \A t \in Tasks : ended(t)'
  BY Zenon, <1>1, <1>5, NoneCreated, EndedStays DEF Quiet
<1>6. pr'.st = pr.st \/ (rec.pc = "write" /\ pr'.st = rec.st)
  BY ZenonT(60), WrittenStatus
<1>7. Guaranteed(pr.st)'
  BY ZenonT(60), <1>4, <1>6 DEF OutcomeInv, Guaranteed
<1>8. ReadsOwnWrites => Quiet(pr.st)'
  <2> SUFFICES ASSUME ReadsOwnWrites, pr'.st.reason \in EndsByItself
               PROVE  \A t \in Tasks : ended(t)'
    BY ZenonT(60) DEF Quiet
  <2>1. CASE pr'.st = pr.st
    <3>1. rec.pc = "idle"
      BY ZenonT(60), <1>2, <2>1 DEF SInv, StatusInv, IsDone
    <3> QED  BY ZenonT(60), <1>5, <2>1, <3>1 DEF OutcomeInv
  <2>2. CASE rec.pc = "write" /\ pr'.st = rec.st
    BY ZenonT(60), <1>5, <2>2 DEF OutcomeInv
  <2> QED  BY ZenonT(60), <1>6, <2>1, <2>2
<1>9. ASSUME rec'.pc = "write"
      PROVE  Guaranteed(rec.st)' /\ (ReadsOwnWrites => Quiet(rec.st)')
  <2>1. CASE rec.pc = "write"
    <3>1. rec' = rec
      BY ZenonT(60), <1>9, <2>1, WrittenStatus
    <3>2. Guaranteed(rec.st)'
      BY ZenonT(60), <1>4, <2>1, <3>1 DEF OutcomeInv, Guaranteed
    <3>3. ReadsOwnWrites => Quiet(rec.st)'
      BY ZenonT(60), <1>5, <2>1, <3>1 DEF OutcomeInv, Quiet
    <3> QED  BY ZenonT(60), <3>2, <3>3
  <2>2. CASE rec.pc # "write"
    <3> SUFFICES ASSUME rec'.st.reason \in EndsByItself
                 PROVE  /\ ReadsOwnWrites => \A t \in Tasks : ended(t)'
                        /\ \A t \in FinalTasks : existing(t)' # {} \/ t \in rec'.st.skipped
      BY ZenonT(60) DEF Guaranteed, Quiet
    <3>1. /\ UNCHANGED runs /\ rec.pc = "conclude"
          /\ rec'.st.reason = GetPipelineConditionStatus(Facts(rec), Skips(Facts(rec)))
          /\ rec'.st.skipped = GetSkippedTasks(Facts(rec), Skips(Facts(rec)))
      BY ZenonT(60), <1>9, <2>2, WrittenReasons DEF EndsByItself
    <3>2. /\ ReadsOwnWrites => \A t \in Tasks : ended(t)
          /\ \A t \in FinalTasks : existing(t) # {} \/ t \in rec'.st.skipped
      BY ZenonT(60), <3>1, ConcludesOutcome
    <3> QED  BY ZenonT(60), <3>1, <3>2 DEF ended, existing
  <2> QED  BY ZenonT(60), <2>1, <2>2
<1> QED  BY ZenonT(60), <1>7, <1>8, <1>9 DEF OutcomeInv

\* The outcome is as said throughout.
LEMMA OutcomeInvHolds == PointersTellApart => (Spec => [](SInv /\ VfInv /\ OutcomeInv))
<1> SUFFICES ASSUME PointersTellApart PROVE Spec => [](SInv /\ VfInv /\ OutcomeInv)
  BY ZenonT(60)
<1>1. Init => VfInv /\ OutcomeInv
  <2> SUFFICES ASSUME Init PROVE VfInv /\ OutcomeInv
    BY ZenonT(60)
  <2>1. rec = NoReconcile /\ pr.st = NewStatus
    BY DEF Init
  <2>2. NoReconcile.pc = "idle" /\ NoReconcile.vf = {} /\ NewStatus.reason = ""
    BY ZenonT(60) DEF NoReconcile, NewStatus
  <2> QED  BY Zenon, <2>1, <2>2 DEF VfInv, OutcomeInv, Quiet, Guaranteed, EndsByItself
<1>2. SInv /\ VfInv /\ [Next]_vars => VfInv'
  BY ZenonT(60), NextVfInv DEF SInv, IInv
<1>3. SInv /\ VfInv /\ OutcomeInv /\ [Next]_vars => OutcomeInv'
  BY ZenonT(60), NextOutcomeInv
<1> QED  BY <1>1, <1>2, <1>3, SInvHolds, PTL DEF Spec

(***************************************************************************)
(* A PipelineRun that ended by itself has no child run still going: what   *)
(* getPipelineTasksCount counts as anything but incomplete is over, in the *)
(* cluster too.                                                            *)
(***************************************************************************)
THEOREM DoneIsQuiet ==
  ReadsOwnWrites /\ PointersTellApart => (Spec => []DoneMeansQuiet)
<1> SUFFICES ASSUME ReadsOwnWrites, PointersTellApart PROVE Spec => []DoneMeansQuiet
  BY ZenonT(60)
<1>1. OutcomeInv => DoneMeansQuiet
  BY DEF OutcomeInv, Quiet, DoneMeansQuiet, EndsByItself
<1> QED  BY <1>1, OutcomeInvHolds, PTL

(***************************************************************************)
(* A PipelineRun that ended by itself has started every final task or      *)
(* reports it as skipped: with stale caches, crashes and failing calls     *)
(* too.                                                                    *)
(***************************************************************************)
THEOREM FinallyIsGuaranteed ==
  PointersTellApart => (Spec => []FinallyGuaranteed)
<1> SUFFICES ASSUME PointersTellApart PROVE Spec => []FinallyGuaranteed
  BY ZenonT(60)
<1>1. OutcomeInv => FinallyGuaranteed
  BY ZenonT(60) DEF OutcomeInv, Guaranteed, FinallyGuaranteed, EndsByItself
<1> QED  BY <1>1, OutcomeInvHolds, PTL

-----------------------------------------------------------------------------
(***************************************************************************)
(* Final tasks come last, with caches that hold the reconciler's own       *)
(* writes.                                                                 *)
(***************************************************************************)
\* A run that exists or is about to be created.
Planned(r) == runs[r].st # "Absent" \/ (rec.pc = "create" /\ r \in rec.todo)

\* The user has asked the PipelineRun to stop, one way or another, and takes it back never.
stopped(spec) == spec \in {"Cancelled", "CancelledRunFinally", "StoppedRunFinally"}
StopsForGood == \A u \in UserSteps : stopped(u[1]) => stopped(u[2])

(***************************************************************************)
(* A reconcile that sees f starts no DAG task: the PipelineRun is to stop, *)
(* no task is ready, or one that is ready lacks results it uses.           *)
(***************************************************************************)
NothingToStart(f) ==
  \/ stopped(f.spec)
  \/ DAGExecutionQueue(f, Skips(f)) = {}
  \/ \E t \in DAGExecutionQueue(f, Skips(f)) : missingResults(f, t)

\* Two sets of facts that agree on what matters to the DAG tasks.
Agree(f, g) ==
  /\ f.vf = {} /\ g.vf = {}
  /\ ~stopped(f.spec) /\ ~stopped(g.spec)
  /\ dagDeadlines(f) = {} /\ dagDeadlines(g) = {}
  /\ \A r \in Run : r[1] \in DagTasks =>
       /\ f.view[r].st = g.view[r].st
       /\ f.view[r].st # "Absent" => f.view[r].res = g.view[r].res

\* They lead to the same conclusions about every DAG task,
LEMMA AgreeTasks ==
  ASSUME NEW f, NEW g, Agree(f, g), NEW t \in DagTasks
  PROVE  /\ runsSeen(f, t) = runsSeen(g, t) /\ isScheduled(f, t) = isScheduled(g, t)
         /\ isFailure(f, t) = isFailure(g, t) /\ finished(f, t) = finished(g, t)
         /\ unresolved(f, t) = unresolved(g, t) /\ missingResults(f, t) = missingResults(g, t)
<1>1. ASSUME NEW p \in DagTasks
      PROVE  /\ runsSeen(f, p) = runsSeen(g, p)
             /\ \A r \in runsSeen(f, p) : /\ f.view[r].st = g.view[r].st
                                          /\ f.view[r].res = g.view[r].res
  <2>1. \A r \in RunsOf(p) : r \in Run /\ r[1] \in DagTasks
    BY RunsOfType DEF RunsOf, Tasks
  <2> QED  BY ZenonT(60), <2>1 DEF runsSeen, Agree
<1>2. ASSUME NEW p \in DagTasks
      PROVE  /\ isScheduled(f, p) = isScheduled(g, p)
             /\ isFailure(f, p) = isFailure(g, p) /\ finished(f, p) = finished(g, p)
             /\ (\E r \in runsSeen(f, p) : ~f.view[r].res) = (\E r \in runsSeen(g, p) : ~g.view[r].res)
  <2>1. isScheduled(f, p) = isScheduled(g, p)
    BY ZenonT(60), <1>1 DEF isScheduled
  <2>2. isFailure(f, p) = isFailure(g, p)
    BY ZenonT(60), <1>1 DEF isFailure, haveAnyRunsFailed, runsDone
  <2>3. isSuccessful(f, p) = isSuccessful(g, p)
    BY ZenonT(60), <1>1 DEF isSuccessful, isScheduled
  <2>4. (\E r \in runsSeen(f, p) : ~f.view[r].res) = (\E r \in runsSeen(g, p) : ~g.view[r].res)
    BY ZenonT(60), <1>1
  <2> QED  BY ZenonT(60), <2>1, <2>2, <2>3, <2>4 DEF finished
<1>3. ResultRefs[t] \subseteq DagTasks
  BY ZenonT(60), PipelineAssumption DEF Tasks
<1>4. unresolved(f, t) = unresolved(g, t)
  BY ZenonT(60), <1>2, <1>3 DEF unresolved
<1>5. missingResults(f, t) = missingResults(g, t)
  BY ZenonT(60), <1>2, <1>3 DEF missingResults
<1> QED  BY ZenonT(60), <1>1, <1>2, <1>4, <1>5

\* skip them alike,
LEMMA AgreeSkips ==
  ASSUME NEW f, NEW g, Agree(f, g)
  PROVE  Skips(f) = Skips(g) /\ IsStopping(f) = IsStopping(g)
<1>1. \A t : ~isValidationFailed(f, t) /\ ~isValidationFailed(g, t)
  BY ZenonT(60) DEF Agree, isValidationFailed
<1>2. IsStopping(f) = IsStopping(g)
  BY ZenonT(60), <1>1, AgreeTasks DEF IsStopping
<1> DEFINE s == Skips(f)
<1>3. AreSkips(f, s)
  BY ZenonT(60), SkipsSolve
<1> HIDE DEF s
<1>4. ASSUME NEW t \in DagTasks PROVE skip(f, s, t) = skip(g, s, t)
  <2>1. isScheduled(f, t) = isScheduled(g, t) /\ unresolved(f, t) = unresolved(g, t)
    BY ZenonT(60), AgreeTasks
  <2>2. \A p \in Prev[t] : isDone(f, s, p) = isDone(g, s, p)
    BY ZenonT(60), <1>1, AgreeTasks, PipelineAssumption DEF isDone
  <2>3. (\A p \in Prev[t] : isDone(f, s, p)) = (\A p \in Prev[t] : isDone(g, s, p))
    BY ZenonT(60), <2>2
  <2>4. firstUnresolved(f, t) = firstUnresolved(g, t)
    BY ZenonT(60), <2>1 DEF firstUnresolved
  <2>5. /\ f.spec \notin {"CancelledRunFinally", "StoppedRunFinally"}
        /\ g.spec \notin {"CancelledRunFinally", "StoppedRunFinally"}
        /\ f.el \cap {"pipeline", "tasks"} = {} /\ g.el \cap {"pipeline", "tasks"} = {}
    BY ZenonT(60) DEF Agree, stopped, dagDeadlines
  <2> QED  BY ZenonT(60), <1>1, <1>2, <2>1, <2>3, <2>4, <2>5 DEF skip
<1>5. AreSkips(g, s)
  BY ZenonT(60), <1>3, <1>4 DEF AreSkips
<1>6. s = Skips(g)
  BY ZenonT(60), <1>5, SkipsSolve, SkipsUnique
<1> QED  BY ZenonT(60), <1>2, <1>6 DEF s

\* and queue the same ones.
LEMMA AgreeNothing ==
  ASSUME NEW f, NEW g, Agree(f, g), NothingToStart(f)
  PROVE  NothingToStart(g)
<1> DEFINE s == Skips(f)
<1>1. s = Skips(g) /\ IsStopping(f) = IsStopping(g)
  BY ZenonT(60), AgreeSkips
<1>2. \A t : ~isValidationFailed(f, t) /\ ~isValidationFailed(g, t)
  BY ZenonT(60) DEF Agree, isValidationFailed
<1>3. /\ f.spec \notin {"CancelledRunFinally", "StoppedRunFinally"}
      /\ g.spec \notin {"CancelledRunFinally", "StoppedRunFinally"}
      /\ ~stopped(f.spec)
  BY ZenonT(60) DEF Agree, stopped
<1>4. \/ DAGExecutionQueue(f, s) = {}
      \/ \E t \in DAGExecutionQueue(f, s) : missingResults(f, t)
  BY ZenonT(60), <1>3 DEF NothingToStart
<1> HIDE DEF s
<1>5. completedOrSkippedDAGTasks(f, s) = completedOrSkippedDAGTasks(g, s)
  BY ZenonT(60), <1>2, AgreeTasks DEF completedOrSkippedDAGTasks, isDone
<1>6. DAGExecutionQueue(f, s) = DAGExecutionQueue(g, s)
  BY <1>1, <1>3, <1>5, AgreeTasks DEF DAGExecutionQueue, GetCandidateTasks
<1>7. DAGExecutionQueue(f, s) \subseteq DagTasks
  BY ZenonT(60) DEF DAGExecutionQueue, GetCandidateTasks
<1>8. \/ DAGExecutionQueue(g, s) = {}
      \/ \E t \in DAGExecutionQueue(g, s) : missingResults(g, t)
  BY ZenonT(60), <1>4, <1>6, <1>7, AgreeTasks
<1> QED  BY ZenonT(60), <1>1, <1>8 DEF NothingToStart

\* Once the tasks or the pipeline deadline has passed, no DAG task is started.
LEMMA LateNothing ==
  ASSUME NEW f, f.vf = {}, dagDeadlines(f) # {}
  PROVE  NothingToStart(f)
BY Zenon, LateQueue DEF NothingToStart

(***************************************************************************)
(* What the caches and the reconcile have to do with each other: a run     *)
(* that a reconcile sees done is so in the caches; a user who stops the    *)
(* PipelineRun is heeded for good; the clock runs from the start time in   *)
(* the status; and a cancelled PipelineRun is not scheduled.               *)
(***************************************************************************)
plans == rec.pc = "plan" \/ (rec.pc = "patch" /\ rec.why \in {"graceful", "tasks"})

CachesInv ==
  /\ \A r \in Run : rec.view[r].st \in DoneState =>
       lister[r].st = rec.view[r].st /\ lister[r].res = rec.view[r].res
  /\ stopped(prCache.spec) => stopped(pr.spec)
  /\ rec.pc # "idle" /\ stopped(rec.spec) => stopped(prCache.spec)
  /\ elapsed # {} => pr.st.started
  /\ plans => rec.spec # "Cancelled"

\* A reconcile sees a run differently only when it creates it.
LEMMA ViewSteps ==
  ASSUME TypeOK, [Next]_vars, rec.pc # "idle", rec'.pc # "idle", NEW r \in Run
  PROVE  rec'.view[r] = rec.view[r] \/ (CreateRun /\ r \in rec.todo /\ rec'.view[r] = Created)
<1>1. rec \in ReconcileType /\ rec.view \in [Run -> RunRecord]
  BY Zenon DEF TypeOK, ReconcileType
<1>2. CASE RunNextSchedulableTask
  <2>1. ASSUME NEW f, NEW s, NEW vf, NEW fresh, rec' = schedule(rec, f, s, vf, fresh)
        PROVE  rec'.view = rec.view
    BY <1>1, <2>1, ScheduleSets
  <2> QED  BY ZenonT(60), <1>2, <2>1, NextSchedules
<1>3. CASE CreateRun
  <2>1. PICK q \in Run : /\ q \in rec.todo
                         /\ \/ rec' = [rec EXCEPT !.todo = @ \ {q}, !.view[q] = Created]
                            \/ rec' = end([rec EXCEPT !.clean = FALSE], "retry", rec.st)
    BY Zenon, <1>3 DEF CreateRun, creating
  <2>2. CASE rec' = [rec EXCEPT !.todo = @ \ {q}, !.view[q] = Created]
    <3>1. rec'.view = [rec.view EXCEPT ![q] = Created]
      BY ZenonT(60), <1>1, <2>2 DEF ReconcileType
    <3> QED  BY ZenonT(60), <1>1, <1>3, <2>1, <3>1
  <2>3. CASE rec' = end([rec EXCEPT !.clean = FALSE], "retry", rec.st)
    <3> DEFINE R == [rec EXCEPT !.clean = FALSE]
    <3>1. R \in ReconcileType /\ R.view = rec.view /\ rec' = end(R, "retry", rec.st)
      BY ZenonT(60), <1>1, <2>3 DEF ReconcileType
    <3> HIDE DEF R
    <3>2. rec'.view = R.view
      BY <3>1, EndSets
    <3> QED  BY ZenonT(60), <3>1, <3>2
  <2> QED  BY ZenonT(60), <2>1, <2>2, <2>3
<1> QED  BY ZenonT(60), <1>2, <1>3, WorkSees DEF SeesTheSame

\* Planning follows the patches for tasks.
LEMMA PlanSteps ==
  ASSUME TypeOK, [Next]_vars, rec.pc # "idle", plans'
  PROVE  plans
<1>1. rec \in ReconcileType
  BY ZenonT(60) DEF TypeOK
<1>2. ASSUME NEW R \in ReconcileType, NEW out, NEW st, rec' = end(R, out, st) PROVE FALSE
  BY ZenonT(60), <1>2, EndSets DEF plans
<1>3. CASE rec' = rec
  BY ZenonT(60), <1>3 DEF plans
<1>4. CASE Patching
  <2>1. CASE PatchRun \/ PatchRunFails
    BY ZenonT(60), <1>1, <2>1 DEF PatchRun, PatchRunFails, ReconcileType, plans
  <2>2. CASE CancelDone \/ LongTimeoutDone
    BY ZenonT(60), <1>1, <1>2, <2>2 DEF CancelDone, LongTimeoutDone
  <2>3. CASE GracefulCancelDone \/ TaskTimeoutsDone
    BY ZenonT(60), <2>3 DEF GracefulCancelDone, TaskTimeoutsDone, patchesDone, plans
  <2>4. CASE PipelineTimeoutDone
    <3>1. rec' = [rec EXCEPT !.pc = "conclude", !.st.reason = "TimedOut"] => rec'.pc = "conclude"
      BY Zenon, <1>1 DEF ReconcileType
    <3> QED  BY ZenonT(60), <1>1, <1>2, <2>4, <3>1 DEF PipelineTimeoutDone, plans
  <2> QED  BY ZenonT(60), <1>4, <2>1, <2>2, <2>3, <2>4 DEF Patching
<1>5. CASE Scheduling
  <2>1. CASE RunNextSchedulableTask
    BY ZenonT(60), <2>1 DEF RunNextSchedulableTask, plans
  <2>2. CASE ScheduleDone
    <3>1. rec' = [rec EXCEPT !.pc = "conclude"] => rec'.pc = "conclude"
      BY ZenonT(60), <1>1 DEF ReconcileType
    <3>2. rec' = patch(rec, "pipeline", rec.st.childRefs) => rec'.why = "pipeline" /\ rec'.pc = "patch"
      BY <1>1, PatchSets
    <3> QED  BY ZenonT(60), <2>2, <3>1, <3>2 DEF ScheduleDone, plans
  <2>3. CASE CreateRun \/ CreateRunFails
    <3> DEFINE R == [rec EXCEPT !.clean = FALSE]
    <3>1. R \in ReconcileType
      BY ZenonT(40), <1>1 DEF ReconcileType
    <3>2. rec.pc = "create" /\ \E r : \/ rec' = [rec EXCEPT !.todo = @ \ {r}, !.view[r] = Created]
                                     \/ \E out, st : rec' = end(R, out, st)
      BY Zenon, <2>3 DEF CreateRun, CreateRunFails, creating
    <3>3. \A r : rec' = [rec EXCEPT !.todo = @ \ {r}, !.view[r] = Created] => rec'.pc = rec.pc
      BY Zenon, <1>1 DEF ReconcileType
    <3> HIDE DEF R
    <3> QED  BY ZenonT(60), <1>2, <3>1, <3>2, <3>3 DEF plans
  <2>4. CASE SkipFinalTask
    <3>1. PICK T : rec.pc = "create" /\ rec' = [rec EXCEPT !.todo = @ \ T]
      BY Zenon, <2>4 DEF SkipFinalTask, creating
    <3>2. rec'.pc = "create"
      BY ZenonT(60), <1>1, <3>1 DEF ReconcileType
    <3> QED  BY ZenonT(60), <3>2 DEF plans
  <2> QED  BY ZenonT(60), <1>5, <2>1, <2>2, <2>3, <2>4 DEF Scheduling
<1>6. CASE Finishing
  <2>1. UpdateStatus \/ UpdateStatusFails => rec'.pc = "idle"
    BY ZenonT(60), NoReconcileSeesNothing DEF UpdateStatus, UpdateStatusFails
  <2> QED  BY ZenonT(60), <1>1, <1>2, <1>6, <2>1 DEF Finishing, Conclude, ConcludeWithoutResult,
                                                     plans
<1>7. ~Begin
  BY Zenon DEF Begin, ReconcileDone, ReconcileLongTimeout, ReconcileCancelled, ReconcilePending,
         Reconcile, ReconcileInvalid, ReconcileRetry, ReconcileResolving, reconciles, Dequeue
<1>8. Environment \/ UNCHANGED vars => rec' = rec
  <2>1. Crash => rec'.pc = "idle"
    BY ZenonT(60), NoReconcileSeesNothing DEF Crash
  <2> QED  BY ZenonT(60), <2>1 DEF Environment, SetSpecStatus, InformPipelineRun, InformTaskRuns,
              InformCustomRuns, InformRuns, RunEnds, DeadlinePasses, Rest, vars, plans
<1> QED  BY ZenonT(60), <1>3, <1>4, <1>5, <1>6, <1>7, <1>8 DEF Next, Reconciler

\* Every step keeps caches and reconcile together.
LEMMA NextCachesInv ==
  ASSUME ReadsOwnWrites, StopsForGood, SInv, CachesInv, [Next]_vars
  PROVE  CachesInv'
<1>1. TypeOK /\ ViewsInv
  BY ZenonT(60) DEF SInv, IInv
<1>2. plans' => rec'.spec # "Cancelled"
  <2> SUFFICES ASSUME plans' PROVE rec'.spec # "Cancelled"
    BY ZenonT(60)
  <2>1. CASE Starts
    BY ZenonT(60), <2>1 DEF Starts, plans
  <2>2. CASE rec.pc # "idle" /\ ~Stops
    <3>1. plans
      BY ZenonT(60), <1>1, <2>2, PlanSteps
    <3>2. rec'.spec = rec.spec
      BY ZenonT(60), <1>1, <2>2, StepKinds DEF Starts, Works, GoesOn
    <3> QED  BY ZenonT(60), <3>1, <3>2 DEF CachesInv
  <2>3. ~Stops
    BY ZenonT(60), NoReconcileSeesNothing DEF Stops, plans
  <2>4. rec.pc = "idle" => Starts
    BY ZenonT(60), <1>1, <2>3, StepKinds DEF Works, GoesOn, plans
  <2> QED  BY ZenonT(60), <2>1, <2>2, <2>3, <2>4
<1>3. CASE Starts
  BY ZenonT(60), <1>2, <1>3 DEF Starts, CachesInv
<1>4. CASE Works
  <2>1. UNCHANGED <<pr, prCache, lister, elapsed>> /\ rec'.spec = rec.spec /\ rec.pc # "idle" /\ rec'.pc # "idle"
    BY ZenonT(60), <1>4 DEF Works
  <2>2. Created.st \notin DoneState
    BY ZenonT(60) DEF Created, DoneState
  <2>3. \A r \in Run : rec'.view[r] = rec.view[r] \/ rec'.view[r] = Created
    BY ZenonT(60), <1>1, <2>1, ViewSteps
  <2> QED  BY ZenonT(60), <1>2, <2>1, <2>2, <2>3 DEF CachesInv
<1>5. CASE Stops
  <2>1. \A r \in Run : rec'.view[r].st = "Absent"
    BY ZenonT(60), <1>5, NoReconcileSeesNothing DEF Stops
  <2>2. rec'.pc = "idle" /\ "Absent" \notin DoneState
    BY ZenonT(60), <1>5, NoReconcileSeesNothing DEF Stops, DoneState
  <2>3. stopped(prCache'.spec) => stopped(pr'.spec)
    BY ZenonT(60), <1>5 DEF Stops, CachesInv
  <2>4. elapsed' # {} => pr'.st.started
    BY ZenonT(60), <1>5 DEF Stops, CachesInv, SInv, StatusInv
  <2> QED  BY ZenonT(60), <1>2, <2>1, <2>2, <2>3, <2>4 DEF CachesInv
<1>6. CASE GoesOn
  <2>1. ASSUME NEW r \in Run, rec.view[r].st \in DoneState
        PROVE  lister'[r].st = rec.view[r].st /\ lister'[r].res = rec.view[r].res
    BY ZenonT(60), <1>1, <1>6, <2>1 DEF GoesOn, CachesInv, ViewsInv, Behind
  <2>2. /\ stopped(prCache'.spec) => stopped(pr'.spec)
        /\ stopped(prCache.spec) => stopped(prCache'.spec)
    BY ZenonT(60), <1>6 DEF GoesOn, CachesInv, StopsForGood
  <2>3. elapsed' # {} => pr'.st.started
    BY ZenonT(60), <1>6 DEF GoesOn, CachesInv
  <2> QED  BY ZenonT(60), <1>2, <1>6, <2>1, <2>2, <2>3 DEF GoesOn, CachesInv
<1> QED  BY ZenonT(60), <1>1, <1>3, <1>4, <1>5, <1>6, StepKinds

\* What a reconcile would find if it began now, with spec.status spec.
FactsNow(spec) == [view |-> lister, spec |-> spec, vf |-> {}, el |-> elapsed]

\* A final task has a run, or is about to get one.
FinalWanted == \E r \in Run : r[1] \in FinalTasks /\ Planned(r)

\* The DAG tasks are over, for the caches and for the reconcile, and none is being started.
DagOver ==
  \A r \in Run : r[1] \in DagTasks =>
    /\ runs[r].st # "Absent" =>
         lister[r].st \in DoneState /\ (rec.pc # "idle" => rec.view[r].st \in DoneState)
    /\ ~(rec.pc = "create" /\ r \in rec.todo)

\* From the first final task on, neither this reconcile nor the next starts a DAG task.
FinallyInv ==
  FinalWanted =>
    /\ DagOver
    /\ NothingToStart(FactsNow(prCache.spec))
    /\ rec.pc # "idle" => NothingToStart(FactsNow(rec.spec))

\* What a reconcile finds while it plans leaves it nothing to start either.
LEMMA PlanFindsNothing ==
  ASSUME ReadsOwnWrites, SInv, CachesInv, rec.pc = "plan", DagOver,
         NothingToStart(FactsNow(rec.spec))
  PROVE  NothingToStart(Facts(rec))
<1> DEFINE f == Facts(rec)
           g == FactsNow(rec.spec)
<1>1. f.vf = {} /\ f.view = rec.view /\ f.spec = rec.spec /\ f.el = deadlinesPassed(rec)
  BY ZenonT(60) DEF SInv, IInv, ValidationInv, Facts
<1>2. g.vf = {} /\ g.view = lister /\ g.spec = rec.spec /\ g.el = elapsed
  BY ZenonT(60) DEF FactsNow
<1>3. dagDeadlines(f) = dagDeadlines(g)
  <2>1. elapsed # {} => rec.orig.started
    BY ZenonT(60) DEF CachesInv, SInv, StatusInv
  <2> QED  BY ZenonT(60), <1>1, <1>2, <2>1 DEF dagDeadlines, deadlinesPassed
<1> HIDE DEF f, g
<1>4. CASE stopped(rec.spec)
  BY ZenonT(60), <1>1, <1>4 DEF NothingToStart, f
<1>5. CASE dagDeadlines(f) # {}
  BY ZenonT(60), <1>1, <1>5, LateNothing DEF f
<1>6. CASE ~stopped(rec.spec) /\ dagDeadlines(f) = {}
  <2>1. ASSUME NEW r \in Run, r[1] \in DagTasks
        PROVE  /\ lister[r].st = rec.view[r].st
               /\ lister[r].st # "Absent" => lister[r].res = rec.view[r].res
    BY ZenonT(60), <2>1 DEF DagOver, SInv, IInv, ViewsInv, Behind
  <2>2. Agree(g, f)
    BY ZenonT(60), <1>1, <1>2, <1>3, <1>6, <2>1 DEF Agree
  <2> QED  BY ZenonT(60), <2>2, AgreeNothing DEF f, g
<1> QED  BY ZenonT(60), <1>4, <1>5, <1>6

\* A reconcile that finds nothing to start starts no DAG task.
LEMMA NothingScheduled ==
  ASSUME SInv, CachesInv, RunNextSchedulableTask, NothingToStart(Facts(rec)),
         rec'.pc = "create", NEW r \in rec'.todo
  PROVE  r[1] \notin DagTasks
<1> DEFINE f == Facts(rec)
           s == Skips(f)
           vf == {t \in DAGExecutionQueue(f, s) : missingResults(f, t)}
           fresh == Skips([f EXCEPT !.vf = vf])
<1>1. TypeOK /\ rec \in ReconcileType
  BY ZenonT(60) DEF SInv, IInv, TypeOK
<1>2. rec.pc = "plan" /\ rec' = schedule(rec, f, s, vf, fresh) /\ f.spec = rec.spec
  BY ZenonT(60), <1>1, NextSchedules DEF Facts
<1>3. vf = {} => \A t \in DAGExecutionQueue(f, s) : ~missingResults(f, t)
  BY ZenonT(60)
<1>4. stopped(f.spec) => DAGExecutionQueue(f, s) = {}
  BY ZenonT(60), <1>2 DEF CachesInv, plans, stopped, DAGExecutionQueue
<1>5. vf = {} => DAGExecutionQueue(f, s) = {}
  BY ZenonT(60), <1>3, <1>4 DEF NothingToStart
<1> HIDE DEF f, s, vf, fresh
<1>6. (r[1] \in DAGExecutionQueue(f, s) /\ vf = {}) \/ r[1] \in FinalTasks
  BY <1>1, <1>2, ScheduleSets
<1> QED  BY ZenonT(60), <1>5, <1>6, PipelineAssumption

(***************************************************************************)
(* When the tasks of finally are scheduled, every DAG task is over as far  *)
(* as the reconcile sees, and nothing is left to start.                    *)
(***************************************************************************)
LEMMA FinallyScheduled ==
  ASSUME PointersTellApart, SInv, RunNextSchedulableTask, rec'.pc = "create",
         NEW r \in rec'.todo, r[1] \in FinalTasks
  PROVE  /\ \A t \in DagTasks : runsDone(Facts(rec), t)
         /\ NothingToStart(Facts(rec))
         /\ \A q \in rec'.todo : q[1] \notin DagTasks
<1> DEFINE f == Facts(rec)
           s == Skips(f)
           vf == {t \in DAGExecutionQueue(f, s) : missingResults(f, t)}
           g == [f EXCEPT !.vf = vf]
           fresh == Skips(g)
           mix == [u \in DagTasks |-> IF u \in skipCache(f, s) THEN s[u] ELSE fresh[u]]
<1>1. TypeOK /\ rec \in ReconcileType
  BY ZenonT(60) DEF SInv, IInv, TypeOK
<1>2. rec.pc = "plan" /\ rec' = schedule(rec, f, s, vf, fresh)
  BY ZenonT(60), <1>1, NextSchedules
<1>3. AreSkips(f, s) /\ AreSkips(g, fresh)
  BY ZenonT(60), SkipsSolve
<1>4. f.vf = {} /\ f.view = rec.view
  BY ZenonT(60), <1>2 DEF SInv, IInv, ValidationInv, Facts
<1>5. g.view = f.view /\ g.vf = vf /\ (vf = {} => g = f)
  BY ZenonT(60), <1>4 DEF Facts
<1>6. VfFacts(g)
  <2>1. \A t \in vf : t \in DAGExecutionQueue(f, s) /\ missingResults(f, t)
    BY ZenonT(60)
  <2> HIDE DEF vf, f, s
  <2>2. \A t \in vf : t \in DagTasks /\ ~isScheduled(f, t) /\ ResultRefs[t] # {}
    BY ZenonT(60), <2>1 DEF DAGExecutionQueue, GetCandidateTasks, missingResults
  <2> HIDE DEF g
  <2> QED  BY ZenonT(60), <1>5, <2>2 DEF VfFacts, isScheduled, runsSeen
<1>7. vf = {} => fresh = s
  BY ZenonT(60), <1>5
<1>8. vf # {} => \E t \in DAGExecutionQueue(f, s) : missingResults(f, t)
  BY ZenonT(60)
<1> HIDE DEF vf, g, fresh, s
<1>9. \A q \in rec'.todo : \/ q[1] \in DAGExecutionQueue(f, s) /\ vf = {}
                           \/ q[1] \in FinalTasks /\ dagDone(f, s, vf, fresh)
  <2> HIDE DEF f
  <2> QED  BY ZenonT(60), <1>1, <1>2, ScheduleSets
<1>10. \A t \in DagTasks : isDone(g, mix, t)
  <2>1. DAGExecutionQueue(f, s) \subseteq DagTasks
    BY ZenonT(60) DEF DAGExecutionQueue, GetCandidateTasks
  <2>2. dagDone(f, s, vf, fresh)
    BY ZenonT(60), <1>9, <2>1, PipelineAssumption
  <2> QED  BY <2>2 DEF dagDone, checkDAGTasksDone, g
<1> HIDE DEF f
<1>11. ASSUME NEW t \in DagTasks PROVE runsDone(f, t)
  <2>1. isDone(g, mix, t) /\ t \in Tasks
    BY ZenonT(60), <1>10 DEF Tasks
  <2>2. CASE mix[t] # "None"
    <3>1. s[t] # "None" \/ fresh[t] # "None"
      BY ZenonT(60), <2>2
    <3>2. ~isScheduled(f, t) \/ ~isScheduled(g, t)
      BY ZenonT(60), <1>3, <3>1, SkippedHasNoRun
    <3> QED  BY ZenonT(60), <1>5, <3>2 DEF isScheduled, runsSeen, runsDone
  <2>3. CASE finished(g, t)
    BY ZenonT(60), <1>5, <2>3 DEF finished, isSuccessful, isFailure, runsDone, runsSeen, DoneState
  <2>4. CASE isValidationFailed(g, t)
    <3>1. t \in g.vf
      BY ZenonT(60), <1>6, <2>1, <2>4, ValidationTellsApart
    <3> QED  BY ZenonT(60), <1>5, <1>6, <3>1 DEF VfFacts, runsDone, runsSeen
  <2> HIDE DEF mix
  <2> QED  BY ZenonT(60), <2>1, <2>2, <2>3, <2>4 DEF isDone
<1>12. ASSUME vf = {} PROVE DAGExecutionQueue(f, s) = {}
  <2>1. \A t \in DagTasks : mix[t] = s[t]
    BY ZenonT(60), <1>7, <1>12
  <2>2. \A t \in DagTasks : isDone(f, s, t)
    BY ZenonT(60), <1>5, <1>10, <1>12, <2>1 DEF isDone
  <2> QED  BY ZenonT(60), <2>2 DEF DAGExecutionQueue, GetCandidateTasks,
                                   completedOrSkippedDAGTasks
<1>13. NothingToStart(f)
  BY ZenonT(60), <1>8, <1>12 DEF NothingToStart, s
<1>14. \A q \in rec'.todo : q[1] \notin DagTasks
  BY ZenonT(60), <1>9, <1>12, PipelineAssumption
<1> QED  BY Zenon, <1>11, <1>13, <1>14 DEF f

\* Steps after the first final task: the caches keep showing the DAG tasks as they are,
LEMMA FinallyCaches ==
  ASSUME SInv, [Next]_vars, FinalWanted, DagOver, NEW r \in Run, r[1] \in DagTasks
  PROVE  /\ runs'[r].st # "Absent" => runs[r].st # "Absent"
         /\ lister'[r].st = lister[r].st
         /\ lister[r].st # "Absent" => lister'[r].res = lister[r].res
<1>1. TypeOK /\ ViewsInv /\ runs \in [Run -> RunRecord]
  BY DEF SInv, IInv, TypeOK
<1>2. runs'[r].st # "Absent" => runs[r].st # "Absent"
  <2>1. CASE ~CreateRun
    BY ZenonT(60), <1>1, <2>1, OnlyCreateRunCreates
  <2>2. CASE CreateRun
    <3>1. PICK q \in Run : /\ rec.pc = "create" /\ q \in rec.todo
                           /\ runs' = [runs EXCEPT ![q] = Created] \/ runs' = runs
      BY ZenonT(60), <2>2 DEF CreateRun, creating
    <3>2. q # r
      BY ZenonT(60), <3>1 DEF DagOver
    <3> QED  BY ZenonT(60), <1>1, <3>1, <3>2
  <2> QED  BY ZenonT(60), <2>1, <2>2
<1>3. lister'[r] \in {lister[r], runs[r]}
  BY ZenonT(60), <1>1, StepKinds DEF Starts, Works, Stops, GoesOn
<1>4. /\ runs[r].st = lister[r].st
      /\ lister[r].st # "Absent" => runs[r].res = lister[r].res
  BY ZenonT(60), <1>1 DEF DagOver, ViewsInv, Behind
<1> QED  BY ZenonT(60), <1>2, <1>3, <1>4

\* so that there is still nothing to start.
LEMMA StillNothing ==
  ASSUME SInv, [Next]_vars, FinalWanted, DagOver, NEW now, NEW then,
         NothingToStart(FactsNow(now)), stopped(now) => stopped(then)
  PROVE  NothingToStart([view |-> lister', spec |-> then, vf |-> {}, el |-> elapsed'])
<1> DEFINE f == FactsNow(now)
           g == [view |-> lister', spec |-> then, vf |-> {}, el |-> elapsed']
<1>1. f.vf = {} /\ f.view = lister /\ f.spec = now /\ f.el = elapsed
  BY ZenonT(60) DEF FactsNow
<1>2. g.vf = {} /\ g.view = lister' /\ g.spec = then /\ g.el = elapsed'
  BY ZenonT(60)
<1>3. elapsed \subseteq elapsed'
  BY ZenonT(40), StepKinds DEF SInv, IInv, Starts, Works, Stops, GoesOn
<1> HIDE DEF f, g
<1>4. CASE stopped(then)
  BY ZenonT(60), <1>2, <1>4 DEF NothingToStart, g
<1>5. CASE dagDeadlines(g) # {}
  BY ZenonT(60), <1>2, <1>5, LateNothing DEF g
<1>6. CASE ~stopped(then) /\ dagDeadlines(g) = {}
  <2>1. dagDeadlines(f) = {}
    BY ZenonT(60), <1>1, <1>2, <1>3, <1>6 DEF dagDeadlines
  <2>2. \A r \in Run : r[1] \in DagTasks =>
          /\ lister'[r].st = lister[r].st
          /\ lister[r].st # "Absent" => lister'[r].res = lister[r].res
    BY ZenonT(60), FinallyCaches
  <2>3. Agree(f, g)
    BY ZenonT(60), <1>1, <1>2, <1>6, <2>1, <2>2 DEF Agree
  <2> QED  BY ZenonT(60), <2>3, AgreeNothing DEF f, g
<1> QED  BY ZenonT(60), <1>4, <1>5, <1>6

\* Every step keeps finally last.
LEMMA NextFinallyInv ==
  ASSUME ReadsOwnWrites, PointersTellApart, StopsForGood, SInv, CachesInv, CachesInv',
         FinallyInv, [Next]_vars
  PROVE  FinallyInv'
<1>1. TypeOK /\ rec \in ReconcileType /\ ViewsInv
  BY ZenonT(60) DEF SInv, IInv, TypeOK
<1>2. ASSUME FinalWanted PROVE FinallyInv'
  <2>1. DagOver /\ NothingToStart(FactsNow(prCache.spec))
    BY ZenonT(60), <1>2 DEF FinallyInv
  <2>2. stopped(prCache.spec) => stopped(prCache'.spec)
    BY ZenonT(60), <1>1, StepKinds DEF Starts, Works, Stops, GoesOn, CachesInv
  <2>3. NothingToStart(FactsNow(prCache.spec))'
    BY ZenonT(60), <1>2, <2>1, <2>2, StillNothing DEF FactsNow
  <2>4. ASSUME rec'.pc # "idle" PROVE NothingToStart(FactsNow(rec.spec))'
    <3>1. CASE rec.pc = "idle"
      <4>1. rec'.spec = prCache.spec
        BY ZenonT(60), <1>1, <2>4, <3>1, StepKinds, NoReconcileSeesNothing
           DEF Starts, Works, Stops, GoesOn
      <4> QED  BY ZenonT(60), <1>2, <2>1, <4>1, StillNothing DEF FactsNow
    <3>2. CASE rec.pc # "idle"
      <4>1. rec'.spec = rec.spec
        BY ZenonT(60), <1>1, <2>4, <3>2, StepKinds, NoReconcileSeesNothing
           DEF Starts, Works, Stops, GoesOn
      <4>2. NothingToStart(FactsNow(rec.spec))
        BY ZenonT(60), <1>2, <3>2 DEF FinallyInv
      <4> QED  BY ZenonT(60), <1>2, <2>1, <4>1, <4>2, StillNothing DEF FactsNow
    <3> QED  BY ZenonT(60), <3>1, <3>2
  <2>5. ASSUME NEW r \in Run, r[1] \in DagTasks, runs'[r].st # "Absent"
        PROVE  lister'[r].st \in DoneState /\ (rec'.pc # "idle" => rec'.view[r].st \in DoneState)
    <3>1. runs[r].st # "Absent" /\ lister'[r].st = lister[r].st /\ lister[r].st \in DoneState
      BY ZenonT(60), <1>2, <2>1, <2>5, FinallyCaches DEF DagOver
    <3>2. CASE rec.pc = "idle" /\ rec'.pc # "idle"
      <4>1. rec'.view = lister
        BY ZenonT(60), <1>1, <3>2, StepKinds, NoReconcileSeesNothing
           DEF Starts, Works, Stops, GoesOn
      <4> QED  BY ZenonT(60), <3>1, <4>1
    <3>3. CASE rec.pc # "idle" /\ rec'.pc # "idle"
      <4>1. rec.view[r].st \in DoneState
        BY ZenonT(60), <2>1, <2>5, <3>1, <3>3 DEF DagOver
      <4>2. ~(CreateRun /\ r \in rec.todo)
        BY ZenonT(60), <2>1, <2>5 DEF DagOver, CreateRun, creating
      <4>3. rec'.view[r] = rec.view[r]
        BY ZenonT(60), <1>1, <3>3, <4>2, ViewSteps
      <4> QED  BY ZenonT(60), <3>1, <4>1, <4>3
    <3> QED  BY ZenonT(60), <3>1, <3>2, <3>3
  <2>6. ASSUME NEW r \in Run, r[1] \in DagTasks, rec'.pc = "create", r \in rec'.todo
        PROVE  FALSE
    <3>1. rec.pc # "idle"
      BY ZenonT(60), <1>1, <2>6, StepKinds, NoReconcileSeesNothing
         DEF Starts, Works, Stops, GoesOn
    <3>2. CASE SeesTheSame
      BY ZenonT(60), <2>1, <2>6, <3>2 DEF SeesTheSame, DagOver
    <3>3. CASE CreateRun
      <4>1. rec.pc = "create" /\ \E q : \/ rec' = [rec EXCEPT !.todo = @ \ {q}, !.view[q] = Created]
                                       \/ rec' = end([rec EXCEPT !.clean = FALSE], "retry", rec.st)
        BY ZenonT(60), <3>3 DEF CreateRun, creating
      <4>2. rec' # end([rec EXCEPT !.clean = FALSE], "retry", rec.st)
        <5>1. [rec EXCEPT !.clean = FALSE] \in ReconcileType
          BY Zenon, <1>1 DEF ReconcileType
        <5> QED  BY <2>6, <5>1, EndSets
      <4>3. \A q : rec' = [rec EXCEPT !.todo = @ \ {q}, !.view[q] = Created]
                     => rec'.todo = rec.todo \ {q}
        BY ZenonT(60), <1>1 DEF ReconcileType
      <4> QED  BY ZenonT(40), <2>1, <2>6, <4>1, <4>2, <4>3 DEF DagOver
    <3>4. CASE RunNextSchedulableTask
      <4>1. rec.pc = "plan" /\ NothingToStart(FactsNow(rec.spec))
        BY ZenonT(60), <1>2, <3>1, <3>4 DEF RunNextSchedulableTask, FinallyInv
      <4>2. NothingToStart(Facts(rec))
        BY ZenonT(60), <2>1, <4>1, PlanFindsNothing
      <4> QED  BY ZenonT(60), <2>6, <3>4, <4>2, NothingScheduled
    <3> QED  BY ZenonT(60), <1>1, <2>6, <3>1, <3>2, <3>3, <3>4, WorkSees
  <2>7. DagOver'
    BY ZenonT(60), <2>5, <2>6 DEF DagOver
  <2> QED  BY ZenonT(60), <2>3, <2>4, <2>7 DEF FinallyInv
<1>3. ASSUME ~FinalWanted, FinalWanted' PROVE FinallyInv'
  <2>1. PICK r \in Run : r[1] \in FinalTasks /\ Planned(r)'
    BY ZenonT(60), <1>3 DEF FinalWanted
  <2>2. runs[r].st = "Absent" /\ ~(rec.pc = "create" /\ r \in rec.todo)
    BY ZenonT(60), <1>3, <2>1 DEF FinalWanted, Planned
  <2>3. runs'[r].st = "Absent"
    <3>1. CASE ~CreateRun
      BY ZenonT(60), <1>1, <2>2, <3>1, OnlyCreateRunCreates
    <3>2. CASE CreateRun
      <4>1. PICK q \in Run : /\ rec.pc = "create" /\ q \in rec.todo
                             /\ runs' = [runs EXCEPT ![q] = Created] \/ runs' = runs
        BY ZenonT(60), <3>2 DEF CreateRun, creating
      <4> QED  BY ZenonT(60), <1>1, <2>2, <4>1 DEF TypeOK
    <3> QED  BY ZenonT(60), <3>1, <3>2
  <2>4. rec'.pc = "create" /\ r \in rec'.todo
    BY ZenonT(60), <2>1, <2>3 DEF Planned
  <2>5. RunNextSchedulableTask
    <3>1. rec.pc # "idle"
      BY ZenonT(60), <1>1, <2>4, StepKinds, NoReconcileSeesNothing
         DEF Starts, Works, Stops, GoesOn
    <3>2. ~SeesTheSame
      BY ZenonT(60), <2>2, <2>4 DEF SeesTheSame
    <3>3. ~CreateRun
      <4> SUFFICES ASSUME CreateRun PROVE FALSE
        OBVIOUS
      <4>1. rec.pc = "create" /\ \E q : \/ rec' = [rec EXCEPT !.todo = @ \ {q}, !.view[q] = Created]
                                       \/ rec' = end([rec EXCEPT !.clean = FALSE], "retry", rec.st)
        BY Zenon DEF CreateRun, creating
      <4>2. rec' # end([rec EXCEPT !.clean = FALSE], "retry", rec.st)
        <5>1. [rec EXCEPT !.clean = FALSE] \in ReconcileType
          BY Zenon, <1>1 DEF ReconcileType
        <5> QED  BY <2>4, <5>1, EndSets
      <4>3. \A q : rec' = [rec EXCEPT !.todo = @ \ {q}, !.view[q] = Created]
                     => rec'.todo = rec.todo \ {q}
        BY ZenonT(60), <1>1 DEF ReconcileType
      <4> QED  BY ZenonT(60), <2>2, <2>4, <4>1, <4>2, <4>3
    <3> QED  BY ZenonT(60), <1>1, <2>4, <3>1, <3>2, <3>3, WorkSees
  <2>6. /\ \A t \in DagTasks : runsDone(Facts(rec), t)
        /\ NothingToStart(Facts(rec))
        /\ \A q \in rec'.todo : q[1] \notin DagTasks
    BY ZenonT(60), <2>1, <2>4, <2>5, FinallyScheduled
  <2>7. rec.pc = "plan" /\ UNCHANGED <<runs, lister, elapsed, prCache>>
    BY ZenonT(60), <2>5 DEF RunNextSchedulableTask, env
  <2>8. rec'.view = rec.view /\ rec'.spec = rec.spec
    <3>1. ASSUME NEW f, NEW s, NEW vf, NEW fresh, rec' = schedule(rec, f, s, vf, fresh)
          PROVE  rec'.view = rec.view /\ rec'.spec = rec.spec
      BY <1>1, <3>1, ScheduleSets
    <3> QED  BY ZenonT(60), <1>1, <2>4, <2>5, <3>1, NextSchedules
  <2>9. ASSUME NEW q \in Run, q[1] \in DagTasks, runs[q].st # "Absent"
        PROVE  /\ rec.view[q].st \in DoneState
               /\ lister[q].st = rec.view[q].st /\ lister[q].res = rec.view[q].res
    <3>1. q \in RunsOf(q[1])
      BY DEF Run, RunsOf
    <3>2. rec.view[q].st # "Absent"
      BY ZenonT(60), <2>7, <2>9 DEF SInv, IInv, SeesAllInv, exists
    <3>3. rec.view[q].st \in DoneState
      BY ZenonT(60), <2>6, <2>9, <3>1, <3>2, FactsOfRec DEF runsDone, runsSeen
    <3> QED  BY Zenon, <3>3 DEF CachesInv
  <2>10. DagOver'
    BY ZenonT(60), <2>6, <2>7, <2>8, <2>9 DEF DagOver
  <2>11. ASSUME NEW spec, stopped(rec.spec) => stopped(spec) PROVE NothingToStart(FactsNow(spec))
    <3> DEFINE f == Facts(rec)
               g == FactsNow(spec)
    <3>1. f.vf = {} /\ f.view = rec.view /\ f.spec = rec.spec /\ f.el = deadlinesPassed(rec)
      BY ZenonT(60), <2>7 DEF SInv, IInv, ValidationInv, Facts
    <3>2. g.vf = {} /\ g.view = lister /\ g.spec = spec /\ g.el = elapsed
      BY ZenonT(60) DEF FactsNow
    <3>3. dagDeadlines(f) \subseteq dagDeadlines(g)
      BY ZenonT(60), <3>1, <3>2 DEF dagDeadlines, deadlinesPassed
    <3> HIDE DEF f, g
    <3>4. CASE stopped(spec)
      BY ZenonT(60), <3>2, <3>4 DEF NothingToStart, g
    <3>5. CASE dagDeadlines(g) # {}
      BY ZenonT(60), <3>2, <3>5, LateNothing DEF g
    <3>6. CASE ~stopped(spec) /\ dagDeadlines(g) = {}
      <4>1. ASSUME NEW q \in Run, q[1] \in DagTasks
            PROVE  /\ rec.view[q].st = lister[q].st
                   /\ rec.view[q].st # "Absent" => rec.view[q].res = lister[q].res
        BY ZenonT(60), <1>1, <2>9, <4>1 DEF ViewsInv, Behind
      <4>2. Agree(f, g)
        BY ZenonT(60), <2>11, <3>1, <3>2, <3>3, <3>6, <4>1 DEF Agree
      <4>3. NothingToStart(f)
        BY ZenonT(60), <2>6 DEF f
      <4> QED  BY ZenonT(60), <4>2, <4>3, AgreeNothing DEF g
    <3> QED  BY ZenonT(60), <3>4, <3>5, <3>6
  <2>12. stopped(rec.spec) => stopped(prCache.spec)
    BY ZenonT(60), <2>7 DEF CachesInv
  <2>13. NothingToStart(FactsNow(prCache.spec)) /\ NothingToStart(FactsNow(rec.spec))
    BY ZenonT(60), <2>11, <2>12
  <2> QED  BY ZenonT(60), <2>7, <2>8, <2>10, <2>13 DEF FinallyInv, FactsNow
<1> QED  BY ZenonT(60), <1>2, <1>3 DEF FinallyInv

(***************************************************************************)
(* The tasks of finally come last: a run of one is created only when no    *)
(* run of a DAG task is still going, and from then on no run of a DAG task *)
(* is created, however caches lag and whatever fails, provided the caches  *)
(* hold the reconciler's own writes, validation failures are told apart    *)
(* and the user does not take back a request to stop.                      *)
(***************************************************************************)
THEOREM FinallyComesLast ==
  ReadsOwnWrites /\ PointersTellApart /\ StopsForGood => (Spec => FinallyLast)
<1> SUFFICES ASSUME ReadsOwnWrites, PointersTellApart, StopsForGood PROVE Spec => FinallyLast
  OBVIOUS
<1>1. Init => CachesInv /\ FinallyInv
  <2> SUFFICES ASSUME Init PROVE CachesInv /\ FinallyInv
    OBVIOUS
  <2>1. /\ rec = NoReconcile /\ runs = [r \in Run |-> Absent] /\ elapsed = {} /\ prCache = pr
        /\ Absent.st = "Absent"
    BY ZenonT(60) DEF Init, Absent
  <2>2. ~FinalWanted
    BY ZenonT(60), <2>1, NoReconcileSeesNothing DEF FinalWanted, Planned
  <2>3. CachesInv
    BY ZenonT(60), <2>1, NoReconcileSeesNothing DEF CachesInv, plans, DoneState
  <2> QED  BY ZenonT(60), <2>2, <2>3 DEF FinallyInv
<1>2. SInv /\ CachesInv /\ [Next]_vars => CachesInv'
  BY ZenonT(60), NextCachesInv
<1>3. SInv /\ CachesInv /\ CachesInv' /\ FinallyInv /\ [Next]_vars => FinallyInv'
  BY ZenonT(60), NextFinallyInv
<1>4. ASSUME SInv, FinallyInv, [Next]_vars
      PROVE  /\ (\E t \in FinalTasks : created(t)) => \A t \in DagTasks : ended(t)
             /\ (\E t \in DagTasks : created(t)) => \A t \in FinalTasks : existing(t) = {}
  <2>1. TypeOK /\ ViewsInv /\ runs \in [Run -> RunRecord]
    BY ZenonT(60), <1>4 DEF SInv, IInv, TypeOK
  <2>2. ASSUME NEW t \in Tasks, created(t)
        PROVE  \E r \in Run : r[1] = t /\ rec.pc = "create" /\ r \in rec.todo
    <3>1. PICK r \in RunsOf(t) : runs[r].st = "Absent" /\ runs'[r].st # "Absent"
      BY ZenonT(60), <2>2 DEF created
    <3>2. r \in Run /\ r[1] = t
      BY RunsOfType DEF RunsOf
    <3>3. CreateRun
      BY ZenonT(60), <1>4, <2>1, <2>2, CreatedByReconcile
    <3>4. PICK q \in Run : /\ rec.pc = "create" /\ q \in rec.todo
                           /\ runs' = [runs EXCEPT ![q] = Created] \/ runs' = runs
      BY ZenonT(60), <3>3 DEF CreateRun, creating
    <3>5. q = r
      BY ZenonT(60), <2>1, <3>1, <3>2, <3>4
    <3> QED  BY ZenonT(60), <3>2, <3>4, <3>5
  <2>3. ASSUME NEW u \in FinalTasks, created(u), NEW t \in DagTasks PROVE ended(t)
    <3>1. DagOver
      BY <1>4, <2>2, <2>3 DEF FinallyInv, FinalWanted, Planned, Tasks
    <3>2. \A r \in RunsOf(t) : r \in Run /\ r[1] \in DagTasks
      BY RunsOfType DEF RunsOf, Tasks
    <3> QED  BY ZenonT(60), <2>1, <3>1, <3>2 DEF DagOver, ViewsInv, Behind, ended, existing
  <2>4. ASSUME NEW u \in DagTasks, created(u), NEW t \in FinalTasks, existing(t) # {} PROVE FALSE
    <3>1. PICK r \in RunsOf(t) : runs[r].st # "Absent"
      BY ZenonT(60), <2>4 DEF existing
    <3>2. r \in Run /\ r[1] \in FinalTasks
      BY RunsOfType DEF RunsOf, Tasks
    <3>3. DagOver
      BY ZenonT(60), <1>4, <3>1, <3>2 DEF FinallyInv, FinalWanted, Planned
    <3> QED  BY ZenonT(60), <2>2, <2>4, <3>3 DEF DagOver, Tasks
  <2> QED  BY ZenonT(60), <2>3, <2>4
<1>5. SInv /\ FinallyInv /\ [Next]_vars =>
        [/\ (\E t \in FinalTasks : created(t)) => \A t \in DagTasks : ended(t)
         /\ (\E t \in DagTasks : created(t)) => \A t \in FinalTasks : existing(t) = {}]_vars
  BY <1>4
<1> QED  BY <1>1, <1>2, <1>3, <1>5, SInvHolds, PTL DEF Spec, FinallyLast
=============================================================================
