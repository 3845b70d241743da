--------------------- MODULE PipelineRunProgressProofs ----------------------
(***************************************************************************)
(* A PipelineRun never waits for nothing: proofs about PipelineRun, for    *)
(* any number of faults and any caches.                                    *)
(***************************************************************************)
EXTENDS PipelineRunOutcomeProofs

-----------------------------------------------------------------------------
(***************************************************************************)
(* Results: a run that succeeded holds its results, unless its task may    *)
(* end without them.                                                       *)
(***************************************************************************)
ResInv ==
  \A r \in Run : runs[r].st = "Succeeded" /\ resultsUsed(r[1]) /\ r[1] \notin MayOmitResults
                   => runs[r].res

LEMMA NextResInv == TypeOK /\ ResInv /\ [Next]_vars => ResInv'
<1> SUFFICES ASSUME TypeOK, ResInv, [Next]_vars, NEW r \in Run, runs'[r].st = "Succeeded",
                    resultsUsed(r[1]), r[1] \notin MayOmitResults
             PROVE  runs'[r].res
  BY Zenon DEF ResInv, resultsUsed
<1>1. CASE runs[r].st = "Succeeded"
  BY Zenon, <1>1, RunsGoOn DEF ResInv, DoneState
<1>2. CASE runs[r].st # "Succeeded"
  <2>1. runs \in [Run -> RunRecord]
    BY Zenon DEF TypeOK
  <2>2. ~UNCHANGED runs
    BY Zenon, <1>2
  <2>3. ~PatchRun
    <3> SUFFICES ASSUME PatchRun PROVE FALSE
      BY Zenon
    <3>1. PICK q : runs' = [runs EXCEPT ![q].req = requested(rec.why)]
      BY Zenon, <2>2 DEF PatchRun
    <3>2. runs'[r].st = runs[r].st
      BY Zenon, <2>1, <3>1 DEF RunRecord
    <3> QED  BY Zenon, <1>2, <3>2
  <2>4. ~CreateRun
    <3> SUFFICES ASSUME CreateRun PROVE FALSE
      BY Zenon
    <3>1. PICK q : runs' = [runs EXCEPT ![q] = Created]
      BY Zenon, <2>2 DEF CreateRun
    <3>2. runs'[r] = runs[r] \/ runs'[r] = Created
      BY Zenon, <2>1, <3>1
    <3>3. Created.st # "Succeeded"
      BY Zenon DEF Created
    <3> QED  BY Zenon, <1>2, <3>2, <3>3
  <2>5. PICK q \in Run : RunEnds(q)
    BY Zenon, <2>2, <2>3, <2>4, RunChanges
  <2>6. PICK st \in DoneState, res \in BOOLEAN :
          /\ st = "Succeeded" /\ resultsUsed(q[1]) /\ ~res => q[1] \in MayOmitResults
          /\ runs' = [runs EXCEPT ![q] = [@ EXCEPT !.st = st, !.res = res]]
    BY Zenon, <2>5 DEF RunEnds
  <2>7. q = r
    BY Zenon, <1>2, <2>1, <2>6
  <2>8. runs'[r] = [runs[r] EXCEPT !.st = st, !.res = res] /\ runs[r] \in RunRecord
    BY Zenon, <2>1, <2>6, <2>7
  <2>9. runs'[r].st = st /\ runs'[r].res = res
    BY Zenon, <2>8 DEF RunRecord
  <2> QED  BY Zenon, <2>6, <2>7, <2>9
<1> QED  BY Zenon, <1>1, <1>2

\* So a reconcile sees results wherever it sees success.
LEMMA SeesResults ==
  ASSUME SkipsByWhenOnly, SInv, ResInv
  PROVE  ResultsSeen(Facts(rec))
<1> SUFFICES ASSUME NEW t \in DagTasks, NEW p \in ResultRefs[t], NEW r \in RunsOf(p),
                    rec.view[r].st = "Succeeded"
             PROVE  rec.view[r].res
  BY Zenon, FactsOfRec DEF ResultsSeen
<1>1. t \in Tasks /\ p \in Tasks /\ p \notin MayOmitResults
  BY Zenon, Parents DEF SkipsByWhenOnly
<1>2. r \in Run /\ r[1] = p
  BY <1>1, RunsOfType DEF RunsOf
<1>3. resultsUsed(r[1])
  BY Zenon, <1>1, <1>2 DEF resultsUsed
<1>4. runs[r].st = "Succeeded" /\ runs[r].res = rec.view[r].res
  BY Zenon, <1>2 DEF SInv, IInv, ViewsInv, Behind, DoneState
<1> QED  BY Zenon, <1>1, <1>2, <1>3, <1>4 DEF ResInv

-----------------------------------------------------------------------------
(***************************************************************************)
(* The steps: a reconcile starts, makes a move or stops, or the cluster    *)
(* goes on.                                                                *)
(***************************************************************************)
LEMMA StepsAre ==
  ASSUME TypeOK, [Next]_vars
  PROVE  \/ Begin /\ Starts
         \/ Move /\ rec.pc \notin {"idle", "write"}
         \/ Stops
         \/ GoesOn
<1>1. CASE Starts
  <2>1. rec.pc = "idle" /\ rec'.pc # "idle"
    BY Zenon, <1>1 DEF Starts
  <2> QED  BY Zenon, <2>1, BeginsFromIdle
<1>2. CASE Works
  <2>1. rec.pc \notin {"idle", "write"} /\ rec'.pc # "idle"
    BY Zenon, <1>2 DEF Works
  <2> QED  BY Zenon, <2>1, WorkMoves, NoReconcileSeesNothing
<1> QED  BY Zenon, <1>1, <1>2, StepKinds

\* No task fails validation for missing results.
VfEmpty == rec.pc # "write" => rec.vf = {}

\* What scheduling finds, then.
LEMMA SchedulesCleanly ==
  ASSUME SkipsByWhenOnly, SInv, ResInv, VfEmpty, Schedules
  PROVE  LET f == Facts(rec)
             s == Skips(f)
         IN  /\ f.vf = {}
             /\ \/ rec'.pc = "write" /\ DAGExecutionError(f, s)
                \/ rec'.pc = "create" /\ rec' = schedule(rec, f, s, {}, s)
<1> DEFINE f == Facts(rec)
           s == Skips(f)
           vf == {t \in DAGExecutionQueue(f, s) : missingResults(f, t)}
<1>1. /\ rec.pc = "plan"
      /\ \/ rec'.pc = "write" /\ DAGExecutionError(f, s)
         \/ rec'.pc = "create" /\ rec' = schedule(rec, f, s, vf, Skips([f EXCEPT !.vf = vf]))
  BY Zenon DEF Schedules
<1>2. f.vf = {}
  BY Zenon, <1>1, FactsOfRec DEF VfEmpty
<1>3. vf = {}
  BY Zenon, <1>2, SeesResults, NoMissing
<1>4. [f EXCEPT !.vf = {}] = f
  BY <1>2 DEF Facts
<1> HIDE DEF f, vf
<1>5. Skips([f EXCEPT !.vf = vf]) = s
  BY Zenon, <1>3, <1>4
<1> QED  BY Zenon, <1>1, <1>2, <1>3, <1>5 DEF f

LEMMA NextVfEmpty ==
  ASSUME SkipsByWhenOnly, SInv, ResInv, VfEmpty, [Next]_vars
  PROVE  VfEmpty'
<1> SUFFICES ASSUME rec'.pc # "write" PROVE rec'.vf = {}
  BY Zenon DEF VfEmpty
<1>1. TypeOK /\ rec \in ReconcileType
  BY Zenon DEF SInv, IInv, TypeOK
<1>2. NoReconcile.vf = {}
  BY Zenon DEF NoReconcile
<1>3. CASE Starts
  BY Zenon, <1>3 DEF Starts
<1>4. CASE Stops
  BY Zenon, <1>2, <1>4 DEF Stops
<1>5. CASE GoesOn
  BY Zenon, <1>5 DEF GoesOn, VfEmpty
<1>6. CASE Move /\ rec.pc \notin {"idle", "write"}
  <2>1. rec.vf = {}
    BY Zenon, <1>6 DEF VfEmpty
  <2>2. CASE Schedules
    <3>1. rec' = schedule(rec, Facts(rec), Skips(Facts(rec)), {}, Skips(Facts(rec)))
      BY Zenon, <2>2, SchedulesCleanly
    <3> QED  BY <1>1, <3>1, ScheduleSets
  <2>3. CASE ~Schedules
    BY Zenon, <1>6, <2>1, <2>3
       DEF Move, PatchesOne, PatchesMore, PatchedAll, Creates, CreatedAll, Concludes, Alike
  <2> QED  BY Zenon, <2>2, <2>3
<1> QED  BY Zenon, <1>1, <1>3, <1>4, <1>5, <1>6, StepsAre

\* Which runs a schedule plans: those of every queued task, and of every final task that
\* is not skipped for missing results once the DAG is done.
LEMMA SchedulePlans ==
  ASSUME NEW R \in ReconcileType, NEW f, NEW s, NEW fresh, NEW t,
         \/ t \in DAGExecutionQueue(f, s)
         \/ /\ t \in FinalTasks /\ ~isScheduled(f, t) /\ unresolved(f, t) = {}
            /\ dagDone(f, s, {}, fresh)
  PROVE  GetNamesOfTaskRuns(R.st, t) \subseteq schedule(R, f, s, {}, fresh).todo
<1> DEFINE S == schedule(R, f, s, {}, fresh)
           fNext == {u \in {v \in FinalTasks : dagDone(f, s, {}, fresh) /\ ~isScheduled(f, v)} :
                       unresolved(f, u) = {}}
           next == DAGExecutionQueue(f, s) \cup fNext
           todo == UNION {GetNamesOfTaskRuns(R.st, u) : u \in next}
<1>1. PICK fin : S = [R EXCEPT !.pc = "create", !.vf = {}, !.st.fin = fin, !.todo = todo]
  BY Zenon DEF schedule, dagDone
<1>2. t \in next
  BY Zenon
<1> HIDE DEF next
<1>3. GetNamesOfTaskRuns(R.st, t) \subseteq todo
  BY Zenon, <1>2
<1> HIDE DEF todo, S
<1>4. S.todo = todo
  BY Zenon, <1>1 DEF ReconcileType
<1> QED  BY Zenon, <1>3, <1>4 DEF S

\* There is at least one.
LEMMA NamesThere ==
  ASSUME NEW st, NEW t \in Tasks
  PROVE  \E r \in GetNamesOfTaskRuns(st, t) : r[1] = t
<1>1. \A r \in RunsOf(t) : r[1] = t
  BY DEF RunsOf
<1>2. RunsOf(t) # {}
  <2>1. 1 \in 1..Width[t]
    BY PipelineAssumption
  <2> QED  BY Zenon, <2>1 DEF RunsOf
<1>3. \A r \in runsOfTasks(st, {t}) : r[1] = t
  BY Zenon DEF runsOfTasks
<1> QED  BY Zenon, <1>1, <1>2, <1>3 DEF GetNamesOfTaskRuns

-----------------------------------------------------------------------------
(***************************************************************************)
(* The tasks that have runs explain each other.                            *)
(***************************************************************************)
Explains(Z) ==
  /\ \A z \in Z : Prev[z] \subseteq Z /\ (z \in WhenFalse \/ existing(z) # {})
  /\ \A t \in DagTasks : existing(t) # {} => t \in Z
  /\ rec.pc = "create" => \A r \in rec.todo : r[1] \in DagTasks => Prev[r[1]] \subseteq Z

AncInv == \E Z \in SUBSET DagTasks : Explains(Z)

\* A task that a reconcile sees a run of has one.
LEMMA SeenExists ==
  ASSUME SInv, NEW t \in Tasks, isScheduled(Facts(rec), t)
  PROVE  existing(t) # {}
<1>1. PICK r \in RunsOf(t) : rec.view[r].st # "Absent"
  BY Zenon, FactsOfRec DEF isScheduled, runsSeen
<1>2. runs[r].st # "Absent"
  BY Zenon, <1>1, RunsOfType DEF SInv, IInv, ViewsInv, Behind
<1> QED  BY Zenon, <1>2 DEF existing

\* Scheduling adds the tasks it skips for their when expressions.
LEMMA SchedulingExplained ==
  ASSUME SkipsByWhenOnly, SInv, ResInv, VfEmpty, AncInv, Schedules, rec'.pc = "create",
         UNCHANGED runs
  PROVE  AncInv'
<1> DEFINE f == Facts(rec)
           s == Skips(f)
<1>1. f.vf = {} /\ rec' = schedule(rec, f, s, {}, s) /\ rec \in ReconcileType
  BY Zenon, SchedulesCleanly DEF SInv, IInv, TypeOK
<1>2. \A r \in rec'.todo : r[1] \in DagTasks => r[1] \in DAGExecutionQueue(f, s)
  <2>1. \A r \in rec'.todo : r[1] \in DAGExecutionQueue(f, s) \/ r[1] \in FinalTasks
    <3> HIDE DEF f, s
    <3> QED  BY <1>1, ScheduleSets
  <2> QED  BY Zenon, <2>1, PipelineAssumption
<1>3. PICK Z \in SUBSET DagTasks : Explains(Z)
  BY Zenon DEF AncInv
<1>4. \A t : existing(t)' = existing(t)
  BY Zenon DEF existing
<1>5. CASE DAGExecutionQueue(f, s) = {}
  <2>1. Explains(Z)'
    BY ZenonT(60), <1>2, <1>3, <1>4, <1>5 DEF Explains
  <2> QED  BY Zenon, <2>1 DEF AncInv
<1>6. CASE DAGExecutionQueue(f, s) # {}
  <2>1. ResultsSeen(f)
    BY Zenon, SeesResults
  <2>2. Running(f)
    BY Zenon, <1>1, <1>6, <2>1, NoMissing
  <2>3. AreSkips(f, s) /\ \A t \in DagTasks : s[t] = "None" \/ (s[t] = "When" /\ t \in WhenFalse)
    BY ZenonT(60), <2>1, <2>2, SkipsSolve, OnlyWhen
  <2>4. \A t \in DagTasks : isScheduled(f, t) => t \in Z
    BY Zenon, <1>3, SeenExists DEF Explains, Tasks
  <2>5. \A t : ~isValidationFailed(f, t)
    BY Zenon, <1>1 DEF isValidationFailed
  <2>6. \A t \in DAGExecutionQueue(f, s) : t \in DagTasks /\ \A p \in Prev[t] : isDone(f, s, p)
    BY Zenon DEF DAGExecutionQueue, GetCandidateTasks, completedOrSkippedDAGTasks
  <2> HIDE DEF f, s
  <2> DEFINE W == Z \cup {t \in DagTasks : s[t] = "When"}
  <2>7. ASSUME NEW t \in DagTasks, isDone(f, s, t) PROVE t \in W
    BY Zenon, <2>3, <2>4, <2>5, <2>7
       DEF isDone, finished, isSuccessful, isFailure, haveAnyRunsFailed, isScheduled
  <2>8. ASSUME NEW t \in DagTasks, s[t] = "When" PROVE Prev[t] \subseteq W
    <3>1. skip(f, s, t) = "When"
      BY Zenon, <2>3, <2>8 DEF AreSkips
    <3>2. \A p \in Prev[t] : isDone(f, s, p)
      BY Zenon, <3>1 DEF skip
    <3> QED  BY Zenon, <2>7, <3>2, Parents
  <2>9. \A z \in Z : Prev[z] \subseteq Z /\ (z \in WhenFalse \/ existing(z) # {})
    BY Zenon, <1>3 DEF Explains
  <2>10. \A z \in W : Prev[z] \subseteq W /\ (z \in WhenFalse \/ existing(z)' # {})
    BY Zenon, <1>4, <2>3, <2>8, <2>9
  <2>11. \A t \in DagTasks : existing(t)' # {} => t \in W
    BY Zenon, <1>3, <1>4 DEF Explains
  <2>12. \A r \in rec'.todo : r[1] \in DagTasks => Prev[r[1]] \subseteq W
    BY Zenon, <1>2, <2>6, <2>7, Parents
  <2>13. PICK V \in SUBSET DagTasks : V = W
    BY Zenon
  <2> HIDE DEF W
  <2>14. Explains(V)'
    BY Zenon, <2>10, <2>11, <2>12, <2>13 DEF Explains
  <2> QED  BY Zenon, <2>14 DEF AncInv
<1> QED  BY Zenon, <1>5, <1>6

\* Creating a run adds its task.
LEMMA CreationExplained ==
  ASSUME SInv, AncInv, rec.pc = "create", NEW r \in rec.todo, r \in Run,
         runs' = [runs EXCEPT ![r] = Created], rec'.todo \subseteq rec.todo
  PROVE  AncInv'
<1>1. PICK Z \in SUBSET DagTasks : Explains(Z)
  BY Zenon DEF AncInv
<1>2. runs \in [Run -> RunRecord] /\ Created.st # "Absent"
  BY Zenon DEF SInv, IInv, TypeOK, Created
<1>3. r[1] \in Tasks /\ r \in RunsOf(r[1])
  BY DEF Run, RunsOf
<1>4. \A q \in Run : q # r => runs'[q] = runs[q]
  BY Zenon, <1>2
<1>5. runs'[r].st # "Absent"
  BY Zenon, <1>2
<1>6. \A t \in Tasks : existing(t) # {} => existing(t)' # {}
  BY Zenon, <1>4, <1>5, RunsOfType DEF existing
<1>7. existing(r[1])' # {}
  BY Zenon, <1>3, <1>5 DEF existing
<1>8. ASSUME NEW t \in DagTasks, existing(t)' # {} PROVE existing(t) # {} \/ t = r[1]
  <2>1. PICK q \in RunsOf(t) : runs'[q].st # "Absent"
    BY Zenon, <1>8 DEF existing
  <2>2. q \in Run /\ q[1] = t
    BY <2>1, RunsOfType DEF RunsOf, Tasks
  <2> QED  BY Zenon, <1>4, <2>1, <2>2 DEF existing
<1>9. \A z \in Z : z \in Tasks /\ Prev[z] \subseteq Z /\ (z \in WhenFalse \/ existing(z) # {})
  BY Zenon, <1>1 DEF Explains, Tasks
<1>10. \A q \in rec.todo : q[1] \in DagTasks => Prev[q[1]] \subseteq Z
  BY Zenon, <1>1 DEF Explains
<1> DEFINE W == Z \cup {t \in DagTasks : t = r[1]}
<1>11. \A z \in W : Prev[z] \subseteq W /\ (z \in WhenFalse \/ existing(z)' # {})
  BY Zenon, <1>6, <1>7, <1>9, <1>10
<1>12. \A t \in DagTasks : existing(t)' # {} => t \in W
  BY Zenon, <1>1, <1>8 DEF Explains
<1>13. \A q \in rec'.todo : q[1] \in DagTasks => Prev[q[1]] \subseteq W
  BY Zenon, <1>10
<1>14. W \in SUBSET DagTasks
  BY Zenon
<1> HIDE DEF W
<1>15. Explains(W)'
  BY Zenon, <1>11, <1>12, <1>13 DEF Explains
<1> QED  BY Zenon, <1>14, <1>15 DEF AncInv

LEMMA NextAncInv ==
  ASSUME SkipsByWhenOnly, SInv, ResInv, VfEmpty, AncInv, [Next]_vars
  PROVE  AncInv'
<1>1. TypeOK /\ rec \in ReconcileType
  BY Zenon DEF SInv, IInv, TypeOK
<1>2. ASSUME exists(runs') = exists(runs),
             rec'.pc = "create" => rec.pc = "create" /\ rec'.todo \subseteq rec.todo
      PROVE  AncInv'
  <2>1. PICK Z \in SUBSET DagTasks : Explains(Z)
    BY Zenon DEF AncInv
  <2>2. ASSUME NEW t \in DagTasks PROVE existing(t)' = existing(t)
    <3>1. RunsOf(t) \subseteq Run
      BY Zenon, RunsOfType DEF Tasks
    <3>2. \A r \in Run : runs'[r].st # "Absent" <=> runs[r].st # "Absent"
      BY Zenon, <1>2 DEF exists
    <3> QED  BY Zenon, <3>1, <3>2 DEF existing
  <2>3. Explains(Z)'
    BY Zenon, <1>2, <2>1, <2>2 DEF Explains
  <2> QED  BY Zenon, <2>3 DEF AncInv
<1>3. CASE Starts
  <2>1. exists(runs') = exists(runs) /\ rec'.pc # "create"
    BY Zenon, <1>3 DEF Starts, exists
  <2> QED  BY Zenon, <1>2, <2>1
<1>4. CASE Stops
  <2>1. exists(runs') = exists(runs) /\ rec'.pc # "create"
    BY Zenon, <1>4, NoReconcileSeesNothing DEF Stops, exists
  <2> QED  BY Zenon, <1>2, <2>1
<1>5. CASE GoesOn
  BY Zenon, <1>2, <1>5 DEF GoesOn
<1>6. CASE Move
  <2>1. CASE Schedules
    <3>1. UNCHANGED runs
      BY Zenon, <2>1 DEF Schedules
    <3>2. CASE rec'.pc = "create"
      BY ZenonT(60), <2>1, <3>1, <3>2, SchedulingExplained
    <3>3. CASE rec'.pc # "create"
      BY Zenon, <1>2, <3>1, <3>3 DEF exists
    <3> QED  BY Zenon, <3>2, <3>3
  <2>2. CASE Creates
    <3>1. PICK r \in rec.todo :
            \/ /\ rec'.todo = rec.todo \ {r} /\ r \in Run
               /\ runs' = [runs EXCEPT ![r] = Created]
            \/ rec'.pc = "write" /\ UNCHANGED runs
            \/ rec'.todo = rec.todo \ RunsOf(r[1]) /\ UNCHANGED runs
      BY Zenon, <2>2 DEF Creates
    <3>2. rec.pc = "create"
      BY Zenon, <2>2 DEF Creates
    <3>3. CASE UNCHANGED runs
      BY Zenon, <1>2, <3>1, <3>2, <3>3 DEF exists
    <3>4. CASE r \in Run /\ runs' = [runs EXCEPT ![r] = Created] /\ rec'.todo = rec.todo \ {r}
      BY Zenon, <3>2, <3>4, CreationExplained
    <3> QED  BY Zenon, <3>1, <3>3, <3>4
  <2>3. CASE ~Schedules /\ ~Creates
    <3>1. rec.pc # "create" \/ UNCHANGED runs
      BY Zenon, <1>6, <2>3
         DEF Move, PatchesOne, PatchesMore, PatchedAll, CreatedAll, Concludes
    <3>2. exists(runs') = exists(runs)
      BY Zenon, <3>1, NoneCreated DEF exists
    <3>3. rec'.pc # "create"
      BY Zenon, <1>6, <2>3
         DEF Move, PatchesOne, PatchesMore, PatchedAll, CreatedAll, Concludes
    <3> QED  BY Zenon, <1>2, <3>2, <3>3
  <2> QED  BY Zenon, <2>1, <2>2, <2>3
<1> QED  BY Zenon, <1>1, <1>3, <1>4, <1>5, <1>6, StepsAre

-----------------------------------------------------------------------------
(***************************************************************************)
(* Progress.  While the key is not in the queue, something will put it     *)
(* there or the PipelineRun is done or pending: a child run that the       *)
(* caches hold as running or do not hold yet will be heard of, and so will *)
(* a status that was written.  A reconcile that sees the caches as they    *)
(* are and none of this finds something to create, or that all is settled. *)
(***************************************************************************)
Awaits ==
  \E r \in Run : \/ lister[r].st = "Running"
                 \/ lister[r].st = "Absent" /\ runs[r].st # "Absent"

ProgressInv ==
  ~queued =>
    /\ rec.pc = "idle" =>
         Awaits \/ IsDone(prCache.st) \/ prCache.spec = "Pending" \/ pr.st # prCache.st
    /\ rec.pc # "idle" => rec.orig = prCache.st /\ rec.spec = prCache.spec
    /\ rec.pc \notin {"idle", "write"} => Awaits \/ rec.view = lister
    /\ rec.pc = "create" =>
         \/ Awaits
         \/ \E r \in rec.todo : r[1] \in DagTasks
         \/ /\ AllDone(Facts(rec))
            /\ \A t \in FinalTasks : Decided(Facts(rec), t) \/ \E r \in rec.todo : r[1] = t
    /\ rec.pc = "conclude" => Awaits \/ HasTimedOut(rec) \/ Settled(Facts(rec))
    /\ rec.pc = "patch" /\ rec.why = "pipeline" => HasTimedOut(rec)
    /\ rec.pc = "write" =>
         Awaits \/ rec.out \in {"retry", "resolving"} \/ IsDone(rec.st) \/ rec.spec = "Pending"

\* Nothing but the reconcile changes what it goes by.
Waits ==
  /\ rec' = rec /\ UNCHANGED <<prCache, lister>> /\ pr'.st = pr.st
  /\ elapsed \subseteq elapsed' /\ exists(runs') = exists(runs)

\* The steps after which the key is not in the queue.
LEMMA QuietSteps ==
  ASSUME TypeOK, [Next]_vars, ~queued'
  PROVE  \/ Begin
         \/ ~queued /\ Move /\ rec.pc \notin {"idle", "write"}
         \/ ~queued /\ UpdateStatus
         \/ ~queued /\ Waits
<1>1. CASE UNCHANGED vars
  BY Zenon, <1>1 DEF vars, Waits, exists
<1>2. CASE Patching \/ Scheduling \/ Conclude \/ ConcludeWithoutResult
  <2>1. Move
    BY Zenon, <1>2, PatchingMoves, SchedulingMoves, ConcludeMoves
  <2>2. rec.pc \notin {"idle", "write"}
    BY Zenon, <2>1
       DEF Move, PatchesOne, PatchesMore, PatchedAll, Schedules, Creates, CreatedAll, Concludes
  <2> QED  BY Zenon, <2>1, <2>2 DEF Move, Keeps
<1>3. UpdateStatus => ~queued
  BY Zenon DEF UpdateStatus
<1>4. ~UpdateStatusFails /\ ~Crash /\ ~InformPipelineRun /\ ~InformTaskRuns /\ ~InformCustomRuns
  BY Zenon DEF UpdateStatusFails, Crash, InformPipelineRun, InformTaskRuns, InformCustomRuns,
               InformRuns
<1>5. CASE SetSpecStatus
  <2>1. pr'.st = pr.st
    BY Zenon, <1>5 DEF SetSpecStatus, TypeOK
  <2> QED  BY Zenon, <1>5, <2>1 DEF SetSpecStatus, Waits, exists
<1>6. CASE \E r \in Run : RunEnds(r)
  <2>1. Environment /\ rec' = rec /\ UNCHANGED <<pr, prCache, lister, elapsed, queued>>
    BY Zenon, <1>6 DEF RunEnds, Environment
  <2>2. exists(runs') = exists(runs)
    BY Zenon, <1>6, <2>1, EnvironmentGoesOn DEF GoesOn, Stops, exists
  <2> QED  BY Zenon, <2>1, <2>2 DEF Waits
<1>7. CASE DeadlinePasses
  <2>1. UNCHANGED <<pr, prCache, runs, lister, rec>> /\ ~queued /\ elapsed \subseteq elapsed'
    BY Zenon, <1>7 DEF DeadlinePasses
  <2> QED  BY Zenon, <2>1 DEF Waits, exists
<1>8. CASE Rest
  BY Zenon, <1>1, <1>8 DEF Rest
<1> QED  BY Zenon, <1>1, <1>2, <1>3, <1>4, <1>5, <1>6, <1>7, <1>8
            DEF Next, Reconciler, Finishing, Environment

\* What a reconcile without anything to wait for sees.
LEMMA SeesAllEnded ==
  ASSUME SInv, rec.pc \notin {"idle", "write"}, ~Awaits, rec.view = lister
  PROVE  /\ NoneRunning(Facts(rec))
         /\ \A t \in Tasks : existing(t) # {} => isScheduled(Facts(rec), t)
<1>1. lister \in [Run -> RunRecord] /\ Facts(rec).view = lister
  BY Zenon, FactsOfRec DEF SInv, IInv, TypeOK
<1>2. \A r \in Run : lister[r].st \in RunState
  BY Zenon, <1>1 DEF RunRecord
<1>3. \A r \in Run : lister[r].st # "Running" /\ (runs[r].st # "Absent" => lister[r].st # "Absent")
  BY Zenon DEF Awaits
<1>4. NoneRunning(Facts(rec))
  BY Zenon, <1>1, <1>2, <1>3 DEF NoneRunning
<1>5. ASSUME NEW t \in Tasks, existing(t) # {} PROVE isScheduled(Facts(rec), t)
  BY ZenonT(60), <1>1, <1>3, <1>5, RunsOfType DEF existing, isScheduled, runsSeen
<1> QED  BY Zenon, <1>4, <1>5

\* The facts change with the view, the deadlines and the validation failures.
LEMMA SameFacts ==
  ASSUME rec'.view = rec.view, rec'.vf = rec.vf, rec'.spec = rec.spec, rec'.orig = rec.orig,
         UNCHANGED elapsed
  PROVE  Facts(rec)' = Facts(rec) /\ HasTimedOut(rec)' = HasTimedOut(rec)
<1>1. deadlinesPassed(rec)' = deadlinesPassed(rec)
  BY DEF deadlinesPassed
<1> QED  BY <1>1 DEF Facts, HasTimedOut

\* A reconcile begins, unless the PipelineRun is done.
LEMMA BeginsUnlessDone ==
  ASSUME TypeOK, Begin, rec'.pc = "idle"
  PROVE  IsDone(prCache.st) /\ UNCHANGED <<prCache, rec>>
<1> DEFINE B == begun
           C == syncChildRefs(begun)
           D == [C EXCEPT !.clean = FALSE]
<1>1. B \in ReconcileType /\ C \in ReconcileType
  BY Zenon, BegunType, SyncChildRefsType
<1> HIDE DEF B, C
<1>2. D \in ReconcileType
  BY Zenon, <1>1 DEF ReconcileType
<1> HIDE DEF D
<1>3. ASSUME NEW R \in ReconcileType, NEW x, NEW y PROVE rec' # end(R, x, y) /\ rec' # patch(R, x, y)
  <2>1. end(R, x, y).pc = "write"
    BY Zenon, EndKeeps
  <2>2. patch(R, x, y).pc = "patch"
    BY PatchKeeps
  <2> QED  BY Zenon, <2>1, <2>2
<1>4. ~ReconcileLongTimeout /\ ~ReconcileCancelled
  BY Zenon, <1>1, <1>3 DEF ReconcileLongTimeout, ReconcileCancelled, B
<1>5. ~ReconcilePending /\ ~ReconcileInvalid /\ ~ReconcileResolving
  BY Zenon, <1>1, <1>3 DEF ReconcilePending, ReconcileInvalid, ReconcileResolving, C
<1>6. ~ReconcileRetry
  BY Zenon, <1>2, <1>3 DEF ReconcileRetry, C, D
<1>7. ~Reconcile
  <2>1. applyGracefulCancel(C).pc # "idle"
    BY Zenon, <1>1, ApplyGracefulCancelKeeps
  <2> QED  BY Zenon, <2>1 DEF Reconcile, C
<1>8. ReconcileDone
  BY Zenon, <1>4, <1>5, <1>6, <1>7 DEF Begin
<1> QED  BY Zenon, <1>8 DEF ReconcileDone, Dequeue

LEMMA BeginProgresses ==
  ASSUME TypeOK, Begin
  PROVE  ProgressInv'
<1>1. CASE rec'.pc = "idle"
  <2>1. IsDone(prCache.st)' /\ rec'.pc = "idle"
    BY Zenon, <1>1, BeginsUnlessDone DEF IsDone
  <2> QED  BY Zenon, <2>1 DEF ProgressInv
<1>2. CASE rec'.pc # "idle"
  <2>1. rec.pc = "idle"
    BY Zenon DEF Begin, ReconcileDone, ReconcileLongTimeout, ReconcileCancelled, ReconcilePending,
           Reconcile, ReconcileInvalid, ReconcileRetry, ReconcileResolving, reconciles, Dequeue
  <2>2. Starts
    BY Zenon, <1>2, <2>1, BeginStarts DEF GoesOn
  <2>3. /\ rec'.orig = prCache'.st /\ rec'.spec = prCache'.spec /\ rec'.view = lister'
        /\ rec'.pc \in {"patch", "plan", "write"}
    BY Zenon, <2>2 DEF Starts
  <2>4. /\ rec'.pc = "patch" => rec'.why # "pipeline"
        /\ rec'.pc = "write" =>
             \/ rec'.out \in {"retry", "resolving"}
             \/ prCache.spec = "Pending"
             \/ rec'.st.reason = "Invalid"
    BY Zenon, <1>2, BeginsLate
  <2>5. rec'.st.reason = "Invalid" => IsDone(rec.st)'
    BY Zenon DEF IsDone, FailedReason
  <2>6. rec'.spec = prCache.spec
    BY Zenon, <2>2 DEF Starts
  <2> QED  BY Zenon, <1>2, <2>3, <2>4, <2>5, <2>6 DEF ProgressInv
<1> QED  BY Zenon, <1>1, <1>2

\* The cluster goes on.
LEMMA WaitProgresses ==
  ASSUME SInv, VfEmpty, ProgressInv, ~queued, Waits
  PROVE  ProgressInv'
<1>1. /\ rec' = rec /\ UNCHANGED <<prCache, lister>> /\ pr'.st = pr.st /\ elapsed \subseteq elapsed'
      /\ exists(runs') = exists(runs)
  BY Zenon DEF Waits
<1>2. Awaits => Awaits'
  BY Zenon, <1>1 DEF Awaits, exists
<1> DEFINE f == Facts(rec)
           g == Facts(rec)'
<1>3. deadlinesPassed(rec) \subseteq deadlinesPassed(rec)'
  BY <1>1 DEF deadlinesPassed
<1>4. HasTimedOut(rec) => HasTimedOut(rec)'
  BY Zenon, <1>3 DEF HasTimedOut
<1>5. Later(f, g)
  BY Zenon, <1>1, <1>3 DEF Later, Facts
<1> HIDE DEF f, g
<1>6. ASSUME rec.pc \in {"create", "conclude"}, ~Awaits
      PROVE  /\ AllDone(f) => AllDone(g)
             /\ \A t \in FinalTasks : Decided(f, t) => Decided(g, t)
  <2>1. f.vf = {}
    BY Zenon, <1>6, FactsOfRec DEF VfEmpty, f
  <2>2. NoneRunning(f)
    BY Zenon, <1>6, SeesAllEnded DEF ProgressInv, f
  <2> QED  BY ZenonT(60), <1>5, <2>1, <2>2, StaysDone, StaysDecided
<1>7. ASSUME rec.pc = "create", ~Awaits'
      PROVE  \/ \E r \in rec.todo : r[1] \in DagTasks
             \/ /\ AllDone(g)
                /\ \A t \in FinalTasks : Decided(g, t) \/ \E r \in rec.todo : r[1] = t
  BY ZenonT(60), <1>2, <1>6, <1>7 DEF ProgressInv, f
<1>8. ASSUME rec.pc = "conclude", ~Awaits' PROVE HasTimedOut(rec)' \/ Settled(g)
  BY Zenon, <1>2, <1>4, <1>6, <1>8 DEF ProgressInv, Settled, f
<1>9. /\ rec.pc = "idle" =>
           Awaits \/ IsDone(prCache.st) \/ prCache.spec = "Pending" \/ pr.st # prCache.st
      /\ rec.pc # "idle" => rec.orig = prCache.st /\ rec.spec = prCache.spec
      /\ rec.pc \notin {"idle", "write"} => Awaits \/ rec.view = lister
      /\ rec.pc = "patch" /\ rec.why = "pipeline" => HasTimedOut(rec)
      /\ rec.pc = "write" =>
           Awaits \/ rec.out \in {"retry", "resolving"} \/ IsDone(rec.st) \/ rec.spec = "Pending"
  BY Zenon DEF ProgressInv
<1>10. (rec.pc = "create" =>
         \/ Awaits
         \/ \E r \in rec.todo : r[1] \in DagTasks
         \/ /\ AllDone(Facts(rec))
            /\ \A t \in FinalTasks : Decided(Facts(rec), t) \/ \E r \in rec.todo : r[1] = t)'
  BY Zenon, <1>1, <1>7 DEF g
<1>11. (rec.pc = "conclude" => Awaits \/ HasTimedOut(rec) \/ Settled(Facts(rec)))'
  BY Zenon, <1>1, <1>8 DEF g
<1> QED  BY Zenon, <1>1, <1>2, <1>4, <1>9, <1>10, <1>11 DEF ProgressInv, IsDone

\* The status is written.
LEMMA WriteProgresses ==
  ASSUME SInv, ProgressInv, ~queued, UpdateStatus, ~queued'
  PROVE  ProgressInv'
<1>1. /\ rec.pc = "write" /\ rec'.pc = "idle" /\ UNCHANGED <<prCache, lister, runs>>
      /\ pr' = IF rec.st # rec.orig THEN [pr EXCEPT !.st = rec.st] ELSE pr
      /\ rec.out \notin {"retry", "resolving"}
  BY Zenon, NoReconcileSeesNothing DEF UpdateStatus
<1>2. /\ rec.orig = prCache.st /\ rec.spec = prCache.spec
      /\ Awaits \/ IsDone(rec.st) \/ rec.spec = "Pending"
  BY Zenon, <1>1 DEF ProgressInv
<1>3. ~IsDone(rec.orig)
  BY Zenon, <1>1 DEF SInv, StatusInv
<1>4. CASE IsDone(rec.st)
  <2>1. rec.st # rec.orig
    BY Zenon, <1>3, <1>4
  <2>2. pr' = [pr EXCEPT !.st = rec.st] /\ pr \in [spec : SpecStatus, st : Status]
    BY ZenonT(60), <1>1, <2>1 DEF SInv, IInv, TypeOK
  <2>3. pr'.st # prCache'.st
    BY ZenonT(60), <1>1, <1>2, <2>1, <2>2
  <2> QED  BY Zenon, <1>1, <2>3 DEF ProgressInv
<1>5. CASE Awaits
  <2>1. Awaits'
    BY ZenonT(60), <1>1, <1>5 DEF Awaits
  <2> QED  BY Zenon, <1>1, <2>1 DEF ProgressInv
<1>6. CASE rec.spec = "Pending"
  BY Zenon, <1>1, <1>2, <1>6 DEF ProgressInv
<1> QED  BY Zenon, <1>2, <1>4, <1>5, <1>6

\* A reconcile that has nothing to wait for schedules: the graph is accepted, and there is
\* something to create or all is settled.
LEMMA ScheduleProgresses ==
  ASSUME SkipsByWhenOnly, SInv, ResInv, VfEmpty, AncInv, ProgressInv, ~queued, Move, Schedules,
         ~Awaits
  PROVE  /\ rec'.pc = "create"
         /\ \/ \E r \in rec'.todo : r[1] \in DagTasks
            \/ /\ AllDone(Facts(rec)')
               /\ \A t \in FinalTasks :
                    Decided(Facts(rec)', t) \/ \E r \in rec'.todo : r[1] = t
<1> DEFINE f == Facts(rec)
           s == Skips(f)
<1>1. rec.pc = "plan" /\ rec \in ReconcileType
  BY Zenon DEF Schedules, SInv, IInv, TypeOK
<1>2. NoneRunning(f) /\ \A t \in Tasks : existing(t) # {} => isScheduled(f, t)
  BY Zenon, <1>1, SeesAllEnded DEF ProgressInv
<1>3. /\ f.vf = {}
      /\ \/ rec'.pc = "write" /\ DAGExecutionError(f, s)
         \/ rec'.pc = "create" /\ rec' = schedule(rec, f, s, {}, s)
  BY Zenon, SchedulesCleanly
<1>4. ~DAGExecutionError(f, s)
  <2>1. PICK Z \in SUBSET DagTasks : Explains(Z)
    BY Zenon DEF AncInv
  <2>2. \A z \in Z : Prev[z] \subseteq Z /\ (z \in WhenFalse \/ isScheduled(f, z))
    BY Zenon, <1>2, <2>1 DEF Explains, Tasks
  <2>3. \A t \in DagTasks : isScheduled(f, t) => t \in Z
    BY Zenon, <2>1, SeenExists DEF Explains, Tasks
  <2>4. ResultsSeen(f)
    BY Zenon, SeesResults
  <2> HIDE DEF f
  <2> QED  BY ZenonT(60), <1>2, <1>3, <2>2, <2>3, <2>4, Accepted
<1>5. rec'.pc = "create" /\ rec' = schedule(rec, f, s, {}, s)
  BY Zenon, <1>3, <1>4
<1>6. Facts(rec)' = f
  <2>1. rec'.view = rec.view /\ rec'.vf = {} /\ rec'.spec = rec.spec /\ rec'.orig = rec.orig
    <3> HIDE DEF f, s
    <3> QED  BY <1>1, <1>5, ScheduleSets
  <2>2. rec.vf = {} /\ UNCHANGED elapsed
    BY Zenon, <1>1 DEF VfEmpty, Move, Keeps
  <2> QED  BY Zenon, <2>1, <2>2, SameFacts
<1>7. CASE DAGExecutionQueue(f, s) # {}
  <2>1. PICK t \in DAGExecutionQueue(f, s) : TRUE
    BY Zenon, <1>7
  <2>2. t \in DagTasks /\ t \in Tasks
    BY ZenonT(60), <2>1 DEF DAGExecutionQueue, GetCandidateTasks, Tasks
  <2> HIDE DEF f, s
  <2>3. GetNamesOfTaskRuns(rec.st, t) \subseteq rec'.todo
    BY Zenon, <1>1, <1>5, <2>1, SchedulePlans
  <2>4. PICK r \in GetNamesOfTaskRuns(rec.st, t) : r[1] = t
    BY Zenon, <2>2, NamesThere
  <2> QED  BY Zenon, <1>5, <2>2, <2>3, <2>4
<1>8. CASE DAGExecutionQueue(f, s) = {}
  <2>1. AllDone(f)
    BY Zenon, <1>2, <1>3, <1>8, NothingLeft
  <2>2. [f EXCEPT !.vf = {}] = f
    BY <1>3 DEF Facts
  <2>3. \A t \in DagTasks : isDone(f, s, t)
    BY Zenon, <2>1 DEF AllDone
  <2> HIDE DEF f, s
  <2>4. dagDone(f, s, {}, s)
    BY Zenon, <2>2, <2>3 DEF dagDone, checkDAGTasksDone, isDone
  <2>5. ASSUME NEW t \in FinalTasks PROVE Decided(f, t) \/ \E r \in rec'.todo : r[1] = t
    <3>1. CASE ~isScheduled(f, t) /\ unresolved(f, t) = {}
      <4>1. GetNamesOfTaskRuns(rec.st, t) \subseteq rec'.todo
        BY ZenonT(60), <1>1, <1>5, <2>4, <3>1, SchedulePlans
      <4> QED  BY ZenonT(60), <4>1, NamesThere DEF Tasks
    <3>2. CASE isScheduled(f, t) \/ unresolved(f, t) # {}
      BY Zenon, <3>2 DEF Decided, finallySkip
    <3> QED  BY Zenon, <3>1, <3>2
  <2> QED  BY Zenon, <1>5, <1>6, <2>1, <2>5
<1> QED  BY ZenonT(60), <1>7, <1>8

\* A reconcile makes a move.
LEMMA MoveProgresses ==
  ASSUME SkipsByWhenOnly, SInv, ResInv, VfEmpty, AncInv, ProgressInv, ~queued, [Next]_vars, Move,
         rec.pc \notin {"idle", "write"}
  PROVE  ProgressInv'
<1>1. /\ UNCHANGED <<pr, prCache, lister, elapsed, queued>>
      /\ rec'.orig = rec.orig /\ rec'.spec = rec.spec
  BY Zenon DEF Move, Keeps
<1>2. TypeOK /\ rec'.pc # "idle"
  BY Zenon DEF SInv, IInv, Move, PatchesOne, PatchesMore, PatchedAll, Schedules, Creates,
       CreatedAll, Concludes
<1>3. Awaits => Awaits'
  BY ZenonT(60), <1>1, <1>2, RunsGoOn DEF Awaits
<1>4. rec'.orig = prCache'.st /\ rec'.spec = prCache'.spec
  BY Zenon, <1>1 DEF ProgressInv
<1>5. rec'.pc = "patch" /\ rec'.why = "pipeline" => HasTimedOut(rec)'
  <2> SUFFICES ASSUME rec'.pc = "patch", rec'.why = "pipeline" PROVE HasTimedOut(rec)'
    BY Zenon
  <2>1. \/ PatchesOne
        \/ CreatedAll /\ HasTimedOut(rec)
    BY Zenon DEF Move, PatchesMore, PatchedAll, Schedules, Creates, CreatedAll, Concludes
  <2>2. HasTimedOut(rec) /\ Alike
    BY Zenon, <2>1 DEF PatchesOne, CreatedAll, ProgressInv
  <2> QED  BY ZenonT(60), <1>1, <2>2, SameFacts DEF Alike
<1>6. CASE Awaits'
  BY Zenon, <1>2, <1>4, <1>5, <1>6 DEF ProgressInv
<1>7. CASE ~Awaits'
  <2>1. ~Awaits /\ rec.view = lister
    BY Zenon, <1>3, <1>7 DEF ProgressInv
  <2>2. ASSUME rec'.view = rec.view, rec'.pc \notin {"create", "conclude", "write"}
        PROVE  ProgressInv'
    BY Zenon, <1>1, <1>2, <1>4, <1>5, <2>1, <2>2 DEF ProgressInv
  <2>3. ASSUME rec'.pc = "write", rec'.out \in {"retry", "resolving"} \/ IsDone(rec.st)'
        PROVE  ProgressInv'
    BY Zenon, <1>4, <2>3 DEF ProgressInv
  <2>4. ASSUME rec'.view = rec.view, rec'.pc = "conclude",
               HasTimedOut(rec)' \/ Settled(Facts(rec)')
        PROVE  ProgressInv'
    BY Zenon, <1>1, <1>4, <2>1, <2>4 DEF ProgressInv
  <2>5. ASSUME rec'.view = rec.view, rec'.pc = "create",
               \/ \E r \in rec'.todo : r[1] \in DagTasks
               \/ /\ AllDone(Facts(rec)')
                  /\ \A t \in FinalTasks :
                       Decided(Facts(rec)', t) \/ \E r \in rec'.todo : r[1] = t
        PROVE  ProgressInv'
    BY Zenon, <1>1, <1>4, <2>1, <2>5 DEF ProgressInv
  <2>6. CASE PatchesOne \/ PatchesMore
    BY ZenonT(60), <2>2, <2>6 DEF PatchesOne, PatchesMore, Alike
  <2>7. CASE PatchedAll
    <3>1. CASE rec'.pc = "conclude" /\ rec.why = "pipeline"
      <4>1. HasTimedOut(rec) /\ Alike
        BY ZenonT(60), <2>7, <3>1 DEF PatchedAll, ProgressInv
      <4>2. HasTimedOut(rec)' /\ rec'.view = rec.view
        BY Zenon, <1>1, <4>1, SameFacts DEF Alike
      <4> QED  BY Zenon, <2>4, <3>1, <4>2
    <3>2. CASE rec'.pc = "write"
      <4>1. rec'.out = "retry" \/ IsDone(rec.st)'
        BY ZenonT(60), <2>7, <3>2 DEF PatchedAll, IsDone
      <4> QED  BY Zenon, <2>3, <3>2, <4>1
    <3> QED  BY Zenon, <2>7, <3>1, <3>2 DEF PatchedAll
  <2>8. CASE Schedules
    <3>1. /\ rec'.pc = "create"
          /\ \/ \E r \in rec'.todo : r[1] \in DagTasks
             \/ /\ AllDone(Facts(rec)')
                /\ \A t \in FinalTasks :
                     Decided(Facts(rec)', t) \/ \E r \in rec'.todo : r[1] = t
      BY ZenonT(60), <2>1, <2>8, ScheduleProgresses
    <3>2. rec' = schedule(rec, Facts(rec), Skips(Facts(rec)), {}, Skips(Facts(rec)))
      BY ZenonT(60), <2>8, <3>1, SchedulesCleanly
    <3>3. rec \in ReconcileType
      BY Zenon, <1>2 DEF TypeOK
    <3>4. rec'.view = rec.view
      BY <3>2, <3>3, ScheduleSets
    <3> QED  BY ZenonT(60), <2>5, <3>1, <3>4
  <2>9. CASE Creates
    <3>1. PICK r \in rec.todo :
            \/ /\ runs[r] = Absent /\ runs' = [runs EXCEPT ![r] = Created] /\ r \in Run
            \/ rec'.pc = "write" /\ (rec'.out = "retry" \/ IsDone(rec'.st))
            \/ /\ rec'.pc = "create" /\ Alike /\ skippedNow(r[1])
               /\ rec'.todo = rec.todo \ RunsOf(r[1])
      BY Zenon, <2>9 DEF Creates
    <3>2. CASE runs[r] = Absent /\ runs' = [runs EXCEPT ![r] = Created] /\ r \in Run
      <4>1. runs[r].st = "Absent" /\ Created.st # "Absent" /\ runs \in [Run -> RunRecord]
        <5>1. Absent.st = "Absent" /\ Created.st = "Running"
          BY Zenon DEF Absent, Created
        <5> QED  BY Zenon, <1>2, <3>2, <5>1 DEF TypeOK
      <4>2. lister[r].st = "Absent" /\ lister' = lister
        BY ZenonT(60), <1>1, <3>2, <4>1 DEF SInv, IInv, ViewsInv, Behind
      <4>3. runs'[r].st # "Absent"
        BY ZenonT(60), <3>2, <4>1
      <4> QED  BY ZenonT(60), <1>7, <3>2, <4>2, <4>3 DEF Awaits
    <3>3. CASE rec'.pc = "write" /\ (rec'.out = "retry" \/ IsDone(rec'.st))
      BY ZenonT(60), <2>3, <3>3 DEF IsDone
    <3>4. CASE /\ rec'.pc = "create" /\ Alike /\ skippedNow(r[1])
               /\ rec'.todo = rec.todo \ RunsOf(r[1])
      <4>1. rec'.view = rec.view /\ Facts(rec)' = Facts(rec)
        BY ZenonT(60), <1>1, <3>4, SameFacts DEF Alike
      <4>2. r[1] \in FinalTasks /\ finallySkip(Facts(rec), r[1]) # "None"
        BY Zenon, <3>4 DEF skippedNow
      <4>3. rec.pc = "create"
        BY Zenon, <2>9 DEF Creates
      <4>4. \/ \E q \in rec.todo : q[1] \in DagTasks
            \/ /\ AllDone(Facts(rec))
               /\ \A t \in FinalTasks : Decided(Facts(rec), t) \/ \E q \in rec.todo : q[1] = t
        BY Zenon, <2>1, <4>3 DEF ProgressInv
      <4>5. \/ \E q \in rec'.todo : q[1] \in DagTasks
            \/ /\ AllDone(Facts(rec))
               /\ \A t \in FinalTasks : Decided(Facts(rec), t) \/ \E q \in rec'.todo : q[1] = t
        <5> DEFINE f == Facts(rec)
                   todo == rec.todo
                   left == rec'.todo
        <5>1. finallySkip(f, r[1]) # "None" /\ r[1] \in FinalTasks /\ left = todo \ RunsOf(r[1])
          BY Zenon, <3>4, <4>2
        <5>2. \/ \E q \in todo : q[1] \in DagTasks
              \/ AllDone(f) /\ \A t \in FinalTasks : Decided(f, t) \/ \E q \in todo : q[1] = t
          BY Zenon, <4>4
        <5> HIDE DEF f, todo, left
        <5>3. \/ \E q \in left : q[1] \in DagTasks
              \/ AllDone(f) /\ \A t \in FinalTasks : Decided(f, t) \/ \E q \in left : q[1] = t
          <6>1. \A q \in todo : q \in RunsOf(r[1]) => q[1] = r[1]
            BY DEF RunsOf
          <6>2. r[1] \notin DagTasks
            BY ZenonT(60), <5>1, PipelineAssumption
          <6>3. Decided(f, r[1])
            BY Zenon, <5>1 DEF Decided
          <6>4. \A q \in todo : q[1] # r[1] => q \in left
            BY ZenonT(60), <5>1, <6>1
          <6> HIDE DEF AllDone
          <6> QED  BY Zenon, <5>2, <6>2, <6>3, <6>4
        <5> QED  BY Zenon, <5>3 DEF f, left
      <4> QED  BY Zenon, <2>5, <3>4, <4>1, <4>5
    <3> QED  BY Zenon, <3>1, <3>2, <3>3, <3>4
  <2>10. CASE CreatedAll
    <3>1. rec.pc = "create" /\ rec.todo = {} /\ Alike /\ rec'.pc \in {"patch", "conclude"}
      BY Zenon, <2>10 DEF CreatedAll
    <3>2. Settled(Facts(rec))
      BY ZenonT(60), <2>1, <3>1 DEF ProgressInv, Settled
    <3>3. rec'.view = rec.view /\ Facts(rec)' = Facts(rec)
      BY ZenonT(60), <1>1, <3>1, SameFacts DEF Alike
    <3> QED  BY ZenonT(60), <2>2, <2>4, <3>1, <3>2, <3>3
  <2>11. CASE Concludes
    <3> DEFINE f == Facts(rec)
               s == Skips(f)
    <3>1. /\ rec.pc = "conclude" /\ rec'.pc = "write"
          /\ \/ rec'.st.reason = GetPipelineConditionStatus(f, s)
             \/ rec'.st.reason = "CouldntGetPipelineResult"
      BY Zenon, <2>11 DEF Concludes
    <3>2. CASE HasTimedOut(rec)
      <4>1. "pipeline" \in f.el
        BY Zenon, <3>2 DEF Facts, HasTimedOut
      <4> HIDE DEF f
      <4>2. GetPipelineConditionStatus(f, s) = "TimedOut"
        BY Zenon, <4>1 DEF GetPipelineConditionStatus
      <4>3. IsDone(rec.st)'
        BY Zenon, <3>1, <4>2 DEF IsDone, FailedReason
      <4> QED  BY Zenon, <2>3, <3>1, <4>3
    <3>3. CASE Settled(f)
      <4>1. f.vf = {} /\ NoneRunning(f)
        BY Zenon, <2>1, <3>1, FactsOfRec, SeesAllEnded DEF VfEmpty
      <4>2. GetPipelineConditionStatus(f, s) \in SucceededReason \cup FailedReason
        BY Zenon, <3>3, <4>1, SettledIsDone
      <4>3. IsDone(rec.st)'
        BY Zenon, <3>1, <4>2 DEF IsDone, FailedReason
      <4> QED  BY Zenon, <2>3, <3>1, <4>3
    <3> QED  BY Zenon, <2>1, <3>1, <3>2, <3>3 DEF ProgressInv
  <2> QED  BY Zenon, <2>6, <2>7, <2>8, <2>9, <2>10, <2>11 DEF Move
<1> QED  BY ZenonT(60), <1>6, <1>7

LEMMA NextProgressInv ==
  ASSUME SkipsByWhenOnly, SInv, ResInv, VfEmpty, AncInv, ProgressInv, [Next]_vars
  PROVE  ProgressInv'
<1> SUFFICES ASSUME ~queued' PROVE ProgressInv'
  BY Zenon DEF ProgressInv
<1>1. TypeOK
  BY Zenon DEF SInv, IInv
<1> QED  BY Zenon, <1>1, QuietSteps, BeginProgresses, MoveProgresses, WriteProgresses,
            WaitProgresses

\* At first the PipelineRun is in the queue and there is no run.
LEMMA InitProgressInv == Init => ResInv /\ VfEmpty /\ AncInv /\ ProgressInv
<1> SUFFICES ASSUME Init PROVE ResInv /\ VfEmpty /\ AncInv /\ ProgressInv
  BY Zenon
<1>1. \A r \in Run : runs[r].st = "Absent"
  BY Zenon DEF Init, Absent
<1>2. rec.pc = "idle" /\ rec.vf = {} /\ queued
  BY Zenon DEF Init, NoReconcile
<1>3. Explains({})
  BY Zenon, <1>1, <1>2, RunsOfType DEF Explains, existing, Tasks
<1> QED  BY Zenon, <1>1, <1>2, <1>3 DEF ResInv, VfEmpty, AncInv, ProgressInv

(***************************************************************************)
(* A PipelineRun never waits for nothing: when no reconcile is queued or   *)
(* at work, the caches hold everything and no child run is going, it is    *)
(* done or pending.  So reconcile never leaves a PipelineRun to its        *)
(* timeout: not after failing API calls, crashes, stale caches, a status   *)
(* that was overwritten, or a graceful stop at any moment.                 *)
(***************************************************************************)
THEOREM IsNeverStuck == SkipsByWhenOnly => (Spec => []NeverStuck)
<1> SUFFICES ASSUME SkipsByWhenOnly PROVE Spec => []NeverStuck
  OBVIOUS
<1>1. SInv /\ ResInv /\ VfEmpty /\ AncInv /\ ProgressInv /\ [Next]_vars
      => ResInv' /\ VfEmpty' /\ AncInv' /\ ProgressInv'
  <2>1. SInv => TypeOK
    BY Zenon DEF SInv, IInv
  <2> QED  BY Zenon, <2>1, NextResInv, NextVfEmpty, NextAncInv, NextProgressInv
<1>2. ProgressInv => NeverStuck
  BY Zenon DEF ProgressInv, NeverStuck, quiet, Awaits
<1> QED  BY <1>1, <1>2, InitProgressInv, SInvHolds, PTL DEF Spec
=============================================================================
