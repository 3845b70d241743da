--------------------------- MODULE TaskRunProofs ---------------------------
(***************************************************************************)
(* The TaskRun reconciler, for any number of retries, failing calls and    *)
(* crashes: types, attempts given up for good, the refinement of ChildRun, *)
(* and what each step does to the pods and to the reconcile in progress.   *)
(***************************************************************************)
EXTENDS TaskRun, TLAPS

Reasons == {"Succeeded"} \cup FailedReason \cup OngoingReason
Outs == {"nil", "ok", "retry", "permanent"}
PCs == {"idle", "stop", "kill", "create", "ready", "status", "write"}

-----------------------------------------------------------------------------
\* The records, field by field.

LEMMA StatusFields ==
  ASSUME NEW s \in Status
  PROVE  /\ s.reason \in Reasons /\ s.start \in Nat /\ s.pod \in 0..NoPod /\ s.tries \in Attempt
         /\ s.archived \in SUBSET Attempt
         /\ \A r \in Reasons : [s EXCEPT !.reason = r] \in Status
         /\ \A b \in BOOLEAN : [s EXCEPT !.stepWait = b] \in Status
         /\ \A b \in BOOLEAN : [s EXCEPT !.sideWait = b] \in Status
         /\ \A b \in BOOLEAN : [s EXCEPT !.spec = b] \in Status
         /\ \A n \in Nat : [s EXCEPT !.start = n] \in Status
         /\ \A a \in 0..NoPod : [s EXCEPT !.pod = a] \in Status
  BY DEF Status, Reasons

LEMMA ReconcileFields ==
  ASSUME NEW R \in ReconcileType
  PROVE  /\ R.pc \in PCs /\ R.cancelled \in BOOLEAN /\ R.orig \in Status /\ R.st \in Status
         /\ R.name \in 0..NoPod /\ R.seen \in Pod /\ R.out \in Outs
         /\ \A p \in PCs : [R EXCEPT !.pc = p] \in ReconcileType
         /\ \A s \in Status : [R EXCEPT !.st = s] \in ReconcileType
         /\ \A o \in Outs : [R EXCEPT !.out = o] \in ReconcileType
         /\ \A a \in 0..NoPod : [R EXCEPT !.name = a] \in ReconcileType
         /\ \A p \in Pod : [R EXCEPT !.seen = p] \in ReconcileType
  BY DEF ReconcileType, PCs, Outs

LEMMA Attempts ==
  /\ Attempt \subseteq 0..NoPod
  /\ NoPod \in 0..NoPod
  /\ NoPod \notin Attempt
  /\ Attempt \subseteq Nat
  /\ 0 \in Attempt
  BY TaskRunAssumption DEF Attempt, NoPod

LEMMA PodFields ==
  /\ AbsentPod \in Pod
  /\ NewPod \in Pod
  /\ \A p \in Pod, b \in BOOLEAN : [p EXCEPT !.cancel = b] \in Pod /\ [p EXCEPT !.ready = b] \in Pod
  BY TaskRunAssumption DEF AbsentPod, NewPod, Pod

LEMMA NewRecords == NewStatus \in Status /\ NoReconcile \in ReconcileType
<1>1. NewStatus \in Status
  BY Attempts DEF NewStatus, Status, OngoingReason
<1> QED
  BY <1>1, Attempts, PodFields DEF NoReconcile, ReconcileType

-----------------------------------------------------------------------------
\* The parts of a reconcile.

LEMMA RetryFacts ==
  ASSUME NEW s \in Status, IsRetriable(s)
  PROVE  LET t == retryTaskRun(s)
         IN /\ t \in Status
            /\ t.tries = s.tries + 1
            /\ t.archived = s.archived \cup ({s.pod} \ {NoPod})
            /\ t.pod = NoPod
            /\ t.reason = "ToBeRetried"
            /\ t.start = 0
<1>1. s.tries + 1 \in Attempt
  BY StatusFields, TaskRunAssumption DEF IsRetriable, Attempt
<1>2. s.archived \cup ({s.pod} \ {NoPod}) \in SUBSET Attempt
  BY StatusFields, TaskRunAssumption DEF Attempt, NoPod
<1> QED
  BY Zenon, <1>1, <1>2, Attempts DEF retryTaskRun, Status, OngoingReason

LEMMA FinishFacts ==
  ASSUME NEW R \in ReconcileType, NEW out \in Outs
  PROVE  LET F == finishReconcileUpdateEmitEvents(R, out)
         IN /\ F \in ReconcileType
            /\ F.pc = "write"
            /\ F.orig = R.orig
            /\ F.cancelled = R.cancelled
            /\ F.name = R.name
            /\ F.st = IF IsFailure(R.st) /\ ~R.cancelled /\ IsRetriable(R.st)
                      THEN retryTaskRun(R.st) ELSE R.st
<1> DEFINE s == IF IsFailure(R.st) /\ ~R.cancelled /\ IsRetriable(R.st)
                THEN retryTaskRun(R.st) ELSE R.st
<1>1. s \in Status
  BY RetryFacts, ReconcileFields
<1>2. finishReconcileUpdateEmitEvents(R, out) = [R EXCEPT !.pc = "write", !.st = s, !.out = out]
  BY DEF finishReconcileUpdateEmitEvents
<1> HIDE DEF s
<1>3. LET F == [R EXCEPT !.pc = "write", !.st = s, !.out = out]
      IN /\ F \in ReconcileType /\ F.pc = "write" /\ F.orig = R.orig /\ F.st = s
         /\ F.cancelled = R.cancelled /\ F.name = R.name
  BY Zenon, <1>1 DEF ReconcileType, Outs
<1> QED
  BY <1>2, <1>3 DEF s

\* A reconcile whose status takes another reason.
LEMMA ReasonFacts ==
  ASSUME NEW R \in ReconcileType, NEW why \in Reasons
  PROVE  LET S == [R EXCEPT !.st.reason = why]
         IN /\ S \in ReconcileType
            /\ S = [R EXCEPT !.st = [R.st EXCEPT !.reason = why]]
            /\ S.st = [R.st EXCEPT !.reason = why]
<1>1. [R.st EXCEPT !.reason = why] \in Status
  BY ReconcileFields, StatusFields
<1>2. [R EXCEPT !.st.reason = why] = [R EXCEPT !.st = [R.st EXCEPT !.reason = why]]
  OBVIOUS
<1>3. [R EXCEPT !.st = [R.st EXCEPT !.reason = why]].st = [R.st EXCEPT !.reason = why]
  BY DEF ReconcileType
<1> QED
  BY <1>1, <1>2, <1>3, ReconcileFields

LEMMA FailFacts ==
  ASSUME NEW R \in ReconcileType, NEW why \in Reasons
  PROVE  LET F == failTaskRun(R, why)
             s == [R.st EXCEPT !.reason = why]
         IN /\ F \in ReconcileType
            /\ \/ R.st.pod = NoPod /\ F = finishReconcileUpdateEmitEvents([R EXCEPT !.st = s], "nil")
               \/ /\ R.st.pod # NoPod
                  /\ F = [R EXCEPT !.pc = "kill", !.st = [s EXCEPT !.stepWait = FALSE]]
<1> DEFINE s == [R.st EXCEPT !.reason = why]
<1>1. s \in Status /\ [s EXCEPT !.stepWait = FALSE] \in Status
  BY Zenon, ReconcileFields, StatusFields
<1>2. [R EXCEPT !.st.reason = why] = [R EXCEPT !.st = s] /\ [R EXCEPT !.st = s] \in ReconcileType
  BY ReasonFacts
<1>3. CASE R.st.pod = NoPod
  BY <1>2, <1>3, FinishFacts DEF failTaskRun, Outs
<1>4. CASE R.st.pod # NoPod
  <2>1. failTaskRun(R, why) = [[R EXCEPT !.st.reason = why] EXCEPT !.pc = "kill", !.st.stepWait = FALSE]
    BY <1>4 DEF failTaskRun
  <2>2. failTaskRun(R, why) = [[R EXCEPT !.st = s] EXCEPT !.pc = "kill", !.st.stepWait = FALSE]
    BY <2>1, <1>2
  <2> HIDE DEF s
  <2>3. failTaskRun(R, why) = [R EXCEPT !.pc = "kill", !.st = [s EXCEPT !.stepWait = FALSE]]
    BY Zenon, <2>2 DEF ReconcileType
  <2>4. [R EXCEPT !.pc = "kill", !.st = [s EXCEPT !.stepWait = FALSE]] \in ReconcileType
    BY Zenon, <1>1 DEF ReconcileType
  <2> QED
    BY <1>4, <2>3, <2>4 DEF s
<1> QED
  BY <1>3, <1>4

LEMMA UseFacts ==
  ASSUME NEW R \in ReconcileType, NEW a \in Attempt, NEW p \in Pod
  PROVE  LET U == usePod(R, a, p)
         IN /\ U \in ReconcileType
            /\ U.pc \in {"ready", "status"}
            /\ U.orig = R.orig /\ U.st = R.st /\ U.cancelled = R.cancelled
            /\ U.name = a
<1> DEFINE next == IF SidecarsReady(p) /\ ~p.ready THEN "ready" ELSE "status"
<1>1. next \in {"ready", "status"}
  OBVIOUS
<1>2. usePod(R, a, p) = [R EXCEPT !.pc = next, !.name = a, !.seen = p]
  BY DEF usePod
<1> HIDE DEF next
<1> QED
  BY Zenon, <1>1, <1>2, Attempts DEF ReconcileType

LEMMA StatusOfPod ==
  ASSUME NEW s \in Status, NEW a \in 0..NoPod, NEW p \in Pod
  PROVE  LET m == MakeTaskRunStatus(s, a, p)
         IN /\ m \in Status
            /\ m.pod = a
            /\ m.start = s.start /\ m.tries = s.tries /\ m.archived = s.archived
            /\ m.reason # "Cancelled"
<1> DEFINE why == IF areContainersCompleted(p) \/ isPodCompleted(p)
                  THEN completedReason(p) ELSE incompleteReason(p)
           b == setTaskRunStatusBasedOnStepStatus(p)
           c == setTaskRunStatusBasedOnSidecarStatus(p)
<1>1. why \in Reasons \ {"Cancelled"}
  BY DEF completedReason, incompleteReason, Reasons, FailedReason, OngoingReason
<1>2. b \in BOOLEAN /\ c \in BOOLEAN
  BY DEF setTaskRunStatusBasedOnStepStatus, setTaskRunStatusBasedOnSidecarStatus
<1>3. MakeTaskRunStatus(s, a, p) = [s EXCEPT !.reason = why, !.pod = a, !.stepWait = b, !.sideWait = c]
  BY Zenon DEF MakeTaskRunStatus
<1> HIDE DEF why, b, c
<1>4. LET m == [s EXCEPT !.reason = why, !.pod = a, !.stepWait = b, !.sideWait = c]
      IN /\ m \in Status /\ m.pod = a /\ m.reason = why
         /\ m.start = s.start /\ m.tries = s.tries /\ m.archived = s.archived
  BY Zenon, <1>1, <1>2 DEF Status, Reasons
<1> QED
  BY <1>1, <1>3, <1>4

LEMMA BegunFacts ==
  ASSUME TypeOK
  PROVE  /\ begun \in ReconcileType
         /\ begun.orig = trCache.st /\ begun.cancelled = trCache.cancelled /\ begun.name = NoPod
         /\ begun.st = InitializeConditions(trCache.st)
         /\ begun.st.start # 0
         /\ begun.st.pod = trCache.st.pod
         /\ begun.st.tries = trCache.st.tries
         /\ begun.st.archived = trCache.st.archived
         /\ begun.st.reason = IF trCache.st.start = 0 THEN "Started" ELSE trCache.st.reason
<1>1. trCache.st \in Status /\ trCache.cancelled \in BOOLEAN /\ stamp \in Nat
  BY DEF TypeOK
<1> DEFINE s == InitializeConditions(trCache.st)
<1>2. /\ s \in Status /\ s.start # 0 /\ s.pod = trCache.st.pod /\ s.tries = trCache.st.tries
      /\ s.archived = trCache.st.archived
      /\ s.reason = IF trCache.st.start = 0 THEN "Started" ELSE trCache.st.reason
  <2>1. CASE trCache.st.start # 0
    BY <1>1, <2>1 DEF InitializeConditions
  <2>2. CASE trCache.st.start = 0
    <3>1. s = [trCache.st EXCEPT !.start = stamp + 1, !.reason = "Started"]
      BY <2>2 DEF InitializeConditions
    <3> HIDE DEF s
    <3> DEFINE c == trCache.st
               n == stamp + 1
    <3>2. c \in Status /\ n \in Nat /\ n # 0 /\ s = [c EXCEPT !.start = n, !.reason = "Started"]
      BY <1>1, <3>1
    <3> HIDE DEF c, n
    <3>3. s \in Status /\ s.start # 0 /\ s.pod = c.pod /\ s.tries = c.tries
      BY Zenon, <1>1, <3>2 DEF Status, OngoingReason
    <3>4. s.archived = c.archived /\ s.reason = "Started"
      BY <1>1, <3>2 DEF Status
    <3> QED
      BY <2>2, <3>3, <3>4 DEF c
  <2> QED
    BY <2>1, <2>2
<1> HIDE DEF s
<1>3. begun = [NoReconcile EXCEPT !.cancelled = trCache.cancelled, !.orig = trCache.st, !.st = s]
  BY DEF begun, s
<1>4. /\ begun \in ReconcileType /\ begun.orig = trCache.st /\ begun.st = s
      /\ begun.cancelled = trCache.cancelled /\ begun.name = NoPod
  BY Zenon, <1>1, <1>2, <1>3, NewRecords, Attempts, PodFields DEF NoReconcile, ReconcileType
<1> QED
  BY <1>2, <1>4 DEF s

LEMMA WithStatusFacts ==
  ASSUME TypeOK
  PROVE  LET m == MakeTaskRunStatus(rec.st, rec.name, rec.seen)
         IN m \in Status /\ withStatus = [rec EXCEPT !.st = m] /\ withStatus \in ReconcileType
<1>1. rec \in ReconcileType
  BY DEF TypeOK
<1>2. MakeTaskRunStatus(rec.st, rec.name, rec.seen) \in Status
  BY <1>1, ReconcileFields, StatusOfPod
<1>3. withStatus = [rec EXCEPT !.st = MakeTaskRunStatus(rec.st, rec.name, rec.seen)]
  BY DEF withStatus
<1> QED
  BY <1>1, <1>2, <1>3, ReconcileFields

\* A pod named by the status, or of this attempt and not archived, is found.
LEMMA FoundFacts ==
  ASSUME NEW s \in Status, NEW view, NEW a \in foundPods(s, view)
  PROVE  /\ a \in Attempt /\ exists(view[a])
         /\ a = s.pod \/ a \notin s.archived
<1>1. CASE s.pod # NoPod
  <2>1. a = s.pod /\ exists(view[a])
    BY Zenon, <1>1 DEF foundPods
  <2>2. s.pod \in Attempt
    BY <1>1, StatusFields, TaskRunAssumption DEF Attempt, NoPod
  <2> QED
    BY <2>1, <2>2
<1>2. CASE s.pod = NoPod
  BY Zenon, <1>2 DEF foundPods
<1> QED
  BY Zenon, <1>1, <1>2

-----------------------------------------------------------------------------
\* Types.

LEMMA BeginTypes == TypeOK /\ Begin => TypeOK'
<1> SUFFICES ASSUME TypeOK, Begin PROVE TypeOK'
  OBVIOUS
<1>1. /\ trCache \in [cancelled : BOOLEAN, valid : BOOLEAN, st : Status]
      /\ podCache \in [Attempt -> Pod]
      /\ stamp \in Nat
  BY DEF TypeOK
<1>2. Dequeue
  BY DEF Begin, ReconcileDone, ReconcileCancelled, ReconcileTimedOut, ReconcilePullFailed,
         PrepareResolving, PrepareRetry, PrepareFailed, PrepareInvalid, Reconcile
<1>3. begun \in ReconcileType /\ begun.st \in Status
  BY BegunFacts, ReconcileFields
<1>4. rec' \in ReconcileType
  <2>1. CASE ReconcileDone
    BY Zenon, <2>1, <1>3, FinishFacts, ReconcileFields DEF ReconcileDone, Outs, PCs
  <2>2. CASE ReconcileCancelled
    BY Zenon, <2>2, <1>3, FailFacts DEF ReconcileCancelled, Reasons, FailedReason
  <2>3. CASE ReconcileTimedOut
    BY Zenon, <2>3, <1>3, FailFacts DEF ReconcileTimedOut, Reasons, FailedReason
  <2>4. CASE ReconcilePullFailed
    BY Zenon, <2>4, <1>3, FailFacts DEF ReconcilePullFailed, Reasons, FailedReason
  <2>5. CASE PrepareResolving
    <3>1. [begun EXCEPT !.st.reason = "Resolving"] \in ReconcileType
      BY Zenon, <1>3, ReasonFacts DEF Reasons, OngoingReason
    <3> QED
      BY <2>5, <3>1, FinishFacts DEF PrepareResolving, Outs
  <2>6. CASE PrepareRetry
    BY <2>6, <1>3, FinishFacts DEF PrepareRetry, Outs
  <2>7. CASE PrepareFailed
    <3>1. [begun EXCEPT !.st.reason = "Invalid"] \in ReconcileType
      BY <1>3, ReasonFacts DEF Reasons, FailedReason
    <3> QED
      BY <2>7, <3>1, FinishFacts DEF PrepareFailed, Outs
  <2>8. CASE PrepareInvalid
    <3>1. [[begun.st EXCEPT !.spec = TRUE] EXCEPT !.reason = "Invalid"] \in Status
      BY Zenon, <1>3, StatusFields DEF Reasons, FailedReason
    <3>2. [begun EXCEPT !.st.spec = TRUE, !.st.reason = "Invalid"]
            = [begun EXCEPT !.st = [[begun.st EXCEPT !.spec = TRUE] EXCEPT !.reason = "Invalid"]]
      BY Zenon, <1>3 DEF ReconcileType
    <3>3. [begun EXCEPT !.st.spec = TRUE, !.st.reason = "Invalid"] \in ReconcileType
      BY <3>1, <3>2, <1>3, ReconcileFields
    <3> QED
      BY <2>8, <3>3, FinishFacts DEF PrepareInvalid, Outs
  <2>9. CASE Reconcile
    <3> DEFINE R == [begun EXCEPT !.st.spec = TRUE]
    <3>1. [begun.st EXCEPT !.spec = TRUE] \in Status
      BY Zenon, <1>3, StatusFields
    <3>2. R = [begun EXCEPT !.st = [begun.st EXCEPT !.spec = TRUE]]
      OBVIOUS
    <3>3. R \in ReconcileType /\ R.st \in Status
      BY Zenon, <3>1, <3>2, <1>3, ReconcileFields
    <3>4. \/ rec' = [R EXCEPT !.pc = "create"]
          \/ \E a \in foundPods(R.st, podCache) : rec' = usePod(R, a, podCache[a])
      BY Zenon, <2>9 DEF Reconcile
    <3> HIDE DEF R
    <3>5. \A a \in foundPods(R.st, podCache) : usePod(R, a, podCache[a]) \in ReconcileType
      BY Zenon, <3>3, <1>1, FoundFacts, UseFacts
    <3> QED
      BY Zenon, <3>3, <3>4, <3>5, ReconcileFields DEF PCs
  <2> QED
    BY <2>1, <2>2, <2>3, <2>4, <2>5, <2>6, <2>7, <2>8, <2>9 DEF Begin
<1>5. stamp' \in Nat
  BY <1>1, <1>2 DEF Dequeue
<1>7. queued' \in BOOLEAN
  BY Zenon, <1>2 DEF Dequeue
<1>6. UNCHANGED <<tr, trCache, pods, podCache, expired, snooze, faults>>
  BY <1>2 DEF Dequeue
<1> QED
  BY <1>4, <1>5, <1>6, <1>7 DEF TypeOK

\* The pods after one of them changed.
LEMMA OnePod ==
  ASSUME NEW f \in [Attempt -> Pod], NEW a, NEW p, a \in Attempt => p \in Pod
  PROVE  [f EXCEPT ![a] = p] \in [Attempt -> Pod]
  BY Zenon

LEMMA PodUpdates ==
  ASSUME NEW f \in [Attempt -> Pod], NEW a
  PROVE  /\ \A x \in {"nop", "on", "stopped"} : [f EXCEPT ![a].side = x] \in [Attempt -> Pod]
         /\ \A x \in {"Running", "Succeeded", "Failed"} : [f EXCEPT ![a].phase = x] \in [Attempt -> Pod]
         /\ \A x \in {"going", "ok", "failed"} : [f EXCEPT ![a].steps = x] \in [Attempt -> Pod]
         /\ \A x \in SUBSET {"step", "side", "config"} : [f EXCEPT ![a].bad = x] \in [Attempt -> Pod]
         /\ \A x \in BOOLEAN : [f EXCEPT ![a].cancel = x] \in [Attempt -> Pod]
         /\ \A x \in BOOLEAN : [f EXCEPT ![a].ready = x] \in [Attempt -> Pod]
<1>0. a \in Attempt => f[a] \in Pod
  OBVIOUS
<1>1. ASSUME NEW x \in {"nop", "on", "stopped"} PROVE [f EXCEPT ![a].side = x] \in [Attempt -> Pod]
  <2>1. a \in Attempt => [f[a] EXCEPT !.side = x] \in Pod
    BY <1>0 DEF Pod
  <2> QED
    BY <2>1, OnePod
<1>2. ASSUME NEW x \in {"Running", "Succeeded", "Failed"}
      PROVE [f EXCEPT ![a].phase = x] \in [Attempt -> Pod]
  <2>1. a \in Attempt => [f[a] EXCEPT !.phase = x] \in Pod
    BY <1>0 DEF Pod
  <2> QED
    BY <2>1, OnePod
<1>3. ASSUME NEW x \in {"going", "ok", "failed"} PROVE [f EXCEPT ![a].steps = x] \in [Attempt -> Pod]
  <2>1. a \in Attempt => [f[a] EXCEPT !.steps = x] \in Pod
    BY <1>0 DEF Pod
  <2> QED
    BY <2>1, OnePod
<1>4. ASSUME NEW x \in SUBSET {"step", "side", "config"}
      PROVE [f EXCEPT ![a].bad = x] \in [Attempt -> Pod]
  <2>1. a \in Attempt => [f[a] EXCEPT !.bad = x] \in Pod
    BY <1>0 DEF Pod
  <2> QED
    BY <2>1, OnePod
<1>5. ASSUME NEW x \in BOOLEAN
      PROVE /\ [f EXCEPT ![a].cancel = x] \in [Attempt -> Pod]
            /\ [f EXCEPT ![a].ready = x] \in [Attempt -> Pod]
  <2>1. a \in Attempt => [f[a] EXCEPT !.cancel = x] \in Pod /\ [f[a] EXCEPT !.ready = x] \in Pod
    BY <1>0, PodFields
  <2>2. [f EXCEPT ![a].cancel = x] \in [Attempt -> Pod]
    BY <2>1, OnePod
  <2>3. [f EXCEPT ![a].ready = x] \in [Attempt -> Pod]
    BY <2>1, OnePod
  <2> QED
    BY <2>2, <2>3
<1> QED
  BY Zenon, <1>1, <1>2, <1>3, <1>4, <1>5

LEMMA CallTypes == TypeOK /\ (Call \/ CallFails \/ UpdateLabelsFails) => TypeOK'
<1> SUFFICES ASSUME TypeOK, Call \/ CallFails \/ UpdateLabelsFails PROVE TypeOK'
  OBVIOUS
<1>1. /\ rec \in ReconcileType /\ rec.st \in Status /\ rec.st.tries \in Attempt
      /\ pods \in [Attempt -> Pod] /\ podCache \in [Attempt -> Pod]
      /\ faults \in 0..MaxFaults
  BY ReconcileFields, StatusFields DEF TypeOK
<1>2. UNCHANGED <<tr, trCache, podCache, stamp, expired, queued, snooze>>
  BY Zenon DEF Call, CallFails, calls, StopSidecars, KillPod, CreatePod, UpdateReady, MakeStatus,
         ResultsTooLarge, ResultsInvalid, StopConflict, StopFails, KillFails, CreateOverQuota,
         CreateFails, UpdateReadyFails, MakeStatusFails, UpdateLabelsFails
<1>3. faults' \in 0..MaxFaults
  <2>1. faults' = faults \/ (faults < MaxFaults /\ faults' = faults + 1)
    BY Zenon DEF Call, CallFails, fault, StopSidecars, KillPod, CreatePod, UpdateReady,
                 MakeStatus,
           ResultsTooLarge, ResultsInvalid, StopConflict, StopFails, KillFails, CreateOverQuota,
           CreateFails, UpdateReadyFails, MakeStatusFails, UpdateLabelsFails
  <2> QED
    BY <1>1, <2>1, TaskRunAssumption
<1>4. \A out \in Outs : finishReconcileUpdateEmitEvents(rec, out) \in ReconcileType
  BY <1>1, FinishFacts
<1>5. \A out \in Outs, why \in Reasons :
        finishReconcileUpdateEmitEvents([rec EXCEPT !.st.reason = why], out) \in ReconcileType
  BY <1>1, ReasonFacts, FinishFacts
<1>6. withStatus \in ReconcileType
  BY WithStatusFacts
<1>7. rec' \in ReconcileType /\ pods' \in [Attempt -> Pod]
  <2>1. CASE StopSidecars
    <3>1. \A b \in BOOLEAN : [rec EXCEPT !.st.sideWait = b] \in ReconcileType
      <4> TAKE b \in BOOLEAN
      <4>1. [rec EXCEPT !.st.sideWait = b] = [rec EXCEPT !.st = [rec.st EXCEPT !.sideWait = b]]
        OBVIOUS
      <4> QED
        BY <4>1, <1>1, ReconcileFields, StatusFields
    <3>2. \A b \in BOOLEAN :
            finishReconcileUpdateEmitEvents([rec EXCEPT !.st.sideWait = b], "nil") \in ReconcileType
      BY <3>1, FinishFacts DEF Outs
    <3>3. [rec EXCEPT !.pc = "write", !.out = "permanent"] \in ReconcileType
      BY Zenon, <1>1 DEF ReconcileType
    <3>4. pods' = [pods EXCEPT ![rec.st.pod].side = "nop"] \/ pods' = pods
      BY Zenon, <2>1 DEF StopSidecars
    <3>5. [pods EXCEPT ![rec.st.pod].side = "nop"] \in [Attempt -> Pod]
      BY Zenon, <1>1, PodUpdates
    <3>6. pods' \in [Attempt -> Pod]
      BY <3>4, <3>5, <1>1
    <3> DEFINE bad == "side" \in pods[rec.st.pod].bad
    <3>7. \/ rec' = [rec EXCEPT !.pc = "write", !.out = "permanent"]
          \/ rec' = finishReconcileUpdateEmitEvents([rec EXCEPT !.st.sideWait = bad], "nil")
      BY Zenon, <2>1 DEF StopSidecars
    <3>8. bad \in BOOLEAN
      OBVIOUS
    <3>9. finishReconcileUpdateEmitEvents([rec EXCEPT !.st.sideWait = bad], "nil") \in ReconcileType
      BY Zenon, <3>2, <3>8
    <3>10. rec' \in ReconcileType
      BY <3>3, <3>7, <3>9
    <3> QED
      BY <3>6, <3>10
  <2>2. CASE StopConflict
    BY Zenon, <2>2, <1>1 DEF StopConflict, ReconcileType
  <2>3. CASE StopFails
    BY <2>3, <1>1, <1>5 DEF StopFails, Outs, Reasons, FailedReason
  <2>4. CASE KillPod
    <3>1. \/ pods' = [pods EXCEPT ![rec.st.pod].cancel = exists(pods[rec.st.pod])]
          \/ pods' = [pods EXCEPT ![rec.st.pod] = AbsentPod]
      BY <2>4 DEF KillPod
    <3>2. exists(pods[rec.st.pod]) \in BOOLEAN
      BY DEF exists
    <3>4. [pods EXCEPT ![rec.st.pod].cancel = exists(pods[rec.st.pod])] \in [Attempt -> Pod]
      BY Zenon, <3>2, <1>1, PodUpdates
    <3>5. [pods EXCEPT ![rec.st.pod] = AbsentPod] \in [Attempt -> Pod]
      BY <1>1, OnePod, PodFields
    <3>3. pods' \in [Attempt -> Pod]
      BY <3>1, <3>4, <3>5
    <3> QED
      BY <2>4, <3>3, <1>4 DEF KillPod, Outs
  <2>5. CASE KillFails
    BY <2>5, <1>1, <1>4 DEF KillFails, Outs
  <2>6. CASE CreatePod
    <3> DEFINE a == rec.st.tries
    <3>1. pods' = [pods EXCEPT ![a] = NewPod] \/ pods' = pods
      BY Zenon, <2>6 DEF CreatePod
    <3>2. pods' \in [Attempt -> Pod]
      BY <3>1, <1>1, OnePod, PodFields
    <3>3. \/ rec' = usePod(rec, a, NewPod)
          \/ rec' = usePod(rec, a, podCache[a])
          \/ rec' = finishReconcileUpdateEmitEvents([rec EXCEPT !.st.reason = "Pending"], "retry")
      BY Zenon, <2>6 DEF CreatePod
    <3>4. usePod(rec, a, NewPod) \in ReconcileType
      BY <1>1, UseFacts, PodFields
    <3>5. podCache[a] \in Pod
      BY <1>1
    <3>6. usePod(rec, a, podCache[a]) \in ReconcileType
      BY <3>5, <1>1, UseFacts
    <3>7. finishReconcileUpdateEmitEvents([rec EXCEPT !.st.reason = "Pending"], "retry")
            \in ReconcileType
      BY Zenon, <1>5 DEF Outs, Reasons, OngoingReason
    <3> QED
      BY <3>2, <3>3, <3>4, <3>6, <3>7
  <2>7. CASE CreateOverQuota
    <3>1. [[rec.st EXCEPT !.reason = "Pending"] EXCEPT !.start = 0] \in Status
      BY Zenon, <1>1, StatusFields DEF Reasons, OngoingReason
    <3>2. [rec EXCEPT !.st.reason = "Pending", !.st.start = 0]
            = [rec EXCEPT !.st = [[rec.st EXCEPT !.reason = "Pending"] EXCEPT !.start = 0]]
      BY Zenon, <1>1 DEF ReconcileType
    <3>3. [rec EXCEPT !.st.reason = "Pending", !.st.start = 0] \in ReconcileType
      BY <3>1, <3>2, <1>1, ReconcileFields
    <3> QED
      BY <2>7, <3>3, <1>1, FinishFacts DEF CreateOverQuota, Outs
  <2>8. CASE CreateFails
    BY <2>8, <1>1, <1>5 DEF CreateFails, Outs, Reasons, FailedReason
  <2>9. CASE UpdateReady
    <3>1. [rec EXCEPT !.pc = "status"] \in ReconcileType
      BY Zenon, <1>1, ReconcileFields DEF PCs
    <3>2. [pods EXCEPT ![rec.name].ready = TRUE] \in [Attempt -> Pod]
      BY Zenon, <1>1, PodUpdates
    <3> QED
      BY Zenon, <2>9, <3>1, <3>2, <1>1, <1>4 DEF UpdateReady, Outs
  <2>10. CASE UpdateReadyFails
    BY <2>10, <1>1, <1>4 DEF UpdateReadyFails, Outs
  <2>11. CASE MakeStatus
    BY <2>11, <1>1, <1>6, FinishFacts DEF MakeStatus, Outs
  <2>12. CASE MakeStatusFails
    BY <2>12, <1>1, <1>6, FinishFacts DEF MakeStatusFails, Outs
  <2>13. CASE ResultsTooLarge
    BY Zenon, <2>13, <1>1, <1>6, FailFacts DEF ResultsTooLarge, Reasons, FailedReason
  <2>14. CASE ResultsInvalid
    <3>1. [withStatus EXCEPT !.st.reason = "Invalid"] \in ReconcileType
      BY ZenonT(60), <1>6, ReasonFacts DEF Reasons, FailedReason
    <3> QED
      BY <2>14, <3>1, <1>1, FinishFacts DEF ResultsInvalid, Outs
  <2>15. CASE UpdateLabelsFails
    BY Zenon, <2>15, <1>1, ReconcileFields DEF UpdateLabelsFails, Outs
  <2> QED
    BY <2>1, <2>2, <2>3, <2>4, <2>5, <2>6, <2>7, <2>8, <2>9, <2>10, <2>11, <2>12, <2>13, <2>14,
       <2>15 DEF Call, CallFails
<1> QED
  BY <1>2, <1>3, <1>7 DEF TypeOK

PodStep(a) == PodProgress(a) \/ PodBlocked(a) \/ PodUnblocked(a) \/ PodLost(a)

LEMMA PodStepFrame ==
  ASSUME NEW a \in Attempt, PodStep(a)
  PROVE  /\ UNCHANGED <<tr, trCache, podCache, stamp, expired, rec, queued, snooze>>
         /\ faults' = faults \/ (faults < MaxFaults /\ faults' = faults + 1)
         /\ exists(pods[a])
  BY DEF PodStep, PodProgress, PodStarts, SidecarReady, SidecarExits, StepsStart, StepsEnd,
         PodEnds,
         PodBlocked, PodUnblocked, PodLost, podStep, fault, live, exists

LEMMA PodStepPods ==
  ASSUME NEW a \in Attempt, pods \in [Attempt -> Pod], PodStep(a)
  PROVE  /\ pods' \in [Attempt -> Pod]
         /\ \A b \in Attempt \ {a} : pods'[b] = pods[b]
<1> USE DEF Pod
<1>1. CASE PodStarts(a)
  BY <1>1 DEF PodStarts
<1>2. CASE SidecarReady(a)
  BY <1>2 DEF SidecarReady
<1>3. CASE SidecarExits(a)
  BY <1>3 DEF SidecarExits
<1>4. CASE StepsStart(a)
  BY <1>4 DEF StepsStart
<1>5. CASE StepsEnd(a)
  BY <1>5 DEF StepsEnd
<1>6. CASE PodEnds(a)
  <2>1. \E x \in {"Succeeded", "Failed"} : pods' = [pods EXCEPT ![a].phase = x]
    BY Zenon, <1>6 DEF PodEnds
  <2> QED
    BY <2>1
<1>7. CASE PodBlocked(a)
  <2>1. PICK b \in Blockers : pods' = [pods EXCEPT ![a].bad = {b}]
    BY Zenon, <1>7 DEF PodBlocked
  <2>2. {b} \in SUBSET {"step", "side", "config"}
    BY TaskRunAssumption
  <2> HIDE DEF Pod
  <2>3. [pods EXCEPT ![a].bad = {b}] \in [Attempt -> Pod]
    BY Zenon, <2>2, PodUpdates
  <2> QED
    BY <2>1, <2>3
<1>8. CASE PodUnblocked(a)
  <2> HIDE DEF Pod
  <2>1. [pods EXCEPT ![a].bad = {}] \in [Attempt -> Pod]
    BY Zenon, PodUpdates
  <2> QED
    BY <1>8, <2>1 DEF PodUnblocked
<1>9. CASE PodLost(a)
  <2>1. CASE pods' = [pods EXCEPT ![a] = AbsentPod]
    BY <2>1, PodFields
  <2>2. CASE pods' = [pods EXCEPT ![a].phase = "Failed", ![a].steps = "failed", ![a].bad = {}]
    <3> DEFINE p == [pods[a] EXCEPT !.phase = "Failed", !.steps = "failed", !.bad = {}]
    <3>1. p \in Pod
      BY ZenonT(40)
    <3>2. pods' = [pods EXCEPT ![a] = p]
      BY Zenon, <2>2
    <3> HIDE DEF p, Pod
    <3> QED
      BY <3>1, <3>2
  <2>3. CASE pods' = [pods EXCEPT ![a].steps = "failed"]
    BY <2>3
  <2> QED
    BY <1>9, <2>1, <2>2, <2>3 DEF PodLost
<1> QED
  BY <1>1, <1>2, <1>3, <1>4, <1>5, <1>6, <1>7, <1>8, <1>9 DEF PodStep, PodProgress

LEMMA InitTypes == Init => TypeOK
<1> SUFFICES ASSUME Init PROVE TypeOK
  OBVIOUS
<1>1. tr \in [cancelled : BOOLEAN, valid : BOOLEAN, st : Status]
  BY Zenon, NewRecords DEF Init
<1>2. pods \in [Attempt -> Pod]
  BY PodFields DEF Init
<1>3. queued \in BOOLEAN
  BY DEF Init
<1>4. stamp \in Nat /\ expired \in Nat /\ snooze \subseteq Nat /\ faults \in 0..MaxFaults
  BY TaskRunAssumption DEF Init
<1> QED
  BY <1>1, <1>2, <1>3, <1>4, NewRecords DEF Init, TypeOK

LEMMA StepTypes == TypeOK /\ [Next]_vars => TypeOK'
<1> SUFFICES ASSUME TypeOK, [Next]_vars PROVE TypeOK'
  OBVIOUS
<1> USE NewRecords
<1>1. CASE Begin
  BY <1>1, BeginTypes
<1>2. CASE Call \/ CallFails \/ UpdateLabelsFails
  BY <1>2, CallTypes
<1>3. CASE UpdateStatus
  <2>1. rec.st \in Status /\ rec.st.start \in Nat
    BY ReconcileFields, StatusFields DEF TypeOK
  <2>2. tr' \in [cancelled : BOOLEAN, valid : BOOLEAN, st : Status]
    BY <1>3, <2>1 DEF UpdateStatus, TypeOK
  <2>3. snooze' \subseteq Nat
    BY <1>3, <2>1 DEF UpdateStatus, TypeOK
  <2>4. queued' \in BOOLEAN
    BY <1>3 DEF UpdateStatus, TypeOK
  <2>5. rec' = NoReconcile /\ UNCHANGED <<trCache, pods, podCache, stamp, expired, faults>>
    BY <1>3 DEF UpdateStatus
  <2> QED
    BY <2>2, <2>3, <2>4, <2>5 DEF TypeOK
<1>4. CASE UpdateStatusFails \/ Crash
  <2>1. faults' \in 0..MaxFaults
    BY <1>4, TaskRunAssumption DEF UpdateStatusFails, Crash, fault, TypeOK
  <2>2. queued' \in BOOLEAN
    BY Zenon, <1>4 DEF UpdateStatusFails, Crash
  <2>3. snooze' \subseteq Nat
    BY Zenon, <1>4 DEF UpdateStatusFails, Crash, TypeOK
  <2>4. /\ rec' = NoReconcile /\ UNCHANGED <<tr, pods, stamp, expired>>
        /\ trCache' \in {tr, trCache} /\ podCache' \in {pods, podCache}
    BY <1>4 DEF UpdateStatusFails, Crash
  <2> QED
    BY <2>1, <2>2, <2>3, <2>4 DEF TypeOK
<1>5. CASE InformTaskRun \/ InformPods
  <2>1. queued' \in BOOLEAN
    BY Zenon, <1>5 DEF InformTaskRun, InformPods
  <2>2. /\ UNCHANGED <<tr, pods, stamp, expired, rec, snooze, faults>>
        /\ trCache' \in {tr, trCache} /\ podCache' \in {pods, podCache}
    BY <1>5 DEF InformTaskRun, InformPods
  <2> QED
    BY <2>1, <2>2 DEF TypeOK
<1>6. CASE UserCancels
  <2>1. tr' \in [cancelled : BOOLEAN, valid : BOOLEAN, st : Status]
    BY Zenon, <1>6 DEF UserCancels, TypeOK
  <2>2. UNCHANGED <<trCache, pods, podCache, stamp, expired, rec, queued, snooze, faults>>
    BY <1>6 DEF UserCancels
  <2> QED
    BY <2>1, <2>2 DEF TypeOK
<1>7. CASE TimeoutPasses
  <2>1. expired' \in Nat /\ snooze' \subseteq Nat
    BY <1>7, StatusFields DEF TimeoutPasses, TypeOK
  <2>2. queued' \in BOOLEAN
    BY <1>7 DEF TimeoutPasses, TypeOK
  <2>3. UNCHANGED <<tr, trCache, pods, podCache, stamp, rec, faults>>
    BY <1>7 DEF TimeoutPasses
  <2> QED
    BY <2>1, <2>2, <2>3 DEF TypeOK
<1>8. ASSUME NEW a \in Attempt, PodStep(a) PROVE TypeOK'
  <2>1. pods' \in [Attempt -> Pod]
    BY <1>8, PodStepPods DEF TypeOK
  <2>2. faults' \in 0..MaxFaults
    <3>1. faults' = faults \/ (faults < MaxFaults /\ faults' = faults + 1)
      BY Zenon, <1>8, PodStepFrame
    <3> QED
      BY <3>1, TaskRunAssumption DEF TypeOK
  <2> QED
    BY Zenon, <1>8, <2>1, <2>2, PodStepFrame DEF TypeOK
<1>9. CASE UNCHANGED vars
  BY <1>9 DEF TypeOK, vars
<1> QED
  BY <1>1, <1>2, <1>3, <1>4, <1>5, <1>6, <1>7, <1>8, <1>9 DEF Next, PodStep, Rest

(***************************************************************************)
(* The variables of the TaskRun reconciler keep their types: no reconcile  *)
(* counts more attempts than there may be or works on a pod that is not    *)
(* one of them.                                                            *)
(***************************************************************************)
THEOREM TaskRunTypeCorrect == Spec => []TypeOK
  BY InitTypes, StepTypes, PTL DEF Spec

-----------------------------------------------------------------------------
(***************************************************************************)
(* The invariant of a reconciler that reads its own writes: the reconcile  *)
(* in progress began from the status that is there, and is about a TaskRun *)
(* that is done only to clean up after it.                                 *)
(***************************************************************************)

\* The attempts given up are those before the current one.
Sound(s) ==
  /\ s.pod \notin s.archived
  /\ \A a \in s.archived : a < s.tries
  /\ s.pod # NoPod => s.pod <= s.tries
  /\ IsDone(s) => s.start # 0

\* Stopping the sidecars of a TaskRun that is done never fails for good.
Firm == "stop" \notin Failing

\* A failure that may not be retried.
Final(s, cancelled) == IsFailure(s) /\ IsRetriable(s) => cancelled

\* The reconcile R, before it ends the attempt or leaves it as it is.
Sane(R) ==
  /\ R \in ReconcileType
  /\ R.orig = tr.st
  /\ Sound(R.st)
  /\ R.st.tries = tr.st.tries
  /\ R.st.archived = tr.st.archived
  /\ R.name \notin tr.st.archived
  /\ R.cancelled => trCache.cancelled
  /\ R.st.reason = "Cancelled" => tr.cancelled
  /\ Firm /\ IsDone(tr.st) => R.st.reason = tr.st.reason /\ Final(R.st, R.cancelled)

\* The reconcile R, about to write its status.
Ending(R) ==
  /\ R.pc = "write"
  /\ R.orig = tr.st
  /\ Sound(R.st)
  /\ R.st.tries >= tr.st.tries
  /\ R.name \notin tr.st.archived
  /\ R.cancelled => trCache.cancelled
  /\ R.st.reason = "Cancelled" => tr.cancelled
  /\ Firm /\ IsDone(tr.st) => R.st.reason = tr.st.reason
  /\ Final(R.st, R.cancelled)

\* The reconcile R, about to make another call.
Calling(R) ==
  /\ Sane(R)
  /\ R.st.start # 0
  /\ R.pc \in {"stop", "kill", "create", "ready", "status"}
  /\ IsDone(tr.st) <=> R.pc = "stop"
  /\ R.pc = "stop" => Final(R.st, R.cancelled)
  /\ R.pc \in {"ready", "status"} => R.name \in Attempt /\ R.name <= tr.st.tries

AttemptInv ==
  /\ Sound(tr.st)
  /\ Final(tr.st, trCache.cancelled)
  /\ trCache.cancelled => tr.cancelled
  /\ tr.st.reason = "Cancelled" => tr.cancelled
  /\ \A a \in Attempt : exists(pods[a]) \/ exists(podCache[a]) => a <= tr.st.tries
  /\ rec = NoReconcile \/ Ending(rec) \/ Calling(rec)

LEMMA FinishEnds ==
  ASSUME TypeOK, NEW R, Sane(R), NEW out \in Outs
  PROVE  Ending(finishReconcileUpdateEmitEvents(R, out))
<1> DEFINE F == finishReconcileUpdateEmitEvents(R, out)
<1>1. R \in ReconcileType /\ R.st \in Status /\ tr.st \in Status
  BY ReconcileFields DEF Sane, TypeOK
<1>2. /\ R.st.reason \in Reasons /\ R.st.start \in Nat /\ R.st.pod \in 0..NoPod
      /\ R.st.tries \in Attempt /\ R.st.archived \in SUBSET Attempt
  BY <1>1, StatusFields
<1>3. /\ F.pc = "write" /\ F.orig = R.orig /\ F.cancelled = R.cancelled /\ F.name = R.name
      /\ F.st = IF IsFailure(R.st) /\ ~R.cancelled /\ IsRetriable(R.st)
                THEN retryTaskRun(R.st) ELSE R.st
  BY ZenonT(60), <1>1, FinishFacts
<1> HIDE DEF F
<1>4. CASE IsFailure(R.st) /\ ~R.cancelled /\ IsRetriable(R.st)
  <2>1. F.st = retryTaskRun(R.st)
    BY <1>3, <1>4
  <2>2. /\ F.st.tries = R.st.tries + 1
        /\ F.st.archived = R.st.archived \cup ({R.st.pod} \ {NoPod})
        /\ F.st.pod = NoPod
        /\ F.st.reason = "ToBeRetried"
    BY <1>1, <1>4, <2>1, RetryFacts
  <2>3. ~IsDone(F.st) /\ ~IsFailure(F.st)
    BY <2>2 DEF IsDone, IsFailure, FailedReason
  <2>4. F.st.pod \notin F.st.archived
    BY <2>2, <1>2, Attempts
  <2>5. \A a \in F.st.archived : a < F.st.tries
    <3>1. \A a \in R.st.archived : a < R.st.tries
      BY DEF Sane, Sound
    <3>2. R.st.pod # NoPod => R.st.pod <= R.st.tries
      BY DEF Sane, Sound
    <3> QED
      BY <2>2, <3>1, <3>2, <1>2, TaskRunAssumption DEF Attempt, NoPod
  <2>6. Sound(F.st)
    BY <2>2, <2>3, <2>4, <2>5 DEF Sound
  <2>7. Firm => ~IsDone(tr.st)
    BY <1>4 DEF Sane, Final
  <2>8. F.st.tries >= tr.st.tries
    BY <2>2, <1>2, TaskRunAssumption DEF Sane, Attempt
  <2> QED
    BY <1>3, <2>2, <2>3, <2>6, <2>7, <2>8 DEF Ending, Sane, Final, F
<1>5. CASE ~(IsFailure(R.st) /\ ~R.cancelled /\ IsRetriable(R.st))
  <2>1. F.st = R.st
    BY <1>3, <1>5
  <2>2. R.st.tries >= tr.st.tries
    BY <1>2, TaskRunAssumption DEF Sane, Attempt
  <2> QED
    BY <1>3, <1>5, <2>1, <2>2 DEF Ending, Sane, Final, F
<1> QED
  BY <1>4, <1>5

\* The status of the attempt in progress changes, but not what was given up.
LEMMA SaneWith ==
  ASSUME TypeOK, NEW R, Sane(R), Firm => ~IsDone(tr.st), NEW s \in Status, Sound(s),
         s.tries = tr.st.tries, s.archived = tr.st.archived,
         s.reason = "Cancelled" => tr.cancelled
  PROVE  /\ Sane([R EXCEPT !.st = s])
         /\ [R EXCEPT !.st = s].st = s
         /\ [R EXCEPT !.st = s].pc = R.pc
         /\ [R EXCEPT !.st = s].name = R.name
<1> DEFINE S == [R EXCEPT !.st = s]
<1>1. R \in ReconcileType
  BY DEF Sane
<1>2. /\ S \in ReconcileType /\ S.st = s /\ S.pc = R.pc /\ S.orig = R.orig /\ S.name = R.name
      /\ S.cancelled = R.cancelled
  BY <1>1 DEF ReconcileType
<1> HIDE DEF S
<1>3. Sane(S)
  BY <1>2 DEF Sane
<1> QED
  BY <1>2, <1>3 DEF S

LEMMA SoundReason ==
  ASSUME NEW s \in Status, Sound(s), s.start # 0, NEW why \in Reasons
  PROVE  LET t == [s EXCEPT !.reason = why]
         IN /\ t \in Status /\ Sound(t) /\ t.reason = why /\ t.start = s.start
            /\ t.pod = s.pod /\ t.tries = s.tries /\ t.archived = s.archived
<1> DEFINE t == [s EXCEPT !.reason = why]
<1>1. /\ t \in Status /\ t.reason = why /\ t.start = s.start
      /\ t.pod = s.pod /\ t.tries = s.tries /\ t.archived = s.archived
  BY DEF Status, Reasons
<1> HIDE DEF t
<1>2. Sound(t)
  BY <1>1 DEF Sound
<1> QED
  BY <1>1, <1>2 DEF t

\* Any other reason for the TaskRun that goes on, and the reconcile ends.
LEMMA ReasonEnds ==
  ASSUME TypeOK, NEW R, Sane(R), R.st.start # 0, Firm => ~IsDone(tr.st), NEW why \in Reasons,
         why # "Cancelled", NEW out \in Outs
  PROVE  Ending(finishReconcileUpdateEmitEvents([R EXCEPT !.st.reason = why], out))
<1> DEFINE s == [R.st EXCEPT !.reason = why]
<1>1. R \in ReconcileType /\ R.st \in Status
  BY ReconcileFields DEF Sane
<1>2. s \in Status /\ Sound(s) /\ s.reason = why /\ s.tries = R.st.tries /\ s.archived = R.st.archived
  BY <1>1, SoundReason DEF Sane
<1>3. [R EXCEPT !.st.reason = why] = [R EXCEPT !.st = s]
  OBVIOUS
<1> HIDE DEF s
<1>4. s.tries = tr.st.tries /\ s.archived = tr.st.archived
  BY <1>2 DEF Sane
<1>5. Sane([R EXCEPT !.st = s])
  BY <1>2, <1>4, SaneWith
<1> QED
  BY <1>3, <1>5, FinishEnds

LEMMA FailGoesOn ==
  ASSUME TypeOK, NEW R, Sane(R), R.st.start # 0, ~IsDone(tr.st), NEW why \in Reasons,
         why = "Cancelled" => tr.cancelled
  PROVE  Ending(failTaskRun(R, why)) \/ Calling(failTaskRun(R, why))
<1> DEFINE s == [R.st EXCEPT !.reason = why]
           t == [s EXCEPT !.stepWait = FALSE]
           K == [R EXCEPT !.pc = "kill", !.st = t]
<1>1. R \in ReconcileType /\ R.st \in Status
  BY ReconcileFields DEF Sane
<1>2. /\ s \in Status /\ Sound(s) /\ s.reason = why /\ s.start # 0
      /\ s.tries = R.st.tries /\ s.archived = R.st.archived
  BY <1>1, SoundReason DEF Sane
<1>3. \/ failTaskRun(R, why) = finishReconcileUpdateEmitEvents([R EXCEPT !.st = s], "nil")
      \/ failTaskRun(R, why) = K
  BY Zenon, <1>1, FailFacts
<1> HIDE DEF s
<1>4. s.tries = tr.st.tries /\ s.archived = tr.st.archived
  BY <1>2 DEF Sane
<1>5. Ending(finishReconcileUpdateEmitEvents([R EXCEPT !.st = s], "nil"))
  BY <1>2, <1>4, SaneWith, FinishEnds DEF Outs
<1>6. /\ t \in Status /\ t.pod = s.pod /\ t.reason = why /\ t.start = s.start
      /\ t.tries = s.tries /\ t.archived = s.archived
  BY Zenon, <1>2 DEF Status
<1> HIDE DEF t
<1>7. Sound(t)
  BY <1>2, <1>6 DEF Sound, IsDone, IsFailure
<1>8. /\ K \in ReconcileType /\ K.st = t /\ K.pc = "kill" /\ K.orig = R.orig /\ K.name = R.name
      /\ K.cancelled = R.cancelled
  BY Zenon, <1>1, <1>6 DEF ReconcileType
<1> HIDE DEF K
<1>9. Sane(K)
  BY <1>2, <1>4, <1>6, <1>7, <1>8 DEF Sane
<1>10. Calling(K)
  BY <1>2, <1>6, <1>8, <1>9 DEF Calling
<1> QED
  BY <1>3, <1>5, <1>10

LEMMA UseGoesOn ==
  ASSUME TypeOK, NEW R, Sane(R), R.st.start # 0, ~IsDone(tr.st), NEW a \in Attempt, NEW p \in Pod,
         a <= tr.st.tries, a \notin tr.st.archived
  PROVE  Calling(usePod(R, a, p))
<1> DEFINE U == usePod(R, a, p)
<1>1. R \in ReconcileType
  BY DEF Sane
<1>2. /\ U \in ReconcileType /\ U.pc \in {"ready", "status"} /\ U.orig = R.orig /\ U.st = R.st
      /\ U.cancelled = R.cancelled /\ U.name = a
  BY <1>1, UseFacts
<1> HIDE DEF U
<1>3. Sane(U)
  BY <1>2 DEF Sane
<1>4. Calling(U)
  BY <1>2, <1>3 DEF Calling
<1> QED
  BY <1>4 DEF U

\* A reconcile begins from the status that is there.
LEMMA BegunSane ==
  ASSUME TypeOK, AttemptInv, ReadsOwnWrites, Dequeue
  PROVE  /\ Sane(begun) /\ begun.st.start # 0 /\ begun.st \in Status
         /\ IsDone(begun.st) <=> IsDone(tr.st)
         /\ IsDone(tr.st) => Final(begun.st, begun.cancelled)
         /\ begun.st.pod = tr.st.pod
         /\ begun.cancelled => tr.cancelled
         /\ begun.name = NoPod
<1>1. trCache.st = tr.st /\ tr.st \in Status
  BY DEF Dequeue, TypeOK
<1>2. tr.st.archived \in SUBSET Attempt
  BY <1>1, StatusFields
<1>3. /\ begun \in ReconcileType
      /\ begun.orig = tr.st /\ begun.cancelled = trCache.cancelled /\ begun.name = NoPod
      /\ begun.st.start # 0 /\ begun.st.pod = tr.st.pod
      /\ begun.st.tries = tr.st.tries /\ begun.st.archived = tr.st.archived
      /\ begun.st.reason = IF tr.st.start = 0 THEN "Started" ELSE tr.st.reason
  BY ZenonT(60), <1>1, BegunFacts
<1>4. IsDone(tr.st) => tr.st.start # 0
  BY DEF AttemptInv, Sound
<1>5. IsDone(begun.st) <=> IsDone(tr.st)
  BY <1>3, <1>4 DEF IsDone, IsFailure, FailedReason
<1>6. Sound(begun.st)
  BY <1>3 DEF AttemptInv, Sound
<1>7. begun.name \notin tr.st.archived
  BY <1>2, <1>3, Attempts
<1>8. IsDone(tr.st) => begun.st.reason = tr.st.reason /\ Final(begun.st, begun.cancelled)
  BY <1>3, <1>4 DEF AttemptInv, Final, IsFailure, IsRetriable
<1>9. begun.st.reason = "Cancelled" => tr.cancelled
  BY <1>3 DEF AttemptInv
<1>10. begun.st \in Status
  BY <1>3, ReconcileFields
<1>11. Sane(begun)
  BY <1>3, <1>6, <1>7, <1>8, <1>9 DEF Sane
<1> QED
  BY <1>3, <1>5, <1>8, <1>10, <1>11 DEF AttemptInv

LEMMA BeginKeeps == ReadsOwnWrites /\ TypeOK /\ AttemptInv /\ Begin => AttemptInv'
<1> SUFFICES ASSUME ReadsOwnWrites, TypeOK, AttemptInv, Begin PROVE AttemptInv'
  OBVIOUS
<1>1. Dequeue
  BY DEF Begin, ReconcileDone, ReconcileCancelled, ReconcileTimedOut, ReconcilePullFailed,
         PrepareResolving, PrepareRetry, PrepareFailed, PrepareInvalid, Reconcile
<1>2. UNCHANGED <<tr, trCache, pods, podCache>>
  BY <1>1 DEF Dequeue
<1>3. /\ Sane(begun) /\ begun.st.start # 0 /\ begun.st \in Status
      /\ IsDone(begun.st) <=> IsDone(tr.st)
      /\ IsDone(tr.st) => Final(begun.st, begun.cancelled)
      /\ begun.st.pod = tr.st.pod
      /\ begun.cancelled => tr.cancelled
      /\ begun.name = NoPod
  BY <1>1, BegunSane
<1>4. Ending(rec') \/ Calling(rec')
  <2>1. CASE ReconcileDone
    <3>1. Ending(finishReconcileUpdateEmitEvents(begun, "nil"))
      BY <1>3, FinishEnds DEF Outs
    <3> DEFINE S == [begun EXCEPT !.pc = "stop"]
    <3>2. /\ S \in ReconcileType /\ S.pc = "stop" /\ S.orig = begun.orig /\ S.st = begun.st
          /\ S.name = begun.name /\ S.cancelled = begun.cancelled
      BY <1>3 DEF Sane, ReconcileType
    <3>3. rec' = finishReconcileUpdateEmitEvents(begun, "nil") \/ rec' = S
      BY <2>1 DEF ReconcileDone
    <3>4. IsDone(tr.st)
      BY <1>3, <2>1 DEF ReconcileDone
    <3> HIDE DEF S
    <3>5. Sane(S)
      BY ZenonT(60), <1>3, <3>2 DEF Sane
    <3>6. Calling(S)
      BY <1>3, <3>2, <3>4, <3>5 DEF Calling
    <3> QED
      BY <3>1, <3>3, <3>6
  <2>2. CASE ReconcileCancelled
    BY <2>2, <1>3, FailGoesOn DEF ReconcileCancelled, Reasons, FailedReason
  <2>3. CASE ReconcileTimedOut
    BY ZenonT(60), <2>3, <1>3, FailGoesOn DEF ReconcileTimedOut, Reasons, FailedReason
  <2>4. CASE ReconcilePullFailed
    BY <2>4, <1>3, FailGoesOn DEF ReconcilePullFailed, goesOn, Reasons, FailedReason
  <2>5. CASE PrepareResolving
    BY Zenon, <2>5, <1>3, ReasonEnds DEF PrepareResolving, goesOn, Outs, Reasons, OngoingReason
  <2>6. CASE PrepareRetry
    BY <2>6, <1>3, FinishEnds DEF PrepareRetry, Outs
  <2>7. CASE PrepareFailed
    BY <2>7, <1>3, ReasonEnds DEF PrepareFailed, goesOn, Outs, Reasons, FailedReason
  <2> DEFINE s == [begun.st EXCEPT !.spec = TRUE]
             R == [begun EXCEPT !.st = s]
  <2>8. ASSUME ~IsDone(tr.st)
        PROVE  Sane(R) /\ R.st = s /\ s \in Status /\ s.start # 0
               /\ s.pod = tr.st.pod /\ s.archived = tr.st.archived
    <3>1. /\ s \in Status /\ s.reason = begun.st.reason /\ s.start = begun.st.start
          /\ s.pod = begun.st.pod /\ s.tries = begun.st.tries /\ s.archived = begun.st.archived
      BY Zenon, <1>3 DEF Status
    <3> HIDE DEF s
    <3>2. Sound(s)
      BY ZenonT(60), <1>3, <3>1 DEF Sane, Sound, IsDone, IsFailure
    <3>3. s.tries = tr.st.tries /\ s.archived = tr.st.archived /\ (s.reason = "Cancelled" => tr.cancelled)
      BY <1>3, <3>1 DEF Sane
    <3> QED
      BY <1>3, <2>8, <3>1, <3>2, <3>3, SaneWith
  <2>9. CASE PrepareInvalid
    <3>1. [begun EXCEPT !.st.spec = TRUE, !.st.reason = "Invalid"] = [R EXCEPT !.st.reason = "Invalid"]
      BY <1>3 DEF Sane, ReconcileType
    <3>2. ~IsDone(tr.st)
      BY <1>3, <2>9 DEF PrepareInvalid, goesOn
    <3>3. rec' = finishReconcileUpdateEmitEvents([R EXCEPT !.st.reason = "Invalid"], "permanent")
      BY <2>9, <3>1 DEF PrepareInvalid
    <3>4. Sane(R) /\ R.st.start # 0
      BY Zenon, <2>8, <3>2
    <3> HIDE DEF R
    <3> QED
      BY <3>2, <3>3, <3>4, ReasonEnds DEF Outs, Reasons, FailedReason
  <2>10. CASE Reconcile
    <3>1. [begun EXCEPT !.st.spec = TRUE] = R
      OBVIOUS
    <3>2. ~IsDone(tr.st)
      BY <1>3, <2>10 DEF Reconcile, goesOn
    <3>3. /\ Sane(R) /\ R.st \in Status /\ R.st.start # 0
          /\ R.st.pod = tr.st.pod /\ R.st.archived = tr.st.archived
      BY Zenon, <2>8, <3>2
    <3>4. \/ rec' = [R EXCEPT !.pc = "create"]
          \/ \E a \in foundPods(R.st, podCache) : rec' = usePod(R, a, podCache[a])
      BY Zenon, <2>10, <3>1 DEF Reconcile
    <3> HIDE DEF R
    <3>5. CASE rec' = [R EXCEPT !.pc = "create"]
      <4> DEFINE C == [R EXCEPT !.pc = "create"]
      <4>1. /\ C \in ReconcileType /\ C.pc = "create" /\ C.orig = R.orig /\ C.st = R.st
            /\ C.name = R.name /\ C.cancelled = R.cancelled
        BY <3>3 DEF Sane, ReconcileType
      <4>2. rec' = C
        BY <3>5
      <4> HIDE DEF C
      <4>3. Sane(C)
        BY ZenonT(60), <3>3, <4>1 DEF Sane
      <4> QED
        BY <3>2, <3>3, <4>1, <4>2, <4>3 DEF Calling
    <3>6. ASSUME NEW a \in foundPods(R.st, podCache), rec' = usePod(R, a, podCache[a])
          PROVE  Calling(rec')
      <4>1. a \in Attempt /\ exists(podCache[a]) /\ (a = R.st.pod \/ a \notin R.st.archived)
        BY Zenon, <3>3, FoundFacts
      <4>2. podCache[a] \in Pod
        BY <4>1 DEF TypeOK
      <4>3. a <= tr.st.tries
        BY Zenon, <4>1 DEF AttemptInv
      <4>4. a \notin tr.st.archived
        BY ZenonT(60), <4>1, <3>3 DEF Sane, Sound
      <4> QED
        BY <3>2, <3>3, <3>6, <4>1, <4>2, <4>3, <4>4, UseGoesOn
    <3> QED
      BY <3>4, <3>5, <3>6
  <2> QED
    BY <2>1, <2>2, <2>3, <2>4, <2>5, <2>6, <2>7, <2>9, <2>10 DEF Begin
<1>5. Ending(rec)' \/ Calling(rec)'
  BY <1>2, <1>4 DEF Ending, Calling, Sane
<1> QED
  BY Zenon, <1>2, <1>5 DEF AttemptInv

\* The calls that change a pod make no other pod appear.
LEMMA CallPods ==
  ASSUME TypeOK, AttemptInv, Call \/ CallFails \/ UpdateLabelsFails
  PROVE  \A b \in Attempt : exists(pods'[b]) => b <= tr.st.tries
<1> SUFFICES ASSUME NEW b \in Attempt PROVE exists(pods'[b]) => b <= tr.st.tries
  BY Zenon
<1>1. pods \in [Attempt -> Pod] /\ (exists(pods[b]) => b <= tr.st.tries)
  BY Zenon DEF TypeOK, AttemptInv
<1>2. CASE pods' = pods
  BY <1>1, <1>2
<1>3. ASSUME NEW a, NEW x, pods' = [pods EXCEPT ![a].side = x] PROVE exists(pods'[b]) => b <= tr.st.tries
  BY <1>1, <1>3 DEF exists, Pod
<1>4. ASSUME NEW a, NEW x, pods' = [pods EXCEPT ![a].cancel = x] PROVE exists(pods'[b]) => b <= tr.st.tries
  BY <1>1, <1>4 DEF exists, Pod
<1>5. ASSUME NEW a, NEW x, pods' = [pods EXCEPT ![a].ready = x] PROVE exists(pods'[b]) => b <= tr.st.tries
  BY <1>1, <1>5 DEF exists, Pod
<1>6. ASSUME NEW a, pods' = [pods EXCEPT ![a] = AbsentPod] PROVE exists(pods'[b]) => b <= tr.st.tries
  BY <1>1, <1>6 DEF exists, AbsentPod
<1>7. CASE StopSidecars
  <2>1. pods' = [pods EXCEPT ![rec.st.pod].side = "nop"] \/ pods' = pods
    BY Zenon, <1>7 DEF StopSidecars
  <2> QED
    BY <2>1, <1>2, <1>3
<1>8. CASE KillPod
  <2>1. \/ pods' = [pods EXCEPT ![rec.st.pod].cancel = exists(pods[rec.st.pod])]
        \/ pods' = [pods EXCEPT ![rec.st.pod] = AbsentPod]
    BY <1>8 DEF KillPod
  <2> QED
    BY <2>1, <1>4, <1>6
<1>9. CASE CreatePod
  <2>1. rec.pc = "create"
    BY <1>9, SMTT(60) DEF CreatePod, calls
  <2>2. rec.st.tries = tr.st.tries
    <3>1. NoReconcile.pc = "idle"
      BY Zenon DEF NoReconcile
    <3>2. Calling(rec)
      BY <2>1, <3>1 DEF AttemptInv, Ending
    <3> QED  BY <3>2 DEF Calling, Sane
  <2>3. pods' = [pods EXCEPT ![tr.st.tries] = NewPod] \/ pods' = pods
    BY Zenon, <1>9, <2>2 DEF CreatePod
  <2>4. tr.st.tries \in Nat
    BY StatusFields, Attempts DEF TypeOK
  <2>5. CASE pods' = [pods EXCEPT ![tr.st.tries] = NewPod]
    <3>1. CASE b = tr.st.tries
      BY <2>4, <3>1
    <3>2. CASE b # tr.st.tries
      <4>1. pods'[b] = pods[b]
        BY <1>1, <2>5, <3>2
      <4> QED
        BY <1>1, <4>1 DEF exists
    <3> QED
      BY <3>1, <3>2
  <2> QED
    BY <2>3, <2>5, <1>2
<1>10. CASE UpdateReady
  <2>1. pods' = [pods EXCEPT ![rec.name].ready = TRUE] \/ pods' = pods
    BY Zenon, <1>10 DEF UpdateReady
  <2> QED
    BY <2>1, <1>2, <1>5, ZenonT(60)
<1>11. CASE CallFails \/ UpdateLabelsFails \/ MakeStatus \/ ResultsTooLarge \/ ResultsInvalid
  <2>1. pods' = pods
    BY <1>11 DEF CallFails, StopConflict, StopFails, KillFails, CreateOverQuota, CreateFails,
       UpdateReadyFails, MakeStatusFails, UpdateLabelsFails, MakeStatus, ResultsTooLarge,
       ResultsInvalid
  <2> QED
    BY <2>1, <1>2
<1> QED
  BY <1>7, <1>8, <1>9, <1>10, <1>11 DEF Call

LEMMA CallKeeps == TypeOK /\ AttemptInv /\ (Call \/ CallFails \/ UpdateLabelsFails) => AttemptInv'
<1> SUFFICES ASSUME TypeOK, AttemptInv, Call \/ CallFails \/ UpdateLabelsFails PROVE AttemptInv'
  OBVIOUS
<1>1. UNCHANGED <<tr, trCache, podCache>>
  BY Zenon DEF Call, CallFails, calls, StopSidecars, KillPod, CreatePod, UpdateReady, MakeStatus,
         ResultsTooLarge, ResultsInvalid, StopConflict, StopFails, KillFails, CreateOverQuota,
         CreateFails, UpdateReadyFails, MakeStatusFails, UpdateLabelsFails
<1>2. /\ rec \in ReconcileType /\ rec.st \in Status /\ rec.name \in 0..NoPod /\ rec.seen \in Pod
      /\ tr.st \in Status /\ podCache \in [Attempt -> Pod]
  BY ReconcileFields DEF TypeOK
<1>3. rec.pc \in {"stop", "kill", "create", "ready", "status"} => Calling(rec)
  BY DEF AttemptInv, Ending, NoReconcile
<1>4. Ending(rec') \/ Calling(rec')
  <2> DEFINE Busy == rec.st.start # 0 /\ Sane(rec)
  <2>0. Calling(rec) => Busy
    BY DEF Calling
  <2>1. ASSUME NEW o, rec.pc = "stop", rec' = [rec EXCEPT !.pc = "write", !.out = o]
        PROVE  Ending(rec')
    <3>1. /\ rec'.pc = "write" /\ rec'.orig = rec.orig /\ rec'.st = rec.st
          /\ rec'.name = rec.name /\ rec'.cancelled = rec.cancelled
      BY <2>1, <1>2 DEF ReconcileType
    <3>2. rec.st.tries >= tr.st.tries
      BY <2>1, <1>2, <1>3, StatusFields, Attempts DEF Calling, Sane
    <3> QED
      BY <2>1, <3>1, <3>2, <1>3 DEF Calling, Sane, Ending
  <2>2. CASE StopConflict
    BY Zenon, <2>2, <2>1 DEF StopConflict, calls
  <2>3. CASE StopSidecars
    <3> DEFINE bad == "side" \in pods[rec.st.pod].bad
               s == [rec.st EXCEPT !.sideWait = bad]
               S == [rec EXCEPT !.st = s]
    <3>1. rec.pc = "stop" /\ Calling(rec) /\ bad \in BOOLEAN
      BY <2>3, <1>3 DEF StopSidecars, calls
    <3>2. \/ rec' = [rec EXCEPT !.pc = "write", !.out = "permanent"]
          \/ rec' = finishReconcileUpdateEmitEvents(S, "nil")
      BY Zenon, <2>3 DEF StopSidecars
    <3> HIDE DEF bad
    <3>3. /\ s \in Status /\ s.reason = rec.st.reason /\ s.start = rec.st.start
          /\ s.pod = rec.st.pod /\ s.tries = rec.st.tries /\ s.archived = rec.st.archived
      BY <3>1, <1>2 DEF Status
    <3> HIDE DEF s
    <3>4. /\ S \in ReconcileType /\ S.st = s /\ S.orig = rec.orig /\ S.name = rec.name
          /\ S.cancelled = rec.cancelled
      BY ZenonT(60), <3>3, <1>2 DEF ReconcileType
    <3> HIDE DEF S
    <3>5. Sound(s) /\ (Final(rec.st, rec.cancelled) => Final(s, rec.cancelled))
      BY ZenonT(60), <3>1, <3>3 DEF Calling, Sane, Sound, Final, IsDone, IsFailure, IsRetriable
    <3>6. Sane(S)
      BY <3>1, <3>3, <3>4, <3>5 DEF Calling, Sane
    <3> QED
      BY Zenon, <3>1, <3>2, <3>6, <2>1, FinishEnds DEF Outs
  <2>4. CASE StopFails
    <3>1. Busy /\ ~Firm
      BY <2>4, <2>0, <1>3 DEF StopFails, calls, fault, Firm
    <3> QED
      BY <2>4, <3>1, ReasonEnds DEF StopFails, Outs, Reasons, FailedReason
  <2>5. CASE KillPod \/ KillFails
    <3>1. Busy
      BY ZenonT(60), <2>5, <2>0, <1>3 DEF KillPod, KillFails, calls
    <3> QED
      BY <2>5, <3>1, FinishEnds DEF KillPod, KillFails, Outs
  <2>6. ASSUME rec.pc \in {"create", "ready", "status"}
        PROVE  Busy /\ ~IsDone(tr.st)
    BY <2>6, <2>0, <1>3 DEF Calling
  <2>7. CASE CreatePod
    <3> DEFINE a == rec.st.tries
    <3>1. Busy /\ ~IsDone(tr.st) /\ a = tr.st.tries
      BY <2>7, <2>6 DEF CreatePod, calls, Sane
    <3>2. a \in Attempt /\ podCache[a] \in Pod /\ NewPod \in Pod
      BY <1>2, StatusFields, PodFields
    <3>3. a \notin tr.st.archived /\ a <= tr.st.tries
      <4>1. \A x \in tr.st.archived : x < tr.st.tries
        BY DEF AttemptInv, Sound
      <4>2. tr.st.tries \in Nat
        BY <1>2, StatusFields, Attempts
      <4>3. tr.st.tries \notin tr.st.archived /\ tr.st.tries <= tr.st.tries
        BY <4>1, <4>2
      <4> QED
        BY <3>1, <4>3
    <3>4. \/ rec' = usePod(rec, a, NewPod)
          \/ rec' = usePod(rec, a, podCache[a])
          \/ rec' = finishReconcileUpdateEmitEvents([rec EXCEPT !.st.reason = "Pending"], "retry")
      BY Zenon, <2>7 DEF CreatePod
    <3> HIDE DEF a
    <3>5. Calling(usePod(rec, a, NewPod)) /\ Calling(usePod(rec, a, podCache[a]))
      BY <3>1, <3>2, <3>3, UseGoesOn
    <3>6. Ending(finishReconcileUpdateEmitEvents([rec EXCEPT !.st.reason = "Pending"], "retry"))
      BY Zenon, <3>1, ReasonEnds DEF Outs, Reasons, OngoingReason
    <3> QED
      BY <3>4, <3>5, <3>6
  <2>8. CASE CreateOverQuota
    <3> DEFINE s == [[rec.st EXCEPT !.reason = "Pending"] EXCEPT !.start = 0]
    <3>1. Busy /\ ~IsDone(tr.st)
      BY <2>8, <2>6 DEF CreateOverQuota, calls
    <3>2. /\ s \in Status /\ s.reason = "Pending"
          /\ s.pod = rec.st.pod /\ s.tries = rec.st.tries /\ s.archived = rec.st.archived
      BY Zenon, <1>2 DEF Status, OngoingReason
    <3>3. [rec EXCEPT !.st.reason = "Pending", !.st.start = 0] = [rec EXCEPT !.st = s]
      BY Zenon, <1>2 DEF ReconcileType
    <3>4. rec' = finishReconcileUpdateEmitEvents([rec EXCEPT !.st = s], "retry")
      BY <2>8, <3>3 DEF CreateOverQuota
    <3> HIDE DEF s
    <3>5. Sound(s) /\ s.tries = tr.st.tries /\ s.archived = tr.st.archived
      BY <3>1, <3>2 DEF Sane, Sound, IsDone, IsFailure, FailedReason
    <3>6. Sane([rec EXCEPT !.st = s])
      BY <3>1, <3>2, <3>5, SaneWith
    <3> QED
      BY <3>4, <3>6, FinishEnds DEF Outs
  <2>9. CASE CreateFails
    <3>1. Busy /\ ~IsDone(tr.st)
      BY <2>9, <2>6 DEF CreateFails, calls
    <3> QED
      BY <2>9, <3>1, ReasonEnds DEF CreateFails, Outs, Reasons, FailedReason
  <2>10. CASE UpdateReady
    <3>1. Calling(rec) /\ rec.pc = "ready"
      BY <2>10, <1>3 DEF UpdateReady, calls
    <3>2. Ending(finishReconcileUpdateEmitEvents(rec, "retry"))
      BY <3>1, FinishEnds DEF Calling, Outs
    <3> DEFINE S == [rec EXCEPT !.pc = "status"]
    <3>3. /\ S \in ReconcileType /\ S.pc = "status" /\ S.orig = rec.orig /\ S.st = rec.st
          /\ S.name = rec.name /\ S.cancelled = rec.cancelled
      BY <1>2 DEF ReconcileType
    <3>4. rec' = S \/ rec' = finishReconcileUpdateEmitEvents(rec, "retry")
      BY Zenon, <2>10 DEF UpdateReady
    <3> HIDE DEF S
    <3>5. Calling(S)
      BY <3>1, <3>3 DEF Calling, Sane
    <3> QED
      BY <3>2, <3>4, <3>5
  <2>11. CASE UpdateReadyFails
    <3>1. Sane(rec)
      BY <2>11, <1>3 DEF UpdateReadyFails, calls, Calling
    <3> QED
      BY ZenonT(60), <2>11, <3>1, FinishEnds DEF UpdateReadyFails, Outs
  <2>12. ASSUME rec.pc = "status"
         PROVE  Sane(withStatus) /\ withStatus.st.start # 0 /\ ~IsDone(tr.st)
    <3> DEFINE m == MakeTaskRunStatus(rec.st, rec.name, rec.seen)
    <3>1. Calling(rec) /\ Busy /\ ~IsDone(tr.st) /\ rec.name \in Attempt /\ rec.name <= tr.st.tries
      BY ZenonT(60), <2>12, <2>6, <1>3 DEF Calling
    <3>2. /\ m \in Status /\ m.pod = rec.name /\ m.start = rec.st.start /\ m.tries = rec.st.tries
          /\ m.archived = rec.st.archived /\ m.reason # "Cancelled"
      BY <1>2, StatusOfPod
    <3>3. withStatus = [rec EXCEPT !.st = m]
      BY WithStatusFacts
    <3> HIDE DEF m
    <3>4. Sound(m) /\ m.tries = tr.st.tries /\ m.archived = tr.st.archived
      BY <3>1, <3>2 DEF Sane, Sound
    <3> QED
      BY ZenonT(60), <3>1, <3>2, <3>3, <3>4, SaneWith
  <2>13. CASE MakeStatus \/ MakeStatusFails
    <3>1. Sane(withStatus)
      BY ZenonT(60), <2>12, <2>13 DEF MakeStatus, MakeStatusFails, calls
    <3> QED
      BY <2>13, <3>1, FinishEnds DEF MakeStatus, MakeStatusFails, Outs
  <2>14. CASE ResultsTooLarge
    <3>1. Sane(withStatus) /\ withStatus.st.start # 0 /\ ~IsDone(tr.st)
      BY <2>12, <2>14 DEF ResultsTooLarge, calls
    <3> QED
      BY <2>14, <3>1, FailGoesOn DEF ResultsTooLarge, Reasons, FailedReason
  <2>15. CASE ResultsInvalid
    <3>1. Sane(withStatus) /\ withStatus.st.start # 0 /\ ~IsDone(tr.st)
      BY <2>12, <2>15 DEF ResultsInvalid, calls
    <3> QED
      BY <2>15, <3>1, ReasonEnds DEF ResultsInvalid, Outs, Reasons, FailedReason
  <2>16. CASE UpdateLabelsFails
    <3>1. rec.pc = "write" /\ rec' = [rec EXCEPT !.out = "retry"]
      BY <2>16 DEF UpdateLabelsFails, calls
    <3>2. /\ rec'.pc = rec.pc /\ rec'.orig = rec.orig /\ rec'.st = rec.st
          /\ rec'.name = rec.name /\ rec'.cancelled = rec.cancelled
      BY <3>1, <1>2 DEF ReconcileType
    <3>3. Ending(rec)
      BY <3>1, SMTT(60) DEF AttemptInv, Calling, NoReconcile
    <3> QED
      BY <3>2, <3>3 DEF Ending
  <2> QED
    BY ZenonT(60), <2>2, <2>3, <2>4, <2>5, <2>7, <2>8, <2>9, <2>10, <2>11, <2>13, <2>14, <2>15,
       <2>16
    DEF Call, CallFails
<1>5. Ending(rec)' \/ Calling(rec)'
  BY <1>1, <1>4 DEF Ending, Calling, Sane
<1>6. \A b \in Attempt : exists(pods'[b]) => b <= tr.st.tries
  BY Zenon, CallPods
<1> QED
  BY Zenon, <1>1, <1>5, <1>6 DEF AttemptInv

LEMMA InitAttempts == Init => AttemptInv
<1> SUFFICES ASSUME Init PROVE AttemptInv
  OBVIOUS
<1>1. tr.st = NewStatus /\ ~tr.cancelled /\ trCache = tr /\ rec = NoReconcile
  BY Zenon DEF Init
<1>2. \A a \in Attempt : ~exists(pods[a]) /\ ~exists(podCache[a])
  BY DEF Init, exists, AbsentPod
<1>3. ~IsDone(NewStatus) /\ ~IsFailure(NewStatus)
  BY DEF NewStatus, IsDone, IsFailure, FailedReason
<1>4. Sound(NewStatus)
  BY Zenon, <1>3 DEF Sound, NewStatus
<1>5. NewStatus.reason # "Cancelled"
  BY DEF NewStatus
<1> QED
  BY Zenon, <1>1, <1>2, <1>3, <1>4, <1>5 DEF AttemptInv, Final

LEMMA StepAttempts == ReadsOwnWrites /\ TypeOK /\ AttemptInv /\ [Next]_vars => AttemptInv'
<1> SUFFICES ASSUME ReadsOwnWrites, TypeOK, AttemptInv, [Next]_vars PROVE AttemptInv'
  OBVIOUS
<1>0. tr \in [cancelled : BOOLEAN, valid : BOOLEAN, st : Status] /\ rec.st \in Status
  BY ReconcileFields DEF TypeOK
<1>1. CASE Begin
  BY <1>1, BeginKeeps
<1>2. CASE Call \/ CallFails \/ UpdateLabelsFails
  BY <1>2, CallKeeps
<1>3. CASE UpdateStatus
  <2>1. Ending(rec)
    BY <1>3 DEF UpdateStatus, AttemptInv, Calling, NoReconcile
  <2>2. tr'.st = rec.st /\ tr'.cancelled = tr.cancelled
    <3>1. CASE rec.st = rec.orig
      BY <1>3, <2>1, <3>1 DEF UpdateStatus, Ending
    <3>2. CASE rec.st # rec.orig
      BY <1>0, <1>3, <3>2 DEF UpdateStatus
    <3> QED
      BY <3>1, <3>2
  <2>3. rec' = NoReconcile /\ UNCHANGED <<trCache, pods, podCache>>
    BY <1>3 DEF UpdateStatus
  <2>4. Final(rec.st, trCache.cancelled)
    BY <2>1 DEF Ending, Final
  <2>5. \A a \in Attempt : exists(pods[a]) \/ exists(podCache[a]) => a <= rec.st.tries
    <3>1. rec.st.tries \in Nat /\ tr.st.tries \in Nat /\ rec.st.tries >= tr.st.tries
      BY <1>0, <2>1, StatusFields, Attempts DEF Ending
    <3>2. \A a \in Attempt : exists(pods[a]) \/ exists(podCache[a]) => a <= tr.st.tries
      BY Zenon DEF AttemptInv
    <3>3. \A a \in Nat : a <= tr.st.tries => a <= rec.st.tries
      BY <3>1
    <3>4. \A a \in Attempt : a <= tr.st.tries => a <= rec.st.tries
      BY Zenon, <3>3, Attempts
    <3> QED
      BY Zenon, <3>2, <3>4
  <2> QED
    BY Zenon, <2>1, <2>2, <2>3, <2>4, <2>5 DEF AttemptInv, Ending
<1>4. CASE UpdateStatusFails \/ Crash
  <2>1. /\ rec' = NoReconcile /\ UNCHANGED <<tr, pods>>
        /\ trCache' \in {tr, trCache} /\ podCache' \in {pods, podCache}
    BY <1>4 DEF UpdateStatusFails, Crash
  <2>2. Final(tr.st, trCache'.cancelled)
    BY <2>1 DEF AttemptInv, Final
  <2> QED
    BY Zenon, <2>1, <2>2 DEF AttemptInv
<1>5. CASE InformTaskRun \/ InformPods
  <2>1. /\ UNCHANGED <<tr, pods, rec>>
        /\ trCache' \in {tr, trCache} /\ podCache' \in {pods, podCache}
    BY <1>5 DEF InformTaskRun, InformPods
  <2>2. Final(tr.st, trCache'.cancelled)
    BY <2>1 DEF AttemptInv, Final
  <2>3. trCache.cancelled => trCache'.cancelled
    BY ZenonT(60), <2>1 DEF AttemptInv
  <2>4. Sane(rec) => Sane(rec)'
    BY ZenonT(60), <2>1, <2>3 DEF Sane
  <2>5. Ending(rec) => Ending(rec)'
    BY ZenonT(60), <2>1, <2>3 DEF Ending
  <2>6. Calling(rec) => Calling(rec)'
    BY <2>1, <2>4 DEF Calling
  <2> QED
    BY Zenon, <2>1, <2>2, <2>5, <2>6 DEF AttemptInv
<1>6. CASE UserCancels
  <2>1. tr'.st = tr.st /\ tr'.cancelled /\ UNCHANGED <<trCache, pods, podCache, rec>>
    BY ZenonT(60), <1>0, <1>6 DEF UserCancels
  <2>2. Sane(rec) => Sane(rec)'
    BY ZenonT(60), <2>1 DEF Sane
  <2>3. Ending(rec) => Ending(rec)'
    BY ZenonT(60), <2>1 DEF Ending
  <2>4. Calling(rec) => Calling(rec)'
    BY <2>1, <2>2 DEF Calling
  <2> QED
    BY Zenon, <2>1, <2>3, <2>4 DEF AttemptInv
<1>7. ASSUME NEW a \in Attempt, PodStep(a) PROVE AttemptInv'
  <2>1. UNCHANGED <<tr, trCache, podCache, rec>> /\ exists(pods[a])
    BY Zenon, <1>7, PodStepFrame
  <2>2. \A b \in Attempt \ {a} : pods'[b] = pods[b]
    BY <1>7, PodStepPods DEF TypeOK
  <2>3. \A b \in Attempt : exists(pods'[b]) => b <= tr.st.tries
    <3>1. a <= tr.st.tries
      BY Zenon, <2>1 DEF AttemptInv
    <3>2. \A b \in Attempt \ {a} : exists(pods'[b]) => b <= tr.st.tries
      BY <2>2 DEF AttemptInv, exists
    <3> QED
      BY Zenon, <3>1, <3>2
  <2> QED
    BY Zenon, <2>1, <2>3 DEF AttemptInv, Ending, Calling, Sane
<1>8. CASE TimeoutPasses \/ UNCHANGED vars
  <2>1. UNCHANGED <<tr, trCache, pods, podCache, rec>>
    BY Zenon, <1>8 DEF TimeoutPasses, vars
  <2> QED
    BY Zenon, <2>1 DEF AttemptInv, Ending, Calling, Sane
<1> QED
  BY <1>1, <1>2, <1>3, <1>4, <1>5, <1>6, <1>7, <1>8 DEF Next, PodStep, Rest

LEMMA AttemptsInvariant == ASSUME ReadsOwnWrites PROVE Spec => [](TypeOK /\ AttemptInv)
  BY InitTypes, StepTypes, InitAttempts, StepAttempts, PTL DEF Spec

(***************************************************************************)
(* Attempts given up stay given up, for any number of retries, failing     *)
(* calls, crashes and lost pods, provided a reconcile finds the status     *)
(* written last: retryTaskRun moves on to a pod name no earlier attempt    *)
(* had, and adopts no pod that retriesStatus names.                        *)
(***************************************************************************)
THEOREM ArchivedStays == ASSUME ReadsOwnWrites PROVE Spec => []ArchivedForGood
<1>1. TypeOK /\ AttemptInv => ArchivedForGood
  <2> SUFFICES ASSUME TypeOK, AttemptInv PROVE ArchivedForGood
    BY ZenonT(60)
  <2>1. tr.st.pod \notin tr.st.archived
    BY DEF AttemptInv, Sound
  <2>2. CASE rec = NoReconcile
    BY Zenon, <2>1, <2>2 DEF NoReconcile, NewStatus, ArchivedForGood
  <2>3. CASE Ending(rec) \/ Calling(rec)
    BY <2>1, <2>3 DEF Ending, Calling, Sane, ArchivedForGood
  <2> QED
    BY <2>2, <2>3 DEF AttemptInv
<1> QED
  BY <1>1, AttemptsInvariant, PTL

(***************************************************************************)
(* A TaskRun is a ChildRun, as far as safety goes, whatever else fails,    *)
(* if stopping sidecars never fails for good: retries, restarts and lost   *)
(* writes do not show, it ends once, what it ended as stays, and it is     *)
(* Cancelled only when that was asked for.                                 *)
(***************************************************************************)
THEOREM TaskRunIsChildRun ==
  ASSUME ReadsOwnWrites, "stop" \notin Failing
  PROVE  Spec => CR!Spec
<1> DEFINE req == IF tr.cancelled THEN "Cancel" ELSE ""
<1>1. Init => CR!Init
  <2> SUFFICES ASSUME Init PROVE CR!Init
    OBVIOUS
  <2>1. tr.st = NewStatus /\ ~tr.cancelled
    BY Zenon DEF Init
  <2>2. ~IsDone(NewStatus)
    BY DEF IsDone, IsFailure, NewStatus, FailedReason
  <2>3. childState = "Running"
    BY <2>1, <2>2 DEF childState
  <2>4. req = ""
    BY <2>1
  <2> QED
    BY <2>3, <2>4 DEF CR!Init
<1>2. TypeOK /\ AttemptInv /\ [Next]_vars => [CR!Next]_(CR!vars)
  <2> SUFFICES ASSUME TypeOK, AttemptInv, [Next]_vars PROVE [CR!Next]_(CR!vars)
    OBVIOUS
  <2>1. tr \in [cancelled : BOOLEAN, valid : BOOLEAN, st : Status]
    BY DEF TypeOK
  <2>2. tr' = tr => [CR!Next]_(CR!vars)
    BY DEF CR!vars, childState
  <2>3. CASE UserCancels
    <3>1. ~IsDone(tr.st) /\ tr'.st = tr.st /\ tr'.cancelled
      BY <2>1, <2>3 DEF UserCancels
    <3>2. childState = "Running" /\ childState' = "Running" /\ req' = "Cancel"
      BY <3>1 DEF childState, IsDone, IsFailure
    <3> QED
      BY <3>2 DEF CR!Next, CR!Ask, CR!Request
  <2>4. CASE UpdateStatus
    <3>1. Ending(rec)
      BY <2>4 DEF UpdateStatus, AttemptInv, Calling, NoReconcile
    <3>2. tr'.st = rec.st /\ tr'.cancelled = tr.cancelled
      <4>1. CASE rec.st = rec.orig
        BY <2>4, <3>1, <4>1 DEF UpdateStatus, Ending
      <4>2. CASE rec.st # rec.orig
        BY <2>1, <2>4, <4>2 DEF UpdateStatus
      <4> QED
        BY <4>1, <4>2
    <3>3. CASE IsDone(tr.st)
      <4>1. tr'.st.reason = tr.st.reason
        BY <3>1, <3>2, <3>3 DEF Ending, Firm
      <4>2. childState' = childState
        BY <4>1 DEF childState, IsDone, IsFailure
      <4> QED
        BY ZenonT(60), <3>2, <4>2 DEF CR!vars
    <3>4. CASE ~IsDone(tr.st)
      <4>1. childState = "Running"
        BY <3>4 DEF childState
      <4>2. childState' \in {"Running", "Succeeded", "Failed", "Cancelled"}
        BY DEF childState
      <4>3. childState' = "Cancelled" => req # ""
        BY <3>1, <3>2 DEF childState, Ending
      <4>4. req' = req
        BY <3>2
      <4> QED
        BY Zenon, <4>1, <4>2, <4>3, <4>4 DEF CR!Next, CR!End, CR!DoneState, CR!vars
    <3> QED
      BY <3>3, <3>4
  <2>5. ~UserCancels /\ ~UpdateStatus => tr' = tr
    <3>1. Begin => tr' = tr
      BY DEF Begin, Dequeue, ReconcileDone, ReconcileCancelled, ReconcileTimedOut,
             ReconcilePullFailed, PrepareResolving, PrepareRetry, PrepareFailed, PrepareInvalid,
             Reconcile
    <3>2. Call \/ CallFails \/ UpdateLabelsFails => tr' = tr
      BY Zenon DEF Call, CallFails, calls, StopSidecars, KillPod, CreatePod, UpdateReady,
                   MakeStatus,
             ResultsTooLarge, ResultsInvalid, StopConflict, StopFails, KillFails, CreateOverQuota,
             CreateFails, UpdateReadyFails, MakeStatusFails, UpdateLabelsFails
    <3>3. (\E a \in Attempt : PodStep(a)) => tr' = tr
      BY Zenon, PodStepFrame
    <3> QED
      BY Zenon, <3>1, <3>2, <3>3 DEF Next, PodStep, UpdateStatusFails, Crash, InformTaskRun,
                                     InformPods,
         TimeoutPasses, Rest, vars
  <2> QED
    BY <2>2, <2>3, <2>4, <2>5
<1> QED
  BY <1>1, <1>2, AttemptsInvariant, PTL DEF Spec, CR!Spec

=============================================================================
