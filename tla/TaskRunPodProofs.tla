------------------------- MODULE TaskRunPodProofs -------------------------
(***************************************************************************)
(* What the status of a TaskRun says of its pods, and which of them run:   *)
(* proofs about TaskRun, for any number of retries.                        *)
(***************************************************************************)
EXTENDS TaskRunProofs

-----------------------------------------------------------------------------
\* What becomes of a pod.

\* The steps of the pod have ended.
over(p) == exists(p) /\ p.steps \in {"ok", "failed"}

\* The phase follows the steps.
Shape(p) ==
  /\ p.phase = "Pending" => p.steps = "created"
  /\ p.phase = "Succeeded" => p.steps = "ok"
  /\ p.phase = "Failed" => p.steps = "failed"

\* The sidecars of p run.
sideOn(p) == p.phase = "Running" /\ p.side \in {"off", "on"}

\* From p to q nobody deletes the pod but the cluster, and only before its steps end.
PodGoesOn(p, q) ==
  /\ exists(q) => exists(p) /\ q.cancel = p.cancel
  /\ live(q) => live(p)
  /\ q.bad \subseteq p.bad \cup Blockers
  /\ Shape(p) => Shape(q) /\ (over(p) => over(q) /\ q.steps = p.steps)
  /\ sideOn(q) => p.phase = "Pending" \/ sideOn(p)

LEMMA PodStays == \A p : PodGoesOn(p, p)
  BY Zenon DEF PodGoesOn

LEMMA StepGoesOn ==
  ASSUME TypeOK, NEW a \in Attempt, PodStep(a), NEW b \in Attempt
  PROVE  PodGoesOn(pods[b], pods'[b])
<1>1. pods \in [Attempt -> Pod] /\ pods[a] \in Pod
  BY DEF TypeOK
<1>2. CASE b # a
  BY <1>1, <1>2, PodStepPods, PodStays
<1>3. ASSUME NEW p \in Pod, p = pods[a] PROVE PodGoesOn(p, pods'[a])
  <2> USE DEF PodGoesOn, exists, live, over, Shape, sideOn, Pod
  <2>1. CASE PodStarts(a)
    <3>1. pods'[a] = [p EXCEPT !.phase = "Running"] /\ p.phase = "Pending"
      BY <1>1, <1>3, <2>1 DEF PodStarts
    <3> QED  BY <3>1
  <2>2. CASE SidecarReady(a)
    <3>1. pods'[a] = [p EXCEPT !.side = "on"] /\ p.phase = "Running" /\ p.side = "off"
      BY <1>1, <1>3, <2>2 DEF SidecarReady
    <3> QED  BY <3>1
  <2>3. CASE SidecarExits(a)
    <3>1. pods'[a] = [p EXCEPT !.side = "stopped"] /\ p.phase = "Running"
      BY <1>1, <1>3, <2>3 DEF SidecarExits
    <3> QED  BY <3>1
  <2>4. CASE StepsStart(a)
    <3>1. pods'[a] = [p EXCEPT !.steps = "going"] /\ p.phase = "Running" /\ p.steps = "created"
      BY <1>1, <1>3, <2>4 DEF StepsStart
    <3> QED  BY <3>1
  <2>5. CASE StepsEnd(a)
    <3>1. \E how \in {"ok", "failed"} :
            pods'[a] = [p EXCEPT !.steps = how] /\ p.phase = "Running" /\ p.steps = "going"
      BY <1>1, <1>3, <2>5 DEF StepsEnd
    <3> QED  BY <3>1
  <2>6. CASE PodEnds(a)
    <3>1. /\ p.phase = "Running" /\ p.steps \in {"ok", "failed"}
          /\ \/ p.steps = "ok" /\ pods'[a] = [p EXCEPT !.phase = "Succeeded"]
             \/ p.steps = "failed" /\ pods'[a] = [p EXCEPT !.phase = "Failed"]
      BY <1>1, <1>3, <2>6 DEF PodEnds
    <3> QED  BY <3>1
  <2>7. CASE PodBlocked(a)
    <3>1. \E x \in Blockers : pods'[a] = [p EXCEPT !.bad = {x}]
      BY Zenon, <1>1, <1>3, <2>7 DEF PodBlocked
    <3> QED  BY <3>1
  <2>8. CASE PodUnblocked(a)
    <3>1. pods'[a] = [p EXCEPT !.bad = {}]
      BY <1>1, <1>3, <2>8 DEF PodUnblocked
    <3> QED  BY <3>1
  <2>9. CASE PodLost(a)
    <3>1. /\ live(p)
          /\ \/ pods'[a] = AbsentPod
             \/ pods'[a] = [p EXCEPT !.phase = "Failed", !.steps = "failed", !.bad = {}]
             \/ p.phase = "Running" /\ pods'[a] = [p EXCEPT !.steps = "failed"]
      BY <1>1, <1>3, <2>9 DEF PodLost
    <3>2. AbsentPod.phase = "Absent" /\ AbsentPod.bad = {}
      BY DEF AbsentPod
    <3> QED  BY Zenon, <3>1, <3>2
  <2> QED
    BY Zenon, <2>1, <2>2, <2>3, <2>4, <2>5, <2>6, <2>7, <2>8, <2>9 DEF PodStep, PodProgress
<1> QED  BY <1>1, <1>2, <1>3

\* The reconciler deletes, or tells to stop, the pod that its status names,
LEMMA KillChanges ==
  ASSUME TypeOK, KillPod, NEW a \in Attempt
  PROVE  /\ a # rec.st.pod => pods'[a] = pods[a]
         /\ a = rec.st.pod =>
              \/ pods'[a] = AbsentPod
              \/ /\ rec.st.reason = "Cancelled"
                 /\ pods'[a] = [pods[a] EXCEPT !.cancel = exists(pods[a])]
  BY Zenon DEF KillPod, TypeOK

\* creates the pod of the attempt unless there is one, and leaves the others to themselves.
LEMMA PodsGoOn ==
  ASSUME TypeOK, [Next]_vars, NEW a \in Attempt
  PROVE  \/ PodGoesOn(pods[a], pods'[a])
         \/ KillPod /\ a = rec.st.pod
         \/ CreatePod /\ a = rec.st.tries /\ ~exists(pods[a]) /\ pods'[a] = NewPod
<1>1. pods \in [Attempt -> Pod] /\ pods[a] \in Pod
  BY DEF TypeOK
<1>2. CASE pods'[a] = pods[a]
  BY Zenon, <1>2, PodStays
<1>3. CASE KillPod
  BY Zenon, <1>2, <1>3, KillChanges
<1>4. CASE CreatePod
  BY Zenon, <1>1, <1>2, <1>4 DEF CreatePod
<1>5. CASE StopSidecars
  <2>1. pods'[a] = pods[a] \/ pods'[a] = [pods[a] EXCEPT !.side = "nop"]
    BY Zenon, <1>1, <1>5 DEF StopSidecars
  <2>2. PodGoesOn(pods[a], [pods[a] EXCEPT !.side = "nop"])
    BY <1>1 DEF PodGoesOn, exists, live, over, Shape, sideOn, Pod
  <2> QED  BY Zenon, <1>2, <2>1, <2>2
<1>6. CASE UpdateReady
  <2>1. pods'[a] = pods[a] \/ pods'[a] = [pods[a] EXCEPT !.ready = TRUE]
    BY ZenonT(40), <1>1, <1>6 DEF UpdateReady
  <2>2. PodGoesOn(pods[a], [pods[a] EXCEPT !.ready = TRUE])
    BY <1>1 DEF PodGoesOn, exists, live, over, Shape, sideOn, Pod
  <2> QED  BY Zenon, <1>2, <2>1, <2>2
<1>7. CASE CallFails \/ UpdateLabelsFails \/ MakeStatus \/ ResultsTooLarge \/ ResultsInvalid
  BY Zenon, <1>2, <1>7 DEF CallFails, StopConflict, StopFails, KillFails, CreateOverQuota,
                           CreateFails,
     UpdateReadyFails, MakeStatusFails, UpdateLabelsFails, MakeStatus, ResultsTooLarge,
     ResultsInvalid
<1>8. CASE Begin
  BY Zenon, <1>2, <1>8 DEF Begin, Dequeue, ReconcileDone, ReconcileCancelled, ReconcileTimedOut,
     ReconcilePullFailed, PrepareResolving, PrepareRetry, PrepareFailed, PrepareInvalid, Reconcile
<1>9. CASE \E b \in Attempt : PodStep(b)
  BY Zenon, <1>9, StepGoesOn
<1>10. CASE \/ UpdateStatus \/ UpdateStatusFails \/ Crash \/ InformTaskRun \/ InformPods
            \/ UserCancels \/ TimeoutPasses \/ UNCHANGED vars
  BY Zenon, <1>2, <1>10 DEF UpdateStatus, UpdateStatusFails, Crash, InformTaskRun, InformPods,
                            UserCancels,
     TimeoutPasses, vars
<1> QED
  BY Zenon, <1>3, <1>4, <1>5, <1>6, <1>7, <1>8, <1>9, <1>10 DEF Next, Call, PodStep, Rest

-----------------------------------------------------------------------------
\* What becomes of a reconcile.

\* s and t are about the same pod and the same earlier attempts.
Like(s, t) == s.pod = t.pod /\ s.tries = t.tries /\ s.archived = t.archived

\* The reconcile is about to write s, or the attempt after s.
Wrote(s) ==
  /\ s \in Status
  /\ rec'.pc = "write"
  /\ \/ rec'.st = s /\ Final(s, rec'.cancelled)
     \/ /\ IsFailure(s) /\ ~rec'.cancelled
        /\ rec'.st.reason = "ToBeRetried" /\ rec'.st.pod = NoPod
        /\ rec'.st.tries = s.tries + 1
        /\ rec'.st.archived = s.archived \cup ({s.pod} \ {NoPod})
        /\ rec'.st.start = 0 /\ rec'.st.spec = s.spec

LEMMA FinishWrites ==
  ASSUME NEW R \in ReconcileType, NEW out \in Outs,
         rec' = finishReconcileUpdateEmitEvents(R, out)
  PROVE  /\ Wrote(R.st) /\ rec'.out = out /\ rec'.cancelled = R.cancelled
         /\ rec'.name = R.name /\ rec'.seen = R.seen
<1> DEFINE s == IF IsFailure(R.st) /\ ~R.cancelled /\ IsRetriable(R.st)
                THEN retryTaskRun(R.st) ELSE R.st
<1>1. R.st \in Status
  BY ReconcileFields
<1>2. rec' = [R EXCEPT !.pc = "write", !.st = s, !.out = out]
  BY ZenonT(60) DEF finishReconcileUpdateEmitEvents
<1>3. CASE IsFailure(R.st) /\ ~R.cancelled /\ IsRetriable(R.st)
  <2>1. /\ s.tries = R.st.tries + 1 /\ s.archived = R.st.archived \cup ({R.st.pod} \ {NoPod})
        /\ s.pod = NoPod /\ s.reason = "ToBeRetried" /\ s.start = 0
    BY <1>1, <1>3, RetryFacts
  <2>2. s.spec = R.st.spec
    BY <1>1, <1>3 DEF retryTaskRun, Status
  <2> HIDE DEF s
  <2>3. /\ rec'.pc = "write" /\ rec'.st = s /\ rec'.out = out /\ rec'.cancelled = R.cancelled
        /\ rec'.name = R.name /\ rec'.seen = R.seen
    BY ZenonT(60), <1>2 DEF ReconcileType
  <2> QED  BY ZenonT(60), <1>1, <1>3, <2>1, <2>2, <2>3 DEF Wrote
<1>4. CASE ~(IsFailure(R.st) /\ ~R.cancelled /\ IsRetriable(R.st))
  <2>1. s = R.st
    BY <1>4
  <2> HIDE DEF s
  <2>2. /\ rec'.pc = "write" /\ rec'.st = s /\ rec'.out = out /\ rec'.cancelled = R.cancelled
        /\ rec'.name = R.name /\ rec'.seen = R.seen
    BY <1>2 DEF ReconcileType
  <2> QED  BY ZenonT(60), <1>1, <1>4, <2>1, <2>2 DEF Wrote, Final
<1> QED  BY <1>3, <1>4

\* Another status for a reconcile that is over then.
LEMMA FinishWith ==
  ASSUME NEW R \in ReconcileType, NEW s \in Status, NEW out \in Outs,
         rec' = finishReconcileUpdateEmitEvents([R EXCEPT !.st = s], out)
  PROVE  /\ Wrote(s) /\ rec'.out = out /\ rec'.cancelled = R.cancelled
         /\ rec'.name = R.name /\ rec'.seen = R.seen
<1> DEFINE S == [R EXCEPT !.st = s]
<1>1. /\ S \in ReconcileType /\ S.st = s /\ S.cancelled = R.cancelled /\ S.name = R.name
      /\ S.seen = R.seen
  BY DEF ReconcileType
<1> HIDE DEF S
<1>2. rec' = finishReconcileUpdateEmitEvents(S, out)
  BY DEF S
<1> QED  BY Zenon, <1>1, <1>2, FinishWrites

\* A status that differs in the reason.
LEMMA OtherReason ==
  ASSUME NEW s \in Status, NEW why \in Reasons
  PROVE  LET t == [s EXCEPT !.reason = why]
         IN /\ t \in Status /\ Like(t, s) /\ t.reason = why /\ t.start = s.start
            /\ t.spec = s.spec
  BY DEF Status, Reasons, Like

LEMMA ReasonWrites ==
  ASSUME NEW R \in ReconcileType, NEW why \in Reasons, NEW out \in Outs,
         rec' = finishReconcileUpdateEmitEvents([R EXCEPT !.st.reason = why], out)
  PROVE  \E s \in Status :
           /\ Wrote(s) /\ Like(s, R.st) /\ s.reason = why /\ s.start = R.st.start
           /\ s.spec = R.st.spec
           /\ rec'.out = out /\ rec'.cancelled = R.cancelled /\ rec'.seen = R.seen
<1> DEFINE s == [R.st EXCEPT !.reason = why]
<1>1. [R EXCEPT !.st.reason = why] = [R EXCEPT !.st = s] /\ R.st \in Status
  BY ReconcileFields
<1>2. s \in Status /\ Like(s, R.st) /\ s.reason = why /\ s.start = R.st.start /\ s.spec = R.st.spec
  BY <1>1, OtherReason
<1> HIDE DEF s
<1>3. Wrote(s) /\ rec'.out = out /\ rec'.cancelled = R.cancelled /\ rec'.seen = R.seen
  BY ZenonT(60), <1>1, <1>2, FinishWith
<1> QED  BY <1>2, <1>3

\* An attempt fails: at once if there is no pod to stop.
LEMMA FailWrites ==
  ASSUME NEW R \in ReconcileType, NEW why \in Reasons, rec' = failTaskRun(R, why)
  PROVE  \E s \in Status :
           /\ Like(s, R.st) /\ s.reason = why /\ s.start = R.st.start /\ s.spec = R.st.spec
           /\ rec'.cancelled = R.cancelled /\ rec'.seen = R.seen
           /\ \/ R.st.pod = NoPod /\ Wrote(s) /\ rec'.out = "nil"
              \/ R.st.pod # NoPod /\ rec'.pc = "kill" /\ rec'.st = s
<1> DEFINE s == [R.st EXCEPT !.reason = why]
<1>1. R.st \in Status
  BY ReconcileFields
<1>2. s \in Status /\ Like(s, R.st) /\ s.reason = why /\ s.start = R.st.start /\ s.spec = R.st.spec
  BY <1>1, OtherReason
<1>3. \/ R.st.pod = NoPod /\ rec' = finishReconcileUpdateEmitEvents([R EXCEPT !.st = s], "nil")
      \/ /\ R.st.pod # NoPod
         /\ rec' = [R EXCEPT !.pc = "kill", !.st = [s EXCEPT !.stepWait = FALSE]]
  BY Zenon, FailFacts
<1> HIDE DEF s
<1>4. CASE R.st.pod = NoPod
  <2>1. rec' = finishReconcileUpdateEmitEvents([R EXCEPT !.st = s], "nil")
    BY <1>3, <1>4
  <2>2. Wrote(s) /\ rec'.out = "nil" /\ rec'.cancelled = R.cancelled /\ rec'.seen = R.seen
    BY ZenonT(60), <1>2, <2>1, FinishWith DEF Outs
  <2> QED  BY <1>2, <1>4, <2>2
<1>5. CASE R.st.pod # NoPod
  <2> DEFINE t == [s EXCEPT !.stepWait = FALSE]
  <2>1. /\ t \in Status /\ t.pod = s.pod /\ t.tries = s.tries /\ t.archived = s.archived
        /\ t.reason = s.reason /\ t.start = s.start /\ t.spec = s.spec
    BY Zenon, <1>2 DEF Status
  <2>2. rec' = [R EXCEPT !.pc = "kill", !.st = t]
    BY <1>3, <1>5
  <2> HIDE DEF t
  <2>3. rec'.pc = "kill" /\ rec'.st = t /\ rec'.cancelled = R.cancelled /\ rec'.seen = R.seen
    BY ZenonT(60), <2>2 DEF ReconcileType
  <2> QED  BY <1>2, <1>5, <2>1, <2>3 DEF Like
<1> QED  BY <1>4, <1>5

LEMMA UseSets ==
  ASSUME NEW R \in ReconcileType, NEW a \in Attempt, NEW p \in Pod, rec' = usePod(R, a, p)
  PROVE  /\ rec'.pc = "ready" \/ rec'.pc = "status"
         /\ rec'.pc = "ready" => SidecarsReady(p)
         /\ rec'.st = R.st /\ rec'.name = a /\ rec'.seen = p /\ rec'.cancelled = R.cancelled
<1> DEFINE next == IF SidecarsReady(p) /\ ~p.ready THEN "ready" ELSE "status"
<1>1. rec' = [R EXCEPT !.pc = next, !.name = a, !.seen = p]
  BY DEF usePod
<1>2. (next = "ready" \/ next = "status") /\ (next = "ready" => SidecarsReady(p))
  OBVIOUS
<1> HIDE DEF next
<1>3. /\ rec'.pc = next /\ rec'.st = R.st /\ rec'.name = a /\ rec'.seen = p
      /\ rec'.cancelled = R.cancelled
  BY ZenonT(60), <1>1 DEF ReconcileType
<1> QED  BY <1>2, <1>3

\* The status a reconcile begins with, beside what BegunSane says of it.
LEMMA BegunRest ==
  ASSUME TypeOK, AttemptInv, ReadsOwnWrites, Dequeue
  PROVE  /\ begun \in ReconcileType /\ begun.seen = AbsentPod /\ begun.cancelled = trCache.cancelled
         /\ begun.st \in Status /\ Like(begun.st, tr.st)
         /\ begun.st.spec = tr.st.spec
         /\ begun.st.stepWait = tr.st.stepWait /\ begun.st.sideWait = tr.st.sideWait
         /\ begun.st.start \in {tr.st.start, stamp'}
         /\ HasTimedOut(tr.st) => HasTimedOut(begun.st)
         /\ HasTimedOut(begun.st) /\ expired <= stamp => HasTimedOut(tr.st)
         /\ begun.st.reason = tr.st.reason \/ begun.st.reason = "Started"
<1>1. trCache.st = tr.st /\ tr.st \in Status /\ stamp \in Nat /\ expired \in Nat
  BY DEF Dequeue, TypeOK
<1>2. tr.st.start \in Nat
  BY <1>1, StatusFields
<1>3. stamp' = IF tr.st.start = 0 THEN stamp + 1 ELSE stamp
  BY <1>1 DEF Dequeue
<1>4. begun.st = InitializeConditions(tr.st)
  BY ZenonT(60), <1>1, BegunFacts
<1>5. begun \in ReconcileType /\ begun.cancelled = trCache.cancelled /\ Like(begun.st, tr.st)
  BY <1>1, BegunFacts DEF Like
<1>6. begun.seen = AbsentPod
  BY ZenonT(60), NewRecords DEF begun, NoReconcile
<1>7. CASE tr.st.start # 0
  <2>1. begun.st = tr.st
    BY ZenonT(60), <1>4, <1>7 DEF InitializeConditions
  <2> QED  BY <1>1, <1>5, <1>6, <2>1
<1>8. CASE tr.st.start = 0
  <2> DEFINE c == tr.st
             n == stamp + 1
  <2>1. begun.st = [c EXCEPT !.start = n, !.reason = "Started"]
    BY ZenonT(60), <1>4, <1>8 DEF InitializeConditions
  <2>2. c \in Status /\ n \in Nat /\ stamp' = n
    BY <1>1, <1>3, <1>8
  <2> HIDE DEF c, n
  <2>3. /\ begun.st \in Status /\ begun.st.spec = c.spec /\ begun.st.start = n
        /\ begun.st.stepWait = c.stepWait /\ begun.st.sideWait = c.sideWait
        /\ begun.st.reason = "Started"
    BY Zenon, <2>1, <2>2 DEF Status, OngoingReason
  <2>4. ~HasTimedOut(tr.st)
    BY <1>8 DEF HasTimedOut
  <2>5. HasTimedOut(begun.st) => n <= expired
    BY <2>3 DEF HasTimedOut
  <2>6. ~(n <= expired /\ expired <= stamp)
    BY SMTT(60), <1>1 DEF n
  <2> QED  BY ZenonT(60), <1>5, <1>6, <2>2, <2>3, <2>4, <2>5, <2>6 DEF c
<1> QED  BY <1>7, <1>8

\* The pod the status names is as good as gone: what fails the attempt stays.
Doomed == trCache.cancelled \/ HasTimedOut(tr.st) \/ imageWaits(tr.st)

\* A reconcile begins: of a TaskRun that is done,
BeginsDone ==
  /\ IsDone(tr.st) /\ rec'.st.reason = tr.st.reason
  /\ Like(rec'.st, tr.st) /\ rec'.st.spec = tr.st.spec
  /\ rec'.st.start \in {tr.st.start, stamp'}
  /\ \/ rec'.pc = "stop" /\ tr.st.pod # NoPod /\ tr.st.reason \notin stopReasons
     \/ rec'.pc = "write" /\ (tr.st.pod = NoPod \/ tr.st.reason \in stopReasons)

\* to fail the attempt,
BeginsFailing ==
  /\ ~IsDone(tr.st)
  /\ expired <= stamp => Doomed
  /\ \E s \in Status :
       /\ IsFailure(s) /\ Like(s, tr.st) /\ s.spec = tr.st.spec /\ s.start \in {tr.st.start, stamp'}
       /\ s.reason = "Cancelled" => rec'.cancelled
       /\ \/ tr.st.pod = NoPod /\ Wrote(s)
          \/ tr.st.pod # NoPod /\ rec'.pc = "kill" /\ rec'.st = s

\* without the Task,
BeginsWaiting ==
  /\ ~IsDone(tr.st)
  /\ ~trCache.cancelled /\ ~HasTimedOut(tr.st) /\ ~checkPodFailed(tr.st)
  /\ \E s \in Status :
       /\ Wrote(s) /\ Like(s, tr.st) /\ s.start \in {tr.st.start, stamp'}
       /\ tr.st.spec => s.spec
       /\ s.reason # "Succeeded" /\ s.reason \notin stopReasons
       /\ IsFailure(s) => ~tr.st.spec \/ ~tr.valid

\* or to go on with it, creating its pod or using the one there is.
BeginsWork ==
  /\ ~IsDone(tr.st) /\ tr.valid
  /\ ~trCache.cancelled /\ ~HasTimedOut(tr.st) /\ ~checkPodFailed(tr.st)
  /\ Like(rec'.st, tr.st) /\ rec'.st.spec /\ ~IsDone(rec'.st)
  /\ rec'.st.start \in {tr.st.start, stamp'}
  /\ \/ rec'.pc = "create" /\ foundPods(tr.st, podCache) = {}
     \/ /\ rec'.name \in foundPods(tr.st, podCache) /\ rec'.seen = podCache[rec'.name]
        /\ rec'.pc = "ready" \/ rec'.pc = "status"

LEMMA BeginKinds ==
  ASSUME ReadsOwnWrites, TypeOK, AttemptInv, Begin
  PROVE  /\ UNCHANGED <<tr, trCache, pods, podCache, expired>>
         /\ rec.pc = "idle" /\ queued /\ trCache.st = tr.st /\ stamp <= stamp'
         /\ rec'.cancelled = trCache.cancelled
         /\ rec'.pc = "ready" \/ rec'.pc = "status" \/ rec'.seen = AbsentPod
         /\ BeginsDone \/ BeginsFailing \/ BeginsWaiting \/ BeginsWork
<1>1. Dequeue
  BY DEF Begin, ReconcileDone, ReconcileCancelled, ReconcileTimedOut, ReconcilePullFailed,
         PrepareResolving, PrepareRetry, PrepareFailed, PrepareInvalid, Reconcile
<1>2. /\ UNCHANGED <<tr, trCache, pods, podCache, expired>>
      /\ rec.pc = "idle" /\ queued /\ trCache.st = tr.st /\ stamp <= stamp'
  BY SMTT(60), <1>1 DEF Dequeue, TypeOK
<1>3. /\ begun \in ReconcileType /\ begun.seen = AbsentPod /\ begun.cancelled = trCache.cancelled
      /\ begun.st \in Status /\ Like(begun.st, tr.st)
      /\ begun.st.spec = tr.st.spec
      /\ begun.st.stepWait = tr.st.stepWait /\ begun.st.sideWait = tr.st.sideWait
      /\ begun.st.start \in {tr.st.start, stamp'}
      /\ HasTimedOut(tr.st) => HasTimedOut(begun.st)
      /\ HasTimedOut(begun.st) /\ expired <= stamp => HasTimedOut(tr.st)
      /\ begun.st.reason = tr.st.reason \/ begun.st.reason = "Started"
  BY ZenonT(60), <1>1, BegunRest
<1>4. /\ IsDone(begun.st) <=> IsDone(tr.st)
      /\ IsDone(tr.st) => Final(begun.st, begun.cancelled)
      /\ begun.st.pod = tr.st.pod
  BY ZenonT(60), <1>1, BegunSane
<1>5. imageWaits(begun.st) = imageWaits(tr.st) /\ checkPodFailed(begun.st) = checkPodFailed(tr.st)
  BY ZenonT(60), <1>3, <1>4 DEF imageWaits, checkPodFailed, mayRecover
<1> DEFINE Same == /\ rec'.cancelled = trCache.cancelled
                   /\ rec'.pc = "ready" \/ rec'.pc = "status" \/ rec'.seen = AbsentPod
           Kind == BeginsDone \/ BeginsFailing \/ BeginsWaiting \/ BeginsWork
<1> SUFFICES Same /\ Kind
  BY ZenonT(60), <1>2
<1>6. CASE ReconcileDone
  <2>1. IsDone(begun.st) /\ IsDone(tr.st) /\ begun.st.reason = tr.st.reason
    BY ZenonT(60), <1>3, <1>4, <1>6 DEF ReconcileDone, IsDone, IsFailure, FailedReason
  <2>2. CASE begun.st.pod = NoPod \/ begun.st.reason \in stopReasons
    <3>1. rec' = finishReconcileUpdateEmitEvents(begun, "nil")
      BY ZenonT(60), <1>6, <2>2 DEF ReconcileDone
    <3>2. Wrote(begun.st) /\ rec'.cancelled = begun.cancelled /\ rec'.seen = begun.seen
      BY ZenonT(60), <1>3, <3>1, FinishWrites DEF Outs
    <3>3. rec'.st = begun.st /\ rec'.pc = "write"
      BY ZenonT(60), <1>4, <2>1, <3>2, <1>3, FinishFacts, <3>1 DEF Final, Outs
    <3> QED  BY <1>3, <1>4, <2>1, <2>2, <3>2, <3>3 DEF BeginsDone
  <2>3. CASE ~(begun.st.pod = NoPod \/ begun.st.reason \in stopReasons)
    <3>1. rec' = [begun EXCEPT !.pc = "stop"]
      BY <1>6, <2>3 DEF ReconcileDone
    <3>2. /\ rec'.pc = "stop" /\ rec'.st = begun.st /\ rec'.cancelled = begun.cancelled
          /\ rec'.seen = begun.seen
      BY ZenonT(60), <1>3, <3>1 DEF ReconcileType
    <3> QED  BY <1>3, <1>4, <2>1, <2>3, <3>2 DEF BeginsDone
  <2> QED  BY <2>2, <2>3
<1>7. ASSUME NEW why \in FailedReason, rec' = failTaskRun(begun, why), ~IsDone(begun.st),
             why = "Cancelled" => begun.cancelled, expired <= stamp => Doomed
      PROVE  Same /\ Kind
  <2>1. why \in Reasons
    BY ZenonT(60) DEF Reasons
  <2>2. PICK s \in Status :
          /\ Like(s, begun.st) /\ s.reason = why /\ s.start = begun.st.start
          /\ s.spec = begun.st.spec
          /\ rec'.cancelled = begun.cancelled /\ rec'.seen = begun.seen
          /\ \/ begun.st.pod = NoPod /\ Wrote(s) /\ rec'.out = "nil"
             \/ begun.st.pod # NoPod /\ rec'.pc = "kill" /\ rec'.st = s
    BY SMTT(60), <1>3, <1>7, <2>1, FailWrites
  <2>3. IsFailure(s) /\ Like(s, tr.st)
    BY ZenonT(60), <1>3, <2>2 DEF IsFailure, Like
  <2>4. BeginsFailing
    BY Zenon, <1>3, <1>4, <1>7, <2>2, <2>3 DEF BeginsFailing
  <2> QED  BY <1>3, <2>2, <2>4
<1>8. CASE ReconcileCancelled
  BY ZenonT(60), <1>3, <1>7, <1>8 DEF ReconcileCancelled, FailedReason, Doomed
<1>9. CASE ReconcileTimedOut
  BY ZenonT(60), <1>3, <1>7, <1>9 DEF ReconcileTimedOut, FailedReason, Doomed
<1>10. CASE ReconcilePullFailed
  BY ZenonT(60), <1>5, <1>7, <1>10 DEF ReconcilePullFailed, FailedReason, Doomed, goesOn
<1>11. ASSUME NEW s \in Status, NEW out \in Outs, goesOn(begun), ~checkPodFailed(begun.st),
              rec' = finishReconcileUpdateEmitEvents([begun EXCEPT !.st = s], out),
              Like(s, begun.st), s.start = begun.st.start, begun.st.spec => s.spec,
              s.reason # "Succeeded" /\ s.reason \notin stopReasons,
              IsFailure(s) => ~tr.st.spec \/ ~tr.valid
       PROVE  Same /\ Kind
  <2>1. Wrote(s) /\ rec'.cancelled = begun.cancelled /\ rec'.seen = begun.seen
    BY <1>3, <1>11, FinishWith
  <2>2. Like(s, tr.st)
    BY <1>3, <1>11 DEF Like
  <2>3. BeginsWaiting
    BY <1>3, <1>4, <1>5, <1>11, <2>1, <2>2 DEF BeginsWaiting, goesOn
  <2> QED  BY ZenonT(60), <1>3, <2>1, <2>3
<1>12. ASSUME NEW why \in {"Resolving", "Invalid"}, NEW out \in Outs,
              goesOn(begun), ~checkPodFailed(begun.st),
              rec' = finishReconcileUpdateEmitEvents([begun EXCEPT !.st.reason = why], out),
              why = "Invalid" => ~tr.st.spec
       PROVE  Same /\ Kind
  <2> DEFINE s == [begun.st EXCEPT !.reason = why]
  <2>1. why \in Reasons
    BY Zenon DEF Reasons, FailedReason, OngoingReason
  <2>2. [begun EXCEPT !.st.reason = why] = [begun EXCEPT !.st = s]
    BY <1>3
  <2>3. /\ s \in Status /\ Like(s, begun.st) /\ s.reason = why /\ s.start = begun.st.start
        /\ s.spec = begun.st.spec
    BY <1>3, <2>1, OtherReason
  <2> HIDE DEF s
  <2>4. IsFailure(s) => ~tr.st.spec
    BY <1>12, <2>3 DEF IsFailure, FailedReason
  <2>5. s.reason # "Succeeded" /\ s.reason \notin stopReasons
    BY <2>3 DEF stopReasons
  <2> QED  BY <1>11, <1>12, <2>2, <2>3, <2>4, <2>5
<1>13. CASE PrepareResolving
  BY <1>12, <1>13 DEF PrepareResolving, Outs
<1>14. CASE PrepareFailed
  BY ZenonT(60), <1>3, <1>12, <1>14 DEF PrepareFailed, Outs
<1>15. CASE PrepareRetry
  <2>1. /\ rec' = finishReconcileUpdateEmitEvents(begun, "retry")
        /\ goesOn(begun) /\ ~checkPodFailed(begun.st)
    BY ZenonT(60), <1>15 DEF PrepareRetry
  <2>2. Wrote(begun.st) /\ rec'.cancelled = begun.cancelled /\ rec'.seen = begun.seen
    BY ZenonT(60), <1>3, <2>1, FinishWrites DEF Outs
  <2>3. begun.st.reason # "Succeeded" /\ begun.st.reason \notin stopReasons /\ ~IsFailure(begun.st)
    BY SMTT(60), <2>1 DEF goesOn, IsDone, IsFailure, stopReasons, FailedReason
  <2>4. BeginsWaiting
    BY Zenon, <1>3, <1>4, <1>5, <2>1, <2>2, <2>3 DEF BeginsWaiting, goesOn
  <2> QED  BY <1>3, <2>2, <2>4
<1>16. CASE PrepareInvalid
  <2> DEFINE s == [begun.st EXCEPT !.spec = TRUE, !.reason = "Invalid"]
  <2>1. [begun EXCEPT !.st.spec = TRUE, !.st.reason = "Invalid"] = [begun EXCEPT !.st = s]
    BY Zenon, <1>3 DEF ReconcileType
  <2>2. rec' = finishReconcileUpdateEmitEvents([begun EXCEPT !.st = s], "permanent")
        /\ goesOn(begun) /\ ~checkPodFailed(begun.st) /\ ~tr.valid
    BY <1>16, <2>1 DEF PrepareInvalid
  <2>3. /\ s \in Status /\ Like(s, begun.st) /\ s.reason = "Invalid" /\ s.start = begun.st.start
        /\ s.spec
    BY Zenon, <1>3 DEF Status, Like, FailedReason
  <2> HIDE DEF s
  <2>4. s.reason # "Succeeded" /\ s.reason \notin stopReasons
    BY <2>3 DEF stopReasons
  <2> QED  BY <1>11, <2>2, <2>3, <2>4 DEF Outs
<1>17. CASE Reconcile
  <2> DEFINE s == [begun.st EXCEPT !.spec = TRUE]
             R == [begun EXCEPT !.st = s]
  <2>1. [begun EXCEPT !.st.spec = TRUE] = R
    BY <1>3
  <2>2. /\ s \in Status /\ Like(s, begun.st) /\ s.reason = begun.st.reason
        /\ s.start = begun.st.start /\ s.spec
    BY Zenon, <1>3 DEF Status, Like
  <2> HIDE DEF s
  <2>3. R \in ReconcileType /\ R.st = s /\ R.cancelled = begun.cancelled /\ R.seen = begun.seen
    BY ZenonT(60), <1>3, <2>2 DEF ReconcileType
  <2>4. foundPods(s, podCache) = foundPods(tr.st, podCache)
    BY <1>3, <2>2 DEF foundPods, Like
  <2>5. /\ ~IsDone(begun.st) /\ ~begun.cancelled /\ ~HasTimedOut(begun.st)
        /\ ~checkPodFailed(begun.st) /\ tr.valid
        /\ \/ foundPods(R.st, podCache) = {} /\ rec' = [R EXCEPT !.pc = "create"]
           \/ \E a \in foundPods(R.st, podCache) : rec' = usePod(R, a, podCache[a])
    BY Zenon, <1>17, <2>1 DEF Reconcile, goesOn
  <2> HIDE DEF R
  <2>6. ~IsDone(s) /\ Like(s, tr.st)
    BY ZenonT(60), <1>3, <2>2, <2>5 DEF IsDone, IsFailure, Like
  <2>7. CASE foundPods(R.st, podCache) = {} /\ rec' = [R EXCEPT !.pc = "create"]
    <3>1. rec'.pc = "create" /\ rec'.st = s /\ rec'.cancelled = R.cancelled /\ rec'.seen = R.seen
      BY <2>3, <2>7 DEF ReconcileType
    <3>2. foundPods(tr.st, podCache) = {}
      BY <2>3, <2>4, <2>7
    <3>3. BeginsWork
      BY ZenonT(60), <1>3, <1>4, <1>5, <2>2, <2>5, <2>6, <3>1, <3>2 DEF BeginsWork
    <3> QED  BY <1>3, <2>3, <3>1, <3>3
  <2>8. ASSUME NEW a \in foundPods(R.st, podCache), rec' = usePod(R, a, podCache[a])
        PROVE  Same /\ Kind
    <3>1. a \in Attempt
      BY Zenon, <2>2, <2>3, FoundFacts
    <3>2. podCache[a] \in Pod
      BY ZenonT(60), <3>1 DEF TypeOK
    <3>3. /\ rec'.pc = "ready" \/ rec'.pc = "status"
          /\ rec'.st = s /\ rec'.name = a /\ rec'.seen = podCache[a] /\ rec'.cancelled = R.cancelled
      BY ZenonT(60), <2>3, <2>8, <3>1, <3>2, UseSets
    <3>4. a \in foundPods(tr.st, podCache)
      BY <2>3, <2>4
    <3>5. BeginsWork
      BY ZenonT(60), <1>3, <1>4, <1>5, <2>2, <2>5, <2>6, <3>3, <3>4 DEF BeginsWork
    <3> QED  BY <1>3, <2>3, <3>3, <3>5
  <2> QED  BY <2>5, <2>7, <2>8
<1> QED
  BY ZenonT(60), <1>6, <1>8, <1>9, <1>10, <1>13, <1>14, <1>15, <1>16, <1>17 DEF Begin

\* What a call makes of a reconcile: stopping the sidecars,
StopsSidecars ==
  /\ rec.pc = "stop" /\ rec'.seen = rec.seen
  /\ \E s \in Status :
       /\ Wrote(s) /\ Like(s, rec.st) /\ s.spec = rec.st.spec /\ s.start = rec.st.start
       /\ \/ s.reason = rec.st.reason
          \/ s.reason = "StopSidecarFailed" /\ "stop" \in Failing
  /\ \/ rec'.out = "retry"
     \/ rec.st.pod \in Attempt => ~sideOn(pods'[rec.st.pod])
     \/ "stop" \in Failing

\* the pod,
StopsPod ==
  /\ rec.pc = "kill" /\ Wrote(rec.st) /\ rec'.seen = rec.seen
  /\ KillPod \/ ("kill" \in Failing /\ pods' = pods)

\* creating the pod, unless it is there or cannot be created,
CreatesPod ==
  /\ rec.pc = "create"
  /\ \/ /\ rec'.pc = "status" /\ rec'.seen = NewPod
        /\ rec'.st = rec.st /\ rec'.name = rec.st.tries
        /\ ~exists(pods[rec.st.tries]) /\ pods'[rec.st.tries] = NewPod
     \/ /\ rec'.pc = "ready" \/ rec'.pc = "status"
        /\ rec'.seen = podCache[rec.st.tries]
        /\ rec'.st = rec.st /\ rec'.name = rec.st.tries
        /\ exists(pods[rec.st.tries]) /\ exists(podCache[rec.st.tries]) /\ pods' = pods
     \/ /\ pods' = pods /\ rec'.seen = rec.seen
        /\ \E s \in Status :
             /\ Wrote(s) /\ Like(s, rec.st) /\ s.spec = rec.st.spec /\ s.start \in {0, rec.st.start}
             /\ \/ s.reason = "Pending"
                \/ s.reason = "CreationFailed" /\ "create" \in Failing

\* releasing its first step,
ReadiesPod ==
  /\ rec.pc = "ready" /\ rec'.seen = rec.seen
  /\ \/ rec'.pc = "status" /\ rec'.st = rec.st /\ rec'.name = rec.name
     \/ Wrote(rec.st)

\* taking over what the pod shows,
TakesStatus ==
  /\ rec.pc = "status" /\ rec'.seen = rec.seen /\ pods' = pods
  /\ \E s \in Status :
       /\ s.pod = rec.name /\ s.tries = rec.st.tries /\ s.archived = rec.st.archived
       /\ s.spec = rec.st.spec /\ s.start = rec.st.start /\ s.reason \notin stopReasons
       /\ s.reason = "Succeeded" => over(rec.seen) /\ rec.seen.steps = "ok"
       /\ IsFailure(s) => over(rec.seen) \/ "config" \in rec.seen.bad
       /\ \/ Wrote(s)
          \/ rec'.pc = "kill" /\ rec'.st = s /\ IsFailure(s) /\ "large" \in Outcomes

\* and the labels.
MissesLabels ==
  /\ rec.pc = "write" /\ rec'.pc = "write" /\ rec'.st = rec.st /\ rec'.out = "retry"
  /\ rec'.seen = rec.seen /\ pods' = pods

\* What MakeTaskRunStatus says of a pod.
LEMMA StatusSays ==
  ASSUME NEW s \in Status, NEW a \in 0..NoPod, NEW p \in Pod, Shape(p)
  PROVE  LET m == MakeTaskRunStatus(s, a, p)
         IN /\ m \in Status /\ m.pod = a /\ m.tries = s.tries /\ m.archived = s.archived
            /\ m.spec = s.spec /\ m.start = s.start /\ m.reason \notin stopReasons
            /\ m.reason = "Succeeded" => over(p) /\ p.steps = "ok"
            /\ IsFailure(m) => over(p) \/ "config" \in p.bad
<1> DEFINE why == IF areContainersCompleted(p) \/ isPodCompleted(p)
                  THEN completedReason(p) ELSE incompleteReason(p)
           b == setTaskRunStatusBasedOnStepStatus(p)
           c == setTaskRunStatusBasedOnSidecarStatus(p)
<1>1. why \in Reasons /\ why \notin stopReasons
  BY DEF completedReason, incompleteReason, Reasons, FailedReason, OngoingReason, stopReasons
<1>2. b \in BOOLEAN /\ c \in BOOLEAN
  BY DEF setTaskRunStatusBasedOnStepStatus, setTaskRunStatusBasedOnSidecarStatus
<1>3. MakeTaskRunStatus(s, a, p) = [s EXCEPT !.reason = why, !.pod = a, !.stepWait = b, !.sideWait = c]
  BY Zenon DEF MakeTaskRunStatus
<1>4. CASE areContainersCompleted(p) \/ isPodCompleted(p)
  <2>1. over(p)
    BY <1>4 DEF areContainersCompleted, isPodCompleted, over, exists, Shape
  <2>2. why = "Succeeded" => p.steps = "ok"
    BY <1>4, <2>1 DEF completedReason, DidTaskRunFail, over
  <2> HIDE DEF why, b, c
  <2>3. LET m == [s EXCEPT !.reason = why, !.pod = a, !.stepWait = b, !.sideWait = c]
        IN /\ m \in Status /\ m.pod = a /\ m.reason = why /\ m.spec = s.spec
           /\ m.start = s.start /\ m.tries = s.tries /\ m.archived = s.archived
    BY Zenon, <1>1, <1>2 DEF Status, Reasons
  <2> QED  BY <1>1, <1>3, <2>1, <2>2, <2>3
<1>5. CASE ~(areContainersCompleted(p) \/ isPodCompleted(p))
  <2>1. why # "Succeeded" /\ (why \in FailedReason => "config" \in p.bad)
    BY ZenonT(60), <1>5 DEF incompleteReason, FailedReason
  <2> HIDE DEF why, b, c
  <2>2. LET m == [s EXCEPT !.reason = why, !.pod = a, !.stepWait = b, !.sideWait = c]
        IN /\ m \in Status /\ m.pod = a /\ m.reason = why /\ m.spec = s.spec
           /\ m.start = s.start /\ m.tries = s.tries /\ m.archived = s.archived
    BY Zenon, <1>1, <1>2 DEF Status, Reasons
  <2> QED  BY <1>1, <1>3, <2>1, <2>2 DEF IsFailure
<1> QED  BY <1>4, <1>5

LEMMA CallKinds ==
  ASSUME TypeOK, AttemptInv, Shape(rec.seen), Call \/ CallFails \/ UpdateLabelsFails
  PROVE  /\ UNCHANGED <<tr, trCache, podCache, stamp, expired, queued, snooze>>
         /\ rec'.cancelled = rec.cancelled
         /\ \/ StopsSidecars \/ StopsPod \/ CreatesPod \/ ReadiesPod \/ TakesStatus
            \/ MissesLabels
<1>1. UNCHANGED <<tr, trCache, podCache, stamp, expired, queued, snooze>>
  BY Zenon DEF Call, CallFails, calls, StopSidecars, KillPod, CreatePod, UpdateReady, MakeStatus,
         ResultsTooLarge, ResultsInvalid, StopConflict, StopFails, KillFails, CreateOverQuota,
         CreateFails, UpdateReadyFails, MakeStatusFails, UpdateLabelsFails
<1>2. /\ rec \in ReconcileType /\ rec.st \in Status /\ rec.name \in 0..NoPod /\ rec.seen \in Pod
      /\ podCache \in [Attempt -> Pod] /\ pods \in [Attempt -> Pod]
  BY ZenonT(60), ReconcileFields DEF TypeOK
<1>3. rec.pc \in {"stop", "kill", "create", "ready", "status"} => Calling(rec)
  BY DEF AttemptInv, Ending, NoReconcile
<1> DEFINE Same == rec'.cancelled = rec.cancelled
           Kind == \/ StopsSidecars \/ StopsPod \/ CreatesPod \/ ReadiesPod \/ TakesStatus
                   \/ MissesLabels
<1> SUFFICES Same /\ Kind
  BY ZenonT(60), <1>1
<1>4. ASSUME NEW out \in Outs, rec' = finishReconcileUpdateEmitEvents(rec, out)
      PROVE  Wrote(rec.st) /\ Same /\ rec'.seen = rec.seen /\ rec'.out = out
  BY ZenonT(60), <1>2, <1>4, FinishWrites
<1>5. ASSUME NEW why \in Reasons, NEW out \in Outs,
             rec' = finishReconcileUpdateEmitEvents([rec EXCEPT !.st.reason = why], out)
      PROVE  \E s \in Status :
               /\ Wrote(s) /\ Like(s, rec.st) /\ s.reason = why /\ s.start = rec.st.start
               /\ s.spec = rec.st.spec
               /\ rec'.out = out /\ Same /\ rec'.seen = rec.seen
  BY ZenonT(60), <1>2, <1>5, ReasonWrites
<1>6. ASSUME NEW out \in Outs, rec.pc = "stop", rec' = [rec EXCEPT !.pc = "write", !.out = out]
      PROVE  Wrote(rec.st) /\ Same /\ rec'.seen = rec.seen /\ rec'.out = out
  <2>1. /\ rec'.pc = "write" /\ rec'.st = rec.st /\ rec'.cancelled = rec.cancelled
        /\ rec'.seen = rec.seen /\ rec'.out = out
    BY <1>2, <1>6 DEF ReconcileType
  <2>2. Final(rec.st, rec.cancelled)
    BY <1>3, <1>6 DEF Calling
  <2> QED  BY <1>2, <2>1, <2>2 DEF Wrote
<1>7. CASE StopConflict
  <2>1. rec.pc = "stop" /\ rec' = [rec EXCEPT !.pc = "write", !.out = "retry"]
    BY <1>7 DEF StopConflict, calls
  <2>2. Wrote(rec.st) /\ Same /\ rec'.seen = rec.seen /\ rec'.out = "retry"
    BY <1>6, <2>1 DEF Outs
  <2> QED  BY <1>2, <2>1, <2>2 DEF StopsSidecars, Like
<1>8. CASE StopFails
  <2>1. /\ rec.pc = "stop" /\ "stop" \in Failing
        /\ rec' = finishReconcileUpdateEmitEvents([rec EXCEPT !.st.reason = "StopSidecarFailed"], "nil")
    BY <1>8 DEF StopFails, calls, fault
  <2>2. "StopSidecarFailed" \in Reasons /\ "nil" \in Outs
    BY DEF Reasons, FailedReason, Outs
  <2> QED  BY <1>5, <2>1, <2>2 DEF StopsSidecars
<1>9. CASE StopSidecars
  <2> DEFINE p == pods[rec.st.pod]
             bad == "side" \in p.bad
             s == [rec.st EXCEPT !.sideWait = bad]
  <2>1. rec.pc = "stop"
    BY ZenonT(60), <1>9 DEF StopSidecars, calls
  <2>2. CASE ~exists(p) /\ rec' = [rec EXCEPT !.pc = "write", !.out = "permanent"] /\ pods' = pods
    <3>1. Wrote(rec.st) /\ Same /\ rec'.seen = rec.seen
      BY <1>6, <2>1, <2>2 DEF Outs
    <3>2. ~sideOn(pods'[rec.st.pod])
      BY ZenonT(60), <2>2 DEF sideOn, exists
    <3> QED  BY ZenonT(60), <1>2, <2>1, <3>1, <3>2 DEF StopsSidecars, Like
  <2>3. CASE /\ rec' = finishReconcileUpdateEmitEvents([rec EXCEPT !.st.sideWait = bad], "nil")
             /\ pods' = IF p.phase = "Running" /\ p.side \in {"off", "on"}
                        THEN [pods EXCEPT ![rec.st.pod].side = "nop"] ELSE pods
    <3>1. bad \in BOOLEAN
      OBVIOUS
    <3>2. rec.st.pod \in Attempt => ~sideOn(pods'[rec.st.pod])
      BY <1>2, <2>3 DEF sideOn, Pod
    <3>3. [rec EXCEPT !.st.sideWait = bad] = [rec EXCEPT !.st = s]
      BY <1>2
    <3> HIDE DEF bad
    <3>4. /\ s \in Status /\ Like(s, rec.st) /\ s.reason = rec.st.reason /\ s.start = rec.st.start
          /\ s.spec = rec.st.spec
      BY ZenonT(60), <1>2, <3>1 DEF Status, Like
    <3> HIDE DEF s
    <3>5. Wrote(s) /\ Same /\ rec'.seen = rec.seen
      BY ZenonT(60), <1>2, <2>3, <3>3, <3>4, FinishWith DEF Outs
    <3> QED  BY ZenonT(60), <2>1, <3>2, <3>4, <3>5 DEF StopsSidecars
  <2> QED  BY Zenon, <1>9, <2>2, <2>3 DEF StopSidecars
<1>10. CASE KillPod
  <2>1. rec.pc = "kill" /\ rec' = finishReconcileUpdateEmitEvents(rec, "nil")
    BY ZenonT(60), <1>10 DEF KillPod, calls
  <2> QED  BY <1>4, <1>10, <2>1 DEF StopsPod, Outs
<1>11. CASE KillFails
  <2>1. /\ rec.pc = "kill" /\ rec' = finishReconcileUpdateEmitEvents(rec, "retry") /\ pods' = pods
        /\ "kill" \in Failing
    BY <1>11 DEF KillFails, calls, fault
  <2> QED  BY ZenonT(60), <1>4, <2>1 DEF StopsPod, Outs
<1>12. CASE CreatePod
  <2> DEFINE a == rec.st.tries
  <2>1. rec.pc = "create" /\ a \in Attempt /\ podCache[a] \in Pod /\ NewPod \in Pod
    BY ZenonT(60), <1>2, <1>12, StatusFields, PodFields DEF CreatePod, calls
  <2>2. CASE ~exists(pods[a]) /\ pods' = [pods EXCEPT ![a] = NewPod] /\ rec' = usePod(rec, a, NewPod)
    <3>1. /\ rec'.pc = "ready" \/ rec'.pc = "status"
          /\ rec'.pc = "ready" => SidecarsReady(NewPod)
          /\ rec'.st = rec.st /\ rec'.name = a /\ rec'.seen = NewPod /\ Same
      BY ZenonT(60), <1>2, <2>1, <2>2, UseSets
    <3>2. ~SidecarsReady(NewPod)
      BY DEF SidecarsReady, NewPod
    <3>3. pods'[a] = NewPod
      BY ZenonT(60), <1>2, <2>1, <2>2
    <3> QED  BY ZenonT(60), <2>1, <2>2, <3>1, <3>2, <3>3 DEF CreatesPod
  <2>3. CASE /\ exists(pods[a]) /\ pods' = pods /\ exists(podCache[a])
             /\ rec' = usePod(rec, a, podCache[a])
    <3>1. /\ rec'.pc = "ready" \/ rec'.pc = "status"
          /\ rec'.st = rec.st /\ rec'.name = a /\ rec'.seen = podCache[a] /\ Same
      BY <1>2, <2>1, <2>3, UseSets
    <3> QED  BY ZenonT(60), <2>1, <2>3, <3>1 DEF CreatesPod
  <2>4. CASE /\ pods' = pods
             /\ rec' = finishReconcileUpdateEmitEvents([rec EXCEPT !.st.reason = "Pending"], "retry")
    <3>1. "Pending" \in Reasons /\ "retry" \in Outs
      BY DEF Reasons, OngoingReason, Outs
    <3>2. PICK s \in Status :
            /\ Wrote(s) /\ Like(s, rec.st) /\ s.reason = "Pending" /\ s.start = rec.st.start
            /\ s.spec = rec.st.spec
            /\ Same /\ rec'.seen = rec.seen
      BY <1>5, <2>4, <3>1
    <3> QED  BY Zenon, <2>1, <2>4, <3>2 DEF CreatesPod
  <2> QED  BY Zenon, <1>12, <2>2, <2>3, <2>4 DEF CreatePod
<1>13. CASE CreateOverQuota
  <2> DEFINE s == [[rec.st EXCEPT !.reason = "Pending"] EXCEPT !.start = 0]
  <2>1. /\ s \in Status /\ Like(s, rec.st) /\ s.reason = "Pending" /\ s.start = 0
        /\ s.spec = rec.st.spec
    BY Zenon, <1>2 DEF Status, OngoingReason, Like
  <2>2. [rec EXCEPT !.st.reason = "Pending", !.st.start = 0] = [rec EXCEPT !.st = s]
    BY Zenon, <1>2 DEF ReconcileType
  <2>3. rec' = finishReconcileUpdateEmitEvents([rec EXCEPT !.st = s], "retry")
        /\ rec.pc = "create" /\ pods' = pods
    BY <1>13, <2>2 DEF CreateOverQuota, calls
  <2> HIDE DEF s
  <2>4. Wrote(s) /\ Same /\ rec'.seen = rec.seen
    BY <1>2, <2>1, <2>3, FinishWith DEF Outs
  <2> QED  BY Zenon, <2>1, <2>3, <2>4 DEF CreatesPod
<1>14. CASE CreateFails
  <2>1. PICK out \in {"retry", "permanent"} :
          rec' = finishReconcileUpdateEmitEvents([rec EXCEPT !.st.reason = "CreationFailed"], out)
    BY <1>14 DEF CreateFails
  <2>2. rec.pc = "create" /\ pods' = pods /\ "create" \in Failing
    BY <1>14 DEF CreateFails, calls, fault
  <2>3. "CreationFailed" \in Reasons /\ out \in Outs
    BY DEF Reasons, FailedReason, Outs
  <2>4. PICK s \in Status :
          /\ Wrote(s) /\ Like(s, rec.st) /\ s.reason = "CreationFailed" /\ s.start = rec.st.start
          /\ s.spec = rec.st.spec
          /\ Same /\ rec'.seen = rec.seen
    BY <1>5, <2>1, <2>3
  <2> QED  BY Zenon, <2>2, <2>4 DEF CreatesPod
<1>15. CASE UpdateReady
  <2>1. rec.pc = "ready"
    BY ZenonT(60), <1>15 DEF UpdateReady, calls
  <2>2. CASE rec' = [rec EXCEPT !.pc = "status"]
    <3>1. /\ rec'.pc = "status" /\ rec'.st = rec.st /\ rec'.name = rec.name
          /\ rec'.seen = rec.seen /\ Same
      BY ZenonT(60), <1>2, <2>2 DEF ReconcileType
    <3> QED  BY <2>1, <3>1 DEF ReadiesPod
  <2>3. CASE rec' = finishReconcileUpdateEmitEvents(rec, "retry")
    BY ZenonT(60), <1>4, <2>1, <2>3 DEF ReadiesPod, Outs
  <2> QED  BY Zenon, <1>15, <2>2, <2>3 DEF UpdateReady
<1>16. CASE UpdateReadyFails
  <2>1. rec.pc = "ready" /\ rec' = finishReconcileUpdateEmitEvents(rec, "retry")
    BY <1>16 DEF UpdateReadyFails, calls
  <2> QED  BY <1>4, <2>1 DEF ReadiesPod, Outs
<1> DEFINE m == MakeTaskRunStatus(rec.st, rec.name, rec.seen)
<1>17. withStatus = [rec EXCEPT !.st = m] /\ withStatus \in ReconcileType
  BY ZenonT(60), WithStatusFacts
<1>18. /\ m \in Status /\ m.pod = rec.name /\ m.tries = rec.st.tries /\ m.archived = rec.st.archived
       /\ m.spec = rec.st.spec /\ m.start = rec.st.start /\ m.reason \notin stopReasons
       /\ m.reason = "Succeeded" => over(rec.seen) /\ rec.seen.steps = "ok"
       /\ IsFailure(m) => over(rec.seen) \/ "config" \in rec.seen.bad
  BY <1>2, StatusSays
<1> HIDE DEF m
<1>19. withStatus.st = m /\ withStatus.cancelled = rec.cancelled /\ withStatus.seen = rec.seen
  BY ZenonT(60), <1>2, <1>17 DEF ReconcileType
<1>20. CASE MakeStatus \/ MakeStatusFails
  <2>1. PICK out \in {"ok", "retry"} : rec' = finishReconcileUpdateEmitEvents(withStatus, out)
    BY <1>20 DEF MakeStatus, MakeStatusFails
  <2>2. rec.pc = "status" /\ pods' = pods
    BY <1>20 DEF MakeStatus, MakeStatusFails, calls
  <2>3. Wrote(m) /\ Same /\ rec'.seen = rec.seen
    BY ZenonT(60), <1>17, <1>19, <2>1, FinishWrites DEF Outs
  <2> QED  BY ZenonT(60), <1>18, <2>2, <2>3 DEF TakesStatus
<1>21. CASE ResultsTooLarge
  <2>1. /\ rec.pc = "status" /\ pods' = pods /\ "large" \in Outcomes
        /\ areContainersCompleted(rec.seen) /\ rec' = failTaskRun(withStatus, "ResultTooLarge")
    BY <1>21 DEF ResultsTooLarge, calls
  <2>2. "ResultTooLarge" \in Reasons
    BY DEF Reasons, FailedReason
  <2> DEFINE W == withStatus
  <2>3. W \in ReconcileType /\ W.st = m /\ W.cancelled = rec.cancelled /\ W.seen = rec.seen
        /\ rec' = failTaskRun(W, "ResultTooLarge")
    BY ZenonT(60), <1>17, <1>19, <2>1
  <2> HIDE DEF W
  <2>4. PICK s \in Status :
          /\ Like(s, W.st) /\ s.reason = "ResultTooLarge" /\ s.start = W.st.start /\ s.spec = W.st.spec
          /\ rec'.cancelled = W.cancelled /\ rec'.seen = W.seen
          /\ \/ W.st.pod = NoPod /\ Wrote(s) /\ rec'.out = "nil"
             \/ W.st.pod # NoPod /\ rec'.pc = "kill" /\ rec'.st = s
    BY ZenonT(60), <2>3, <2>2, FailWrites
  <2>5. /\ Like(s, m) /\ s.reason = "ResultTooLarge" /\ s.start = m.start /\ s.spec = m.spec
        /\ Same /\ rec'.seen = rec.seen
        /\ Wrote(s) \/ (rec'.pc = "kill" /\ rec'.st = s)
    BY ZenonT(60), <2>3, <2>4
  <2>6. IsFailure(s) /\ s.reason # "Succeeded" /\ s.reason \notin stopReasons
    BY ZenonT(60), <2>5 DEF IsFailure, FailedReason, stopReasons
  <2>7. over(rec.seen)
    BY <2>1 DEF areContainersCompleted, over, exists
  <2> QED  BY ZenonT(60), <1>18, <2>1, <2>5, <2>6, <2>7 DEF TakesStatus, Like
<1>22. CASE ResultsInvalid
  <2>1. /\ rec.pc = "status" /\ pods' = pods /\ m.reason = "Succeeded"
        /\ rec' = finishReconcileUpdateEmitEvents([withStatus EXCEPT !.st.reason = "Invalid"], "retry")
    BY <1>19, <1>22 DEF ResultsInvalid, calls
  <2>2. "Invalid" \in Reasons /\ "retry" \in Outs
    BY DEF Reasons, FailedReason, Outs
  <2> DEFINE W == withStatus
  <2>3. W \in ReconcileType /\ W.st = m /\ W.cancelled = rec.cancelled /\ W.seen = rec.seen
        /\ rec' = finishReconcileUpdateEmitEvents([W EXCEPT !.st.reason = "Invalid"], "retry")
    BY <1>17, <1>19, <2>1
  <2> HIDE DEF W
  <2>4. PICK s \in Status :
          /\ Wrote(s) /\ Like(s, W.st) /\ s.reason = "Invalid" /\ s.start = W.st.start
          /\ s.spec = W.st.spec
          /\ rec'.out = "retry" /\ rec'.cancelled = W.cancelled /\ rec'.seen = W.seen
    BY <2>3, <2>2, ReasonWrites
  <2>5. /\ Wrote(s) /\ Like(s, m) /\ s.reason = "Invalid" /\ s.start = m.start /\ s.spec = m.spec
        /\ Same /\ rec'.seen = rec.seen
    BY ZenonT(60), <2>3, <2>4
  <2>6. s.reason # "Succeeded" /\ s.reason \notin stopReasons
    BY <2>5 DEF stopReasons
  <2> QED  BY ZenonT(60), <1>18, <2>1, <2>5, <2>6 DEF TakesStatus, Like
<1>23. CASE UpdateLabelsFails
  <2>1. rec.pc = "write" /\ rec' = [rec EXCEPT !.out = "retry"] /\ pods' = pods
    BY <1>23 DEF UpdateLabelsFails, calls
  <2>2. /\ rec'.pc = "write" /\ rec'.st = rec.st /\ rec'.out = "retry" /\ rec'.seen = rec.seen /\ Same
    BY ZenonT(60), <1>2, <2>1 DEF ReconcileType
  <2> QED  BY <2>1, <2>2 DEF MissesLabels
<1> QED
  BY ZenonT(60), <1>7, <1>8, <1>9, <1>10, <1>11, <1>12, <1>13, <1>14, <1>15, <1>16, <1>20,
     <1>21, <1>22, <1>23
  DEF Call, CallFails

\* The status is written,
Writes ==
  /\ rec.pc = "write" /\ rec' = NoReconcile
  /\ tr'.st = rec.st /\ tr'.cancelled = tr.cancelled /\ tr'.valid = tr.valid
  /\ queued \/ rec.out = "retry" => queued'
  /\ UNCHANGED <<trCache, pods, podCache, stamp, expired>>

\* or is not,
LosesWrite ==
  /\ "status" \in Failing \/ "crash" \in Failing
  /\ rec' = NoReconcile
  /\ UNCHANGED <<tr, pods, stamp, expired>> /\ queued'
  /\ \/ rec.pc = "write" /\ "status" \in Failing /\ UNCHANGED <<trCache, podCache>>
     \/ trCache' = tr /\ podCache' = pods

\* or something else than the reconciler moves.
Others ==
  /\ rec' = rec
  /\ tr'.st = tr.st /\ tr'.valid = tr.valid /\ stamp' = stamp
  /\ trCache.cancelled => trCache'.cancelled
  /\ podCache' = podCache \/ (podCache' = pods /\ pods' = pods)
  /\ expired' = expired \/ (expired' = tr.st.start /\ tr.st.start > expired)
  /\ \/ trCache' = trCache /\ (queued => queued')
     \/ trCache' = tr /\ tr' = tr /\ queued'
  /\ tr' = tr \/ trCache' # tr'

LEMMA NextKinds ==
  ASSUME TypeOK, AttemptInv, [Next]_vars
  PROVE  \/ Begin
         \/ Call \/ CallFails \/ UpdateLabelsFails
         \/ Writes \/ LosesWrite
         \/ Others
<1>1. tr \in [cancelled : BOOLEAN, valid : BOOLEAN, st : Status] /\ rec.st \in Status
  BY ReconcileFields DEF TypeOK
<1>2. CASE UpdateStatus
  <2>1. Ending(rec)
    BY <1>2 DEF UpdateStatus, AttemptInv, Calling, NoReconcile
  <2>2. tr'.st = rec.st /\ tr'.cancelled = tr.cancelled /\ tr'.valid = tr.valid
    <3>1. CASE rec.st = rec.orig
      BY <1>2, <2>1, <3>1 DEF UpdateStatus, Ending
    <3>2. CASE rec.st # rec.orig
      BY <1>1, <1>2, <3>2 DEF UpdateStatus
    <3> QED  BY <3>1, <3>2
  <2>3. queued \/ rec.out = "retry" => queued'
    BY Zenon, <1>2 DEF UpdateStatus
  <2> QED  BY <1>2, <2>2, <2>3 DEF UpdateStatus, Writes
<1>3. CASE UpdateStatusFails \/ Crash
  BY ZenonT(60), <1>3 DEF UpdateStatusFails, Crash, fault, LosesWrite
<1>4. CASE InformTaskRun \/ InformPods
  <2>1. trCache.cancelled => tr.cancelled
    BY ZenonT(60) DEF AttemptInv
  <2> QED  BY ZenonT(60), <1>4, <2>1 DEF InformTaskRun, InformPods, Others
<1>5. CASE UserCancels
  <2>1. /\ tr'.st = tr.st /\ tr'.valid = tr.valid /\ tr'.cancelled /\ ~tr.cancelled
        /\ UNCHANGED <<trCache, pods, podCache, stamp, expired, rec, queued>>
    BY ZenonT(60), <1>1, <1>5 DEF UserCancels
  <2>2. ~trCache.cancelled
    BY <2>1 DEF AttemptInv
  <2> QED  BY <2>1, <2>2 DEF Others
<1>6. CASE TimeoutPasses
  BY Zenon, <1>6 DEF TimeoutPasses, Others
<1>7. CASE \E a \in Attempt : PodStep(a)
  BY Zenon, <1>7, PodStepFrame DEF Others
<1>8. CASE UNCHANGED vars
  BY <1>8 DEF vars, Others
<1> QED
  BY ZenonT(60), <1>2, <1>3, <1>4, <1>5, <1>6, <1>7, <1>8 DEF Next, PodStep, Rest

-----------------------------------------------------------------------------
\* Truthful success.

\* The phases of the pods, of those in the cache and of the one the reconcile found.
PodsInv ==
  /\ \A a \in Attempt : Shape(pods[a]) /\ Shape(podCache[a])
  /\ Shape(rec.seen)

LEMMA NewShapes ==
  /\ Shape(AbsentPod) /\ ~over(AbsentPod) /\ ~live(AbsentPod) /\ ~exists(AbsentPod)
  /\ Shape(NewPod) /\ ~over(NewPod) /\ exists(NewPod) /\ NewPod.bad = {}
  /\ NoReconcile.pc = "idle" /\ NoReconcile.seen = AbsentPod /\ NoReconcile.st = NewStatus
  /\ NewStatus.reason = "" /\ NewStatus.start = 0 /\ NewStatus.pod = NoPod /\ NewStatus.tries = 0
<1>1. Shape(AbsentPod) /\ ~over(AbsentPod) /\ ~live(AbsentPod) /\ ~exists(AbsentPod)
  BY DEF AbsentPod, Shape, over, live, exists
<1>2. Shape(NewPod) /\ ~over(NewPod) /\ exists(NewPod) /\ NewPod.bad = {}
  BY DEF NewPod, Shape, over, exists
<1>3. NoReconcile.pc = "idle" /\ NoReconcile.seen = AbsentPod /\ NoReconcile.st = NewStatus
  BY Zenon DEF NoReconcile
<1>4. NewStatus.reason = "" /\ NewStatus.start = 0 /\ NewStatus.pod = NoPod /\ NewStatus.tries = 0
  BY Zenon DEF NewStatus
<1> QED  BY Zenon, <1>1, <1>2, <1>3, <1>4

\* A pod told to stop is otherwise as it was.
LEMMA ToldShape ==
  ASSUME NEW p \in Pod, NEW c
  PROVE  LET q == [p EXCEPT !.cancel = c]
         IN /\ Shape(q) = Shape(p) /\ over(q) = over(p) /\ live(q) = live(p)
            /\ exists(q) = exists(p) /\ q.steps = p.steps /\ q.cancel = c /\ q.bad = p.bad
  BY DEF Pod, Shape, over, live, exists

LEMMA NextPodsInv ==
  ASSUME ReadsOwnWrites, TypeOK, AttemptInv, PodsInv, [Next]_vars
  PROVE  PodsInv'
<1>1. ASSUME NEW a \in Attempt PROVE Shape(pods'[a])
  <2>1. pods[a] \in Pod /\ Shape(pods[a])
    BY DEF TypeOK, PodsInv
  <2>2. CASE PodGoesOn(pods[a], pods'[a])
    BY <2>1, <2>2 DEF PodGoesOn
  <2>3. CASE KillPod /\ a = rec.st.pod
    <3>1. \/ pods'[a] = AbsentPod
          \/ pods'[a] = [pods[a] EXCEPT !.cancel = exists(pods[a])]
      BY Zenon, <2>3, KillChanges
    <3>2. Shape([pods[a] EXCEPT !.cancel = exists(pods[a])])
      BY Zenon, <2>1, ToldShape
    <3> QED  BY Zenon, <3>1, <3>2, NewShapes
  <2>4. CASE pods'[a] = NewPod
    BY Zenon, <2>4, NewShapes
  <2> QED  BY Zenon, <2>2, <2>3, <2>4, PodsGoOn
<1>2. podCache' = podCache \/ podCache' = pods
  BY NextKinds, BeginKinds, CallKinds DEF Writes, LosesWrite, Others, PodsInv
<1>3. Shape(rec'.seen)
  <2>1. CASE Begin
    <3>1. rec'.seen = AbsentPod \/ \E a \in Attempt : rec'.seen = podCache[a]
      <4>1. /\ rec'.pc = "ready" \/ rec'.pc = "status" \/ rec'.seen = AbsentPod
            /\ BeginsDone \/ BeginsFailing \/ BeginsWaiting \/ BeginsWork
        BY <2>1, BeginKinds
      <4>2. ASSUME rec'.pc = "ready" \/ rec'.pc = "status"
            PROVE  \E a \in Attempt : rec'.seen = podCache[a]
        <5>1. BeginsWork
          BY <4>1, <4>2 DEF BeginsDone, BeginsFailing, BeginsWaiting, Wrote
        <5>2. rec'.name \in foundPods(tr.st, podCache) /\ rec'.seen = podCache[rec'.name]
          BY <4>2, <5>1 DEF BeginsWork
        <5>3. tr.st \in Status
          BY DEF TypeOK
        <5> QED  BY Zenon, <5>2, <5>3, FoundFacts
      <4> QED  BY <4>1, <4>2
    <3> QED  BY Zenon, <3>1, NewShapes DEF PodsInv
  <2>2. CASE Call \/ CallFails \/ UpdateLabelsFails
    <3>1. rec.st.tries \in Attempt
      BY ReconcileFields, StatusFields DEF TypeOK
    <3>2. rec'.seen = rec.seen \/ rec'.seen = NewPod \/ rec'.seen = podCache[rec.st.tries]
      BY Zenon, <2>2, CallKinds DEF PodsInv, StopsSidecars, StopsPod, CreatesPod, ReadiesPod,
                                    TakesStatus,
         MissesLabels
    <3> QED  BY Zenon, <3>1, <3>2, NewShapes DEF PodsInv
  <2>3. CASE Writes \/ LosesWrite
    BY Zenon, <2>3, NewShapes DEF Writes, LosesWrite
  <2>4. CASE Others
    BY <2>4 DEF Others, PodsInv
  <2> QED  BY ZenonT(60), <2>1, <2>2, <2>3, <2>4, NextKinds
<1> QED  BY <1>1, <1>2, <1>3 DEF PodsInv

\* Start times are given out one after the other.
ClockInv == expired <= stamp /\ tr.st.start <= stamp /\ rec.st.start <= stamp

LEMMA NextClockInv ==
  ASSUME ReadsOwnWrites, TypeOK, TypeOK', AttemptInv, PodsInv, ClockInv, [Next]_vars
  PROVE  ClockInv'
<1>1. /\ stamp \in Nat /\ expired \in Nat /\ tr.st.start \in Nat /\ rec.st.start \in Nat
      /\ stamp' \in Nat /\ expired' \in Nat /\ tr'.st.start \in Nat /\ rec'.st.start \in Nat
  BY ReconcileFields, StatusFields DEF TypeOK
<1>2. CASE Begin
  <2>1. /\ UNCHANGED <<tr, expired>> /\ stamp <= stamp'
        /\ BeginsDone \/ BeginsFailing \/ BeginsWaiting \/ BeginsWork
    BY ZenonT(60), <1>2, BeginKinds
  <2>2. rec'.st.start \in {0, tr.st.start, stamp'}
    BY Zenon, <2>1 DEF BeginsDone, BeginsFailing, BeginsWaiting, BeginsWork, Wrote
  <2> QED  BY <1>1, <2>1, <2>2 DEF ClockInv
<1>3. CASE Call \/ CallFails \/ UpdateLabelsFails
  <2>1. UNCHANGED <<tr, stamp, expired>>
    BY <1>3, CallKinds DEF PodsInv
  <2>2. rec'.st.start \in {0, rec.st.start}
    BY Zenon, <1>3, CallKinds DEF PodsInv, StopsSidecars, StopsPod, CreatesPod, ReadiesPod,
                                  TakesStatus,
       MissesLabels, Wrote
  <2> QED  BY <1>1, <2>1, <2>2 DEF ClockInv
<1>4. CASE Writes \/ LosesWrite
  <2>1. rec'.st.start = 0
    BY Zenon, <1>4, NewShapes DEF Writes, LosesWrite
  <2>2. tr'.st = rec.st \/ tr'.st = tr.st
    BY <1>4 DEF Writes, LosesWrite
  <2>3. UNCHANGED <<stamp, expired>>
    BY <1>4 DEF Writes, LosesWrite
  <2> QED  BY <1>1, <2>1, <2>2, <2>3 DEF ClockInv
<1>5. CASE Others
  BY <1>1, <1>5 DEF ClockInv, Others
<1> QED  BY ZenonT(60), <1>2, <1>3, <1>4, <1>5, NextKinds

\* The pod of attempt a ended as p did.
StillSo(p, a) == over(pods[a]) /\ pods[a].steps = p.steps

\* What the cache says of a pod that ended is so.
Fresh(a) == over(podCache[a]) => StillSo(podCache[a], a)

\* The status s gives attempt a up.
Dropped(s, a) == a \in s.archived \/ (IsDone(s) /\ a = s.pod)

\* The status, even if it cannot be written now, will give attempt a up.
Recorded(a) == "status" \in Failing => a = tr.st.pod /\ Doomed

\* The pod of attempt a was deleted, and whatever the cache says no reconcile uses it again.
GivenUp(a) ==
  /\ ~exists(pods[a])
  /\ \/ Dropped(tr.st, a)
     \/ a = tr.st.pod /\ Doomed
     \/ rec.pc = "write" /\ Dropped(rec.st, a) /\ Recorded(a)

\* If s says success, its pod succeeded.
Truthful(s) ==
  s.reason = "Succeeded" => s.pod \in Attempt /\ over(pods[s.pod]) /\ pods[s.pod].steps = "ok"

TruthInv ==
  /\ \A a \in Attempt : Fresh(a) \/ GivenUp(a)
  /\ tr.st.pod \in Attempt =>
       /\ rec.pc \in {"create", "ready", "status"} => Fresh(tr.st.pod)
       /\ rec.pc = "kill" => Fresh(tr.st.pod) \/ rec.st.pod = tr.st.pod
       /\ rec.pc = "write" => Fresh(tr.st.pod) \/ Dropped(rec.st, tr.st.pod)
  /\ rec.pc \in {"ready", "status"} /\ over(rec.seen) => StillSo(rec.seen, rec.name)
  /\ rec.pc = "create" => Fresh(rec.st.tries)
  /\ rec.pc = "kill" => IsFailure(rec.st) /\ rec.st.pod # NoPod /\ Recorded(rec.st.pod)
  /\ rec.pc \in {"create", "ready", "status"} => ~IsDone(rec.st)
  /\ rec.pc = "stop" => IsDone(rec.st) /\ rec.st.pod = tr.st.pod
  /\ rec.pc = "write" => tr.st.archived \subseteq rec.st.archived
  /\ Truthful(tr.st) /\ Truthful(rec.st)

\* Unless the reconciler deletes it, a pod that ended stays as it is.
LEMMA EndedPodStays ==
  ASSUME TypeOK, PodsInv, [Next]_vars, NEW a \in Attempt, ~(KillPod /\ a = rec.st.pod)
  PROVE  /\ over(pods[a]) => over(pods'[a]) /\ pods'[a].steps = pods[a].steps
         /\ ~exists(pods[a]) /\ ~(CreatePod /\ a = rec.st.tries) => ~exists(pods'[a])
  BY Zenon, PodsGoOn DEF PodGoesOn, PodsInv, over

\* What a status with s leads to gives up whatever s does, and says no more success.
LEMMA WroteDrops ==
  ASSUME NEW s, Wrote(s)
  PROVE  /\ rec'.pc = "write"
         /\ s.archived \subseteq rec'.st.archived
         /\ \A a \in Attempt : Dropped(s, a) => Dropped(rec'.st, a)
         /\ rec'.st.reason = "Succeeded" => rec'.st = s
<1>1. CASE rec'.st = s
  BY <1>1 DEF Wrote
<1>2. CASE rec'.st # s
  <2>1. /\ rec'.pc = "write" /\ rec'.st.reason = "ToBeRetried"
        /\ rec'.st.archived = s.archived \cup ({s.pod} \ {NoPod})
    BY <1>2 DEF Wrote
  <2>2. \A a \in Attempt : Dropped(s, a) => a \in rec'.st.archived
    BY <2>1, Attempts DEF Dropped
  <2> QED  BY <2>1, <2>2 DEF Dropped
<1> QED  BY <1>1, <1>2

LEMMA BeginTruth ==
  ASSUME ReadsOwnWrites, TypeOK, AttemptInv, PodsInv, ClockInv, TruthInv, Begin
  PROVE  TruthInv'
<1>1. /\ UNCHANGED <<tr, trCache, pods, podCache, expired>> /\ rec.pc = "idle"
      /\ BeginsDone \/ BeginsFailing \/ BeginsWaiting \/ BeginsWork
  BY BeginKinds
<1>2. tr.st \in Status
  BY DEF TypeOK
<1>3. tr.st.pod \notin tr.st.archived /\ tr.st.tries \notin tr.st.archived /\ tr.st.tries \in Attempt
  BY <1>2, StatusFields, Attempts DEF AttemptInv, Sound
<1>4. \A a \in Attempt : Fresh(a)' = Fresh(a) /\ (GivenUp(a) => GivenUp(a)')
  BY Zenon, <1>1 DEF Fresh, StillSo, GivenUp, Recorded, Doomed, HasTimedOut, Dropped, imageWaits
<1>5. Truthful(tr.st)' /\ \A s : Truthful(s)' = Truthful(s)
  BY ZenonT(60), <1>1 DEF Truthful, TruthInv
<1>6. ASSUME ~IsDone(tr.st), ~trCache.cancelled /\ ~HasTimedOut(tr.st) /\ ~checkPodFailed(tr.st),
             NEW a \in Attempt, a \notin tr.st.archived
      PROVE  Fresh(a)
  <2>1. ~(a = tr.st.pod /\ Doomed /\ ~exists(pods[a]))
    BY Zenon, <1>6, Attempts DEF Doomed, checkPodFailed, mayRecover
  <2>2. ~GivenUp(a)
    BY Zenon, <1>1, <1>6, <2>1 DEF GivenUp, Dropped
  <2> QED  BY <2>2 DEF TruthInv
<1>7. CASE BeginsDone
  <2>1. /\ IsDone(tr.st) /\ rec'.st.reason = tr.st.reason /\ Like(rec'.st, tr.st)
        /\ rec'.pc = "stop" \/ rec'.pc = "write"
    BY ZenonT(60), <1>7 DEF BeginsDone
  <2>2. IsDone(rec'.st) /\ Truthful(rec'.st)
    BY Zenon, <2>1 DEF IsDone, IsFailure, Truthful, Like, TruthInv
  <2>3. \A a \in Attempt : Dropped(tr.st, a) => Dropped(rec'.st, a)
    BY <2>1, <2>2 DEF Dropped, Like
  <2>4. tr.st.pod \in Attempt => Dropped(rec'.st, tr.st.pod)
    BY <2>1, <2>2 DEF Dropped, Like
  <2> QED  BY ZenonT(60), <1>1, <1>4, <1>5, <2>1, <2>2, <2>4 DEF TruthInv, Like, Dropped
<1>8. CASE BeginsFailing
  <2>1. Doomed
    BY <1>8 DEF BeginsFailing, ClockInv
  <2>2. PICK s \in Status :
          /\ IsFailure(s) /\ Like(s, tr.st)
          /\ \/ tr.st.pod = NoPod /\ Wrote(s)
             \/ tr.st.pod # NoPod /\ rec'.pc = "kill" /\ rec'.st = s
    BY <1>8 DEF BeginsFailing
  <2>3. s.reason # "Succeeded"
    BY <2>2 DEF IsFailure, FailedReason
  <2>4. CASE tr.st.pod = NoPod /\ Wrote(s)
    <3>1. rec'.pc = "write" /\ tr.st.archived \subseteq rec'.st.archived /\ tr.st.pod \notin Attempt
      BY ZenonT(60), <2>2, <2>4, WroteDrops, Attempts DEF Like
    <3>2. rec'.st.reason # "Succeeded"
      BY ZenonT(60), <2>3, <2>4, WroteDrops
    <3> QED  BY ZenonT(40), <1>1, <1>4, <1>5, <3>1, <3>2 DEF TruthInv, Truthful
  <2>5. CASE tr.st.pod # NoPod /\ rec'.pc = "kill" /\ rec'.st = s
    <3>1. Recorded(rec.st.pod)' /\ rec'.st.pod = tr.st.pod
      BY ZenonT(60), <1>1, <2>1, <2>2, <2>5 DEF Recorded, Doomed, HasTimedOut, Like, imageWaits
    <3> QED  BY Zenon, <1>1, <1>4, <1>5, <2>2, <2>3, <2>5, <3>1 DEF TruthInv, Truthful
  <2> QED  BY ZenonT(60), <2>2, <2>4, <2>5
<1>9. CASE BeginsWaiting
  <2>1. PICK s \in Status : Wrote(s) /\ Like(s, tr.st) /\ s.reason # "Succeeded"
    BY ZenonT(60), <1>9 DEF BeginsWaiting
  <2>2. /\ rec'.pc = "write" /\ tr.st.archived \subseteq rec'.st.archived
        /\ rec'.st.reason # "Succeeded"
    BY ZenonT(60), <2>1, WroteDrops DEF Like
  <2>3. tr.st.pod \in Attempt => Fresh(tr.st.pod)
    BY <1>3, <1>6, <1>9 DEF BeginsWaiting
  <2> QED  BY ZenonT(60), <1>1, <1>4, <1>5, <2>2, <2>3 DEF TruthInv, Truthful
<1>10. CASE BeginsWork
  <2>1. /\ Like(rec'.st, tr.st) /\ ~IsDone(rec'.st)
        /\ rec'.pc = "create" \/ rec'.pc = "ready" \/ rec'.pc = "status"
    BY <1>10 DEF BeginsWork
  <2>2. Truthful(rec'.st)
    BY ZenonT(60), <2>1 DEF Truthful, IsDone
  <2>3. tr.st.pod \in Attempt => Fresh(tr.st.pod)
    BY ZenonT(60), <1>3, <1>6, <1>10 DEF BeginsWork
  <2>4. Fresh(rec'.st.tries)
    BY ZenonT(60), <1>3, <1>6, <1>10, <2>1 DEF BeginsWork, Like
  <2>5. rec'.pc # "create" /\ over(rec'.seen) => StillSo(rec'.seen, rec'.name)
    <3> SUFFICES ASSUME rec'.pc # "create", over(rec'.seen) PROVE StillSo(rec'.seen, rec'.name)
      OBVIOUS
    <3>1. rec'.name \in foundPods(tr.st, podCache) /\ rec'.seen = podCache[rec'.name]
      BY <1>10 DEF BeginsWork
    <3>2. rec'.name \in Attempt /\ rec'.name \notin tr.st.archived
      BY ZenonT(40), <1>2, <1>3, <3>1, FoundFacts
    <3>3. Fresh(rec'.name)
      BY ZenonT(60), <1>6, <1>10, <3>2 DEF BeginsWork
    <3> QED  BY <3>1, <3>3 DEF Fresh
  <2>6. /\ rec'.st.tries \in Attempt /\ Fresh(rec.st.tries)'
        /\ rec'.pc # "create" /\ over(rec'.seen) => StillSo(rec.seen, rec.name)'
    BY ZenonT(60), <1>1, <1>3, <2>1, <2>4, <2>5 DEF Like, Fresh, StillSo
  <2> QED  BY ZenonT(40), <1>1, <1>4, <1>5, <2>1, <2>2, <2>3, <2>6 DEF TruthInv
<1> QED  BY ZenonT(60), <1>1, <1>7, <1>8, <1>9, <1>10

LEMMA CallTruth ==
  ASSUME "status" \in Failing => "large" \notin Outcomes,
         TypeOK, AttemptInv, PodsInv, TruthInv, [Next]_vars, Call \/ CallFails \/ UpdateLabelsFails
  PROVE  TruthInv'
<1>1. /\ UNCHANGED <<tr, trCache, podCache, expired>>
      /\ \/ StopsSidecars \/ StopsPod \/ CreatesPod \/ ReadiesPod \/ TakesStatus
         \/ MissesLabels
  BY ZenonT(60), CallKinds DEF PodsInv
<1>2. ASSUME rec.pc \in {"stop", "kill", "create", "ready", "status"}
      PROVE  /\ rec.st.archived = tr.st.archived
             /\ IsDone(tr.st) <=> rec.pc = "stop"
             /\ rec.pc \in {"ready", "status"} => rec.name \in Attempt
  <2>1. Calling(rec)
    BY <1>2 DEF AttemptInv, Ending, NoReconcile
  <2> QED  BY ZenonT(60), <2>1 DEF Calling, Sane
<1>3. rec.st.tries \in Attempt
  BY ReconcileFields, StatusFields DEF TypeOK
<1>4. /\ KillPod => rec.pc = "kill"
      /\ CreatePod => rec.pc = "create"
  BY Zenon DEF KillPod, CreatePod, calls
<1>5. \A a \in Attempt : ~(KillPod /\ a = rec.st.pod) =>
        /\ over(pods[a]) => over(pods'[a]) /\ pods'[a].steps = pods[a].steps
        /\ ~exists(pods[a]) /\ ~(CreatePod /\ a = rec.st.tries) => ~exists(pods'[a])
  BY Zenon, EndedPodStays
<1>6. \A a \in Attempt : Fresh(a) /\ ~(KillPod /\ a = rec.st.pod) => Fresh(a)'
  BY ZenonT(40), <1>1, <1>5 DEF Fresh, StillSo
<1>7. Doomed' = Doomed /\ \A a \in Attempt : Recorded(a)' = Recorded(a)
  BY ZenonT(60), <1>1 DEF Doomed, Recorded, HasTimedOut, imageWaits
<1>8. ASSUME rec.pc # "kill", NEW a \in Attempt
      PROVE  Fresh(a)' \/ GivenUp(a)' \/ rec.pc = "write"
  <2>1. CASE Fresh(a)
    BY ZenonT(60), <1>4, <1>6, <1>8, <2>1
  <2>2. CASE GivenUp(a) /\ ~Fresh(a)
    <3>1. ~exists(pods'[a])
      BY Zenon, <1>4, <1>5, <1>8, <2>2 DEF GivenUp, TruthInv
    <3> QED  BY Zenon, <1>1, <1>7, <2>2, <3>1 DEF GivenUp
  <2> QED  BY <2>1, <2>2 DEF TruthInv
<1>9. ASSUME rec.pc # "kill", NEW t, Truthful(t) PROVE Truthful(t)'
  BY Zenon, <1>4, <1>5, <1>9 DEF Truthful
<1>10. Truthful(tr.st)'
  <2>1. CASE rec.pc = "kill"
    BY <1>1, <1>2, <2>1 DEF Truthful, IsDone
  <2> QED  BY ZenonT(60), <1>1, <1>9, <2>1 DEF TruthInv
<1>11. ASSUME rec.pc \notin {"kill", "write"}, NEW t \in Status, Wrote(t),
              tr.st.archived \subseteq t.archived,
              t.reason = "Succeeded" => Truthful(t)',
              tr.st.pod \in Attempt => Fresh(tr.st.pod) \/ Dropped(t, tr.st.pod)
       PROVE  TruthInv'
  <2>1. /\ rec'.pc = "write" /\ tr.st.archived \subseteq rec'.st.archived
        /\ tr.st.pod \in Attempt /\ Dropped(t, tr.st.pod) => Dropped(rec'.st, tr.st.pod)
        /\ rec'.st.reason = "Succeeded" => rec'.st = t
    BY ZenonT(60), <1>11, WroteDrops
  <2>2. Truthful(rec.st)'
    BY <1>11, <2>1 DEF Truthful
  <2>3. tr.st.pod \in Attempt => Fresh(tr.st.pod)' \/ Dropped(rec'.st, tr.st.pod)
    BY ZenonT(60), <1>1, <1>4, <1>6, <1>11, <2>1
  <2> QED  BY ZenonT(40), <1>1, <1>8, <1>10, <1>11, <2>1, <2>2, <2>3 DEF TruthInv, Dropped
<1>12. CASE StopsSidecars
  <2>1. PICK t \in Status :
          /\ Wrote(t) /\ Like(t, rec.st)
          /\ t.reason = rec.st.reason \/ t.reason = "StopSidecarFailed"
    BY ZenonT(60), <1>12 DEF StopsSidecars
  <2>2. rec.pc = "stop" /\ IsDone(rec.st) /\ rec.st.pod = tr.st.pod
    BY ZenonT(60), <1>12 DEF StopsSidecars, TruthInv
  <2>3. IsDone(t) /\ tr.st.archived \subseteq t.archived /\ t.pod = tr.st.pod
    BY ZenonT(60), <1>2, <2>1, <2>2 DEF IsDone, IsFailure, FailedReason, Like
  <2>4. t.reason = "Succeeded" => Truthful(t)
    BY <2>1 DEF Truthful, TruthInv, Like
  <2> QED  BY ZenonT(60), <1>9, <1>11, <2>1, <2>2, <2>3, <2>4 DEF Dropped
<1>13. CASE StopsPod
  <2>1. rec.pc = "kill" /\ Wrote(rec.st) /\ IsFailure(rec.st) /\ Recorded(rec.st.pod)
    BY ZenonT(40), <1>13 DEF StopsPod, TruthInv
  <2>2. /\ rec'.pc = "write" /\ tr.st.archived \subseteq rec'.st.archived
        /\ \A a \in Attempt : a = rec.st.pod => Dropped(rec'.st, a)
        /\ rec'.st.reason = "Succeeded" => rec'.st = rec.st
    BY ZenonT(60), <1>2, <2>1, WroteDrops DEF Dropped, IsDone
  <2>3. rec'.st.reason # "Succeeded"
    BY ZenonT(60), <2>1, <2>2 DEF IsFailure, FailedReason
  <2>4. ASSUME NEW a \in Attempt PROVE Fresh(a)' \/ GivenUp(a)'
    <3>1. CASE ~(KillPod /\ a = rec.st.pod)
      <4>1. ~exists(pods[a]) => ~exists(pods'[a])
        BY Zenon, <1>4, <1>5, <2>1, <3>1
      <4>2. GivenUp(a) => GivenUp(a)'
        BY Zenon, <1>1, <1>7, <2>1, <4>1 DEF GivenUp
      <4> QED  BY ZenonT(60), <1>6, <3>1, <4>2 DEF TruthInv
    <3>2. CASE KillPod /\ a = rec.st.pod
      <4>1. \/ pods'[a] = AbsentPod
            \/ pods'[a] = [pods[a] EXCEPT !.cancel = exists(pods[a])]
        BY Zenon, <3>2, KillChanges
      <4>2. ~exists(pods'[a]) => GivenUp(a)'
        BY ZenonT(40), <1>7, <2>1, <2>2, <3>2 DEF GivenUp
      <4>3. CASE pods'[a] = AbsentPod
        BY Zenon, <4>2, <4>3, NewShapes
      <4>4. CASE pods'[a] = [pods[a] EXCEPT !.cancel = exists(pods[a])]
        <5>1. LET q == [pods[a] EXCEPT !.cancel = exists(pods[a])]
              IN over(q) = over(pods[a]) /\ exists(q) = exists(pods[a]) /\ q.steps = pods[a].steps
          BY ZenonT(60), ToldShape DEF TypeOK
        <5>2. /\ over(pods'[a]) = over(pods[a]) /\ exists(pods'[a]) = exists(pods[a])
              /\ pods'[a].steps = pods[a].steps
          BY <4>4, <5>1
        <5>3. Fresh(a) => Fresh(a)'
          BY <1>1, <5>2 DEF Fresh, StillSo
        <5>4. GivenUp(a) => ~exists(pods'[a])
          BY Zenon, <5>2 DEF GivenUp
        <5> QED  BY Zenon, <4>2, <5>3, <5>4 DEF TruthInv
      <4> QED  BY ZenonT(60), <4>1, <4>3, <4>4
    <3> QED  BY ZenonT(60), <3>1, <3>2
  <2>5. tr.st.pod \in Attempt => Fresh(tr.st.pod)' \/ Dropped(rec'.st, tr.st.pod)
    BY ZenonT(60), <1>1, <1>6, <2>1, <2>2 DEF TruthInv
  <2>6. Truthful(rec.st)'
    BY <2>3 DEF Truthful
  <2> QED  BY ZenonT(40), <1>1, <1>10, <2>2, <2>4, <2>5, <2>6 DEF TruthInv, Dropped
<1>14. CASE CreatesPod
  <2>1. /\ rec.pc = "create" /\ ~IsDone(rec.st) /\ Fresh(rec.st.tries)
        /\ tr.st.pod \in Attempt => Fresh(tr.st.pod)
    BY Zenon, <1>14 DEF CreatesPod, TruthInv
  <2>2. CASE /\ rec'.pc = "ready" \/ rec'.pc = "status"
             /\ rec'.st = rec.st /\ rec'.name = rec.st.tries
             /\ \/ rec'.seen = NewPod
                \/ rec'.seen = podCache[rec.st.tries] /\ pods' = pods
    <3>1. over(rec'.seen) => StillSo(rec.seen, rec.name)'
      <4>1. CASE rec'.seen = NewPod
        BY Zenon, <4>1, NewShapes
      <4>2. CASE rec'.seen = podCache[rec.st.tries] /\ pods' = pods
        BY ZenonT(60), <2>1, <2>2, <4>2 DEF Fresh, StillSo
      <4> QED  BY ZenonT(60), <2>2, <4>1, <4>2
    <3>2. tr.st.pod \in Attempt => Fresh(tr.st.pod)'
      BY ZenonT(60), <1>1, <1>4, <1>6, <2>1
    <3>3. Truthful(rec.st)' /\ ~IsDone(rec'.st)
      BY ZenonT(60), <2>1, <2>2 DEF Truthful, IsDone
    <3> QED  BY ZenonT(40), <1>1, <1>8, <1>10, <2>1, <2>2, <3>1, <3>2, <3>3 DEF TruthInv
  <2>3. CASE \E t \in Status :
               Wrote(t) /\ Like(t, rec.st) /\ t.reason \in {"Pending", "CreationFailed"}
    BY ZenonT(60), <1>2, <1>11, <2>1, <2>3 DEF Like
  <2> QED  BY ZenonT(40), <1>14, <2>2, <2>3 DEF CreatesPod
<1>15. CASE ReadiesPod
  <2>1. /\ rec.pc = "ready" /\ ~IsDone(rec.st) /\ rec.name \in Attempt
        /\ over(rec.seen) => StillSo(rec.seen, rec.name)
        /\ tr.st.pod \in Attempt => Fresh(tr.st.pod)
    BY <1>2, <1>15 DEF ReadiesPod, TruthInv
  <2>2. CASE rec'.pc = "status" /\ rec'.st = rec.st /\ rec'.name = rec.name
    <3>1. over(rec'.seen) => StillSo(rec.seen, rec.name)'
      BY Zenon, <1>4, <1>5, <1>15, <2>1, <2>2 DEF StillSo, ReadiesPod
    <3>2. tr.st.pod \in Attempt => Fresh(tr.st.pod)'
      BY ZenonT(60), <1>1, <1>4, <1>6, <2>1
    <3>3. Truthful(rec.st)' /\ ~IsDone(rec'.st)
      BY ZenonT(60), <2>1, <2>2 DEF Truthful, IsDone
    <3> QED  BY ZenonT(40), <1>1, <1>8, <1>10, <2>1, <2>2, <3>1, <3>2, <3>3 DEF TruthInv
  <2>3. CASE Wrote(rec.st)
    <3>1. rec.st \in Status /\ rec.st.reason # "Succeeded" /\ tr.st.archived \subseteq rec.st.archived
      BY <1>2, <2>1, <2>3 DEF Wrote, IsDone
    <3> QED  BY ZenonT(60), <1>11, <2>1, <2>3, <3>1
  <2> QED  BY ZenonT(60), <1>15, <2>2, <2>3 DEF ReadiesPod
<1>16. CASE TakesStatus
  <2>1. /\ rec.pc = "status" /\ ~IsDone(rec.st) /\ rec.name \in Attempt /\ pods' = pods
        /\ over(rec.seen) => StillSo(rec.seen, rec.name)
        /\ tr.st.pod \in Attempt => Fresh(tr.st.pod)
    BY ZenonT(60), <1>2, <1>16 DEF TakesStatus, TruthInv
  <2>2. PICK t \in Status :
          /\ t.pod = rec.name /\ t.archived = rec.st.archived
          /\ t.reason = "Succeeded" => over(rec.seen) /\ rec.seen.steps = "ok"
          /\ \/ Wrote(t)
             \/ rec'.pc = "kill" /\ rec'.st = t /\ IsFailure(t) /\ "large" \in Outcomes
    BY ZenonT(60), <1>16 DEF TakesStatus
  <2>3. CASE Wrote(t)
    <3>1. t.reason = "Succeeded" => Truthful(t)'
      BY ZenonT(60), <2>1, <2>2 DEF Truthful, StillSo
    <3>2. tr.st.archived \subseteq t.archived
      BY <1>2, <2>1, <2>2
    <3> QED  BY ZenonT(60), <1>11, <2>1, <2>3, <3>1, <3>2
  <2>4. CASE rec'.pc = "kill" /\ rec'.st = t /\ IsFailure(t) /\ "large" \in Outcomes
    <3>1. Truthful(rec.st)' /\ Recorded(rec.st.pod)' /\ rec'.st.pod # NoPod
      BY ZenonT(60), <2>1, <2>2, <2>4, Attempts DEF Truthful, IsFailure, FailedReason, Recorded
    <3>2. tr.st.pod \in Attempt => Fresh(tr.st.pod)'
      BY <1>1, <1>4, <1>6, <2>1
    <3> QED  BY ZenonT(40), <1>1, <1>8, <1>10, <2>1, <2>4, <3>1, <3>2 DEF TruthInv
  <2> QED  BY ZenonT(60), <2>2, <2>3, <2>4
<1>17. CASE MissesLabels
  <2>1. rec.pc = "write" /\ rec'.pc = "write" /\ rec'.st = rec.st /\ pods' = pods
    BY <1>17 DEF MissesLabels
  <2>2. \A a \in Attempt : Fresh(a)' = Fresh(a) /\ (GivenUp(a) => GivenUp(a)')
    BY ZenonT(40), <1>1, <1>7, <2>1 DEF Fresh, StillSo, GivenUp
  <2>3. Truthful(rec.st)'
    BY Zenon, <2>1 DEF TruthInv, Truthful
  <2> QED  BY Zenon, <1>1, <1>10, <2>1, <2>2, <2>3 DEF TruthInv
<1> QED  BY ZenonT(60), <1>1, <1>12, <1>13, <1>14, <1>15, <1>16, <1>17

LEMMA WriteTruth ==
  ASSUME TypeOK, TruthInv, Writes \/ LosesWrite
  PROVE  TruthInv'
<1>1. rec'.pc = "idle" /\ Truthful(rec.st)'
  BY ZenonT(40), NewShapes DEF Writes, LosesWrite, Truthful
<1>2. CASE Writes
  <2>1. /\ rec.pc = "write" /\ tr'.st = rec.st
        /\ UNCHANGED <<trCache, pods, podCache, expired>>
    BY ZenonT(60), <1>2 DEF Writes
  <2>2. ASSUME NEW a \in Attempt PROVE Fresh(a)' \/ GivenUp(a)'
    <3>1. CASE Fresh(a)
      BY <2>1, <3>1 DEF Fresh, StillSo
    <3>2. CASE GivenUp(a) /\ ~Fresh(a)
      <4>1. a = tr.st.pod => Dropped(rec.st, a)
        BY ZenonT(60), <2>1, <3>2 DEF TruthInv
      <4>2. a \in tr.st.archived => Dropped(rec.st, a)
        BY ZenonT(60), <2>1 DEF TruthInv, Dropped
      <4>3. Dropped(rec.st, a)
        BY ZenonT(60), <3>2, <4>1, <4>2 DEF GivenUp, Dropped
      <4> QED  BY ZenonT(40), <2>1, <3>2, <4>3 DEF GivenUp, Dropped
    <3> QED  BY ZenonT(60), <3>1, <3>2 DEF TruthInv
  <2>3. Truthful(tr.st)'
    BY Zenon, <2>1 DEF TruthInv, Truthful
  <2> QED  BY ZenonT(60), <1>1, <2>2, <2>3 DEF TruthInv
<1>3. CASE LosesWrite
  <2>1. UNCHANGED <<tr, pods, expired>>
    BY ZenonT(60), <1>3 DEF LosesWrite
  <2>2. Truthful(tr.st)'
    BY ZenonT(60), <2>1 DEF TruthInv, Truthful
  <2>3. CASE "status" \in Failing /\ UNCHANGED <<trCache, podCache>>
    <3>1. \A a \in Attempt : (Fresh(a) => Fresh(a)') /\ (GivenUp(a) => GivenUp(a)')
      BY ZenonT(60), <2>1, <2>3 DEF Fresh, StillSo, GivenUp, Recorded, Doomed, Dropped,
                                    HasTimedOut, imageWaits
    <3> QED  BY Zenon, <1>1, <2>2, <3>1 DEF TruthInv
  <2>4. CASE podCache' = pods
    <3>1. \A a \in Attempt : Fresh(a)'
      BY <2>1, <2>4 DEF Fresh, StillSo
    <3> QED  BY Zenon, <1>1, <2>2, <3>1 DEF TruthInv
  <2> QED  BY <1>3, <2>3, <2>4 DEF LosesWrite
<1> QED  BY <1>2, <1>3

LEMMA OtherTruth ==
  ASSUME TypeOK, TypeOK', AttemptInv, PodsInv, TruthInv, [Next]_vars, Others, ~Call
  PROVE  TruthInv'
<1>1. /\ rec' = rec /\ tr'.st = tr.st /\ (trCache.cancelled => trCache'.cancelled)
      /\ podCache' = podCache \/ (podCache' = pods /\ pods' = pods)
      /\ expired' = expired \/ (expired' = tr.st.start /\ tr.st.start > expired)
  BY DEF Others
<1>2. \A a \in Attempt :
        /\ over(pods[a]) => over(pods'[a]) /\ pods'[a].steps = pods[a].steps
        /\ ~exists(pods[a]) => ~exists(pods'[a])
  BY Zenon, EndedPodStays DEF Call
<1>3. HasTimedOut(tr.st) => HasTimedOut(tr.st)'
  <2>1. tr.st.start \in Nat /\ expired \in Nat /\ expired' \in Nat
    BY ZenonT(60), StatusFields DEF TypeOK
  <2> QED  BY <1>1, <2>1 DEF HasTimedOut
<1>4. Doomed => Doomed'
  BY ZenonT(60), <1>1, <1>3 DEF Doomed, imageWaits
<1>5. \A a \in Nat : Recorded(a) => Recorded(a)'
  BY <1>1, <1>4 DEF Recorded
<1>6. \A a \in Attempt : (Fresh(a) => Fresh(a)') /\ (GivenUp(a) => GivenUp(a)')
  <2> TAKE a \in Attempt
  <2>1. Fresh(a) => Fresh(a)'
    BY Zenon, <1>1, <1>2 DEF Fresh, StillSo
  <2>2. GivenUp(a) => GivenUp(a)'
    BY Zenon, <1>1, <1>2, <1>4, <1>5, Attempts DEF GivenUp, Dropped
  <2> QED  BY <2>1, <2>2
<1>7. \A s : Truthful(s) => Truthful(s)'
  BY ZenonT(40), <1>2 DEF Truthful
<1>8. Truthful(tr.st)' /\ Truthful(rec.st)'
  BY ZenonT(60), <1>1, <1>7 DEF TruthInv, Truthful
<1>9. rec.pc = "ready" \/ rec.pc = "status" => rec.name \in Attempt
  BY Zenon, NewShapes DEF AttemptInv, Calling, Ending
<1>10. ASSUME rec.pc = "ready" \/ rec.pc = "status", over(rec.seen) PROVE StillSo(rec.seen, rec.name)'
  BY ZenonT(60), <1>1, <1>2, <1>9, <1>10 DEF TruthInv, StillSo
<1>11. rec.pc = "kill" => Recorded(rec.st.pod)'
  <2>1. rec.st.pod \in Nat
    BY ReconcileFields, StatusFields DEF TypeOK
  <2> QED  BY Zenon, <1>1, <1>5, <2>1 DEF TruthInv
<1>12. rec.st.tries \in Attempt
  BY ZenonT(60), ReconcileFields, StatusFields DEF TypeOK
<1>13. /\ tr.st.pod \in Attempt => (Fresh(tr.st.pod) => Fresh(tr.st.pod)')
       /\ Fresh(rec.st.tries) => Fresh(rec.st.tries)'
       /\ Dropped(rec.st, tr.st.pod)' = Dropped(rec.st, tr.st.pod)
  BY <1>1, <1>6, <1>12 DEF Dropped
<1> QED  BY ZenonT(60), <1>1, <1>6, <1>8, <1>10, <1>11, <1>13 DEF TruthInv

LEMMA InitTruth == ASSUME Init PROVE PodsInv /\ ClockInv /\ TruthInv
<1>1. /\ tr.st = NewStatus /\ rec = NoReconcile /\ stamp = 0 /\ expired = 0
      /\ pods = [a \in Attempt |-> AbsentPod] /\ podCache = pods
  BY DEF Init
<1>2. /\ rec.pc = "idle" /\ rec.seen = AbsentPod /\ rec.st = NewStatus
      /\ tr.st.reason = "" /\ tr.st.start = 0 /\ rec.st.start = 0
  BY Zenon, <1>1, NewShapes
<1>3. \A a \in Attempt : pods[a] = AbsentPod /\ podCache[a] = AbsentPod
  BY <1>1
<1>4. PodsInv
  BY Zenon, <1>2, <1>3, NewShapes DEF PodsInv
<1>5. ClockInv
  <2>1. stamp = 0 /\ expired = 0 /\ tr.st.start = 0 /\ rec.st.start = 0
    BY Zenon, <1>1, <1>2
  <2> QED  BY <2>1 DEF ClockInv
<1>6. \A a \in Attempt : Fresh(a)
  BY Zenon, <1>3, NewShapes DEF Fresh
<1>7. Truthful(tr.st) /\ Truthful(rec.st)
  BY Zenon, <1>1, <1>2 DEF Truthful
<1> QED  BY Zenon, <1>2, <1>4, <1>5, <1>6, <1>7 DEF TruthInv

(***************************************************************************)
(* A TaskRun that is Succeeded names a pod that succeeded, one of no       *)
(* attempt that was given up, whatever calls fail, wherever the controller *)
(* crashes and however late the pod cache is: what MakeTaskRunStatus reads *)
(* off a cached pod still holds, since only failTaskRun deletes a pod and  *)
(* no later reconcile looks at that pod again.  Left out is a status write *)
(* that fails after a pod with oversized results was deleted: the model    *)
(* leaves open at every reading whether the results are too large.         *)
(***************************************************************************)
THEOREM SuccessIsTruthful ==
  ASSUME ReadsOwnWrites, "status" \in Failing => "large" \notin Outcomes
  PROVE  Spec => []TruthfulSuccess
<1> DEFINE Inv == TypeOK /\ AttemptInv /\ PodsInv /\ ClockInv /\ TruthInv
<1>1. Init => Inv
  BY ZenonT(60), InitTypes, InitAttempts, InitTruth
<1>2. Inv /\ [Next]_vars => Inv'
  <2> SUFFICES ASSUME Inv, [Next]_vars PROVE Inv'
    OBVIOUS
  <2>1. TypeOK' /\ AttemptInv'
    BY StepTypes, StepAttempts
  <2>2. PodsInv' /\ ClockInv'
    BY <2>1, NextPodsInv, NextClockInv
  <2>3. ASSUME Begin PROVE TruthInv'
    BY <2>3, BeginTruth
  <2>4. ASSUME Call \/ CallFails \/ UpdateLabelsFails PROVE TruthInv'
    BY <2>4, CallTruth
  <2>5. ASSUME Writes \/ LosesWrite PROVE TruthInv'
    BY <2>5, WriteTruth
  <2>6. ASSUME Others /\ ~Call PROVE TruthInv'
    BY ZenonT(60), <2>1, <2>6, OtherTruth
  <2>7. TruthInv'
    BY ZenonT(60), <2>3, <2>4, <2>5, <2>6, NextKinds
  <2> QED  BY <2>1, <2>2, <2>7
<1>3. Inv => TruthfulSuccess
  BY Zenon DEF TruthInv, Truthful, TruthfulSuccess, AttemptInv, Sound
<1> QED  BY <1>1, <1>2, <1>3, PTL DEF Spec

-----------------------------------------------------------------------------
\* One live pod, and none once the TaskRun is done.

(***************************************************************************)
(* What the reconciler does to the pods, it gets to record: deleting a     *)
(* pod and writing the status do not fail, the controller does not crash,  *)
(* and no attempt fails with its pod left alone, as one does whose pod     *)
(* cannot be created for good, or has a configuration error.               *)
(***************************************************************************)
Steady ==
  /\ ReadsOwnWrites
  /\ Failing \cap {"kill", "create", "status", "crash"} = {}
  /\ "config" \notin Blockers

current == tr.st.tries

\* There is a pod of attempt a, or the cache still shows one.
known(a) == exists(pods[a]) \/ exists(podCache[a])

\* The pod p has been told to stop, or is gone.
stopped(p) == exists(p) => p.cancel

\* A done status s leaves only a cancelled pod going, if that one is kept.
StopsWork(s, p) ==
  /\ IsDone(s) /\ live(p) => s.reason = "Cancelled" /\ p.cancel
  /\ s.reason \in stopReasons /\ s.pod # NoPod => stopped(p)

\* The status and the pods: only the pod of the current attempt is not given up.
StatusSteady ==
  /\ tr.st.pod \in {current, NoPod}
  /\ tr.st.pod # NoPod => tr.st.spec
  /\ \A a \in Attempt :
       /\ known(a) /\ a # current => a \in tr.st.archived
       /\ live(pods[a]) => a = current
       /\ exists(pods[a]) => tr.valid
       /\ pods[a].bad \subseteq Blockers /\ podCache[a].bad \subseteq Blockers
  /\ StopsWork(tr.st, pods[current])

\* The status a reconcile is about to write names the pod of the attempt, or gives it up.
WriteSteady ==
  /\ known(current) => rec.st.pod = current \/ current \in rec.st.archived
  /\ \/ rec.st.tries = current /\ rec.st.pod \in {current, NoPod}
     \/ /\ rec.st.tries = current + 1 /\ rec.st.pod = NoPod
        /\ ~IsDone(rec.st) /\ ~live(pods[current])
  /\ rec.st.pod # NoPod => rec.st.spec
  /\ StopsWork(rec.st, pods[current])

\* Until then it works on the pod of the current attempt alone.
ReconcileSteady ==
  /\ rec.seen.bad \subseteq Blockers
  /\ rec.pc \in {"idle", "stop", "create", "ready"} /\ known(current) => tr.st.pod = current
  /\ rec.pc = "stop" =>
       tr.st.reason \notin stopReasons /\ rec.st.reason = tr.st.reason /\ rec.st.spec
  /\ rec.pc \in {"create", "ready", "status"} => tr.valid /\ rec.st.spec
  /\ rec.pc \in {"create", "ready"} => rec.st.pod = tr.st.pod
  /\ rec.pc \in {"ready", "status"} => rec.name = current
  /\ rec.pc = "kill" =>
       /\ rec.st.pod = current /\ rec.st.spec
       /\ rec.st.reason = "Cancelled" => rec.cancelled
  /\ rec.pc = "write" => WriteSteady

SteadyInv == StatusSteady /\ ReconcileSteady

\* A step makes no pod but the one it creates, sets none going again, and takes no cancellation back.
LEMMA PodsChange ==
  ASSUME TypeOK, [Next]_vars, NEW a \in Attempt
  PROVE  /\ exists(pods'[a]) => exists(pods[a]) \/ (CreatePod /\ a = rec.st.tries)
         /\ live(pods'[a]) => live(pods[a]) \/ (CreatePod /\ a = rec.st.tries)
         /\ pods[a].bad \subseteq Blockers => pods'[a].bad \subseteq Blockers
         /\ ~KillPod /\ ~CreatePod /\ stopped(pods[a]) => stopped(pods'[a])
         /\ ~KillPod /\ ~CreatePod /\ pods[a].cancel /\ exists(pods'[a]) => pods'[a].cancel
<1>1. CASE PodGoesOn(pods[a], pods'[a])
  BY Zenon, <1>1 DEF PodGoesOn, stopped
<1>2. CASE CreatePod /\ a = rec.st.tries /\ pods'[a] = NewPod
  BY Zenon, <1>2, NewShapes
<1>3. CASE KillPod /\ a = rec.st.pod
  <2>1. \/ pods'[a] = AbsentPod
        \/ pods'[a] = [pods[a] EXCEPT !.cancel = exists(pods[a])]
    BY Zenon, <1>3, KillChanges
  <2>2. LET q == [pods[a] EXCEPT !.cancel = exists(pods[a])]
        IN live(q) = live(pods[a]) /\ exists(q) = exists(pods[a]) /\ q.bad = pods[a].bad
    BY Zenon, ToldShape DEF TypeOK
  <2>3. AbsentPod.bad = {}
    BY DEF AbsentPod
  <2> QED  BY Zenon, <1>3, <2>1, <2>2, <2>3, NewShapes
<1> QED  BY Zenon, <1>1, <1>2, <1>3, PodsGoOn

\* The two calls that act on the pod of an attempt are made before the TaskRun is done.
LEMMA ActsOnCurrent ==
  ASSUME TypeOK, AttemptInv
  PROVE  /\ CreatePod => rec.pc = "create" /\ rec.st.tries = current /\ ~IsDone(tr.st)
         /\ KillPod => rec.pc = "kill" /\ ~IsDone(tr.st)
         /\ rec.pc \in {"stop", "kill", "create", "ready", "status"} =>
               /\ rec.st.tries = current /\ rec.st.archived = tr.st.archived
               /\ IsDone(tr.st) <=> rec.pc = "stop"
               /\ rec.st \in Status
         /\ current \in Attempt /\ current \in Nat /\ current # NoPod
         /\ ~(known(current + 1) /\ current + 1 \in Attempt)
<1>1. ASSUME rec.pc \in {"stop", "kill", "create", "ready", "status"} PROVE Calling(rec)
  BY Zenon, <1>1, NewShapes DEF AttemptInv, Ending
<1>2. rec.pc \in {"stop", "kill", "create", "ready", "status"} =>
        /\ rec.st.tries = current /\ rec.st.archived = tr.st.archived
        /\ IsDone(tr.st) <=> rec.pc = "stop"
  BY <1>1 DEF Calling, Sane, current
<1>3. current \in Attempt /\ current \in Nat /\ current # NoPod
  BY StatusFields, Attempts DEF TypeOK, current
<1>4. \A a \in Attempt : known(a) => a <= current
  BY Zenon DEF AttemptInv, known, current
<1>5. ~(current + 1 <= current)
  BY <1>3
<1>6. rec.st \in Status
  BY ReconcileFields DEF TypeOK
<1> QED  BY ZenonT(60), <1>2, <1>3, <1>4, <1>5, <1>6 DEF CreatePod, KillPod, calls

LEMMA StatusKeeps ==
  ASSUME TypeOK, AttemptInv, PodsInv, SteadyInv, [Next]_vars,
         tr'.st = tr.st, tr'.valid = tr.valid, podCache' = podCache \/ podCache' = pods
  PROVE  StatusSteady' /\ (known(current)' => known(current) \/ CreatePod)
<1>1. current' = current /\ current \in Attempt
  BY ZenonT(60), ActsOnCurrent DEF current
<1>2. CreatePod => rec.st.tries = current /\ ~IsDone(tr.st) /\ rec.pc = "create"
  BY ActsOnCurrent
<1>3. ASSUME NEW a \in Attempt
      PROVE  /\ exists(pods'[a]) => exists(pods[a]) \/ (CreatePod /\ a = current)
             /\ live(pods'[a]) => live(pods[a]) \/ (CreatePod /\ a = current)
             /\ pods[a].bad \subseteq Blockers => pods'[a].bad \subseteq Blockers
  BY Zenon, <1>2, PodsChange
<1>4. ASSUME NEW a \in Attempt
      PROVE  /\ known(a)' /\ a # current => a \in tr.st.archived
             /\ live(pods'[a]) => a = current
             /\ exists(pods'[a]) => tr.valid
             /\ pods'[a].bad \subseteq Blockers /\ podCache'[a].bad \subseteq Blockers
             /\ known(a)' => known(a) \/ CreatePod
  <2>1. /\ known(a) /\ a # current => a \in tr.st.archived
        /\ live(pods[a]) => a = current
        /\ exists(pods[a]) \/ rec.pc = "create" => tr.valid
        /\ pods[a].bad \subseteq Blockers /\ podCache[a].bad \subseteq Blockers
    BY Zenon DEF SteadyInv, StatusSteady, ReconcileSteady
  <2>2. known(a)' => known(a) \/ (CreatePod /\ a = current)
    BY Zenon, <1>3 DEF known
  <2> QED  BY Zenon, <1>2, <1>3, <2>1, <2>2
<1>5. StopsWork(tr.st, pods[current])'
  <2>1. ASSUME IsDone(tr.st), live(pods'[current])
        PROVE  tr.st.reason = "Cancelled" /\ pods'[current].cancel
    <3>1. ~KillPod /\ ~CreatePod /\ exists(pods'[current])
      BY <2>1, ActsOnCurrent DEF live, exists
    <3>2. live(pods[current])
      BY ZenonT(60), <1>1, <2>1, <3>1, PodsChange
    <3>3. tr.st.reason = "Cancelled" /\ pods[current].cancel
      BY <2>1, <3>2 DEF SteadyInv, StatusSteady, StopsWork
    <3> QED  BY ZenonT(60), <1>1, <3>1, <3>3, PodsChange
  <2>2. ASSUME tr.st.reason \in stopReasons, tr.st.pod # NoPod PROVE stopped(pods'[current])
    <3>1. ~KillPod /\ ~CreatePod
      BY ZenonT(60), <2>2, ActsOnCurrent DEF IsDone, IsFailure, FailedReason, stopReasons
    <3> QED  BY ZenonT(60), <1>1, <2>2, <3>1, PodsChange DEF SteadyInv, StatusSteady, StopsWork
  <2> QED  BY ZenonT(60), <1>1, <2>1, <2>2 DEF StopsWork, stopped, IsDone, IsFailure, live, exists
<1> QED  BY ZenonT(60), <1>1, <1>4, <1>5 DEF StatusSteady, SteadyInv

\* A status s of the current attempt that names its pod leads to one that is fit to be written.
LEMMA WroteSteadily ==
  ASSUME TypeOK, AttemptInv, tr'.st = tr.st, rec'.seen.bad \subseteq Blockers,
         NEW s \in Status, Wrote(s), s.tries = current, s.pod \in {current, NoPod},
         known(current)' => s.pod = current, s.pod # NoPod => s.spec,
         StopsWork(s, pods'[current]), IsDone(s) /\ live(pods'[current]) => rec'.cancelled
  PROVE  ReconcileSteady'
<1>1. current' = current /\ current # NoPod /\ rec'.pc = "write"
  BY ZenonT(60), ActsOnCurrent DEF current, Wrote
<1>2. CASE rec'.st = s
  <2>1. WriteSteady'
    BY ZenonT(60), <1>1, <1>2 DEF WriteSteady, StopsWork, stopped, IsDone, IsFailure, live, exists
  <2> QED  BY ZenonT(60), <1>1, <2>1 DEF ReconcileSteady
<1>3. CASE rec'.st # s
  <2>1. /\ IsFailure(s) /\ ~rec'.cancelled
        /\ rec'.st.reason = "ToBeRetried" /\ rec'.st.pod = NoPod /\ rec'.st.tries = current + 1
        /\ rec'.st.archived = s.archived \cup ({s.pod} \ {NoPod})
    BY ZenonT(60), <1>3 DEF Wrote
  <2>2. ~live(pods'[current])
    BY ZenonT(60), <2>1 DEF IsDone
  <2>3. ~IsDone(rec.st)' /\ rec'.st.reason \notin stopReasons
    BY <2>1 DEF IsDone, IsFailure, FailedReason, stopReasons
  <2>4. known(current)' => current \in rec'.st.archived
    BY ZenonT(60), <1>1, <2>1
  <2>5. StopsWork(rec.st, pods[current])'
    BY ZenonT(60), <2>3 DEF StopsWork
  <2>6. WriteSteady'
    BY ZenonT(60), <1>1, <2>1, <2>2, <2>3, <2>4, <2>5 DEF WriteSteady
  <2> QED  BY ZenonT(60), <1>1, <2>6 DEF ReconcileSteady
<1> QED  BY ZenonT(60), <1>2, <1>3

LEMMA BeginSteady ==
  ASSUME Steady, TypeOK, AttemptInv, PodsInv, SteadyInv, [Next]_vars, Begin
  PROVE  SteadyInv'
<1>1. /\ UNCHANGED <<tr, trCache, pods, podCache>> /\ rec.pc = "idle"
      /\ rec'.pc = "ready" \/ rec'.pc = "status" \/ rec'.seen = AbsentPod
      /\ BeginsDone \/ BeginsFailing \/ BeginsWaiting \/ BeginsWork
  BY BeginKinds DEF Steady
<1>2. StatusSteady'
  BY ZenonT(60), <1>1, StatusKeeps
<1>3. current' = current /\ current \in Attempt /\ current # NoPod
  BY <1>1, ActsOnCurrent DEF current
<1>4. /\ known(current)' = known(current)
      /\ known(current) => tr.st.pod = current
      /\ exists(pods[current]) => tr.valid
      /\ tr.st.pod \in {current, NoPod} /\ (tr.st.pod # NoPod => tr.st.spec)
      /\ StopsWork(tr.st, pods[current])
  BY ZenonT(60), <1>1, <1>3 DEF known, SteadyInv, StatusSteady, ReconcileSteady
<1>5. live(pods[current]) => tr.st.pod = current /\ tr.st.spec /\ tr.valid
  BY ZenonT(60), <1>3, <1>4 DEF known, live, exists
<1>6. rec'.seen.bad \subseteq Blockers
  <2>1. CASE rec'.seen = AbsentPod
    BY <2>1 DEF AbsentPod
  <2>2. CASE rec'.seen # AbsentPod
    <3>1. BeginsWork
      BY ZenonT(60), <1>1, <2>2 DEF BeginsDone, BeginsFailing, BeginsWaiting, Wrote
    <3>2. rec'.name \in foundPods(tr.st, podCache) /\ rec'.seen = podCache[rec'.name]
      BY ZenonT(60), <1>1, <2>2, <3>1 DEF BeginsWork
    <3>3. rec'.name \in Attempt
      BY ZenonT(40), <3>2, FoundFacts DEF TypeOK
    <3> QED  BY ZenonT(40), <3>2, <3>3 DEF SteadyInv, StatusSteady
  <2> QED  BY ZenonT(60), <2>1, <2>2
<1>7. CASE BeginsDone
  <2>1. /\ IsDone(tr.st) /\ rec'.st.reason = tr.st.reason
        /\ Like(rec'.st, tr.st) /\ rec'.st.spec = tr.st.spec
        /\ \/ rec'.pc = "stop" /\ tr.st.pod # NoPod /\ tr.st.reason \notin stopReasons
           \/ rec'.pc = "write" /\ (tr.st.pod = NoPod \/ tr.st.reason \in stopReasons)
    BY ZenonT(60), <1>7 DEF BeginsDone
  <2>2. StopsWork(rec.st, pods[current])'
    BY ZenonT(60), <1>1, <1>3, <1>4, <2>1 DEF StopsWork, Like, IsDone, IsFailure, live, stopped,
                                              exists
  <2>3. WriteSteady'
    BY ZenonT(60), <1>1, <1>3, <1>4, <2>1, <2>2 DEF WriteSteady, Like, current
  <2> QED  BY ZenonT(60), <1>1, <1>2, <1>3, <1>4, <1>6, <2>1, <2>3 DEF SteadyInv, ReconcileSteady
<1>8. CASE BeginsFailing
  <2>1. PICK t \in Status :
          /\ IsFailure(t) /\ Like(t, tr.st) /\ t.spec = tr.st.spec
          /\ t.reason = "Cancelled" => rec'.cancelled
          /\ \/ tr.st.pod = NoPod /\ Wrote(t)
             \/ tr.st.pod # NoPod /\ rec'.pc = "kill" /\ rec'.st = t
    BY ZenonT(60), <1>8 DEF BeginsFailing
  <2>2. CASE tr.st.pod = NoPod /\ Wrote(t)
    <3>1. ~known(current) /\ ~live(pods[current]) /\ t.pod = NoPod /\ t.tries = current
      BY ZenonT(60), <1>3, <1>4, <1>5, <2>1, <2>2 DEF Like, current
    <3>2. StopsWork(t, pods'[current])
      BY ZenonT(60), <1>1, <3>1 DEF StopsWork
    <3> QED  BY ZenonT(60), <1>1, <1>2, <1>4, <1>6, <2>2, <3>1, <3>2, WroteSteadily DEF SteadyInv
  <2>3. CASE tr.st.pod # NoPod /\ rec'.pc = "kill" /\ rec'.st = t
    <3>1. rec'.st.pod = current /\ rec'.st.spec
      BY ZenonT(60), <1>4, <2>1, <2>3 DEF Like
    <3> QED  BY ZenonT(60), <1>2, <1>3, <1>6, <2>1, <2>3, <3>1 DEF SteadyInv, ReconcileSteady
  <2> QED  BY ZenonT(60), <2>1, <2>2, <2>3
<1>9. CASE BeginsWaiting
  <2>1. PICK t \in Status :
          /\ Wrote(t) /\ Like(t, tr.st) /\ (tr.st.spec => t.spec)
          /\ t.reason # "Succeeded" /\ t.reason \notin stopReasons
          /\ IsFailure(t) => ~tr.st.spec \/ ~tr.valid
    BY ZenonT(60), <1>9 DEF BeginsWaiting
  <2>2. ~(IsDone(t) /\ live(pods'[current]))
    BY ZenonT(60), <1>1, <1>5, <2>1 DEF IsDone
  <2>3. StopsWork(t, pods'[current])
    BY ZenonT(60), <2>1, <2>2 DEF StopsWork
  <2>4. t.tries = current /\ t.pod = tr.st.pod
    BY SMTT(60), <2>1 DEF Like, current
  <2>5. ReconcileSteady'
    BY ZenonT(60), <1>1, <1>4, <1>6, <2>1, <2>2, <2>3, <2>4, WroteSteadily
  <2> QED  BY ZenonT(60), <1>2, <2>5 DEF SteadyInv
<1>10. CASE BeginsWork
  <2>1. /\ Like(rec'.st, tr.st) /\ rec'.st.spec /\ tr.valid
        /\ \/ rec'.pc = "create"
           \/ /\ rec'.name \in foundPods(tr.st, podCache)
              /\ rec'.pc = "ready" \/ rec'.pc = "status"
    BY ZenonT(60), <1>10 DEF BeginsWork
  <2>2. rec'.name \in foundPods(tr.st, podCache) => rec'.name = current
    <3> SUFFICES ASSUME rec'.name \in foundPods(tr.st, podCache) PROVE rec'.name = current
      OBVIOUS
    <3>1. /\ rec'.name \in Attempt /\ exists(podCache[rec'.name])
          /\ rec'.name = tr.st.pod \/ rec'.name \notin tr.st.archived
      BY Zenon, FoundFacts DEF TypeOK
    <3>2. known(rec'.name) /\ rec'.name # current => rec'.name \in tr.st.archived
      BY Zenon, <3>1 DEF SteadyInv, StatusSteady
    <3> QED  BY ZenonT(60), <1>4, <3>1, <3>2, Attempts DEF known
  <2> QED  BY ZenonT(60), <1>1, <1>2, <1>3, <1>4, <1>6, <2>1, <2>2
              DEF SteadyInv, ReconcileSteady, Like
<1> QED  BY ZenonT(60), <1>1, <1>7, <1>8, <1>9, <1>10

LEMMA CallSteady ==
  ASSUME Steady, TypeOK, AttemptInv, PodsInv, TruthInv, SteadyInv, [Next]_vars,
         Call \/ CallFails \/ UpdateLabelsFails
  PROVE  SteadyInv'
<1>1. /\ UNCHANGED <<tr, trCache, podCache>> /\ rec'.cancelled = rec.cancelled
      /\ \/ StopsSidecars \/ StopsPod \/ CreatesPod \/ ReadiesPod \/ TakesStatus
         \/ MissesLabels
  BY CallKinds DEF PodsInv
<1>2. StatusSteady' /\ (known(current)' => known(current) \/ CreatePod)
  BY ZenonT(60), <1>1, StatusKeeps
<1>3. current' = current /\ current \in Attempt /\ current # NoPod
  BY ZenonT(60), <1>1, ActsOnCurrent DEF current
<1>4. /\ CreatePod => rec.pc = "create"
      /\ rec.pc \in {"stop", "kill", "create", "ready", "status"} =>
           /\ rec.st.tries = current /\ rec.st.archived = tr.st.archived
           /\ IsDone(tr.st) <=> rec.pc = "stop"
           /\ rec.st \in Status
  BY ZenonT(60), ActsOnCurrent
<1>5. tr.st.pod \in {current, NoPod} /\ StopsWork(tr.st, pods[current])
  BY ZenonT(60) DEF SteadyInv, StatusSteady
<1>6. \A t : ~IsDone(t) => t.reason \notin stopReasons /\ StopsWork(t, pods'[current])
  BY DEF IsDone, IsFailure, FailedReason, stopReasons, StopsWork
<1>7. rec.seen.bad \subseteq Blockers /\ podCache[current].bad \subseteq Blockers /\ NewPod.bad = {}
  BY Zenon, <1>3, NewShapes DEF SteadyInv, StatusSteady, ReconcileSteady
<1>8. CASE StopsSidecars
  <2>1. PICK t \in Status :
          /\ Wrote(t) /\ Like(t, rec.st) /\ t.spec = rec.st.spec
          /\ t.reason = rec.st.reason \/ t.reason = "StopSidecarFailed"
    BY ZenonT(60), <1>8 DEF StopsSidecars
  <2>2. rec.pc = "stop" /\ rec.st.pod = tr.st.pod /\ rec'.seen = rec.seen
    BY ZenonT(60), <1>8 DEF StopsSidecars, TruthInv
  <2>3. /\ known(current) => tr.st.pod = current
        /\ rec.st.spec /\ tr.st.reason \notin stopReasons /\ rec.st.reason = tr.st.reason
    BY <2>2 DEF SteadyInv, ReconcileSteady
  <2>4. ~live(pods'[current])
    <3>1. ~live(pods[current])
      BY ZenonT(60), <1>4, <1>5, <2>2, <2>3 DEF StopsWork, stopReasons
    <3> QED  BY ZenonT(60), <1>3, <1>4, <2>2, <3>1, PodsChange
  <2>5. t.reason \notin stopReasons
    BY ZenonT(60), <2>1, <2>3 DEF stopReasons
  <2>6. StopsWork(t, pods'[current])
    BY ZenonT(60), <2>4, <2>5 DEF StopsWork
  <2>7. t.tries = current /\ t.pod = tr.st.pod
    BY ZenonT(60), <1>4, <2>1, <2>2 DEF Like
  <2>8. ReconcileSteady'
    BY ZenonT(60), <1>1, <1>2, <1>4, <1>5, <1>7, <2>1, <2>2, <2>3, <2>4, <2>6, <2>7, WroteSteadily
  <2> QED  BY ZenonT(60), <1>2, <2>8 DEF SteadyInv
<1>9. CASE StopsPod
  <2>1. rec.pc = "kill" /\ Wrote(rec.st) /\ KillPod /\ rec'.seen = rec.seen
    BY ZenonT(60), <1>9 DEF StopsPod, Steady
  <2>2. rec.st.pod = current /\ rec.st.spec /\ (rec.st.reason = "Cancelled" => rec.cancelled)
    BY <2>1 DEF SteadyInv, ReconcileSteady
  <2>3. \/ ~exists(pods'[current])
        \/ rec.st.reason = "Cancelled" /\ (exists(pods'[current]) => pods'[current].cancel)
    <3>1. \/ pods'[current] = AbsentPod
          \/ /\ rec.st.reason = "Cancelled"
             /\ pods'[current] = [pods[current] EXCEPT !.cancel = exists(pods[current])]
      BY Zenon, <1>3, <2>1, <2>2, KillChanges
    <3>2. LET q == [pods[current] EXCEPT !.cancel = exists(pods[current])]
          IN exists(q) = exists(pods[current]) /\ q.cancel = exists(pods[current])
      BY Zenon, <1>3, ToldShape DEF TypeOK
    <3> QED  BY Zenon, <3>1, <3>2, NewShapes
  <2>4. live(pods'[current]) => exists(pods'[current])
    BY DEF live, exists
  <2>5. /\ StopsWork(rec.st, pods'[current])
        /\ live(pods'[current]) => rec'.cancelled
    BY ZenonT(40), <1>1, <2>2, <2>3, <2>4 DEF StopsWork, stopped
  <2>6. ReconcileSteady'
    BY ZenonT(60), <1>1, <1>4, <1>7, <2>1, <2>2, <2>5, WroteSteadily
  <2> QED  BY ZenonT(60), <1>2, <2>6 DEF SteadyInv
<1>10. CASE CreatesPod
  <2>1. /\ rec.pc = "create" /\ (known(current) => tr.st.pod = current) /\ tr.valid
        /\ rec.st.spec /\ rec.st.pod = tr.st.pod /\ rec.st.tries = current
    BY ZenonT(60), <1>4, <1>10 DEF CreatesPod, SteadyInv, ReconcileSteady
  <2>2. CASE /\ rec'.pc = "status" /\ rec'.seen = NewPod
             /\ rec'.st = rec.st /\ rec'.name = rec.st.tries
    BY ZenonT(60), <1>1, <1>2, <1>3, <1>7, <2>1, <2>2 DEF SteadyInv, ReconcileSteady
  <2>3. CASE /\ rec'.pc = "ready" \/ rec'.pc = "status"
             /\ rec'.seen = podCache[rec.st.tries]
             /\ rec'.st = rec.st /\ rec'.name = rec.st.tries /\ pods' = pods
    <3>1. known(current)' = known(current)
      BY ZenonT(60), <1>1, <1>3, <2>3 DEF known
    <3> QED  BY ZenonT(60), <1>1, <1>2, <1>3, <1>7, <2>1, <2>3, <3>1
                DEF SteadyInv, ReconcileSteady
  <2>4. CASE /\ pods' = pods /\ rec'.seen = rec.seen
             /\ \E t \in Status :
                  Wrote(t) /\ Like(t, rec.st) /\ t.spec = rec.st.spec /\ t.reason = "Pending"
    <3>1. PICK t \in Status :
            Wrote(t) /\ Like(t, rec.st) /\ t.spec = rec.st.spec /\ t.reason = "Pending"
      BY ZenonT(60), <2>4
    <3>2. ~IsDone(t) /\ t.tries = current /\ t.pod = tr.st.pod
      BY ZenonT(60), <2>1, <3>1 DEF IsDone, IsFailure, FailedReason, Like
    <3>3. known(current)' = known(current)
      BY ZenonT(60), <1>1, <1>3, <2>4 DEF known
    <3>4. ReconcileSteady'
      BY ZenonT(60), <1>1, <1>5, <1>6, <1>7, <2>1, <2>4, <3>1, <3>2, <3>3, WroteSteadily
    <3> QED  BY <1>2, <3>4 DEF SteadyInv
  <2>5. "create" \notin Failing
    BY ZenonT(60) DEF Steady
  <2> QED  BY ZenonT(60), <1>10, <2>2, <2>3, <2>4, <2>5 DEF CreatesPod
<1>11. CASE ReadiesPod
  <2>1. /\ rec.pc = "ready" /\ (known(current) => tr.st.pod = current) /\ tr.valid
        /\ rec.st.spec /\ rec.st.pod = tr.st.pod /\ rec.name = current
        /\ rec'.seen = rec.seen /\ ~IsDone(rec.st)
    BY ZenonT(60), <1>11 DEF ReadiesPod, SteadyInv, ReconcileSteady, TruthInv
  <2>2. CASE rec'.pc = "status" /\ rec'.st = rec.st /\ rec'.name = rec.name
    BY ZenonT(60), <1>1, <1>2, <1>3, <1>7, <2>1, <2>2 DEF SteadyInv, ReconcileSteady
  <2>3. CASE Wrote(rec.st)
    <3>1. ReconcileSteady'
      BY ZenonT(60), <1>1, <1>2, <1>4, <1>5, <1>6, <1>7, <2>1, <2>3, WroteSteadily
    <3> QED  BY <1>2, <3>1 DEF SteadyInv
  <2> QED  BY ZenonT(60), <1>11, <2>2, <2>3 DEF ReadiesPod
<1>12. CASE TakesStatus
  <2>1. rec.pc = "status" /\ rec.name = current /\ rec.st.spec /\ rec'.seen = rec.seen /\ pods' = pods
    BY ZenonT(60), <1>12 DEF TakesStatus, SteadyInv, ReconcileSteady
  <2>2. PICK t \in Status :
          /\ t.pod = rec.name /\ t.tries = rec.st.tries
          /\ t.spec = rec.st.spec /\ t.reason \notin stopReasons
          /\ t.reason = "Succeeded" => over(rec.seen)
          /\ IsFailure(t) => over(rec.seen) \/ "config" \in rec.seen.bad
          /\ \/ Wrote(t)
             \/ rec'.pc = "kill" /\ rec'.st = t
    BY ZenonT(60), <1>12 DEF TakesStatus
  <2>3. CASE Wrote(t)
    <3>1. "config" \notin rec.seen.bad
      BY <1>7 DEF Steady
    <3>2. over(rec.seen) => ~live(pods'[current])
      BY ZenonT(40), <2>1 DEF TruthInv, StillSo, over, live
    <3>3. IsDone(t) => ~live(pods'[current])
      BY ZenonT(60), <2>2, <3>1, <3>2 DEF IsDone
    <3>4. StopsWork(t, pods'[current])
      BY ZenonT(60), <2>2, <3>3 DEF StopsWork
    <3>5. ReconcileSteady'
      BY ZenonT(60), <1>1, <1>4, <1>7, <2>1, <2>2, <2>3, <3>3, <3>4, WroteSteadily
    <3> QED  BY <1>2, <3>5 DEF SteadyInv
  <2>4. CASE rec'.pc = "kill" /\ rec'.st = t
    <3>1. t.reason # "Cancelled"
      BY ZenonT(60), <2>2 DEF stopReasons
    <3> QED  BY ZenonT(60), <1>1, <1>2, <1>3, <1>7, <2>1, <2>2, <2>4, <3>1
                DEF SteadyInv, ReconcileSteady
  <2> QED  BY ZenonT(60), <2>2, <2>3, <2>4
<1>13. CASE MissesLabels
  <2>1. /\ rec.pc = "write" /\ rec'.pc = "write" /\ rec'.st = rec.st
        /\ rec'.seen = rec.seen /\ pods' = pods
    BY ZenonT(60), <1>13 DEF MissesLabels
  <2>2. WriteSteady'
    BY ZenonT(60), <1>1, <1>3, <2>1 DEF SteadyInv, ReconcileSteady, WriteSteady, StopsWork,
                                        stopped, known,
       IsDone, IsFailure, live, exists
  <2> QED  BY ZenonT(60), <1>2, <1>7, <2>1, <2>2 DEF SteadyInv, ReconcileSteady
<1> QED  BY ZenonT(60), <1>1, <1>8, <1>9, <1>10, <1>11, <1>12, <1>13

LEMMA WritesSteady ==
  ASSUME TypeOK, AttemptInv, TruthInv, SteadyInv, Writes
  PROVE  SteadyInv'
<1>1. /\ rec.pc = "write" /\ rec' = NoReconcile /\ tr'.st = rec.st /\ tr'.valid = tr.valid
      /\ pods' = pods /\ podCache' = podCache
  BY DEF Writes
<1>2. WriteSteady /\ tr.st.archived \subseteq rec.st.archived
  BY ZenonT(40), <1>1 DEF SteadyInv, ReconcileSteady, TruthInv
<1>3. rec'.pc = "idle" /\ rec'.seen.bad = {}
  <2>1. AbsentPod.bad = {}
    BY ZenonT(60) DEF AbsentPod
  <2> QED  BY ZenonT(60), <1>1, <2>1, NewShapes
<1>4. current \in Attempt /\ current # NoPod /\ current \in Nat /\ current' = rec.st.tries
  BY ZenonT(60), <1>1, ActsOnCurrent DEF current
<1>5. \A a \in rec.st.archived : a < rec.st.tries
  <2>1. Ending(rec)
    BY Zenon, <1>1, NewShapes DEF AttemptInv, Calling
  <2> QED  BY ZenonT(60), <2>1 DEF Ending, Sound
<1>6. \A a \in Attempt : known(a)' = known(a)
  BY <1>1 DEF known
<1>7. /\ \A a \in Attempt : known(a) /\ a # current => a \in rec.st.archived
      /\ \A a \in Attempt : live(pods[a]) => a = current
      /\ \A a \in Attempt : exists(pods[a]) => tr.valid
      /\ \A a \in Attempt : pods[a].bad \subseteq Blockers /\ podCache[a].bad \subseteq Blockers
  BY ZenonT(40), <1>2 DEF SteadyInv, StatusSteady
<1>8. CASE rec.st.tries = current /\ rec.st.pod \in {current, NoPod}
  <2>1. current \notin rec.st.archived
    BY <1>4, <1>5, <1>8
  <2>2. known(current) => rec.st.pod = current
    BY ZenonT(60), <1>2, <2>1 DEF WriteSteady
  <2>3. StopsWork(tr.st, pods[current])'
    BY ZenonT(60), <1>1, <1>2, <1>4, <1>8 DEF WriteSteady, StopsWork, stopped, IsDone,
                                              IsFailure, live, exists
  <2>4. StatusSteady'
    BY ZenonT(40), <1>1, <1>2, <1>4, <1>6, <1>7, <1>8, <2>3 DEF StatusSteady, WriteSteady
  <2>5. ReconcileSteady'
    BY ZenonT(60), <1>1, <1>3, <1>4, <1>6, <1>8, <2>2 DEF ReconcileSteady
  <2> QED  BY ZenonT(60), <2>4, <2>5 DEF SteadyInv
<1>9. CASE /\ rec.st.tries = current + 1 /\ rec.st.pod = NoPod
           /\ ~IsDone(rec.st) /\ ~live(pods[current])
  <2>1. current' \in Attempt /\ ~known(current')
    <3>1. rec.st.tries \in Attempt
      BY ZenonT(60), ReconcileFields, StatusFields DEF TypeOK
    <3> QED  BY ZenonT(60), <1>4, <1>9, <3>1, ActsOnCurrent
  <2>2. ~known(current)'
    BY ZenonT(60), <1>1, <2>1 DEF known
  <2>3. known(current) => current \in rec.st.archived
    BY ZenonT(60), <1>2, <1>4, <1>9 DEF WriteSteady
  <2>4. /\ \A a \in Attempt : known(a)' /\ a # current' => a \in rec.st.archived
        /\ \A a \in Attempt : ~live(pods[a])
    BY ZenonT(60), <1>6, <1>7, <1>9, <2>3
  <2>5. StopsWork(tr.st, pods[current])'
    BY ZenonT(60), <1>1, <1>9 DEF StopsWork, IsDone, IsFailure, FailedReason, stopReasons
  <2>6. StatusSteady'
    BY ZenonT(60), <1>1, <1>7, <1>9, <2>4, <2>5 DEF StatusSteady
  <2>7. ReconcileSteady'
    BY ZenonT(60), <1>3, <2>2 DEF ReconcileSteady
  <2> QED  BY <2>6, <2>7 DEF SteadyInv
<1> QED  BY ZenonT(60), <1>2, <1>8, <1>9 DEF WriteSteady

LEMMA OtherSteady ==
  ASSUME TypeOK, AttemptInv, PodsInv, SteadyInv, [Next]_vars, Others, ~Call
  PROVE  SteadyInv'
<1>1. /\ rec' = rec /\ tr'.st = tr.st /\ tr'.valid = tr.valid
      /\ podCache' = podCache \/ podCache' = pods
  BY DEF Others
<1>2. ~KillPod /\ ~CreatePod
  BY ZenonT(60) DEF Call
<1>3. StatusSteady' /\ (known(current)' => known(current))
  BY ZenonT(60), <1>1, <1>2, StatusKeeps
<1>4. current' = current /\ current \in Attempt
  BY ZenonT(60), <1>1, ActsOnCurrent DEF current
<1>5. rec.pc = "write" => WriteSteady'
  <2> SUFFICES ASSUME rec.pc = "write" PROVE WriteSteady'
    BY SMTT(60)
  <2>1. WriteSteady
    BY ZenonT(60) DEF SteadyInv, ReconcileSteady
  <2>2. /\ live(pods'[current]) => live(pods[current])
        /\ stopped(pods[current]) => stopped(pods'[current])
        /\ pods[current].cancel /\ exists(pods'[current]) => pods'[current].cancel
        /\ live(pods'[current]) => exists(pods'[current])
    BY ZenonT(60), <1>2, <1>4, PodsChange DEF live, exists
  <2>3. StopsWork(rec.st, pods[current]) => StopsWork(rec.st, pods'[current])
    BY ZenonT(60), <2>2 DEF StopsWork
  <2>4. StopsWork(rec.st, pods[current])'
    BY ZenonT(60), <1>1, <1>4, <2>1, <2>3 DEF WriteSteady, StopsWork, stopped, IsDone,
                                              IsFailure, live, exists
  <2>5. ~live(pods[current]) => ~live(pods[current])'
    BY ZenonT(60), <1>4, <2>2 DEF live
  <2>6. ~IsDone(rec.st)' = ~IsDone(rec.st)
    BY <1>1 DEF IsDone, IsFailure
  <2> QED  BY ZenonT(60), <1>1, <1>3, <1>4, <2>1, <2>4, <2>5, <2>6 DEF WriteSteady
<1> QED  BY ZenonT(60), <1>1, <1>3, <1>4, <1>5 DEF SteadyInv, ReconcileSteady

WholeInv == TypeOK /\ AttemptInv /\ PodsInv /\ ClockInv /\ TruthInv /\ SteadyInv

LEMMA InitWhole == ASSUME Init PROVE WholeInv
<1>1. TypeOK /\ AttemptInv /\ PodsInv /\ ClockInv /\ TruthInv
  BY ZenonT(60), InitTypes, InitAttempts, InitTruth
<1>2. /\ tr.st = NewStatus /\ rec = NoReconcile
      /\ pods = [a \in Attempt |-> AbsentPod] /\ podCache = pods
  BY DEF Init
<1>3. /\ rec.pc = "idle" /\ rec.seen = AbsentPod
      /\ tr.st.reason = "" /\ tr.st.pod = NoPod
  BY Zenon, <1>2, NewShapes
<1>4. AbsentPod.bad = {}
  BY DEF AbsentPod
<1>5. \A a \in Attempt : ~known(a) /\ ~live(pods[a]) /\ pods[a].bad = {} /\ podCache[a].bad = {}
  BY ZenonT(60), <1>2, <1>4, NewShapes DEF known
<1>6. current \in Attempt
  BY ZenonT(60), <1>1, ActsOnCurrent
<1>7. StopsWork(tr.st, pods[current])
  BY Zenon, <1>3 DEF StopsWork, IsDone, IsFailure, FailedReason, stopReasons
<1>8. StatusSteady
  BY Zenon, <1>3, <1>5, <1>7 DEF StatusSteady, known
<1>9. ReconcileSteady
  BY ZenonT(60), <1>3, <1>4, <1>5, <1>6 DEF ReconcileSteady
<1> QED  BY ZenonT(60), <1>1, <1>8, <1>9 DEF WholeInv, SteadyInv

LEMMA NextWhole == ASSUME Steady, WholeInv, [Next]_vars PROVE WholeInv'
<1>1. /\ TypeOK /\ AttemptInv /\ PodsInv /\ ClockInv /\ TruthInv /\ SteadyInv
      /\ ReadsOwnWrites /\ "status" \notin Failing /\ "crash" \notin Failing
  BY DEF WholeInv, Steady
<1>2. TypeOK' /\ AttemptInv'
  BY ZenonT(60), <1>1, StepTypes, StepAttempts
<1>3. PodsInv' /\ ClockInv'
  BY ZenonT(60), <1>1, <1>2, NextPodsInv, NextClockInv
<1>4. ASSUME Begin PROVE TruthInv' /\ SteadyInv'
  BY ZenonT(60), <1>1, <1>4, BeginTruth, BeginSteady
<1>5. ASSUME Call \/ CallFails \/ UpdateLabelsFails PROVE TruthInv' /\ SteadyInv'
  BY ZenonT(60), <1>1, <1>5, CallTruth, CallSteady
<1>6. ASSUME Writes PROVE TruthInv' /\ SteadyInv'
  BY ZenonT(60), <1>1, <1>6, WriteTruth, WritesSteady
<1>7. ASSUME Others, ~Call PROVE TruthInv' /\ SteadyInv'
  BY ZenonT(60), <1>1, <1>2, <1>7, OtherTruth, OtherSteady
<1>8. ~LosesWrite
  BY <1>1 DEF LosesWrite
<1>9. TruthInv' /\ SteadyInv'
  BY ZenonT(60), <1>1, <1>4, <1>5, <1>6, <1>7, <1>8, NextKinds
<1> QED  BY ZenonT(60), <1>2, <1>3, <1>9 DEF WholeInv

LEMMA WholeInvariant == ASSUME Steady PROVE Spec => []WholeInv
<1>1. Init => WholeInv
  BY InitWhole
<1>2. WholeInv /\ [Next]_vars => WholeInv'
  BY NextWhole
<1> QED  BY <1>1, <1>2, PTL DEF Spec

(***************************************************************************)
(* The steps of two pods of a TaskRun never run beside each other,         *)
(* whatever the number of retries, however late the pod cache is and       *)
(* wherever pods are lost or updates of theirs refused: the status names   *)
(* the pod of the current attempt before the reconcile ends, and the       *)
(* attempt is left behind only when that pod is over or deleted.           *)
(***************************************************************************)
THEOREM OnePodLives == ASSUME Steady PROVE Spec => []OneLivePod
<1>1. WholeInv => OneLivePod
  BY Zenon DEF WholeInv, SteadyInv, StatusSteady, OneLivePod
<1> QED  BY <1>1, WholeInvariant, PTL

(***************************************************************************)
(* Once a TaskRun is done no step of any of its pods goes on, except in a  *)
(* pod kept on cancel, which has been told to stop: failTaskRun deletes    *)
(* the pod before the status says so, and no other pod is left.            *)
(***************************************************************************)
THEOREM DoneIsStopped == ASSUME Steady PROVE Spec => []DoneMeansStopped
<1>1. WholeInv => DoneMeansStopped
  BY ZenonT(40) DEF WholeInv, SteadyInv, StatusSteady, StopsWork, DoneMeansStopped
<1> QED  BY <1>1, WholeInvariant, PTL

\* While sidecars of a TaskRun that is done run, something is left that has it reconciled.
SideInv ==
  /\ rec.pc # "idle" => trCache.st = tr.st
  /\ IsDone(tr.st) /\ tr.st.pod # NoPod /\ sidecarsOn(tr.st.pod) =>
       \/ queued
       \/ trCache # tr
       \/ rec.pc = "stop"
       \/ rec.pc = "write" /\ rec.out = "retry"

LEMMA NextSide ==
  ASSUME Steady, "stop" \notin Failing, WholeInv, TypeOK', SideInv, [Next]_vars
  PROVE  SideInv'
<1>1. /\ TypeOK /\ AttemptInv /\ PodsInv /\ TruthInv /\ SteadyInv
      /\ ReadsOwnWrites /\ "status" \notin Failing /\ "crash" \notin Failing
  BY ZenonT(60) DEF WholeInv, Steady
<1>2. tr.st.pod # NoPod => tr.st.pod = current /\ tr.st.pod \in Attempt
  BY ZenonT(60), <1>1, ActsOnCurrent DEF SteadyInv, StatusSteady
<1>3. tr.st.reason \in stopReasons /\ tr.st.pod # NoPod => ~sidecarsOn(tr.st.pod)
  BY ZenonT(60), <1>1, <1>2 DEF SteadyInv, StatusSteady, StopsWork, stopped, exists, sidecarsOn
<1>4. ASSUME Begin PROVE SideInv'
  <2>1. /\ UNCHANGED <<tr, trCache, pods>> /\ trCache.st = tr.st
        /\ BeginsDone \/ BeginsFailing \/ BeginsWaiting \/ BeginsWork
    BY ZenonT(60), <1>1, <1>4, BeginKinds
  <2>2. IsDone(tr.st) /\ tr.st.pod # NoPod /\ sidecarsOn(tr.st.pod) => rec'.pc = "stop"
    BY Zenon, <1>3, <2>1 DEF BeginsDone, BeginsFailing, BeginsWaiting, BeginsWork
  <2> QED  BY ZenonT(60), <2>1, <2>2 DEF SideInv, IsDone, IsFailure, sidecarsOn
<1>5. ASSUME Call \/ CallFails \/ UpdateLabelsFails PROVE SideInv'
  <2>1. /\ UNCHANGED <<tr, trCache, queued>>
        /\ \/ StopsSidecars \/ StopsPod \/ CreatesPod \/ ReadiesPod \/ TakesStatus
           \/ MissesLabels
    BY ZenonT(60), <1>1, <1>5, CallKinds DEF PodsInv
  <2>2. trCache.st = tr.st
    BY ZenonT(40), <2>1 DEF SideInv, StopsSidecars, StopsPod, CreatesPod, ReadiesPod,
                            TakesStatus, MissesLabels
  <2>3. CASE StopsSidecars
    <3>1. rec.pc = "stop" /\ rec'.pc = "write" /\ rec.st.pod = tr.st.pod
      BY ZenonT(40), <1>1, <2>3 DEF StopsSidecars, Wrote, TruthInv
    <3>2. rec'.out = "retry" \/ (tr.st.pod \in Attempt => ~sideOn(pods'[tr.st.pod]))
      BY Zenon, <2>3, <3>1 DEF StopsSidecars
    <3>3. \A a : sidecarsOn(a)' => sideOn(pods'[a])
      BY ZenonT(60) DEF sidecarsOn, sideOn
    <3> QED  BY ZenonT(60), <1>2, <2>1, <2>2, <3>1, <3>2, <3>3 DEF SideInv
  <2>4. CASE StopsPod \/ CreatesPod \/ ReadiesPod \/ TakesStatus
    <3>1. ~IsDone(tr.st)
      BY ZenonT(40), <1>1, <2>4, ActsOnCurrent DEF StopsPod, CreatesPod, ReadiesPod, TakesStatus
    <3> QED  BY ZenonT(60), <2>1, <2>2, <3>1 DEF SideInv, IsDone, IsFailure
  <2>5. CASE MissesLabels
    BY ZenonT(60), <2>1, <2>2, <2>5 DEF SideInv, MissesLabels
  <2> QED  BY ZenonT(60), <2>1, <2>3, <2>4, <2>5
<1>6. ASSUME Writes PROVE SideInv'
  <2>1. /\ rec.pc = "write" /\ rec'.pc = "idle" /\ tr'.st = rec.st
        /\ tr'.cancelled = tr.cancelled /\ tr'.valid = tr.valid
        /\ UNCHANGED <<trCache, pods>> /\ (queued \/ rec.out = "retry" => queued')
    BY ZenonT(60), <1>6, NewShapes DEF Writes
  <2>2. CASE tr' # trCache
    BY ZenonT(60), <2>1, <2>2 DEF SideInv
  <2>3. CASE tr' = trCache
    <3>1. tr'.st = tr.st
      BY ZenonT(60), <2>1, <2>3 DEF SideInv
    <3>2. tr' = tr
      BY <1>1, <2>1, <3>1 DEF TypeOK
    <3> QED  BY ZenonT(60), <2>1, <2>3, <3>2 DEF SideInv, sidecarsOn
  <2> QED  BY ZenonT(60), <2>2, <2>3
<1>7. ASSUME Others, ~Call PROVE SideInv'
  <2>1. /\ rec' = rec /\ tr'.st = tr.st
        /\ \/ trCache' = trCache /\ (queued => queued')
           \/ trCache' = tr /\ tr' = tr /\ queued'
        /\ tr' = tr \/ trCache' # tr'
    BY <1>7 DEF Others
  <2>2. rec'.pc # "idle" => trCache'.st = tr'.st
    BY SMTT(60), <2>1 DEF SideInv
  <2>3. ASSUME IsDone(tr.st), tr.st.pod # NoPod, sidecarsOn(tr.st.pod)' PROVE sidecarsOn(tr.st.pod)
    <3> DEFINE a == tr.st.pod
    <3>1. PodGoesOn(pods[a], pods'[a])
      BY ZenonT(40), <1>1, <1>2, <1>7, <2>3, PodsGoOn DEF Call
    <3>2. pods'[a].phase = "Running" /\ pods'[a].side \in {"off", "on"} /\ ~pods'[a].cancel
      BY ZenonT(60), <2>1, <2>3 DEF sidecarsOn
    <3>3. ~pods[a].cancel /\ (pods[a].phase = "Pending" \/ sideOn(pods[a]))
      BY SMTT(60), <3>1, <3>2 DEF PodGoesOn, sideOn, exists
    <3>4. ~live(pods[a])
      BY ZenonT(60), <1>1, <1>2, <2>3, <3>3 DEF SteadyInv, StatusSteady, StopsWork
    <3>5. pods[a].phase # "Pending"
      BY ZenonT(60), <1>1, <1>2, <2>3, <3>4 DEF PodsInv, Shape, live
    <3> QED  BY <3>3, <3>5 DEF sidecarsOn, sideOn
  <2> QED  BY ZenonT(60), <2>1, <2>2, <2>3 DEF SideInv, IsDone, IsFailure
<1>8. ~LosesWrite
  BY <1>1 DEF LosesWrite
<1> QED  BY ZenonT(60), <1>1, <1>4, <1>5, <1>6, <1>7, <1>8, NextKinds

(***************************************************************************)
(* stopSidecars gets to every TaskRun that ends: a TaskRun that is done    *)
(* and of which no event, queued key or reconcile is left has no sidecar   *)
(* running in the pod its status names, unless that pod was kept on        *)
(* cancel.  Updates that conflict are retried; that stopping sidecars      *)
(* fails otherwise, which the reconciler takes for final, is left out.     *)
(***************************************************************************)
THEOREM SidecarsAreStopped ==
  ASSUME Steady, "stop" \notin Failing
  PROVE  Spec => []SidecarsStopped
<1>1. Init => SideInv
  <2> SUFFICES ASSUME Init PROVE SideInv
    OBVIOUS
  <2>1. rec = NoReconcile /\ queued
    BY DEF Init
  <2> QED  BY Zenon, <2>1, NewShapes DEF SideInv
<1>2. WholeInv /\ WholeInv' /\ SideInv /\ [Next]_vars => SideInv'
  BY NextSide DEF WholeInv
<1>3. SideInv => SidecarsStopped
  BY DEF SideInv, SidecarsStopped, quiet
<1> QED  BY <1>1, <1>2, <1>3, WholeInvariant, PTL DEF Spec
=============================================================================
