------------------------------ MODULE TaskRun ------------------------------
(***************************************************************************)
(* The TaskRun reconciler (pkg/reconciler/taskrun) at work on one TaskRun, *)
(* with the pods it creates, one per attempt.  It reads informer caches    *)
(* that lag behind the API server, makes its calls one at a time, any of   *)
(* which may fail, and writes the status at the end.  The kubelet runs the *)
(* pods, the user may cancel, and the clock runs.                          *)
(***************************************************************************)
EXTENDS Naturals, FiniteSets

CONSTANTS
  Retries,              \* spec.retries
  Sidecars,             \* the Task has sidecars, whose readiness is awaited
  KeepPod,              \* feature flag keep-pod-on-cancel
  RecoverPulls,         \* default-imagepullbackoff-timeout is set
  Timed,                \* the TaskRun has a timeout
  Cancels,              \* the user may cancel
  Blockers,             \* what may keep a pod from starting
  Outcomes,             \* what fetching the Task and reading results may end in
  Failing,              \* the API calls that may fail, and crashes
  ReadsOwnWrites,       \* the cache holds the status the reconciler wrote last
  MaxFaults             \* bound: failures and crashes

VARIABLES
  tr,                   \* the TaskRun in the API server
  trCache,              \* the TaskRun in the informer cache
  pods,                 \* its pods in the API server, by attempt
  podCache,             \* its pods in the informer cache
  stamp,                \* the start times given out so far are 1..stamp
  expired,              \* the timeouts counted from 1..expired have passed
  rec,                  \* the reconcile in progress
  queued,               \* the key is in the work queue
  snooze,               \* start times whose timeout requeues the key
  faults                \* failures so far

vars == <<tr, trCache, pods, podCache, stamp, expired, rec, queued, snooze, faults>>

-----------------------------------------------------------------------------
\* A pod is named after the number of retries before it.
Attempt == 0..Retries
NoPod == Retries + 1

(***************************************************************************)
(* A pod: its phase; its step containers as a whole; its sidecars; what    *)
(* keeps it Pending (an image of a step or of a sidecar that cannot be     *)
(* pulled, a configuration error); and its two annotations.                *)
(***************************************************************************)
Pod ==
  [phase : {"Absent", "Pending", "Running", "Succeeded", "Failed"},
   steps : {"created", "going", "ok", "failed"},
   side : {"none", "off", "on", "nop", "stopped"},
   bad : SUBSET {"step", "side", "config"},
   ready : BOOLEAN, cancel : BOOLEAN]

AbsentPod ==
  [phase |-> "Absent", steps |-> "created", side |-> "none", bad |-> {},
   ready |-> FALSE, cancel |-> FALSE]

NewPod ==
  [phase |-> "Pending", steps |-> "created",
   side |-> IF Sidecars THEN "off" ELSE "none", bad |-> {},
   ready |-> ~Sidecars, cancel |-> FALSE]

exists(p) == p.phase # "Absent"

\* Some step of the pod may still run.
live(p) == p.phase \in {"Pending", "Running"} /\ p.steps \in {"created", "going"}

FailedReason ==
  {"Failed", "Cancelled", "TimedOut", "ImagePullFailed", "ConfigError", "Invalid",
   "CreationFailed", "ResultTooLarge", "StopSidecarFailed"}
OngoingReason == {"", "Started", "Running", "Pending", "Resolving", "ToBeRetried"}

\* status: startTime as a stamp (0 if unset), retriesStatus as the number of
\* its entries and the pods they name, steps and sidecars as "one of them is
\* waiting for an image that cannot be pulled".
Status ==
  [reason : {"Succeeded"} \cup FailedReason \cup OngoingReason, start : Nat,
   pod : 0..NoPod, tries : Attempt, archived : SUBSET Attempt, spec : BOOLEAN,
   stepWait : BOOLEAN, sideWait : BOOLEAN]

NewStatus ==
  [reason |-> "", start |-> 0, pod |-> NoPod, tries |-> 0, archived |-> {},
   spec |-> FALSE, stepWait |-> FALSE, sideWait |-> FALSE]

IsFailure(st) == st.reason \in FailedReason
IsDone(st) == st.reason = "Succeeded" \/ IsFailure(st)
IsRetriable(st) == st.tries < Retries
HasTimedOut(st) == Timed /\ st.start # 0 /\ st.start <= expired

(***************************************************************************)
(* A reconcile: the API call it is about to make (pc), spec.status and the *)
(* status as cached (orig), the working copy of the status, the pod it     *)
(* found with what the cache says of it, and how it will end.              *)
(***************************************************************************)
NoReconcile ==
  [pc |-> "idle", cancelled |-> FALSE, orig |-> NewStatus, st |-> NewStatus,
   name |-> NoPod, seen |-> AbsentPod, out |-> "nil"]

ReconcileType ==
  [pc : {"idle", "stop", "kill", "create", "ready", "status", "write"},
   cancelled : BOOLEAN, orig : Status, st : Status, name : 0..NoPod, seen : Pod,
   out : {"nil", "ok", "retry", "permanent"}]

ASSUME TaskRunAssumption ==
  /\ Retries \in Nat
  /\ Sidecars \in BOOLEAN
  /\ KeepPod \in BOOLEAN
  /\ RecoverPulls \in BOOLEAN
  /\ Timed \in BOOLEAN
  /\ Cancels \in BOOLEAN
  /\ Blockers \subseteq {"step", "side", "config"}
  /\ Outcomes \subseteq {"resolving", "retry", "failed", "invalid", "large", "badresult"}
  /\ Failing \subseteq {"stop", "conflict", "kill", "ready", "create", "quota", "logs",
                        "labels", "status", "crash", "lost"}
  /\ ReadsOwnWrites \in BOOLEAN
  /\ MaxFaults \in Nat

\* valid: the Task and the TaskRun pass validation.
Init ==
  /\ tr \in [cancelled : {FALSE}, valid : IF "invalid" \in Outcomes THEN BOOLEAN ELSE {TRUE},
             st : {NewStatus}]
  /\ trCache = tr
  /\ pods = [a \in Attempt |-> AbsentPod]
  /\ podCache = pods
  /\ stamp = 0
  /\ expired = 0
  /\ rec = NoReconcile
  /\ queued = TRUE
  /\ snooze = {}
  /\ faults = 0

\* One more failure, of a call of this kind.
fault(kind) ==
  /\ kind \in Failing
  /\ faults < MaxFaults
  /\ faults' = faults + 1

-----------------------------------------------------------------------------
\* Reading a pod (pkg/pod/status.go).

SidecarsReady(p) == p.phase = "Running" /\ p.side # "off"

DidTaskRunFail(p) == p.phase = "Failed" \/ p.steps = "failed"

areContainersCompleted(p) ==
  p.phase \in {"Running", "Succeeded"} /\ p.steps \in {"ok", "failed"}

isPodCompleted(p) == p.phase \in {"Succeeded", "Failed"}

\* Mutant: a failed step counts only once the pod has failed.
phaseReason(p) == IF p.phase = "Failed" THEN "Failed" ELSE "Succeeded"

completedReason(p) == IF DidTaskRunFail(p) THEN "Failed" ELSE "Succeeded"

incompleteReason(p) ==
  CASE p.phase = "Running"  -> "Running"
    [] "config" \in p.bad   -> "ConfigError"
    [] OTHER                -> "Pending"

\* Of the states of the steps and sidecars the reconciler reads back only that
\* one of them waits for its image.
setTaskRunStatusBasedOnStepStatus(p) == "step" \in p.bad
setTaskRunStatusBasedOnSidecarStatus(p) == "side" \in p.bad

MakeTaskRunStatus(st, a, p) ==
  [st EXCEPT !.reason = IF areContainersCompleted(p) \/ isPodCompleted(p)
                        THEN completedReason(p) ELSE incompleteReason(p),
             !.pod = a,
             !.stepWait = setTaskRunStatusBasedOnStepStatus(p),
             !.sideWait = setTaskRunStatusBasedOnSidecarStatus(p)]

-----------------------------------------------------------------------------
\* The parts of a reconcile between two calls; R is the reconcile so far.

\* The pod name and the sidecars of the failed attempt: the name is dropped,
\* status.sidecars stays.
retryTaskRun(st) ==
  [st EXCEPT !.tries = @ + 1,
             !.archived = @ \cup ({st.pod} \ {NoPod}),
             !.start = 0,
             !.pod = NoPod,
             !.reason = "ToBeRetried"]

\* Mutant: the failure is written first, and retried by the next reconcile.
finishThenRetry(R, out) ==
  [R EXCEPT !.pc = "write",
            !.st = IF IsFailure(R.orig) /\ ~R.cancelled /\ IsRetriable(R.st)
                   THEN retryTaskRun(R.st) ELSE R.st,
            !.out = out]

finishReconcileUpdateEmitEvents(R, out) ==
  [R EXCEPT !.pc = "write",
            !.st = IF IsFailure(R.st) /\ ~R.cancelled /\ IsRetriable(R.st)
                   THEN retryTaskRun(R.st) ELSE R.st,
            !.out = out]

\* Mutant: the pod is left alone.
failAndLeavePod(R, why) ==
  finishReconcileUpdateEmitEvents([R EXCEPT !.st.reason = why, !.st.stepWait = FALSE], "nil")

\* With a pod to stop, the call that stops it comes next.
failTaskRun(R, why) ==
  LET S == [R EXCEPT !.st.reason = why]
  IN IF R.st.pod = NoPod
     THEN finishReconcileUpdateEmitEvents(S, "nil")
     ELSE [S EXCEPT !.pc = "kill", !.st.stepWait = FALSE]

\* The pod found or created: first step released once the sidecars are ready.
usePod(R, a, p) ==
  [R EXCEPT !.pc = IF SidecarsReady(p) /\ ~p.ready THEN "ready" ELSE "status",
            !.name = a, !.seen = p]

\* Mutant: pods of earlier attempts are adopted too.
foundAnyPod(st, view) ==
  IF st.pod # NoPod
  THEN {a \in {st.pod} : exists(view[a])}
  ELSE {a \in Attempt : exists(view[a]) /\ ~DidTaskRunFail(view[a])}

\* The pod the status names or, when it names none, a pod of this TaskRun that
\* has not failed and is of no earlier attempt.
foundPods(st, view) ==
  IF st.pod # NoPod
  THEN {a \in {st.pod} : exists(view[a])}
  ELSE {a \in Attempt : exists(view[a]) /\ ~DidTaskRunFail(view[a]) /\ a \notin st.archived}

-----------------------------------------------------------------------------
\* ReconcileKind, up to its first call.

InitializeConditions(st) ==
  IF st.start # 0 THEN st
  ELSE [st EXCEPT !.start = stamp + 1, !.reason = "Started"]

begun ==
  [NoReconcile EXCEPT !.cancelled = trCache.cancelled,
                      !.orig = trCache.st,
                      !.st = InitializeConditions(trCache.st)]

\* A worker takes the key and works on the cached TaskRun.
Dequeue ==
  /\ rec.pc = "idle"
  /\ queued
  /\ ReadsOwnWrites => trCache.st = tr.st
  /\ queued' = FALSE
  /\ stamp' = IF trCache.st.start = 0 THEN stamp + 1 ELSE stamp
  /\ UNCHANGED <<tr, trCache, pods, podCache, expired, snooze, faults>>

\* Mutant: the sidecars of a failed TaskRun are taken for stopped.
anyFailure == FailedReason

stopReasons == {"Cancelled", "TimedOut"}

ReconcileDone ==
  /\ Dequeue
  /\ IsDone(begun.st)
  /\ rec' = IF begun.st.pod = NoPod \/ begun.st.reason \in stopReasons
            THEN finishReconcileUpdateEmitEvents(begun, "nil")
            ELSE [begun EXCEPT !.pc = "stop"]

ReconcileCancelled ==
  /\ Dequeue
  /\ ~IsDone(begun.st)
  /\ begun.cancelled
  /\ rec' = failTaskRun(begun, "Cancelled")

ReconcileTimedOut ==
  /\ Dequeue
  /\ ~IsDone(begun.st)
  /\ ~begun.cancelled
  /\ HasTimedOut(begun.st)
  /\ rec' = failTaskRun(begun, "TimedOut")

goesOn(R) == ~IsDone(R.st) /\ ~R.cancelled /\ ~HasTimedOut(R.st)

\* An image that cannot be pulled fails the attempt, at once or when the time
\* allowed for it to recover has passed (or its pod cannot be read).
imageWaits(st) == st.stepWait \/ st.sideWait
mayRecover(st) == RecoverPulls /\ st.pod # NoPod /\ exists(pods[st.pod])
checkPodFailed(st) == imageWaits(st) /\ ~mayRecover(st)

ReconcilePullFailed ==
  /\ Dequeue
  /\ goesOn(begun)
  /\ imageWaits(begun.st)
  /\ rec' = failTaskRun(begun, "ImagePullFailed")

\* prepare: the Task is fetched (unless the status already holds it) ...
PrepareResolving ==
  /\ Dequeue
  /\ goesOn(begun)
  /\ ~checkPodFailed(begun.st)
  /\ ~begun.st.spec
  /\ "resolving" \in Outcomes
  /\ rec' = finishReconcileUpdateEmitEvents([begun EXCEPT !.st.reason = "Resolving"], "retry")

PrepareRetry ==
  /\ Dequeue
  /\ goesOn(begun)
  /\ ~checkPodFailed(begun.st)
  /\ ~begun.st.spec
  /\ "retry" \in Outcomes
  /\ rec' = finishReconcileUpdateEmitEvents(begun, "retry")

PrepareFailed ==
  /\ Dequeue
  /\ goesOn(begun)
  /\ ~checkPodFailed(begun.st)
  /\ ~begun.st.spec
  /\ "failed" \in Outcomes
  /\ rec' = finishReconcileUpdateEmitEvents([begun EXCEPT !.st.reason = "Invalid"], "permanent")

\* ... stored in the status, and validated.
PrepareInvalid ==
  /\ Dequeue
  /\ goesOn(begun)
  /\ ~checkPodFailed(begun.st)
  /\ ~tr.valid
  /\ rec' = finishReconcileUpdateEmitEvents(
              [begun EXCEPT !.st.spec = TRUE, !.st.reason = "Invalid"], "permanent")

Reconcile ==
  /\ Dequeue
  /\ goesOn(begun)
  /\ ~checkPodFailed(begun.st)
  /\ tr.valid
  /\ LET R == [begun EXCEPT !.st.spec = TRUE]
         found == foundPods(R.st, podCache)
     IN \/ /\ found = {}
           /\ rec' = [R EXCEPT !.pc = "create"]
        \/ \E a \in found : rec' = usePod(R, a, podCache[a])

Begin ==
  \/ ReconcileDone \/ ReconcileCancelled \/ ReconcileTimedOut \/ ReconcilePullFailed
  \/ PrepareResolving \/ PrepareRetry \/ PrepareFailed \/ PrepareInvalid \/ Reconcile

-----------------------------------------------------------------------------
\* The calls of a reconcile, one action each.

calls(pc) ==
  /\ rec.pc = pc
  /\ UNCHANGED <<tr, trCache, podCache, stamp, expired, queued, snooze>>

\* The images of running sidecars are replaced by one that exits, and the
\* sidecars' statuses are read again.
StopSidecars ==
  /\ calls("stop")
  /\ LET a == rec.st.pod
         p == pods[a]
     IN \/ /\ exists(p)
           /\ pods' = IF p.phase = "Running" /\ p.side \in {"off", "on"}
                      THEN [pods EXCEPT ![a].side = "nop"] ELSE pods
           /\ rec' = finishReconcileUpdateEmitEvents(
                       [rec EXCEPT !.st.sideWait = "side" \in p.bad], "nil")
        \/ /\ ~exists(p)
           /\ rec' = [rec EXCEPT !.pc = "write", !.out = "permanent"]
           /\ UNCHANGED pods
  /\ UNCHANGED faults

StopConflict ==
  /\ calls("stop")
  /\ fault("conflict")
  /\ rec' = [rec EXCEPT !.pc = "write", !.out = "retry"]
  /\ UNCHANGED pods

StopFails ==
  /\ calls("stop")
  /\ fault("stop")
  /\ rec' = finishReconcileUpdateEmitEvents(
              [rec EXCEPT !.st.reason = "StopSidecarFailed"], "nil")
  /\ UNCHANGED pods

\* Mutant: every pod is kept, whatever it is stopped for.
KillOrKeepPod ==
  /\ calls("kill")
  /\ pods' = IF KeepPod
             THEN [pods EXCEPT ![rec.st.pod].cancel = exists(pods[rec.st.pod])]
             ELSE [pods EXCEPT ![rec.st.pod] = AbsentPod]
  /\ rec' = finishReconcileUpdateEmitEvents(rec, "nil")
  /\ UNCHANGED faults

\* Delete the pod or, if a cancelled pod is to be kept, tell its steps to stop.
\* A pod that is gone already is as good.
KillPod ==
  /\ calls("kill")
  /\ pods' = IF rec.st.reason = "Cancelled" /\ KeepPod
             THEN [pods EXCEPT ![rec.st.pod].cancel = exists(pods[rec.st.pod])]
             ELSE [pods EXCEPT ![rec.st.pod] = AbsentPod]
  /\ rec' = finishReconcileUpdateEmitEvents(rec, "nil")
  /\ UNCHANGED faults

KillFails ==
  /\ calls("kill")
  /\ fault("kill")
  /\ rec' = finishReconcileUpdateEmitEvents(rec, "retry")
  /\ UNCHANGED pods

\* The name of the pod is that of the attempt, so the pod of an earlier
\* reconcile the cache does not show yet is met here.
CreatePod ==
  /\ calls("create")
  /\ LET a == rec.st.tries
     IN \/ /\ ~exists(pods[a])
           /\ pods' = [pods EXCEPT ![a] = NewPod]
           /\ rec' = usePod(rec, a, NewPod)
        \/ /\ exists(pods[a])
           /\ rec' = IF exists(podCache[a])
                     THEN usePod(rec, a, podCache[a])
                     ELSE finishReconcileUpdateEmitEvents(
                            [rec EXCEPT !.st.reason = "Pending"], "retry")
           /\ UNCHANGED pods
  /\ UNCHANGED faults

\* Out of quota: the attempt has not started, and is tried again later.
CreateOverQuota ==
  /\ calls("create")
  /\ fault("quota")
  /\ rec' = finishReconcileUpdateEmitEvents(
              [rec EXCEPT !.st.reason = "Pending", !.st.start = 0], "retry")
  /\ UNCHANGED pods

\* Refused by validation or admission (an error that requeues), or failed
\* otherwise, the volume claims included (a permanent one).
CreateFails ==
  /\ calls("create")
  /\ fault("create")
  /\ \E out \in {"retry", "permanent"} :
       rec' = finishReconcileUpdateEmitEvents([rec EXCEPT !.st.reason = "CreationFailed"], out)
  /\ UNCHANGED pods

UpdateReady ==
  /\ calls("ready")
  /\ IF exists(pods[rec.name])
     THEN /\ pods' = [pods EXCEPT ![rec.name].ready = TRUE]
          /\ rec' = [rec EXCEPT !.pc = "status"]
     ELSE /\ rec' = finishReconcileUpdateEmitEvents(rec, "retry")
          /\ UNCHANGED pods
  /\ UNCHANGED faults

UpdateReadyFails ==
  /\ calls("ready")
  /\ fault("ready")
  /\ rec' = finishReconcileUpdateEmitEvents(rec, "retry")
  /\ UNCHANGED pods

withStatus == [rec EXCEPT !.st = MakeTaskRunStatus(@, rec.name, rec.seen)]

MakeStatus ==
  /\ calls("status")
  /\ rec' = finishReconcileUpdateEmitEvents(withStatus, "ok")
  /\ UNCHANGED <<pods, faults>>

\* The results cannot be read from the log: the status is kept all the same.
MakeStatusFails ==
  /\ calls("status")
  /\ fault("logs")
  /\ rec' = finishReconcileUpdateEmitEvents(withStatus, "retry")
  /\ UNCHANGED pods

ResultsTooLarge ==
  /\ calls("status")
  /\ "large" \in Outcomes
  /\ areContainersCompleted(rec.seen)
  /\ rec' = failTaskRun(withStatus, "ResultTooLarge")
  /\ UNCHANGED <<pods, faults>>

ResultsInvalid ==
  /\ calls("status")
  /\ "badresult" \in Outcomes
  /\ withStatus.st.reason = "Succeeded"
  /\ rec' = finishReconcileUpdateEmitEvents([withStatus EXCEPT !.st.reason = "Invalid"], "retry")
  /\ UNCHANGED <<pods, faults>>

Call ==
  \/ StopSidecars \/ KillPod \/ CreatePod \/ UpdateReady
  \/ MakeStatus \/ ResultsTooLarge \/ ResultsInvalid

CallFails ==
  \/ StopConflict \/ StopFails \/ KillFails \/ CreateOverQuota \/ CreateFails
  \/ UpdateReadyFails \/ MakeStatusFails

-----------------------------------------------------------------------------
\* The end of a reconcile: the generated reconciler writes the status, if it
\* changed, over whatever is there, and the work queue takes the outcome.

\* Updating the labels failed, which turns success into an error.
UpdateLabelsFails ==
  /\ calls("write")
  /\ rec.out \in {"nil", "ok"}
  /\ ~(IsDone(rec.orig) /\ IsDone(rec.st))
  /\ fault("labels")
  /\ rec' = [rec EXCEPT !.out = "retry"]
  /\ UNCHANGED pods

UpdateStatus ==
  /\ rec.pc = "write"
  /\ tr' = IF rec.st = rec.orig THEN tr ELSE [tr EXCEPT !.st = rec.st]
  /\ LET wakes == rec.out = "ok" /\ Timed /\ rec.st.start # 0
     IN /\ queued' = (queued \/ rec.out = "retry" \/ (wakes /\ rec.st.start <= expired))
        /\ snooze' = IF wakes /\ rec.st.start > expired
                     THEN snooze \cup {rec.st.start} ELSE snooze
  /\ rec' = NoReconcile
  /\ UNCHANGED <<trCache, pods, podCache, stamp, expired, faults>>

UpdateStatusFails ==
  /\ rec.pc = "write"
  /\ rec.st # rec.orig
  /\ fault("status")
  /\ queued' = TRUE
  /\ rec' = NoReconcile
  /\ UNCHANGED <<tr, trCache, pods, podCache, stamp, expired, snooze>>

\* The controller stops anywhere and starts again with full caches.
Crash ==
  /\ fault("crash")
  /\ rec.pc # "idle"
  /\ rec' = NoReconcile
  /\ trCache' = tr
  /\ podCache' = pods
  /\ queued' = TRUE
  /\ snooze' = {}
  /\ UNCHANGED <<tr, pods, stamp, expired>>

-----------------------------------------------------------------------------
\* The caches, the user and the clock.

\* Mutant: an update of the TaskRun does not queue it.
informSilently ==
  /\ trCache # tr
  /\ trCache' = tr
  /\ UNCHANGED <<tr, pods, podCache, stamp, expired, rec, queued, snooze, faults>>

InformTaskRun ==
  /\ trCache # tr
  /\ trCache' = tr
  /\ queued' = TRUE
  /\ UNCHANGED <<tr, pods, podCache, stamp, expired, rec, snooze, faults>>

InformPods ==
  /\ podCache # pods
  /\ podCache' = pods
  /\ queued' = TRUE
  /\ UNCHANGED <<tr, trCache, pods, stamp, expired, rec, snooze, faults>>

\* Refused by the webhook once the TaskRun is done.
UserCancels ==
  /\ Cancels
  /\ ~tr.cancelled
  /\ ~IsDone(tr.st)
  /\ tr' = [tr EXCEPT !.cancelled = TRUE]
  /\ UNCHANGED <<trCache, pods, podCache, stamp, expired, rec, queued, snooze, faults>>

\* A timeout is long: by the time it passes the cache shows which pods there are.
TimeoutPasses ==
  /\ Timed
  /\ ~IsDone(tr.st)
  /\ tr.st.start > expired
  /\ \A a \in Attempt : exists(podCache[a]) = exists(pods[a])
  /\ expired' = tr.st.start
  /\ queued' = (queued \/ \E s \in snooze : s <= tr.st.start)
  /\ snooze' = {s \in snooze : s > tr.st.start}
  /\ UNCHANGED <<tr, trCache, pods, podCache, stamp, rec, faults>>

-----------------------------------------------------------------------------
\* The kubelet and the containers of the pod of attempt a.

podStep ==
  UNCHANGED <<tr, trCache, podCache, stamp, expired, rec, queued, snooze>>

PodStarts(a) ==
  /\ pods[a].phase = "Pending"
  /\ pods[a].bad = {}
  /\ pods' = [pods EXCEPT ![a].phase = "Running"]
  /\ podStep
  /\ UNCHANGED faults

PodBlocked(a) ==
  /\ pods[a].phase = "Pending"
  /\ pods[a].bad = {}
  /\ \E b \in (IF Sidecars THEN Blockers ELSE Blockers \ {"side"}) :
       pods' = [pods EXCEPT ![a].bad = {b}]
  /\ podStep
  /\ UNCHANGED faults

PodUnblocked(a) ==
  /\ pods[a].phase = "Pending"
  /\ pods[a].bad # {}
  /\ pods' = [pods EXCEPT ![a].bad = {}]
  /\ podStep
  /\ UNCHANGED faults

SidecarReady(a) ==
  /\ pods[a].phase = "Running"
  /\ pods[a].side = "off"
  /\ pods' = [pods EXCEPT ![a].side = "on"]
  /\ podStep
  /\ UNCHANGED faults

SidecarExits(a) ==
  /\ pods[a].phase = "Running"
  /\ pods[a].side = "nop"
  /\ pods' = [pods EXCEPT ![a].side = "stopped"]
  /\ podStep
  /\ UNCHANGED faults

\* The steps as one, as in PodSteps, which Steps.tla implements.
StepsStart(a) ==
  /\ pods[a].phase = "Running"
  /\ pods[a].ready
  /\ pods[a].steps = "created"
  /\ pods' = [pods EXCEPT ![a].steps = "going"]
  /\ podStep
  /\ UNCHANGED faults

StepsEnd(a) ==
  /\ pods[a].phase = "Running"
  /\ pods[a].steps = "going"
  /\ \E how \in {"ok", "failed"} : pods' = [pods EXCEPT ![a].steps = how]
  /\ podStep
  /\ UNCHANGED faults

PodEnds(a) ==
  /\ pods[a].phase = "Running"
  /\ pods[a].steps \in {"ok", "failed"}
  /\ pods[a].side \in {"none", "stopped"}
  /\ pods' = [pods EXCEPT ![a].phase = IF pods[a].steps = "ok" THEN "Succeeded" ELSE "Failed"]
  /\ podStep
  /\ UNCHANGED faults

\* Removed with its node, evicted, or its steps killed before the first began.
PodLost(a) ==
  /\ live(pods[a])
  /\ fault("lost")
  /\ \/ pods' = [pods EXCEPT ![a] = AbsentPod]
     \/ pods' = [pods EXCEPT ![a].phase = "Failed", ![a].steps = "failed", ![a].bad = {}]
     \/ pods[a].phase = "Running" /\ pods' = [pods EXCEPT ![a].steps = "failed"]
  /\ podStep

PodProgress(a) ==
  \/ PodStarts(a) \/ SidecarReady(a) \/ SidecarExits(a) \/ StepsStart(a) \/ StepsEnd(a)
  \/ PodEnds(a)

quiet == rec.pc = "idle" /\ ~queued /\ trCache = tr /\ podCache = pods

\* Nothing is left for the reconciler to do.
Rest == quiet /\ UNCHANGED vars

Next ==
  \/ Begin \/ Call \/ CallFails
  \/ UpdateLabelsFails \/ UpdateStatus \/ UpdateStatusFails \/ Crash
  \/ InformTaskRun \/ InformPods \/ UserCancels \/ TimeoutPasses
  \/ \E a \in Attempt : PodProgress(a) \/ PodBlocked(a) \/ PodUnblocked(a) \/ PodLost(a)
  \/ Rest

Spec == Init /\ [][Next]_vars

(***************************************************************************)
(* A worker takes the key while it is queued and finishes what it began;   *)
(* watches deliver; the clock runs.  Pods owe nothing: the timeout ends an *)
(* attempt that hangs.                                                     *)
(***************************************************************************)
FairSpec ==
  /\ Spec
  /\ WF_vars(Begin)
  /\ WF_vars(Call \/ UpdateStatus)
  /\ WF_vars(InformTaskRun)
  /\ WF_vars(InformPods)
  /\ WF_vars(TimeoutPasses)

-----------------------------------------------------------------------------
TypeOK ==
  /\ tr \in [cancelled : BOOLEAN, valid : BOOLEAN, st : Status]
  /\ trCache \in [cancelled : BOOLEAN, valid : BOOLEAN, st : Status]
  /\ pods \in [Attempt -> Pod]
  /\ podCache \in [Attempt -> Pod]
  /\ stamp \in Nat
  /\ expired \in Nat
  /\ rec \in ReconcileType
  /\ queued \in BOOLEAN
  /\ snooze \subseteq Nat
  /\ faults \in 0..MaxFaults

(***************************************************************************)
(* One attempt at a time: however the caches lag, whatever the reconciler  *)
(* forgot of a pod it created, the steps of two pods of a TaskRun never    *)
(* run beside each other.  createPod relies on the pod name of the         *)
(* attempt, reconcile on adopting a pod the status does not name, and      *)
(* retryTaskRun on the failed attempt's pod being over.                    *)
(***************************************************************************)
OneLivePod == \A a, b \in Attempt : live(pods[a]) /\ live(pods[b]) => a = b

(***************************************************************************)
(* An attempt that was given up stays so: the status never names, and no   *)
(* reconcile works on, a pod that retriesStatus names, even one that goes  *)
(* on because its deletion failed, or that shows up late in the cache.     *)
(***************************************************************************)
ArchivedForGood ==
  /\ tr.st.pod \notin tr.st.archived
  /\ rec.name \notin rec.orig.archived

(***************************************************************************)
(* MakeTaskRunStatus reports success only of a pod that succeeded: a       *)
(* TaskRun that is Succeeded names a pod all of whose steps succeeded, not *)
(* the pod of an earlier attempt and not one that was deleted.             *)
(***************************************************************************)
TruthfulSuccess ==
  tr.st.reason = "Succeeded" =>
    /\ tr.st.pod \in Attempt \ tr.st.archived
    /\ pods[tr.st.pod].steps = "ok"

(***************************************************************************)
(* The end of a TaskRun is the end of its work: once it is done no step    *)
(* of any of its pods goes on, except in a pod kept on cancel, which has   *)
(* been told to stop.  failTaskRun deletes the pod before the status says  *)
(* so, and only the pod that the status names.                             *)
(***************************************************************************)
DoneMeansStopped ==
  IsDone(tr.st) => \A a \in Attempt : live(pods[a]) => pods[a].cancel

\* The sidecars of the pod of attempt a run, and have not been told to exit.
sidecarsOn(a) == pods[a].phase = "Running" /\ pods[a].side \in {"off", "on"} /\ ~pods[a].cancel

(***************************************************************************)
(* stopSidecars gets to every TaskRun that ends: when it is done and no    *)
(* event is left that would have it reconciled again, the sidecars of its  *)
(* pod have been stopped, however the status writes, the pod's events and  *)
(* conflicting updates came.                                               *)
(***************************************************************************)
SidecarsStopped ==
  IsDone(tr.st) /\ quiet /\ tr.st.pod # NoPod => ~sidecarsOn(tr.st.pod)

(***************************************************************************)
(* The same of every attempt, as docs/developers/taskruns.md has it: on    *)
(* completion of all steps of a Task the reconciler stops the sidecars.    *)
(***************************************************************************)
AllSidecarsStopped ==
  IsDone(tr.st) /\ quiet => \A a \in Attempt : ~sidecarsOn(a)

childState ==
  IF ~IsDone(tr.st) THEN "Running"
  ELSE IF tr.st.reason \in {"Succeeded", "Cancelled"} THEN tr.st.reason ELSE "Failed"

CR == INSTANCE ChildRun WITH st <- childState, req <- IF tr.cancelled THEN "Cancel" ELSE ""

(***************************************************************************)
(* A TaskRun is what its PipelineRun takes it for (ChildRun): retries and  *)
(* restarts of the reconciler do not show, it ends, once, and as Cancelled *)
(* only if that was asked for.                                             *)
(***************************************************************************)
ImplementsChildRun == CR!FairSpec

(***************************************************************************)
(* Whatever single call fails or crash comes, the TaskRun comes to an end  *)
(* that stays: no failure loses the wake-up it depends on, and failures    *)
(* that fail or restart a finished TaskRun run out of retries.             *)
(***************************************************************************)
Settles == <>[]IsDone(tr.st)
=============================================================================
