------------------------- MODULE ResolutionRequest -------------------------
(***************************************************************************)
(* Remote resolution of one resource.  Three parties share one object of   *)
(* the API server, the ResolutionRequest:                                  *)
(*   - a requester (pkg/remoteresolution/resource), which creates it and   *)
(*     asks again and again until it is done;                              *)
(*   - its reconciler (pkg/reconciler/resolutionrequest), which marks it   *)
(*     Succeeded once there is data and Failed once it is too old; both    *)
(*     run in one process and share an informer cache;                     *)
(*   - a resolver (pkg/remoteresolution/resolver/framework), in another    *)
(*     process with another cache, which fetches the resource and writes   *)
(*     the data, or marks the request Failed.                              *)
(* They write the same status: by overwriting it, by a merge patch of its  *)
(* data, and by an update that fails if the object has changed.            *)
(***************************************************************************)
EXTENDS Naturals

CONSTANTS
  Contents,             \* what the resource may be when it is fetched
  Ends,                 \* how fetching it may end otherwise
  ReadsOwnWrites,       \* the cache holds the status its reconciler wrote last
  MaxFaults             \* bound: failing API calls and crashes

VARIABLES
  rr,                   \* the request in the API server
  cache,                \* the request, as the requester and the reconciler see it
  view,                 \* the request, as the resolver sees it
  expired,              \* the request is older than the maximum
  rec,                  \* the reconcile in progress
  synced,               \* the cache shows what the reconciler wrote last
  queued,               \* the reconciler's queue holds the key
  snooze,               \* ... or will, when the request is too old
  work,                 \* the resolver's reconcile in progress
  pending,              \* the resolver's queue holds the key
  answer,               \* what the requester was told
  faults

requestVars == <<rr, cache, view, expired, rec, synced, queued, snooze, work, pending, answer, faults>>

Empty == "empty"        \* status.data is ""

ASSUME ResolutionAssumption ==
  /\ Empty \notin Contents
  /\ Ends \subseteq {"empty", "invalid", "transient", "deadline"}
  /\ ReadsOwnWrites \in BOOLEAN
  /\ MaxFaults \in Nat

\* cond: the Succeeded condition, "new" before InitializeConditions.
Request ==
  [cond : {"absent", "new", "InProgress", "Succeeded", "Failed"}, data : Contents \cup {Empty}]

NoRequest == [cond |-> "absent", data |-> Empty]

IsDone(r) == r.cond \in {"Succeeded", "Failed"}

ReconcileType == [pc : {"idle", "write"}, orig : Request, st : Request]
NoReconcile == [pc |-> "idle", orig |-> NoRequest, st |-> NoRequest]

\* The resolver's: what it fetched, and whether what it read is the latest.
WorkType ==
  [pc : {"idle", "fetch", "patch", "fail", "mark"}, data : Contents \cup {Empty},
   latest : BOOLEAN]
NoWork == [pc |-> "idle", data |-> Empty, latest |-> FALSE]

RequestInit ==
  /\ rr = NoRequest
  /\ cache = NoRequest
  /\ view = NoRequest
  /\ expired = FALSE
  /\ rec = NoReconcile
  /\ synced = TRUE
  /\ queued = FALSE
  /\ snooze = FALSE
  /\ work = NoWork
  /\ pending = FALSE
  /\ answer = "none"
  /\ faults = 0

fault ==
  /\ faults < MaxFaults
  /\ faults' = faults + 1

-----------------------------------------------------------------------------
\* The requester.  It is told that the request is in progress, and asks again.

unasked == UNCHANGED <<view, expired, rec, synced, queued, snooze, work, pending>>

\* A request the cache does not show yet is created once only.
SubmitNew ==
  /\ answer = "none"
  /\ cache.cond = "absent"
  /\ rr' = IF rr.cond = "absent" THEN [rr EXCEPT !.cond = "new"] ELSE rr
  /\ UNCHANGED <<cache, answer, faults>>
  /\ unasked

SubmitDone ==
  /\ answer = "none"
  /\ IsDone(cache)
  /\ answer' = IF cache.cond = "Succeeded" THEN cache.data ELSE "failed"
  /\ UNCHANGED <<rr, cache, faults>>
  /\ unasked

\* The error of the creation may be final for the requester.
SubmitFails ==
  /\ answer = "none"
  /\ cache.cond = "absent"
  /\ fault
  /\ answer' \in {"none", "failed"}
  /\ UNCHANGED <<rr, cache>>
  /\ unasked

-----------------------------------------------------------------------------
\* The reconciler: one decision from the cache, and one write.

decided(r) ==
  CASE r.data # Empty  -> [r EXCEPT !.cond = "Succeeded"]
    [] expired         -> [r EXCEPT !.cond = "Failed"]
    [] OTHER           -> [r EXCEPT !.cond = "InProgress"]

others == UNCHANGED <<cache, view, expired, pending, answer>>

ReconcileKind ==
  /\ rec.pc = "idle"
  /\ queued
  /\ ReadsOwnWrites => synced
  /\ queued' = FALSE
  /\ rec' = IF cache.cond = "absent" \/ IsDone(cache) THEN NoReconcile
            ELSE [pc |-> "write", orig |-> cache, st |-> decided(cache)]
  /\ UNCHANGED <<rr, synced, snooze, work, faults>>
  /\ others

\* Mutant: a request in progress is not looked at again.
UpdateStatusOnce ==
  /\ rec.pc = "write"
  /\ IF rec.st = rec.orig THEN UNCHANGED <<rr, synced>> ELSE rr' = rec.st /\ synced' = FALSE
  /\ work' = IF rr' = rr THEN work ELSE [work EXCEPT !.latest = FALSE]
  /\ rec' = NoReconcile
  /\ UNCHANGED <<snooze, queued, faults>>
  /\ others

\* Nothing is written if nothing changed; otherwise the status is overwritten,
\* after a conflict too.
UpdateStatus ==
  /\ rec.pc = "write"
  /\ IF rec.st = rec.orig THEN UNCHANGED <<rr, synced>> ELSE rr' = rec.st /\ synced' = FALSE
  /\ work' = IF rr' = rr THEN work ELSE [work EXCEPT !.latest = FALSE]
  /\ snooze' = (snooze \/ rec.st.cond = "InProgress")
  /\ queued' = (queued \/ (rec.st.cond = "InProgress" /\ expired))
  /\ rec' = NoReconcile
  /\ UNCHANGED faults
  /\ others

\* Mutant: the failed update is not repeated.
UpdateStatusLost ==
  /\ rec.pc = "write"
  /\ rec.st # rec.orig
  /\ fault
  /\ rec' = NoReconcile
  /\ UNCHANGED <<rr, synced, queued, snooze, work>>
  /\ others

UpdateStatusFails ==
  /\ rec.pc = "write"
  /\ rec.st # rec.orig
  /\ fault
  /\ queued' = TRUE
  /\ rec' = NoReconcile
  /\ UNCHANGED <<rr, synced, snooze, work>>
  /\ others

-----------------------------------------------------------------------------
\* The resolver's reconcile: fetch, then patch the data or mark as failed.

elsewhere == UNCHANGED <<cache, view, expired, rec, synced, queued, snooze, answer>>

ResolverTakes ==
  /\ work.pc = "idle"
  /\ pending
  /\ pending' = FALSE
  /\ work' = IF view.cond = "absent" \/ IsDone(view) THEN NoWork ELSE [NoWork EXCEPT !.pc = "fetch"]
  /\ UNCHANGED <<rr, faults>>
  /\ elsewhere

Fetched ==
  /\ work.pc = "fetch"
  /\ \E d \in Contents \cup ({"empty"} \cap Ends) :
       work' = [work EXCEPT !.pc = "patch", !.data = d]
  /\ UNCHANGED <<rr, pending, faults>>
  /\ elsewhere

\* OnError: a transient error, which the resolver's own deadline is too, goes
\* back to the queue, any other is final.
FetchFails ==
  /\ work.pc = "fetch"
  /\ \/ /\ Ends \cap {"transient", "deadline"} # {}
        /\ work' = NoWork
        /\ pending' = TRUE
     \/ /\ "invalid" \in Ends
        /\ work' = [work EXCEPT !.pc = "fail"]
        /\ UNCHANGED pending
  /\ UNCHANGED <<rr, faults>>
  /\ elsewhere

\* A merge patch: it touches the data only, whatever the request has become.
writeResolvedData ==
  /\ work.pc = "patch"
  /\ rr' = [rr EXCEPT !.data = work.data]
  /\ work' = NoWork
  /\ UNCHANGED <<pending, faults>>
  /\ elsewhere

writeResolvedDataFails ==
  /\ work.pc = "patch"
  /\ fault
  /\ \/ work' = NoWork /\ pending' = TRUE
     \/ work' = [work EXCEPT !.pc = "fail"] /\ UNCHANGED pending
  /\ UNCHANGED rr
  /\ elsewhere

\* Mutant: a request that is done by now is marked all the same.
MarkFailedAnyway ==
  /\ work.pc = "fail"
  /\ work' = [work EXCEPT !.pc = "mark", !.latest = TRUE]
  /\ UNCHANGED <<rr, pending, faults>>
  /\ elsewhere

\* MarkFailed reads the request anew ...
MarkFailedGet ==
  /\ work.pc = "fail"
  /\ work' = IF IsDone(rr) THEN NoWork ELSE [work EXCEPT !.pc = "mark", !.latest = TRUE]
  /\ UNCHANGED <<rr, pending, faults>>
  /\ elsewhere

\* ... and updates it unless it has changed since; its errors are ignored.
MarkFailed ==
  /\ work.pc = "mark"
  /\ rr' = IF work.latest THEN [rr EXCEPT !.cond = "Failed"] ELSE rr
  /\ work' = NoWork
  /\ UNCHANGED <<pending, faults>>
  /\ elsewhere

MarkFailedFails ==
  /\ work.pc \in {"fail", "mark"}
  /\ fault
  /\ work' = NoWork
  /\ UNCHANGED <<rr, pending>>
  /\ elsewhere

-----------------------------------------------------------------------------
\* The caches, the clock and crashes.

InformCache ==
  /\ cache # rr \/ ~synced
  /\ cache' = rr
  /\ synced' = TRUE
  /\ queued' = TRUE
  /\ UNCHANGED <<rr, view, expired, rec, snooze, work, pending, answer, faults>>

InformResolver ==
  /\ view # rr
  /\ view' = rr
  /\ pending' = TRUE
  /\ UNCHANGED <<rr, cache, expired, rec, synced, queued, snooze, work, answer, faults>>

Expire ==
  /\ rr.cond # "absent"
  /\ ~expired
  /\ expired' = TRUE
  /\ queued' = (queued \/ snooze)
  /\ snooze' = FALSE
  /\ UNCHANGED <<rr, cache, view, rec, synced, work, pending, answer, faults>>

\* Either process stops anywhere and starts with a full cache.
Crash ==
  /\ fault
  /\ \/ /\ rec' = NoReconcile
        /\ cache' = rr
        /\ synced' = TRUE
        /\ queued' = TRUE
        /\ snooze' = FALSE
        /\ UNCHANGED <<view, work, pending>>
     \/ /\ work' = NoWork
        /\ view' = rr
        /\ pending' = TRUE
        /\ UNCHANGED <<cache, rec, synced, queued, snooze>>
  /\ UNCHANGED <<rr, expired, answer>>

quiet ==
  /\ rec.pc = "idle" /\ work.pc = "idle"
  /\ ~queued /\ ~pending
  /\ cache = rr /\ synced /\ view = rr

\* Nothing is left to do, but for a timer.
RequestRest == quiet /\ UNCHANGED requestVars

Submit == SubmitNew \/ SubmitDone
Reconciler == ReconcileKind \/ UpdateStatus
Resolver ==
  \/ ResolverTakes \/ Fetched \/ FetchFails \/ writeResolvedData \/ MarkFailedGet \/ MarkFailed

RequestNext ==
  \/ Submit \/ SubmitFails \/ Reconciler \/ UpdateStatusFails
  \/ Resolver \/ writeResolvedDataFails \/ MarkFailedFails
  \/ InformCache \/ InformResolver \/ Expire \/ Crash \/ RequestRest

RequestSpec == RequestInit /\ [][RequestNext]_requestVars

\* Workers work, watches deliver (the requester is queued by them too), the
\* clock runs.  Nothing is asked of the resolver: fetching may take forever.
FairRequestSpec ==
  /\ RequestSpec
  /\ WF_requestVars(Submit)
  /\ WF_requestVars(Reconciler)
  /\ WF_requestVars(InformCache)
  /\ WF_requestVars(Expire)

-----------------------------------------------------------------------------
RequestTypeOK ==
  /\ rr \in Request
  /\ cache \in Request
  /\ view \in Request
  /\ expired \in BOOLEAN
  /\ rec \in ReconcileType
  /\ synced \in BOOLEAN
  /\ queued \in BOOLEAN
  /\ snooze \in BOOLEAN
  /\ work \in WorkType
  /\ pending \in BOOLEAN
  /\ answer \in Contents \cup {Empty, "none", "failed"}
  /\ faults \in 0..MaxFaults

(***************************************************************************)
(* A request that succeeded has data and stays so: MarkSucceeded is never  *)
(* undone by a late MarkFailed of the resolver, by its timeout, or by the  *)
(* overwriting status update of a reconcile that began earlier.            *)
(***************************************************************************)
SuccessIsFinal ==
  [][/\ rr.cond = "Succeeded" => rr'.cond = "Succeeded"
     /\ rr.cond # "Succeeded" /\ rr'.cond = "Succeeded" => rr'.data # Empty]_requestVars

(***************************************************************************)
(* Every request is answered: whatever the resolver does, though it fetch  *)
(* forever, crash, lose a conflict it ignores, or have its data or its     *)
(* verdict overwritten by the reconciler, the requester that keeps asking  *)
(* gets an answer.                                                         *)
(***************************************************************************)
Answered == <>(answer # "none")

(***************************************************************************)
(* No answer is lost for good: when no event is left to be handled and no  *)
(* timer is set, the request is done.  What an overwriting update destroys *)
(* (the resolver's data, its MarkFailed) is made up for by the event that  *)
(* the update itself causes.                                               *)
(***************************************************************************)
NothingForgotten == rr.cond # "absent" /\ quiet /\ ~snooze => IsDone(rr)
=============================================================================
