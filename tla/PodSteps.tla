------------------------------ MODULE PodSteps ------------------------------
(***************************************************************************)
(* The step containers of a pod as the TaskRun reconciler sees them, taken *)
(* together: nothing runs before the pod is marked ready, then they run,   *)
(* and they are over, for good, when all of them have exited, well or not. *)
(* A container that dies before it runs anything fails the pod too.        *)
(* Steps.tla implements this; the pods of TaskRun.tla behave like this.    *)
(***************************************************************************)
VARIABLES
  steps,                \* "created", "going", "ok" or "failed"
  ready                 \* the ready annotation, as a step sees it

vars == <<steps, ready>>

Init ==
  /\ steps = "created"
  /\ ready \in BOOLEAN

MarkReady ==
  /\ ~ready
  /\ ready' = TRUE
  /\ UNCHANGED steps

Start ==
  /\ steps = "created"
  /\ ready
  /\ steps' = "going"
  /\ UNCHANGED ready

End ==
  /\ \/ steps = "going" /\ steps' \in {"ok", "failed"}
     \/ steps = "created" /\ steps' = "failed"
  /\ UNCHANGED ready

Next == MarkReady \/ Start \/ End

Spec == Init /\ [][Next]_vars
=============================================================================
