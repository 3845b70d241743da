------------------------------ MODULE ChildRun ------------------------------
(***************************************************************************)
(* What a PipelineRun relies on in one of its TaskRuns: once created it    *)
(* runs, it may be asked to stop while it runs, it ends once and for all,  *)
(* and it ends as Cancelled only if it was asked to stop.  PipelineRun.tla *)
(* assumes this of its child runs; TaskRun.tla implements it.              *)
(***************************************************************************)
VARIABLES
  st,                   \* how far the run is
  req                   \* what the PipelineRun has asked of it

vars == <<st, req>>

DoneState == {"Succeeded", "Failed", "Cancelled"}
Request == {"Cancel", "TimeOut"}

Init ==
  /\ st \in {"Absent", "Running"}
  /\ req = ""

Create ==
  /\ st = "Absent"
  /\ st' = "Running"
  /\ UNCHANGED req

Ask ==
  /\ st = "Running"
  /\ req' \in Request
  /\ UNCHANGED st

End ==
  /\ st = "Running"
  /\ st' \in DoneState
  /\ st' = "Cancelled" => req # ""
  /\ UNCHANGED req

Next == Create \/ Ask \/ End

Spec == Init /\ [][Next]_vars

\* A run that was created ends.
FairSpec == Spec /\ WF_vars(End)
=============================================================================
