--------------------------- MODULE PipelineGraph ---------------------------
(***************************************************************************)
(* The two halves of pkg/reconciler/pipeline/dag together: the graph that  *)
(* Build returns is the one GetCandidateTasks walks.  A reconcile builds   *)
(* the graph anew (pipelinerun.go reconcile) and asks for the candidates   *)
(* of whatever tasks are done by then.                                     *)
(***************************************************************************)
EXTENDS DagBuild

VARIABLES doneTasks, calls, visited, d, ret

C == INSTANCE DagCandidates WITH Nodes <- Names

walk == <<doneTasks, calls, visited, d, ret>>

GraphInit ==
  /\ Init
  /\ doneTasks = {} /\ calls = {} /\ visited = {} /\ d = {}
  /\ ret = "not called"

\* Build, by itself: GetCandidateTasks is called on what it returns.
Building == Next /\ ret = "not called" /\ UNCHANGED walk

\* The walk begins at the roots.  Every name is a task of this pipeline; one
\* with fewer tasks is an instance with fewer names.
CallGetCandidateTasks ==
  /\ pc = "built"
  /\ Items = Names
  /\ ret = "not called"
  /\ doneTasks' \in SUBSET Names
  /\ calls' = C!getRoots
  /\ ret' = "walking"
  /\ UNCHANGED <<visited, d>>
  /\ UNCHANGED vars

Walking ==
  /\ ret # "not called"
  /\ C!Next
  /\ UNCHANGED <<mult, deps, pc, err, independentTasks, dag, childMap, parent>>

GraphNext == Building \/ CallGetCandidateTasks \/ Walking

GraphSpec == GraphInit /\ [][GraphNext]_<<vars, walk>>

\* Both are plain loops in one goroutine.
GraphFairSpec == GraphSpec /\ WF_<<vars, walk>>(GraphNext)

-----------------------------------------------------------------------------
\* GetCandidateTasks, on the graphs that Build returns, returns exactly the
\* tasks that may start, and an error only if a done task waits for one that
\* is not.
CandidatesExact == C!CandidatesExact /\ C!ErrorOnlyIfInvalid

(***************************************************************************)
(* A pipeline that Build accepted can always go on: until all its tasks    *)
(* are done GetCandidateTasks finds one that may start, and every one it   *)
(* finds has all the tasks it depends on, by the pipeline's own deps,      *)
(* done.  No accepted pipeline waits for itself.                           *)
(***************************************************************************)
SomethingCanStart ==
  ret = "ok" => /\ doneTasks # Names => d # {}
                /\ \A n \in d : deps[n] \subseteq doneTasks
=============================================================================
