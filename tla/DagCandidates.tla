--------------------------- MODULE DagCandidates ---------------------------
(***************************************************************************)
(* dag.GetCandidateTasks (pkg/reconciler/pipeline/dag/dag.go): the walk    *)
(* that decides which tasks of a pipeline may start, given the tasks that  *)
(* are done.  It starts at the roots and goes through done tasks only; a   *)
(* done task it does not meet is reported as an error.                     *)
(*                                                                         *)
(* findSchedulable recurses depth first over a map of nodes and over       *)
(* Node.Next, whose order is the order of a Go map; here the calls still   *)
(* to be made are a set and any of them may come next.                     *)
(***************************************************************************)
EXTENDS Naturals, FiniteSets

CONSTANT Nodes          \* the keys of Graph.Nodes

VARIABLES
  prev,                 \* Node.Prev, as Build left it
  doneTasks,            \* the argument
  calls,                \* nodes findSchedulable is still to be called on
  visited,
  d,                    \* the candidates found so far
  ret                   \* "walking", then "ok" or "error"

vars == <<prev, doneTasks, calls, visited, d, ret>>

next(n) == {m \in Nodes : n \in prev[m]}

\* No set of nodes of the graph g waits on itself: what Build guarantees.
Acyclic(g) ==
  \A S \in SUBSET Nodes : S # {} => \E t \in S : g[t] \cap S = {}

getRoots == {n \in Nodes : prev[n] = {}}

\* Mutant: one done task before it is enough.
anyPrevDone(n) == prev[n] = {} \/ prev[n] \cap doneTasks # {}

isSchedulable(n) == prev[n] \subseteq doneTasks

\* The caller passes tasks of the graph, in no particular relation to it:
\* a task of a stopping PipelineRun is done before its parents are.
Init ==
  /\ prev \in [Nodes -> SUBSET Nodes]
  /\ Acyclic(prev)
  /\ doneTasks \in SUBSET Nodes
  /\ calls = getRoots
  /\ visited = {}
  /\ d = {}
  /\ ret = "walking"

\* The call finds a done node: walk on to the nodes that wait for it.
VisitDone ==
  \E n \in calls \cap doneTasks :
    /\ visited' = visited \cup {n}
    /\ calls' = (calls \cup next(n)) \ visited'
    /\ UNCHANGED <<prev, doneTasks, d, ret>>

\* The call finds a node that is not done: it is a candidate if it is ready.
VisitNotDone ==
  \E n \in calls \ doneTasks :
    /\ visited' = visited \cup {n}
    /\ calls' = calls \ {n}
    /\ d' = IF isSchedulable(n) THEN d \cup {n} ELSE d
    /\ UNCHANGED <<prev, doneTasks, ret>>

\* All calls are made: a done task that was not met is an error.
Return ==
  /\ ret = "walking"
  /\ calls = {}
  /\ ret' = IF doneTasks \subseteq visited THEN "ok" ELSE "error"
  /\ UNCHANGED <<prev, doneTasks, calls, visited, d>>

Returned == ret # "walking" /\ UNCHANGED vars

Next == VisitDone \/ VisitNotDone \/ Return \/ Returned

Spec == Init /\ [][Next]_vars

-----------------------------------------------------------------------------
\* The variables have the types of the Go values they stand for.
TypeOK ==
  /\ prev \in [Nodes -> SUBSET Nodes]
  /\ doneTasks \subseteq Nodes
  /\ calls \subseteq Nodes
  /\ visited \subseteq Nodes
  /\ d \subseteq Nodes
  /\ ret \in {"walking", "ok", "error"}

(***************************************************************************)
(* GetCandidateTasks is exact: when it returns no error it returns the     *)
(* tasks that are not done and whose previous tasks all are, none of them  *)
(* forgotten and none too early, in whatever order the nodes were visited. *)
(***************************************************************************)
CandidatesExact ==
  ret = "ok" => d = {n \in Nodes \ doneTasks : prev[n] \subseteq doneTasks}

\* A task is done although a task before it is not.
Invalid == \E t \in doneTasks : ~(prev[t] \subseteq doneTasks)

(***************************************************************************)
(* GetCandidateTasks returns an error only for an invalid list: no         *)
(* reconcile of a PipelineRun whose done tasks are closed under "previous" *)
(* is given up on.                                                         *)
(***************************************************************************)
ErrorOnlyIfInvalid == ret = "error" => Invalid
=============================================================================
