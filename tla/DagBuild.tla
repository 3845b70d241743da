------------------------------ MODULE DagBuild ------------------------------
(***************************************************************************)
(* dag.Build (pkg/reconciler/pipeline/dag/dag.go): the graph of a          *)
(* pipeline's tasks is built from the list of tasks and the map of their   *)
(* dependencies.  Every reconcile of a PipelineRun, and the admission      *)
(* webhook for a Pipeline, call it; a cyclic pipeline that got through     *)
(* would never finish.                                                     *)
(*                                                                         *)
(* The cycle search is Kahn's algorithm over three maps that are consumed  *)
(* while they are iterated.  Go's map iteration and sets.PopAny pick in    *)
(* any order, so each pick is a nondeterministic step here.                *)
(***************************************************************************)
EXTENDS Naturals, FiniteSets

CONSTANT Names          \* task names a pipeline may mention

VARIABLES
  mult,                 \* how often tasks.Items() lists each name (0..2)
  deps,                 \* the deps argument: dependencies of the listed tasks
  pc,                   \* where Build is
  err,                  \* the error Build returns, "none" while there is none
  independentTasks,     \* names known to wait for nothing
  dag,                  \* the dependencies not yet discharged, by task
  childMap,             \* the tasks not yet told of their dependency, by name
  parent,               \* the name popped by the outer loop
  prev                  \* the graph under construction: Node.Prev by task

vars == <<mult, deps, pc, err, independentTasks, dag, childMap, parent, prev>>

Items == {n \in Names : mult[n] > 0}
Terminal == {"built", "failed"}
NoName == "no name"     \* parent before the first pop

(***************************************************************************)
(* PipelineTaskList.Deps keys only the tasks that have a dependency; a     *)
(* task without one is an empty set here.  A dependency may be missing     *)
(* from the pipeline: Build is called before that is known.                *)
(***************************************************************************)
Init ==
  /\ mult \in [Names -> 0..2]
  /\ deps \in [Names -> SUBSET Names]
  /\ \A n \in Names : mult[n] = 0 => deps[n] = {}
  /\ pc = "tasks"
  /\ err = "none"
  /\ independentTasks = {}
  /\ dag = [n \in {} |-> {}]
  /\ childMap = [n \in Names |-> {}]
  /\ parent = NoName
  /\ prev = [n \in Names |-> {}]

(***************************************************************************)
(* addPipelineTask refuses a second node of the same name; otherwise the   *)
(* three maps of findCyclesInDependencies are filled from deps.            *)
(***************************************************************************)
addPipelineTask ==
  /\ pc = "tasks"
  /\ \E n \in Names : mult[n] > 1
  /\ pc' = "failed"
  /\ err' = "duplicate"
  /\ UNCHANGED <<mult, deps, independentTasks, dag, childMap, parent, prev>>

\* Mutants: every dependency is taken for independent; a name that is not
\* listed is not.
allDependedOn == {d \in Names : \E t \in Names : d \in deps[t]}
independentItems == {d \in Items : deps[d] = {} /\ \E t \in Names : d \in deps[t]}

\* Names without dependencies that somebody depends on.
independentAtStart ==
  {d \in Names : deps[d] = {} /\ \E t \in Names : d \in deps[t]}

findCyclesInDependencies ==
  /\ pc = "tasks"
  /\ \A n \in Names : mult[n] <= 1
  /\ dag' = [t \in {n \in Names : deps[n] # {}} |-> deps[t]]
  /\ childMap' = [d \in Names |-> {t \in Names : d \in deps[t]}]
  /\ independentTasks' = independentAtStart
  /\ pc' = "kahn"
  /\ UNCHANGED <<mult, deps, err, parent, prev>>

\* Mutant: the name is not removed from the set.
PeekParent ==
  /\ pc = "kahn"
  /\ parent' \in independentTasks
  /\ pc' = "children"
  /\ UNCHANGED <<mult, deps, err, independentTasks, dag, childMap, prev>>

\* The outer loop pops a name that waits for nothing.
PopParent ==
  /\ pc = "kahn"
  /\ \E p \in independentTasks :
       /\ parent' = p
       /\ independentTasks' = independentTasks \ {p}
  /\ pc' = "children"
  /\ UNCHANGED <<mult, deps, err, dag, childMap, prev>>

\* What is left of dag once the dependency of c on p is discharged.
discharge(p, c) ==
  IF dag[c] \ {p} = {}
    THEN [t \in DOMAIN dag \ {c} |-> dag[t]]
    ELSE [dag EXCEPT ![c] = @ \ {p}]

\* The inner loop pops a child of that name and discharges the dependency.
PopChild ==
  /\ pc = "children"
  /\ \E c \in childMap[parent] :
       /\ childMap' = [childMap EXCEPT ![parent] = @ \ {c}]
       /\ dag' = discharge(parent, c)
       /\ independentTasks' = IF dag[c] \ {parent} = {}
                                THEN independentTasks \cup {c}
                                ELSE independentTasks
  /\ UNCHANGED <<mult, deps, pc, err, parent, prev>>

\* The inner loop ends when the popped name has no child left.
ChildrenDone ==
  /\ pc = "children"
  /\ childMap[parent] = {}
  /\ pc' = "kahn"
  /\ UNCHANGED <<mult, deps, err, independentTasks, dag, childMap, parent, prev>>

\* The outer loop ends; whatever is left in dag is interdependent.
getInterdependencyError ==
  /\ pc = "kahn"
  /\ independentTasks = {}
  /\ IF DOMAIN dag = {}
       THEN pc' = "link" /\ err' = err
       ELSE pc' = "failed" /\ err' = "cycle"
  /\ UNCHANGED <<mult, deps, independentTasks, dag, childMap, parent, prev>>

\* Build links one task to one of its dependencies, in any order.
addLink ==
  /\ pc = "link"
  /\ \E t \in Names : \E p \in deps[t] \ prev[t] :
       IF p \in Items
         THEN /\ prev' = [prev EXCEPT ![t] = @ \cup {p}]
              /\ UNCHANGED <<pc, err>>
         ELSE /\ pc' = "failed"
              /\ err' = "missing"
              /\ UNCHANGED prev
  /\ UNCHANGED <<mult, deps, independentTasks, dag, childMap, parent>>

\* Every dependency is linked: Build returns the graph.
Built ==
  /\ pc = "link"
  /\ \A t \in Names : deps[t] \subseteq prev[t]
  /\ pc' = "built"
  /\ UNCHANGED <<mult, deps, err, independentTasks, dag, childMap, parent, prev>>

\* Build has returned; nothing more happens.
Returned == pc \in Terminal /\ UNCHANGED vars

Next ==
  \/ addPipelineTask
  \/ findCyclesInDependencies
  \/ PopParent
  \/ PopChild
  \/ ChildrenDone
  \/ getInterdependencyError
  \/ addLink
  \/ Built
  \/ Returned

Spec == Init /\ [][Next]_vars

\* Build is a plain loop in one goroutine: it always takes its next step.
FairSpec == Spec /\ WF_vars(Next)

-----------------------------------------------------------------------------
(***************************************************************************)
(* A set of tasks is a knot when it is not empty and each of its members   *)
(* depends on a member: what a finite graph has exactly when it has a      *)
(* cycle, stated without paths.                                            *)
(***************************************************************************)
Knot(S) == S # {} /\ \A t \in S : deps[t] \cap S # {}

\* The variables of Build have the types of the Go values they stand for.
TypeOK ==
  /\ mult \in [Names -> 0..2]
  /\ deps \in [Names -> SUBSET Names]
  /\ pc \in {"tasks", "kahn", "children", "link"} \cup Terminal
  /\ err \in {"none", "duplicate", "cycle", "missing"}
  /\ independentTasks \subseteq Names
  /\ DOMAIN dag \subseteq Names
  /\ dag \in [DOMAIN dag -> SUBSET Names]
  /\ childMap \in [Names -> SUBSET Names]
  /\ parent \in Names \cup {NoName}
  /\ pc = "children" => parent \in Names
  /\ prev \in [Names -> SUBSET Names]

(***************************************************************************)
(* findCyclesInDependencies accepts no cyclic pipeline: when Build gets    *)
(* past the search, whatever order the sets were popped in, no set of      *)
(* tasks waits on itself.                                                  *)
(***************************************************************************)
NoCycleAccepted ==
  pc \in {"link", "built"} => \A S \in SUBSET Names : ~Knot(S)

(***************************************************************************)
(* findCyclesInDependencies rejects no acyclic pipeline: a cycle error is  *)
(* backed by a knot, the tasks left in dag.                                *)
(***************************************************************************)
CycleErrorIsReal ==
  err = "cycle" => Knot(DOMAIN dag)

(***************************************************************************)
(* Build's graph is complete and closed: when Build returns a graph each   *)
(* task is listed once, its Prev are exactly its dependencies and they     *)
(* are all nodes, which is what GetCandidateTasks relies on to hold a      *)
(* task back.                                                              *)
(***************************************************************************)
BuiltGraphIsFaithful ==
  pc = "built" => /\ \A n \in Names : mult[n] <= 1
                  /\ prev = deps
                  /\ \A t \in Items : prev[t] \subseteq Items

(***************************************************************************)
(* Build returns: popping from the sets while they are refilled by the     *)
(* inner loop ends for every pipeline.                                     *)
(***************************************************************************)
BuildReturns == <>(pc \in Terminal)
=============================================================================
