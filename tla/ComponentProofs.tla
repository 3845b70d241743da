--------------------------- MODULE ComponentProofs --------------------------
(***************************************************************************)
(* The parts that stand alone, each for every pipeline or Task.            *)
(*                                                                         *)
(* A pipeline's graph (pkg/reconciler/pipeline/dag), for every set of task *)
(* names: dag.Build accepts no cyclic pipeline, reports no cycle that is   *)
(* not there, and returns the graph the dependencies describe; and what    *)
(* Build guarantees of a graph is what GetCandidateTasks needs to always   *)
(* find a task that may start.                                             *)
(*                                                                         *)
(* Remote resolution (ResolutionRequest), for any contents, any ends of a  *)
(* fetch and any number of failing calls and crashes.                      *)
(*                                                                         *)
(* The steps of a pod (Steps), for any number of steps and any Tasks.      *)
(***************************************************************************)
EXTENDS PipelineGraph, ResolutionRequest, Steps, TLAPS

-----------------------------------------------------------------------------
(* Build *)

\* The three maps of findCyclesInDependencies have been filled.
Searched == pc # "tasks" /\ err # "duplicate"

\* Control: which errors and exits belong to which place of Build.
ControlInv ==
  /\ pc # "failed" => err = "none"
  /\ err = "cycle" => independentTasks = {} /\ DOMAIN dag # {}
  /\ pc \in {"link", "built"} => DOMAIN dag = {}
  /\ pc = "built" => \A t \in Names : deps[t] \subseteq prev[t]

\* dag and childMap describe the same undischarged dependencies.
MapsAgree ==
  Searched =>
    /\ \A t \in DOMAIN dag : dag[t] # {} /\ dag[t] \subseteq deps[t]
    /\ \A t \in DOMAIN dag : \A e \in dag[t] : t \in childMap[e]
    /\ \A e \in Names : \A t \in childMap[e] : t \in DOMAIN dag /\ e \in dag[t]

\* A name that waits for nothing is not in dag, and a dependency on a name
\* that is still in dag has not been discharged.
WaitingInv ==
  Searched =>
    /\ \A n \in independentTasks : n \notin DOMAIN dag
    /\ pc = "children" => parent \notin DOMAIN dag
    /\ \A t \in DOMAIN dag : deps[t] \cap DOMAIN dag \subseteq dag[t]

\* What a task in dag waits for is in dag, or will be popped, or just was.
NothingLost ==
  Searched =>
    \A t \in DOMAIN dag : \A e \in dag[t] :
      \/ e \in DOMAIN dag
      \/ e \in independentTasks
      \/ pc = "children" /\ e = parent

\* No task of a knot ever leaves dag.
KnotsKept ==
  Searched => \A S \in SUBSET Names : Knot(S) => S \subseteq DOMAIN dag

\* Links are dependencies on listed tasks, and no task is listed twice.
LinksInv ==
  /\ Searched => \A n \in Names : mult[n] <= 1
  /\ \A t \in Names : prev[t] \subseteq deps[t] \cap Items
  /\ \A n \in Names : mult[n] = 0 => deps[n] = {}

IInv ==
  TypeOK /\ ControlInv /\ MapsAgree /\ WaitingInv /\ NothingLost /\ KnotsKept
         /\ LinksInv

-----------------------------------------------------------------------------
\* Discharging the dependency of c on p keeps c in dag exactly when c waits
\* for something else, and changes no other entry.
LEMMA DischargeFacts ==
  ASSUME TypeOK, NEW p, NEW c \in DOMAIN dag
  PROVE  /\ dag[c] \ {p} = {} => DOMAIN discharge(p, c) = DOMAIN dag \ {c}
         /\ dag[c] \ {p} # {} => DOMAIN discharge(p, c) = DOMAIN dag
         /\ \A t \in DOMAIN discharge(p, c) :
              discharge(p, c)[t] = IF t = c THEN dag[c] \ {p} ELSE dag[t]
         /\ discharge(p, c) \in [DOMAIN discharge(p, c) -> SUBSET Names]
  BY DEF discharge, TypeOK

\* Build starts before the maps are filled, so only types and links matter.
LEMMA InitIInv == Init => IInv
  BY Zenon DEF Init, IInv, TypeOK, ControlInv, MapsAgree, WaitingInv, NothingLost,
         KnotsKept, LinksInv, Searched, Terminal, NoName, Items

\* Filling the maps from deps establishes the facts about them.
LEMMA FillIInv == IInv /\ findCyclesInDependencies => IInv'
  <1> SUFFICES ASSUME IInv, findCyclesInDependencies PROVE IInv'
    OBVIOUS
  <1> USE DEF findCyclesInDependencies, independentAtStart
  <1>1. DOMAIN dag' = {n \in Names : deps[n] # {}}
        /\ \A t \in DOMAIN dag' : dag'[t] = deps[t]
    OBVIOUS
  <1>2. TypeOK'
    BY DEF IInv, TypeOK, Terminal
  <1>3. ControlInv' /\ LinksInv'
    BY DEF IInv, TypeOK, ControlInv, LinksInv, Searched, Items
  <1>4. MapsAgree' /\ WaitingInv' /\ NothingLost'
    BY <1>1 DEF IInv, TypeOK, MapsAgree, WaitingInv, NothingLost
  <1>5. KnotsKept'
    BY <1>1 DEF KnotsKept, Knot
  <1> QED
    BY <1>2, <1>3, <1>4, <1>5 DEF IInv

\* The inner loop: discharging one dependency keeps every knot in dag.
LEMMA PopChildIInv == IInv /\ PopChild => IInv'
  <1> SUFFICES ASSUME IInv, PopChild PROVE IInv'
    OBVIOUS
  <1>1. PICK c \in childMap[parent] :
          /\ childMap' = [childMap EXCEPT ![parent] = @ \ {c}]
          /\ dag' = discharge(parent, c)
          /\ independentTasks' = IF dag[c] \ {parent} = {}
                                   THEN independentTasks \cup {c}
                                   ELSE independentTasks
    BY Zenon DEF PopChild
  <1>2. /\ pc = "children" /\ pc' = pc /\ err' = err /\ parent' = parent
        /\ deps' = deps /\ mult' = mult /\ prev' = prev
        /\ Searched /\ Searched' /\ parent \in Names /\ err = "none"
    BY DEF PopChild, IInv, TypeOK, ControlInv, Searched
  <1>3. c \in DOMAIN dag /\ parent \in dag[c] /\ c \in Names
    BY <1>1, <1>2 DEF IInv, MapsAgree, TypeOK
  <1>4. /\ dag[c] \ {parent} = {} => DOMAIN dag' = DOMAIN dag \ {c}
        /\ dag[c] \ {parent} # {} => DOMAIN dag' = DOMAIN dag
        /\ \A t \in DOMAIN dag' : dag'[t] = IF t = c THEN dag[c] \ {parent} ELSE dag[t]
        /\ dag' \in [DOMAIN dag' -> SUBSET Names]
    <2>1. TypeOK
      BY DEF IInv
    <2>2. /\ dag[c] \ {parent} = {} => DOMAIN discharge(parent, c) = DOMAIN dag \ {c}
          /\ dag[c] \ {parent} # {} => DOMAIN discharge(parent, c) = DOMAIN dag
          /\ \A t \in DOMAIN discharge(parent, c) :
               discharge(parent, c)[t] = IF t = c THEN dag[c] \ {parent} ELSE dag[t]
          /\ discharge(parent, c) \in [DOMAIN discharge(parent, c) -> SUBSET Names]
      BY <1>3, <2>1, DischargeFacts, Zenon
    <2> QED
      BY <1>1, <2>2
  <1>5. DOMAIN dag' \subseteq DOMAIN dag
    BY <1>4
  <1>6. TypeOK'
    BY <1>1, <1>2, <1>3, <1>4, <1>5 DEF IInv, TypeOK
  <1>7. ControlInv' /\ LinksInv'
    BY <1>2 DEF IInv, ControlInv, LinksInv, Items
  <1>8. MapsAgree'
    <2>1. /\ \A t \in DOMAIN dag : dag[t] # {} /\ dag[t] \subseteq deps[t]
          /\ \A t \in DOMAIN dag : \A e \in dag[t] : t \in childMap[e]
          /\ \A e \in Names : \A t \in childMap[e] : t \in DOMAIN dag /\ e \in dag[t]
          /\ childMap \in [Names -> SUBSET Names]
          /\ \A t \in DOMAIN dag : dag[t] \subseteq Names
      BY <1>2 DEF IInv, MapsAgree, TypeOK
    <2>2. \A t \in DOMAIN dag' : dag'[t] # {} /\ dag'[t] \subseteq deps[t]
      BY <1>4, <1>5, <2>1
    <2>3. \A t \in DOMAIN dag' : \A e \in dag'[t] : t \in childMap'[e]
      BY <1>1, <1>2, <1>4, <1>5, <2>1
    <2>4. \A e \in Names : \A t \in childMap'[e] : t \in DOMAIN dag' /\ e \in dag'[t]
      <3> SUFFICES ASSUME NEW e \in Names, NEW t \in childMap'[e]
                   PROVE  t \in DOMAIN dag' /\ e \in dag'[t]
        OBVIOUS
      <3>1. t \in childMap[e] /\ (e = parent => t # c)
        BY <1>1, <1>2, <2>1
      <3>2. t \in DOMAIN dag /\ e \in dag[t]
        BY <2>1, <3>1
      <3> QED
        BY <1>4, <3>1, <3>2
    <2> QED
      BY <1>2, <2>2, <2>3, <2>4 DEF MapsAgree
  <1>9. WaitingInv'
    BY <1>1, <1>2, <1>4, <1>5 DEF IInv, WaitingInv
  <1>10. NothingLost'
    BY <1>1, <1>2, <1>4, <1>5 DEF IInv, NothingLost
  <1>11. KnotsKept'
    <2> SUFFICES ASSUME NEW S \in SUBSET Names, Knot(S)
                 PROVE  S \subseteq DOMAIN dag'
      BY <1>2 DEF KnotsKept, Knot
    <2>1. S \subseteq DOMAIN dag
      BY <1>2 DEF IInv, KnotsKept
    <2>2. parent \notin S
      BY <1>2, <2>1 DEF IInv, WaitingInv
    <2>3. CASE c \in S
      <3>1. PICK e \in deps[c] : e \in S
        BY <2>3 DEF Knot
      <3>2. e \in dag[c] \ {parent}
        BY <1>2, <1>3, <2>1, <2>2, <3>1 DEF IInv, WaitingInv
      <3> QED
        BY <1>4, <2>1, <3>2
    <2>4. CASE c \notin S
      BY <1>4, <2>1, <2>4
    <2> QED
      BY <2>3, <2>4
  <1> QED
    BY <1>6, <1>7, <1>8, <1>9, <1>10, <1>11 DEF IInv

\* The other steps leave dag and childMap alone.
LEMMA OtherIInv ==
  IInv /\ (addPipelineTask \/ PopParent \/ ChildrenDone \/ getInterdependencyError
           \/ addLink \/ Built \/ UNCHANGED vars) => IInv'
  <1> USE DEF IInv, TypeOK, ControlInv, LinksInv, MapsAgree, WaitingInv, NothingLost,
              KnotsKept, Knot, Searched, Terminal, Items
  <1>1. IInv /\ addPipelineTask => IInv'
    BY DEF addPipelineTask
  <1>2. IInv /\ PopParent => IInv'
    BY DEF PopParent
  <1>3. IInv /\ ChildrenDone => IInv'
    <2> SUFFICES ASSUME IInv, ChildrenDone PROVE IInv'
      OBVIOUS
    <2>1. \A t \in DOMAIN dag : parent \notin dag[t]
      BY DEF ChildrenDone
    <2>2. NothingLost'
      BY <2>1 DEF ChildrenDone
    <2> QED
      BY <2>2, ZenonT(60) DEF ChildrenDone
  <1>4. IInv /\ getInterdependencyError => IInv'
    BY ZenonT(60) DEF getInterdependencyError
  <1>5. IInv /\ addLink => IInv'
    BY SMTT(60) DEF addLink
  <1>6. IInv /\ Built => IInv'
    BY DEF Built
  <1>7. IInv /\ UNCHANGED vars => IInv'
    BY SMTT(60) DEF vars
  <1> QED
    BY Zenon, <1>1, <1>2, <1>3, <1>4, <1>5, <1>6, <1>7

\* The inductive invariant holds throughout Build.
THEOREM IInvHolds == Spec => []IInv
  <1>1. IInv /\ [Next]_vars => IInv'
    BY FillIInv, PopChildIInv, OtherIInv DEF Next, Returned
  <1> QED
    BY InitIInv, <1>1, PTL DEF Spec

-----------------------------------------------------------------------------
\* The variables of Build keep the types of the Go values they stand for.
THEOREM TypeCorrect == Spec => []TypeOK
  BY IInvHolds, PTL DEF IInv

\* For every pipeline, findCyclesInDependencies accepts no cycle, whatever
\* order PopAny empties the sets in: a knot never leaves dag, and Build goes
\* on only when dag is empty.
THEOREM AcceptsNoCycle == Spec => []NoCycleAccepted
  <1>1. IInv => NoCycleAccepted
    BY DEF IInv, ControlInv, KnotsKept, Searched, NoCycleAccepted, Knot
  <1> QED
    BY IInvHolds, <1>1, PTL

\* For every pipeline, a cycle error is real: when nothing is left to pop,
\* each task left in dag waits for a task left in dag.
THEOREM ReportsOnlyCycles == Spec => []CycleErrorIsReal
  <1>1. IInv => CycleErrorIsReal
    <2> SUFFICES ASSUME IInv, err = "cycle" PROVE Knot(DOMAIN dag)
      BY DEF CycleErrorIsReal
    <2>1. Searched /\ pc = "failed" /\ independentTasks = {} /\ DOMAIN dag # {}
      BY DEF IInv, ControlInv, Searched
    <2>2. ASSUME NEW t \in DOMAIN dag PROVE deps[t] \cap DOMAIN dag # {}
      BY <2>1 DEF IInv, MapsAgree, NothingLost
    <2> QED
      BY <2>1, <2>2 DEF Knot
  <1> QED
    BY IInvHolds, <1>1, PTL

\* For every pipeline, the graph Build returns links each task to exactly
\* its dependencies, all of them tasks of the pipeline.
THEOREM BuildsFaithfulGraph == Spec => []BuiltGraphIsFaithful
  <1>1. IInv => BuiltGraphIsFaithful
    <2> SUFFICES ASSUME IInv, pc = "built" PROVE BuiltGraphIsFaithful
      BY DEF BuiltGraphIsFaithful
    <2>1. \A t \in Names : prev[t] = deps[t]
      BY Zenon DEF IInv, LinksInv, ControlInv
    <2>2. prev = deps
      BY <2>1 DEF IInv, TypeOK
    <2>3. Searched
      BY DEF IInv, ControlInv, Searched
    <2> QED
      BY <2>2, <2>3 DEF IInv, LinksInv, BuiltGraphIsFaithful, Items
  <1> QED
    BY IInvHolds, <1>1, PTL

-----------------------------------------------------------------------------
(* GetCandidateTasks, on any acyclic graph *)

\* Every root, and every node that waits for a visited done node, is
\* visited or about to be.
FrontierInv ==
  /\ C!getRoots \subseteq calls \cup visited
  /\ \A n \in visited \cap doneTasks : C!next(n) \subseteq calls \cup visited

\* The candidates are the visited nodes that are not done and ready.
FoundInv ==
  d = {n \in visited \ doneTasks : prev[n] \subseteq doneTasks}

\* The walk returns with nothing left to visit.
ReturnInv ==
  /\ ret # "walking" => calls = {}
  /\ ret = "ok" => doneTasks \subseteq visited
  /\ ret = "error" => ~(doneTasks \subseteq visited)

VisitInv == C!TypeOK /\ C!Acyclic(prev) /\ FrontierInv /\ FoundInv /\ ReturnInv

LEMMA WalkBegins ==
  ASSUME prev \in [Names -> SUBSET Names], C!Acyclic(prev), doneTasks \in SUBSET Names,
         calls = C!getRoots, visited = {}, d = {}, ret = "walking"
  PROVE  VisitInv
  BY DEF VisitInv, C!TypeOK, FrontierInv, FoundInv, ReturnInv, C!getRoots, C!next

LEMMA WalkGoesOn == VisitInv /\ [C!Next]_(C!vars) => VisitInv'
  <1> SUFFICES ASSUME VisitInv, [C!Next]_(C!vars) PROVE VisitInv'
    OBVIOUS
  <1> USE DEF VisitInv, C!TypeOK, FrontierInv, FoundInv, ReturnInv, C!getRoots, C!next
  <1>1. CASE C!VisitDone
    <2>1. C!Acyclic(prev)'
      BY <1>1 DEF C!VisitDone, C!Acyclic
    <2> QED
      BY <1>1, <2>1 DEF C!VisitDone
  <1>2. CASE C!VisitNotDone
    <2>1. C!Acyclic(prev)'
      BY <1>2 DEF C!VisitNotDone, C!Acyclic
    <2> QED
      BY <1>2, <2>1 DEF C!VisitNotDone, C!isSchedulable
  <1>3. CASE C!Return
    BY <1>3 DEF C!Return, C!Acyclic
  <1>4. CASE UNCHANGED C!vars
    BY <1>4 DEF C!vars, C!Acyclic
  <1> QED
    BY <1>1, <1>2, <1>3, <1>4 DEF C!Next, C!Returned

\* The inductive invariant holds throughout the walk.
THEOREM VisitsHold == C!Spec => []VisitInv
  <1>1. C!Init => VisitInv
    BY WalkBegins DEF C!Init
  <1> QED
    BY <1>1, WalkGoesOn, PTL DEF C!Spec

\* The variables of the walk keep the types of the Go values they stand for.
THEOREM WalkTypeCorrect == C!Spec => []C!TypeOK
  BY VisitsHold, PTL DEF VisitInv

LEMMA VisitsExact == VisitInv => C!CandidatesExact
  <1> SUFFICES ASSUME VisitInv, ret = "ok"
               PROVE  d = {n \in Names \ doneTasks : prev[n] \subseteq doneTasks}
    BY DEF C!CandidatesExact
  <1> USE DEF VisitInv, C!TypeOK
  <1>1. calls = {} /\ doneTasks \subseteq visited
    BY DEF ReturnInv
  <1>2. ASSUME NEW n \in Names \ doneTasks, prev[n] \subseteq doneTasks
        PROVE  n \in visited
    <2>1. CASE prev[n] = {}
      BY <1>1, <2>1 DEF FrontierInv, C!getRoots
    <2>2. CASE prev[n] # {}
      BY <1>1, <1>2, <2>2 DEF FrontierInv, C!next
    <2> QED
      BY <2>1, <2>2
  <1> QED
    BY <1>2 DEF FoundInv

\* For every graph and list of done tasks, GetCandidateTasks returns an error
\* or exactly the tasks that are ready: a ready task is a root or waits for
\* done tasks, which were all visited.
THEOREM ReturnsExactCandidates == C!Spec => []C!CandidatesExact
  BY VisitsHold, VisitsExact, PTL

\* Otherwise the done tasks that were not visited would wait for each other.
LEMMA VisitsError == VisitInv => C!ErrorOnlyIfInvalid
  <1>1. ASSUME VisitInv, ret = "error", \A t \in doneTasks : prev[t] \subseteq doneTasks
        PROVE  FALSE
    <2> DEFINE S == doneTasks \ visited
    <2> USE <1>1 DEF VisitInv, C!TypeOK
    <2>1. calls = {} /\ S # {} /\ S \in SUBSET Names
      BY DEF ReturnInv
    <2>2. PICK t \in S : prev[t] \cap S = {}
      BY Zenon, <2>1 DEF C!Acyclic
    <2>3. prev[t] \subseteq visited \cap doneTasks
      BY <1>1, <2>2
    <2>4. t \in visited
      <3>1. CASE prev[t] = {}
        BY <2>1, <3>1 DEF FrontierInv, C!getRoots
      <3>2. CASE prev[t] # {}
        BY <2>1, <2>3, <3>2 DEF FrontierInv, C!next
      <3> QED
        BY <3>1, <3>2
    <2> QED
      BY <2>4
  <1> QED
    BY <1>1 DEF C!ErrorOnlyIfInvalid, C!Invalid

\* For every acyclic graph, GetCandidateTasks fails only when a task is done
\* before a task it waits for.
THEOREM FailsOnlyIfInvalid == C!Spec => []C!ErrorOnlyIfInvalid
  BY VisitsHold, VisitsError, PTL

-----------------------------------------------------------------------------
(* Build and GetCandidateTasks together *)

\* A walk is always over a finished graph.
WalkInv ==
  /\ ret = "not called" => visited = {} /\ d = {}
  /\ ret # "not called" => pc = "built" /\ VisitInv

\* Build goes on as if by itself, and its graph is left alone afterwards.
LEMMA GraphImplementsBuild == GraphSpec => Spec
<1>1. GraphInit => Init
  BY Zenon DEF GraphInit
<1>2. [GraphNext]_<<vars, walk>> => [Next]_vars
  <2>1. CASE Building
    BY Zenon, <2>1 DEF Building
  <2>2. CASE CallGetCandidateTasks
    BY Zenon, <2>2 DEF CallGetCandidateTasks
  <2>3. CASE Walking
    BY Zenon, <2>3 DEF Walking, C!Next, C!VisitDone, C!VisitNotDone, C!Return, C!Returned,
                       C!vars, vars
  <2>4. CASE UNCHANGED <<vars, walk>>
    BY <2>4
  <2> QED
    BY <2>1, <2>2, <2>3, <2>4 DEF GraphNext
<1> QED
  BY <1>1, <1>2, PTL DEF GraphSpec, Spec

\* The graph that Build returned is acyclic and links tasks to tasks.
LEMMA BuiltIsAcyclic ==
  ASSUME TypeOK, NoCycleAccepted, BuiltGraphIsFaithful, pc = "built"
  PROVE  prev = deps /\ C!Acyclic(prev)
<1>1. prev = deps
  BY DEF BuiltGraphIsFaithful
<1>2. \A S \in SUBSET Names : S # {} => \E t \in S : deps[t] \cap S = {}
  BY DEF NoCycleAccepted, Knot
<1> QED
  BY <1>1, <1>2 DEF C!Acyclic

LEMMA WalkInvKept ==
  ASSUME TypeOK, NoCycleAccepted, BuiltGraphIsFaithful, WalkInv, [GraphNext]_<<vars, walk>>
  PROVE  WalkInv'
<1>1. CASE Building
  BY Zenon, <1>1 DEF Building, WalkInv, walk
<1>2. CASE CallGetCandidateTasks
  <2>1. C!Acyclic(prev)
    BY Zenon, <1>2, BuiltIsAcyclic DEF CallGetCandidateTasks
  <2>2. VisitInv'
    BY Zenon, <1>2, <2>1 DEF CallGetCandidateTasks, WalkInv, vars, TypeOK, C!getRoots, VisitInv,
       C!TypeOK, FrontierInv, FoundInv, ReturnInv, C!next, C!Acyclic
  <2> QED
    BY Zenon, <1>2, <2>2 DEF CallGetCandidateTasks, WalkInv, vars
<1>3. CASE Walking
  <2>1. VisitInv'
    BY Zenon, <1>3, WalkGoesOn DEF Walking, WalkInv
  <2>2. ret' # "not called" /\ UNCHANGED pc
    BY Zenon, <1>3, <2>1 DEF Walking, VisitInv, C!TypeOK
  <2> QED
    BY Zenon, <1>3, <2>1, <2>2 DEF WalkInv, Walking
<1>4. CASE UNCHANGED <<vars, walk>>
  BY Zenon, <1>4 DEF WalkInv, vars, walk, VisitInv, C!TypeOK, FrontierInv, FoundInv, ReturnInv,
     C!getRoots, C!next, C!Acyclic
<1> QED
  BY <1>1, <1>2, <1>3, <1>4 DEF GraphNext

LEMMA ExactAtReturn ==
  ASSUME WalkInv
  PROVE  CandidatesExact
<1> SUFFICES ASSUME ret # "not called" PROVE CandidatesExact
  BY Zenon DEF CandidatesExact, C!CandidatesExact, C!ErrorOnlyIfInvalid
<1>1. C!CandidatesExact /\ C!ErrorOnlyIfInvalid
  BY Zenon, VisitsExact, VisitsError DEF WalkInv
<1> QED
  BY Zenon, <1>1 DEF CandidatesExact

LEMMA ProgressAtReturn ==
  ASSUME TypeOK, NoCycleAccepted, BuiltGraphIsFaithful, WalkInv
  PROVE  SomethingCanStart
<1> SUFFICES ASSUME ret = "ok"
             PROVE  /\ doneTasks # Names => d # {}
                    /\ \A n \in d : deps[n] \subseteq doneTasks
  BY DEF SomethingCanStart
<1>1. pc = "built" /\ VisitInv
  BY DEF WalkInv
<1>2. d = {n \in Names \ doneTasks : prev[n] \subseteq doneTasks}
  BY <1>1, VisitsExact DEF C!CandidatesExact
<1>3. prev = deps /\ C!Acyclic(prev)
  BY <1>1, BuiltIsAcyclic
<1>4. doneTasks \subseteq Names
  BY <1>1 DEF VisitInv, C!TypeOK
<1>5. ASSUME doneTasks # Names PROVE d # {}
  <2> DEFINE S == Names \ doneTasks
  <2>1. PICK t \in S : prev[t] \cap S = {}
    BY Zenon, <1>3, <1>4, <1>5 DEF C!Acyclic
  <2>2. prev[t] \subseteq doneTasks
    BY <1>3, <2>1 DEF TypeOK
  <2> QED
    BY <1>2, <2>1, <2>2
<1> QED
  BY <1>2, <1>3, <1>5

\* A walk begins on what Build returned, and keeps its invariant.
LEMMA WalkInvHolds == GraphSpec => []WalkInv
<1>1. GraphInit => WalkInv
  BY Zenon DEF GraphInit, WalkInv
<1>2. TypeOK /\ NoCycleAccepted /\ BuiltGraphIsFaithful /\ WalkInv /\ [GraphNext]_<<vars, walk>>
        => WalkInv'
  BY WalkInvKept
<1> QED
  BY <1>1, <1>2, GraphImplementsBuild, TypeCorrect, AcceptsNoCycle, BuildsFaithfulGraph,
     PTL DEF GraphSpec

\* Of every pipeline that Build accepts, in whatever order nodes are visited,
\* GetCandidateTasks returns the tasks that may start, no more and no fewer,
\* and fails only if a task is done before one it waits for.
THEOREM CandidatesOfBuiltGraphs == GraphSpec => []CandidatesExact
  BY WalkInvHolds, ExactAtReturn, PTL

(***************************************************************************)
(* A pipeline that Build accepted never waits for itself: whatever tasks   *)
(* are done, unless all are, GetCandidateTasks returns an error or a task  *)
(* that may start, all of whose dependencies are done.                     *)
(***************************************************************************)
THEOREM AcceptedPipelinesGoOn == GraphSpec => []SomethingCanStart
  BY WalkInvHolds, ProgressAtReturn, GraphImplementsBuild, TypeCorrect, AcceptsNoCycle,
     BuildsFaithfulGraph, PTL

-----------------------------------------------------------------------------
(* Resolution *)

(***************************************************************************)
(* The reconciler writes what it decided on a request that was not done.   *)
(***************************************************************************)
Decision ==
  rec.pc = "write" =>
    /\ ~IsDone(rec.orig)
    /\ rec.st.cond \in {"Succeeded", "Failed", "InProgress"}
    /\ rec.st.cond = "Succeeded" => rec.st.data # Empty

\* Whoever is about to write over the condition did not miss a success.
SuccessSeen ==
  /\ rec.pc = "write" => rr.cond # "Succeeded"
  /\ synced /\ rr.cond = "Succeeded" => cache.cond = "Succeeded"
  /\ work.pc = "mark" /\ work.latest => rr.cond # "Succeeded"

\* A request that is not done, as far as the reconciler knows, is in its
\* hands, in its queue or on its timer, unless an event is under way.
Watched ==
  synced /\ cache.cond # "absent" /\ ~IsDone(cache) => queued \/ rec.pc = "write" \/ snooze

-----------------------------------------------------------------------------
LEMMA RecordTypes ==
  /\ NoRequest \in Request
  /\ NoReconcile \in ReconcileType
  /\ NoWork \in WorkType
  /\ \A r \in Request : r.data \in Contents \cup {Empty}
  /\ \A r \in Request, c \in {"new", "InProgress", "Succeeded", "Failed"} :
       [r EXCEPT !.cond = c] \in Request
  /\ \A r \in Request, v \in Contents \cup {Empty} : [r EXCEPT !.data = v] \in Request
  BY DEF NoRequest, Request, NoReconcile, ReconcileType, NoWork, WorkType

LEMMA DecidedType == \A r \in Request : decided(r) \in Request
  BY Zenon, RecordTypes DEF decided

LEMMA InitTypes ==
  ASSUME RequestInit
  PROVE  RequestTypeOK
<1>1. faults \in 0..MaxFaults
  BY ResolutionAssumption DEF RequestInit
<1> QED
  BY Zenon, <1>1, RecordTypes DEF RequestInit, RequestTypeOK

LEMMA FaultType ==
  ASSUME RequestTypeOK, fault
  PROVE  faults' \in 0..MaxFaults
  BY ResolutionAssumption DEF RequestTypeOK, fault

LEMMA TypesKept ==
  ASSUME RequestTypeOK, [RequestNext]_requestVars
  PROVE  RequestTypeOK'
<1> USE RecordTypes DEF RequestTypeOK
<1>1. CASE SubmitNew
  BY Zenon, <1>1 DEF SubmitNew, unasked
<1>2. CASE SubmitDone
  BY <1>2 DEF SubmitDone, unasked
<1>3. CASE SubmitFails
  BY <1>3, FaultType DEF SubmitFails, unasked
<1>4. CASE ReconcileKind
  <2>1. rec' \in ReconcileType
    BY <1>4, DecidedType DEF ReconcileKind, ReconcileType
  <2> QED
    BY Zenon, <1>4, <2>1 DEF ReconcileKind, others
<1>5. CASE UpdateStatus
  <2>1. rr' \in Request /\ synced' \in BOOLEAN
    BY Zenon, <1>5 DEF UpdateStatus, ReconcileType
  <2>2. [work EXCEPT !.latest = FALSE] \in WorkType
    BY Zenon DEF WorkType
  <2>3. work' \in WorkType
    BY <1>5, <2>2 DEF UpdateStatus
  <2> QED
    BY <1>5, <2>1, <2>3 DEF UpdateStatus, others
<1>6. CASE UpdateStatusFails
  BY <1>6, FaultType DEF UpdateStatusFails, others
<1>7. CASE ResolverTakes \/ Fetched \/ FetchFails
  <2>1. ASSUME ResolverTakes \/ FetchFails PROVE work' \in WorkType
    BY ZenonT(60), <2>1 DEF ResolverTakes, FetchFails, WorkType, NoWork
  <2>2. ASSUME Fetched PROVE work' \in WorkType
    <3>1. PICK c \in Contents \cup {Empty} : work' = [work EXCEPT !.pc = "patch", !.data = c]
      BY Zenon, <2>2 DEF Fetched, Empty
    <3> QED
      BY Zenon, <3>1 DEF WorkType
  <2>3. work' \in WorkType
    BY <1>7, <2>1, <2>2
  <2> QED
    BY Zenon, <1>7, <2>3 DEF ResolverTakes, Fetched, FetchFails, elsewhere
<1>8. CASE writeResolvedData
  <2>1. work.data \in Contents \cup {Empty}
    BY DEF WorkType
  <2> QED
    BY <1>8, <2>1 DEF writeResolvedData, elsewhere
<1>9. CASE MarkFailedGet \/ MarkFailed
  <2>1. work' \in WorkType
    BY Zenon, <1>9 DEF MarkFailedGet, MarkFailed, WorkType
  <2>2. rr' \in Request
    BY Zenon, <1>9 DEF MarkFailedGet, MarkFailed
  <2> QED
    BY <1>9, <2>1, <2>2 DEF MarkFailedGet, MarkFailed, elsewhere
<1>10. CASE writeResolvedDataFails \/ MarkFailedFails
  <2>1. work' \in WorkType
    BY <1>10 DEF writeResolvedDataFails, MarkFailedFails, WorkType
  <2> QED
    BY Zenon, <1>10, <2>1, FaultType DEF writeResolvedDataFails, MarkFailedFails, elsewhere
<1>11. CASE InformCache \/ InformResolver
  BY Zenon, <1>11 DEF InformCache, InformResolver
<1>12. CASE Expire
  BY Zenon, <1>12 DEF Expire
<1>13. CASE Crash
  BY Zenon, <1>13, FaultType DEF Crash
<1>14. CASE RequestRest \/ UNCHANGED requestVars
  BY <1>14 DEF RequestRest, requestVars
<1> QED
  BY <1>1, <1>2, <1>3, <1>4, <1>5, <1>6, <1>7, <1>8, <1>9, <1>10, <1>11, <1>12, <1>13, <1>14
     DEF RequestNext, Submit, Reconciler, Resolver

\* Every ResolutionRequest, and every cached or decided one, is well formed.
THEOREM ResolutionTypeCorrect == RequestSpec => []RequestTypeOK
  BY InitTypes, TypesKept, PTL DEF RequestSpec

-----------------------------------------------------------------------------
\* No request is done for the reconciler to decide on.
LEMMA DecisionKept ==
  ASSUME RequestTypeOK, Decision, [RequestNext]_requestVars
  PROVE  Decision'
<1> USE DEF Decision
<1>1. CASE ReconcileKind
  <2>1. CASE rec' = NoReconcile
    BY <2>1 DEF NoReconcile
  <2>2. CASE rec' # NoReconcile
    <3>1. rec'.st = decided(cache) /\ rec'.orig = cache /\ ~IsDone(cache)
      BY <1>1, <2>2 DEF ReconcileKind
    <3>2. decided(cache).cond \in {"Succeeded", "Failed", "InProgress"}
      BY DEF decided, RequestTypeOK, Request
    <3>3. decided(cache).cond = "Succeeded" => decided(cache).data # Empty
      BY DEF decided, RequestTypeOK, Request
    <3> QED
      BY <3>1, <3>2, <3>3
  <2> QED
    BY <2>1, <2>2
<1>2. CASE rec' = NoReconcile
  BY <1>2 DEF NoReconcile
<1>3. CASE UNCHANGED rec
  BY <1>3 DEF IsDone
<1> QED
  BY Zenon, <1>1, <1>2, <1>3
     DEF RequestNext, Submit, Reconciler, Resolver, SubmitNew, SubmitDone, SubmitFails,
         UpdateStatus,
         UpdateStatusFails, ResolverTakes, Fetched, FetchFails, writeResolvedData,
         writeResolvedDataFails, MarkFailedGet, MarkFailed, MarkFailedFails,
         InformCache,
         InformResolver, Expire, Crash, RequestRest, requestVars, unasked, elsewhere

LEMMA SuccessSeenKept ==
  ASSUME ReadsOwnWrites, RequestTypeOK, Decision, SuccessSeen, [RequestNext]_requestVars
  PROVE  SuccessSeen' /\ (rr.cond = "Succeeded" => rr'.cond = "Succeeded")
                     /\ (rr.cond # "Succeeded" /\ rr'.cond = "Succeeded" => rr'.data # Empty)
<1> USE DEF RequestTypeOK, SuccessSeen
<1>1. CASE SubmitNew
  <2>1. rr'.cond = "Succeeded" <=> rr.cond = "Succeeded"
    BY <1>1 DEF SubmitNew, Request
  <2> QED
    BY <1>1, <2>1 DEF SubmitNew, unasked
<1>2. CASE SubmitDone \/ SubmitFails
  BY <1>2 DEF SubmitDone, SubmitFails, unasked
<1>3. CASE ReconcileKind
  BY <1>3 DEF ReconcileKind, others, IsDone, NoReconcile
<1>4. CASE UpdateStatus
  <2>1. rec'.pc = "idle"
    BY <1>4 DEF UpdateStatus, NoReconcile
  <2>2. CASE rec.st = rec.orig
    BY <1>4, <2>1, <2>2 DEF UpdateStatus, others
  <2>3. CASE rec.st # rec.orig /\ rr' # rr
    BY <1>4, <2>1, <2>3 DEF UpdateStatus, Decision, WorkType
  <2>4. CASE rec.st # rec.orig /\ rr' = rr
    BY <1>4, <2>1, <2>4 DEF UpdateStatus
  <2> QED
    BY <2>2, <2>3, <2>4
<1>5. CASE UpdateStatusFails
  BY <1>5 DEF UpdateStatusFails, others, NoReconcile
<1>6. CASE \/ ResolverTakes \/ Fetched \/ FetchFails
           \/ writeResolvedDataFails \/ MarkFailedFails
  <2>3. ASSUME Fetched PROVE work'.pc # "mark"
    <3>1. PICK c : work' = [work EXCEPT !.pc = "patch", !.data = c]
      BY Zenon, <2>3 DEF Fetched
    <3> QED
      BY <3>1 DEF WorkType
  <2>4. ASSUME ResolverTakes \/ FetchFails \/ writeResolvedDataFails \/ MarkFailedFails
        PROVE  work'.pc # "mark"
    BY <2>4 DEF ResolverTakes, FetchFails, writeResolvedDataFails, MarkFailedFails,
                NoWork, WorkType
  <2>1. work'.pc # "mark"
    BY <1>6, <2>3, <2>4, SMTT(60)
  <2>2. UNCHANGED <<rr, cache, rec, synced>>
    BY Zenon, <1>6 DEF ResolverTakes, Fetched, FetchFails, writeResolvedDataFails,
                MarkFailedFails,
       elsewhere
  <2> QED
    BY <2>1, <2>2
<1>7. CASE writeResolvedData
  <2>1. rr'.cond = rr.cond /\ work'.pc = "idle"
    BY <1>7 DEF writeResolvedData, Request, NoWork
  <2> QED
    BY <1>7, <2>1 DEF writeResolvedData, elsewhere
<1>8. CASE MarkFailedGet
  BY <1>8 DEF MarkFailedGet, elsewhere, IsDone, NoWork
<1>9. CASE MarkFailed
  <2>1. rr' = rr \/ (rr'.cond = "Failed" /\ rr.cond # "Succeeded")
    BY <1>9 DEF MarkFailed, Request
  <2> QED
    BY <1>9, <2>1 DEF MarkFailed, elsewhere, NoWork
<1>10. CASE InformCache \/ InformResolver \/ Expire
  BY <1>10 DEF InformCache, InformResolver, Expire
<1>11. CASE Crash
  BY <1>11 DEF Crash, NoReconcile, NoWork
<1>12. CASE RequestRest \/ UNCHANGED requestVars
  BY <1>12 DEF RequestRest, requestVars
<1> QED
  BY Zenon, <1>1, <1>2, <1>3, <1>4, <1>5, <1>6, <1>7, <1>8, <1>9, <1>10, <1>11, <1>12
     DEF RequestNext, Submit, Reconciler, Resolver

(***************************************************************************)
(* MarkSucceeded is never undone, and never done without data: neither by  *)
(* the resolver's late MarkFailed nor by a reconcile that overwrites the   *)
(* status, for any number of failing calls and crashes.  The reconciler    *)
(* must see what it wrote last: a stale cache does undo it.                *)
(***************************************************************************)
THEOREM SuccessStays ==
  ASSUME ReadsOwnWrites
  PROVE  RequestSpec => SuccessIsFinal
<1> DEFINE Inv == RequestTypeOK /\ Decision /\ SuccessSeen
<1>1. RequestInit => Inv
  <2> SUFFICES ASSUME RequestInit PROVE Decision /\ SuccessSeen
    BY InitTypes
  <2> QED
    BY DEF RequestInit, Decision, SuccessSeen, NoRequest, NoReconcile, NoWork
<1>2. Inv /\ [RequestNext]_requestVars => Inv'
  BY TypesKept, DecisionKept, SuccessSeenKept
<1>3. Inv /\ [RequestNext]_requestVars =>
        [/\ rr.cond = "Succeeded" => rr'.cond = "Succeeded"
         /\ rr.cond # "Succeeded" /\ rr'.cond = "Succeeded" => rr'.data # Empty]_requestVars
  BY SuccessSeenKept, SMTT(60)
<1> HIDE DEF Inv
<1> QED
  BY <1>1, <1>2, <1>3, PTL DEF RequestSpec, SuccessIsFinal

-----------------------------------------------------------------------------
LEMMA WatchedKept ==
  ASSUME RequestTypeOK, Decision, Watched, [RequestNext]_requestVars
  PROVE  Watched'
<1> USE DEF Watched, IsDone
<1>1. CASE ReconcileKind
  <2>1. CASE cache.cond = "absent" \/ IsDone(cache)
    BY <1>1, <2>1 DEF ReconcileKind, others
  <2>2. CASE ~(cache.cond = "absent" \/ IsDone(cache))
    BY <1>1, <2>2 DEF ReconcileKind
  <2> QED
    BY <2>1, <2>2
<1>2. CASE UpdateStatus
  <2>1. CASE rec.st = rec.orig
    <3>1. rec.st.cond = "InProgress"
      BY <1>2, <2>1 DEF UpdateStatus, Decision
    <3> QED
      BY Zenon, <1>2, <3>1 DEF UpdateStatus
  <2>2. CASE rec.st # rec.orig
    BY <1>2, <2>2 DEF UpdateStatus
  <2> QED
    BY <2>1, <2>2
<1>3. CASE UpdateStatusFails
  BY <1>3 DEF UpdateStatusFails
<1>4. CASE InformCache \/ Expire
  BY Zenon, <1>4 DEF InformCache, Expire
<1>5. CASE Crash
  <2>1. queued' = TRUE \/ UNCHANGED <<cache, synced, queued, snooze, rec>>
    BY <1>5 DEF Crash
  <2> QED
    BY Zenon, <2>1
<1>6. CASE UNCHANGED <<cache, synced, queued, snooze, rec>>
  BY <1>6
<1> QED
  BY Zenon, <1>1, <1>2, <1>3, <1>4, <1>5, <1>6
     DEF RequestNext, Submit, Reconciler, Resolver, SubmitNew, SubmitDone, SubmitFails,
         ResolverTakes,
         Fetched, FetchFails, writeResolvedData, writeResolvedDataFails, MarkFailedGet,
         MarkFailed, MarkFailedFails, InformResolver, RequestRest, requestVars, unasked, elsewhere

(***************************************************************************)
(* No request is forgotten: when nothing is queued, under way or on a      *)
(* timer it is done, whatever was overwritten, lost in a conflict or cut   *)
(* short by a crash.  Needs no assumption on the caches.                   *)
(***************************************************************************)
THEOREM NothingIsForgotten == RequestSpec => []NothingForgotten
<1> DEFINE Inv == RequestTypeOK /\ Decision /\ Watched
<1>1. RequestInit => Inv
  <2> SUFFICES ASSUME RequestInit PROVE Decision /\ Watched
    BY InitTypes
  <2> QED
    BY DEF RequestInit, Decision, Watched, NoRequest, NoReconcile
<1>2. Inv /\ [RequestNext]_requestVars => Inv'
  BY TypesKept, DecisionKept, WatchedKept
<1>3. Inv => NothingForgotten
  BY DEF Watched, NothingForgotten, quiet
<1> HIDE DEF Inv
<1> QED
  BY <1>1, <1>2, <1>3, PTL DEF RequestSpec

-----------------------------------------------------------------------------
(* The steps of a pod *)

(***************************************************************************)
(* StepOrder speaks of all earlier steps, an entrypoint only looks at the  *)
(* file of the one before it.  The invariant that carries the order along  *)
(* says what a post file means: its step was let on to (Chain) and is over *)
(* in a way that lets the next one on (PostMeans).                         *)
(***************************************************************************)
Before == {"wait", "before", "exec", "run"}

\* No file is posted before the command is over.
NothingPosted == \A i \in Step : at[i] \in Before => post[i] = "" /\ how[i] = ""

\* What a file says about the step that posted it.
PostMeans ==
  \A i \in Step : post[i] = "out" \/ (post[i] = "err" /\ task.breakpoint) =>
    letsOn(i) /\ how[i] # "skipped"

\* Only a failed command is held at a breakpoint.
HeldFailed ==
  \A i \in Step : at[i] \in {"hold", "resumed"} =>
    task.breakpoint /\ how[i] \in {"exit", "error"}

\* The entrypoint got past its wait.
passed(i) == at[i] # "wait" /\ how[i] \notin {"skipped", "nosetup"}

Chain ==
  \A i \in Step : /\ passed(i) => \A j \in 1..(i - 1) : letsOn(j)
                  /\ ran[i] => passed(i)

StepsInv == PodTypeOK /\ NothingPosted /\ PostMeans /\ HeldFailed /\ Chain

LEMMA StepsInit == PodInit => StepsInv
<1> SUFFICES ASSUME PodInit PROVE StepsInv
  OBVIOUS
<1>1. PodTypeOK
  BY Zenon, StepsAssumption DEF PodInit, PodTypeOK
<1>2. NothingPosted /\ PostMeans /\ HeldFailed
  BY Zenon DEF PodInit, NothingPosted, PostMeans, HeldFailed
<1>3. Chain
  BY Zenon DEF PodInit, Chain, passed
<1> QED
  BY <1>1, <1>2, <1>3 DEF StepsInv

\* What an entrypoint can rely on once its wait is over.
LEMMA WaitOver ==
  ASSUME StepsInv, NEW i \in Step, mayGo(i), i > 1
  PROVE  letsOn(i - 1) /\ passed(i - 1) /\ i - 1 \in Step
<1>1. i - 1 \in Step
  BY StepsAssumption DEF Step
<1>2. letsOn(i - 1) /\ how[i - 1] # "skipped"
  BY <1>1 DEF StepsInv, PostMeans, mayGo
<1>3. passed(i - 1)
  BY <1>2 DEF letsOn, passed
<1> QED
  BY <1>1, <1>2, <1>3

-----------------------------------------------------------------------------
\* A step of the entrypoint i leaves the others alone.
Others(i) ==
  /\ task' = task
  /\ \A j \in Step \ {i} :
       at'[j] = at[j] /\ how'[j] = how[j] /\ post'[j] = post[j] /\ ran'[j] = ran[j]

\* What the step must keep true of i itself.
Itself(i) ==
  /\ letsOn(i) => letsOn(i)'
  /\ at'[i] \in Before => post'[i] = "" /\ how'[i] = ""
  /\ post'[i] = "out" \/ (post'[i] = "err" /\ task.breakpoint) =>
       letsOn(i)' /\ how'[i] # "skipped"
  /\ at'[i] \in {"hold", "resumed"} => task.breakpoint /\ how'[i] \in {"exit", "error"}
  /\ passed(i)' => passed(i) \/ mayGo(i)
  /\ ran'[i] => passed(i)'

LEMMA OneStep ==
  ASSUME StepsInv, PodTypeOK', NEW i \in Step, Others(i), Itself(i)
  PROVE  StepsInv'
<1>1. \A j \in Step : letsOn(j) => letsOn(j)'
  BY ZenonT(60) DEF Others, Itself, letsOn
<1>2. NothingPosted'
  BY ZenonT(60) DEF StepsInv, NothingPosted, Others, Itself
<1>3. PostMeans'
  <2> SUFFICES ASSUME NEW j \in Step,
                      post'[j] = "out" \/ (post'[j] = "err" /\ task'.breakpoint)
               PROVE  letsOn(j)' /\ how'[j] # "skipped"
    BY DEF PostMeans
  <2>1. CASE j = i
    BY ZenonT(60), <2>1 DEF Itself, Others
  <2>2. CASE j # i
    BY <1>1, <2>2 DEF StepsInv, PostMeans, Others
  <2> QED
    BY <2>1, <2>2
<1>4. HeldFailed'
  BY Zenon DEF StepsInv, HeldFailed, Others, Itself
<1>5. ASSUME NEW j \in Step, passed(j)', NEW k \in 1..(j - 1)
      PROVE  letsOn(k)'
  <2>1. k \in Step
    BY StepsAssumption DEF Step
  <2>2. CASE passed(j)
    BY <1>1, <2>1, <2>2 DEF StepsInv, Chain
  <2>3. CASE ~passed(j)
    <3>1. j = i
      BY <1>5, <2>3 DEF Others, passed
    <3>2. mayGo(i)
      BY Zenon, <1>5, <2>3, <3>1 DEF Itself
    <3>6. i > 1
      BY <3>1, StepsAssumption DEF StepsInv, Step
    <3>3. letsOn(i - 1) /\ passed(i - 1) /\ i - 1 \in Step
      BY <3>2, <3>6, WaitOver
    <3>4. k = i - 1 \/ k \in 1..((i - 1) - 1)
      BY <3>1, StepsAssumption DEF StepsInv, Step
    <3>5. letsOn(k)
      BY <3>3, <3>4 DEF StepsInv, Chain
    <3> QED
      BY <1>1, <2>1, <3>5
  <2> QED
    BY <2>2, <2>3
<1>6. \A j \in Step : ran'[j] => passed(j)'
  BY Zenon DEF StepsInv, Chain, Others, Itself, passed
<1>7. Chain'
  <2>1. ASSUME NEW j \in Step, passed(j)' PROVE \A k \in 1..(j - 1) : letsOn(k)'
    BY <1>5, <2>1
  <2> QED
    BY <1>6, <2>1 DEF Chain
<1> QED
  BY <1>2, <1>3, <1>4, <1>7 DEF StepsInv

-----------------------------------------------------------------------------
\* The steps of an entrypoint, and of the scripts that act for it.

LEMMA StepTypesKept == PodTypeOK /\ [PodNext]_podVars => PodTypeOK'
<1> SUFFICES ASSUME PodTypeOK, [PodNext]_podVars PROVE PodTypeOK'
  OBVIOUS
<1> USE DEF PodTypeOK
<1>1. ASSUME NEW i \in Step, Entrypoint(i) PROVE PodTypeOK'
  <2>1. CASE Wait(i)
    BY Zenon, <2>1 DEF Wait
  <2>2. CASE SkipStep(i)
    BY Zenon, <2>2 DEF SkipStep
  <2>3. CASE WhenFalse(i)
    BY Zenon, <2>3 DEF WhenFalse
  <2>4. CASE NotStarted(i)
    BY ZenonT(60), <2>4 DEF NotStarted, Over, postFile
  <2>5. CASE Run(i)
    BY Zenon, <2>5 DEF Run
  <2>6. CASE CommandStopped(i)
    BY ZenonT(60), <2>6 DEF CommandStopped, Over, postFile
  <2>7. CASE ReadResults(i)
    BY Zenon, <2>7 DEF ReadResults, exitCode
  <2>8. CASE ReadResultsFails(i)
    BY Zenon, <2>8 DEF ReadResultsFails
  <2>9. CASE BreakpointExit(i)
    BY ZenonT(60), <2>9 DEF BreakpointExit
  <2> QED
    BY ZenonT(60), <1>1, <2>1, <2>2, <2>3, <2>4, <2>5, <2>6, <2>7, <2>8, <2>9 DEF Entrypoint
<1>2. ASSUME NEW i \in Step,
             \/ CommandEnds(i) \/ Die(i) \/ BeforeStepContinue(i) \/ BeforeStepFail(i)
             \/ DebugContinue(i)
      PROVE  PodTypeOK'
  <2>1. CASE CommandEnds(i)
    <3>1. PICK end \in {"ok", "exit"} : Over(i, end)
      BY Zenon, <2>1 DEF CommandEnds
    <3>2. postFile(i, end) \in {"", "out", "err"}
      BY Zenon DEF postFile
    <3>3. post' \in [Step -> {"", "out", "err"}]
      BY Zenon, <3>1, <3>2 DEF Over
    <3> QED
      BY Zenon, <2>1, <3>1, <3>3 DEF CommandEnds, Over
  <2>2. CASE Die(i)
    BY Zenon, <2>2 DEF Die
  <2>3. CASE BeforeStepContinue(i)
    BY Zenon, <2>3 DEF BeforeStepContinue
  <2>4. CASE BeforeStepFail(i)
    BY Zenon, <2>4 DEF BeforeStepFail, Over, postFile
  <2>5. CASE DebugContinue(i)
    BY <2>5, ZenonT(60) DEF DebugContinue
  <2> QED
    BY ZenonT(60), <1>2, <2>1, <2>2, <2>3, <2>4, <2>5
<1>3. CASE MarkReady \/ Cancel
  BY Zenon, <1>3 DEF MarkReady, Cancel
<1>4. CASE PodRest \/ UNCHANGED podVars
  BY ZenonT(60), <1>4 DEF PodRest, podVars
<1> QED
  BY ZenonT(60), <1>1, <1>2, <1>3, <1>4 DEF PodNext

\* The command is over: the file posted says how.
LEMMA OverKeeps ==
  ASSUME StepsInv, NEW i \in Step, at[i] \in {"before", "exec", "run"},
         NEW end \in {"before", "error", "cancelled", "ok", "exit", "deadline"}, Over(i, end),
         ran'[i] \in BOOLEAN
  PROVE  Itself(i)
<1>1. /\ at'[i] = "posted" /\ how'[i] = end /\ post'[i] = postFile(i, end)
      /\ task' = task
  BY ZenonT(60) DEF Over, StepsInv, PodTypeOK
<1>2. ~letsOn(i)
  BY DEF letsOn
<1>3. passed(i) /\ passed(i)'
  BY Zenon, <1>1 DEF passed, StepsInv, NothingPosted, Before
<1>4. postFile(i, end) = "out" => end = "ok" \/ (end = "exit" /\ i \in task.continue)
  BY DEF postFile
<1>5. postFile(i, end) = "out" \/ task.breakpoint => letsOn(i)'
  BY <1>1, <1>4 DEF letsOn
<1> QED
  BY <1>1, <1>2, <1>3, <1>5 DEF Itself, Before

LEMMA EntrypointKeeps ==
  ASSUME StepsInv, NEW i \in Step, Entrypoint(i)
  PROVE  Others(i) /\ Itself(i)
<1> USE DEF StepsInv, PodTypeOK
<1>1. CASE Wait(i)
  <2>1. Others(i)
    BY ZenonT(60), <1>1 DEF Wait, Others
  <2>2. /\ at'[i] \in {"before", "exec"} /\ UNCHANGED <<task, how, post, ran>>
        /\ mayGo(i) /\ at[i] = "wait"
    BY ZenonT(60), <1>1 DEF Wait
  <2> QED
    BY ZenonT(60), <2>1, <2>2 DEF Itself, letsOn, passed, Chain, NothingPosted, Before
<1>2. CASE SkipStep(i)
  BY Zenon, <1>2 DEF SkipStep, Others, Itself, letsOn, passed, Chain, Before
<1>3. CASE WhenFalse(i)
  BY <1>3, ZenonT(60) DEF WhenFalse, Others, Itself, letsOn, passed, Chain, NothingPosted,
                          Before
<1>4. CASE NotStarted(i)
  <2>1. \E end \in {"error", "cancelled", "deadline"} : Over(i, end)
    BY Zenon, <1>4 DEF NotStarted
  <2> QED
    BY ZenonT(60), <1>4, <2>1, OverKeeps DEF NotStarted, Over, Others
<1>5. CASE Run(i)
  BY <1>5, ZenonT(60) DEF Run, Others, Itself, letsOn, passed, Chain, NothingPosted, Before
<1>6. CASE CommandStopped(i)
  <2>1. \E end \in {"cancelled", "deadline"} : Over(i, end)
    BY ZenonT(60), <1>6 DEF CommandStopped
  <2> QED
    BY ZenonT(60), <1>6, <2>1, OverKeeps DEF CommandStopped, Over, Others
<1>7. CASE ReadResults(i)
  <2>1. Others(i) /\ UNCHANGED <<task, how, post, ran>>
    BY Zenon, <1>7 DEF ReadResults, Others
  <2>2. at[i] = "posted" /\ at'[i] \in {"hold", "exit"} /\ (at'[i] = "hold" => held(i))
    BY ZenonT(60), <1>7 DEF ReadResults
  <2> QED
    BY ZenonT(60), <2>1, <2>2 DEF held, Itself, letsOn, passed, Chain, PostMeans, Before
<1>8. CASE ReadResultsFails(i)
  BY Zenon, <1>8 DEF ReadResultsFails, Others, Itself, letsOn, passed, Chain, PostMeans, Before
<1>9. CASE BreakpointExit(i)
  BY <1>9, ZenonT(60) DEF BreakpointExit, Others, Itself, letsOn, passed, Chain, PostMeans,
                          Before
<1> QED
  BY ZenonT(60), <1>1, <1>2, <1>3, <1>4, <1>5, <1>6, <1>7, <1>8, <1>9 DEF Entrypoint

LEMMA OutsideKeeps ==
  ASSUME StepsInv, NEW i \in Step,
         \/ CommandEnds(i) \/ Die(i) \/ BeforeStepContinue(i) \/ BeforeStepFail(i)
         \/ DebugContinue(i)
  PROVE  Others(i) /\ Itself(i)
<1> USE DEF StepsInv, PodTypeOK
<1>1. CASE CommandEnds(i)
  <2>1. PICK end \in {"ok", "exit"} : Over(i, end)
    BY Zenon, <1>1 DEF CommandEnds
  <2> QED
    BY ZenonT(60), <1>1, <2>1, OverKeeps DEF CommandEnds, Over, Others
<1>2. CASE Die(i)
  BY <1>2, ZenonT(60) DEF Die, Others, Itself, letsOn, passed, Chain, NothingPosted, Before
<1>3. CASE BeforeStepContinue(i)
  BY ZenonT(60), <1>3 DEF BeforeStepContinue, Others, Itself, letsOn, passed, Chain,
                          NothingPosted, Before
<1>4. CASE BeforeStepFail(i)
  BY Zenon, <1>4, OverKeeps DEF BeforeStepFail, Over, Others
<1>5. CASE DebugContinue(i)
  BY <1>5, ZenonT(60) DEF DebugContinue, Others, Itself, letsOn, passed, Chain, HeldFailed,
                          Before
<1> QED
  BY ZenonT(60), <1>1, <1>2, <1>3, <1>4, <1>5

LEMMA StepsInvKept == StepsInv /\ [PodNext]_podVars => StepsInv'
<1> SUFFICES ASSUME StepsInv, [PodNext]_podVars PROVE StepsInv'
  OBVIOUS
<1>1. PodTypeOK'
  BY StepTypesKept DEF StepsInv
<1>2. ASSUME NEW i \in Step, Entrypoint(i) PROVE StepsInv'
  BY <1>1, <1>2, EntrypointKeeps, OneStep
<1>3. ASSUME NEW i \in Step,
             \/ CommandEnds(i) \/ Die(i) \/ BeforeStepContinue(i) \/ BeforeStepFail(i)
             \/ DebugContinue(i)
      PROVE  StepsInv'
  BY <1>1, <1>3, OutsideKeeps, OneStep
<1>4. CASE MarkReady \/ Cancel \/ PodRest \/ UNCHANGED podVars
  <2>1. UNCHANGED <<task, at, how, post, ran>>
    BY <1>4 DEF MarkReady, Cancel, PodRest, podVars
  <2> QED
    BY Zenon, <1>1, <2>1 DEF StepsInv, NothingPosted, PostMeans, HeldFailed, Chain, passed, letsOn
<1> QED
  BY <1>2, <1>3, <1>4 DEF PodNext

-----------------------------------------------------------------------------
\* The files the entrypoints write and the states they are in have their
\* types, for any number of steps and any Task.
THEOREM StepsTypeCorrect == PodSpec => []PodTypeOK
<1>1. StepsInv => PodTypeOK
  BY DEF StepsInv
<1> QED
  BY <1>1, StepsInit, StepsInvKept, PTL DEF PodSpec

(***************************************************************************)
(* Go (pkg/entrypoint) runs the steps of a pod one at a time, in order and *)
(* not after a failure, for any number of steps, any Task, and whichever   *)
(* steps are cancelled, time out, are held at a breakpoint or die.         *)
(***************************************************************************)
THEOREM StepsInOrder == PodSpec => []StepOrder
<1>1. StepsInv => StepOrder
  BY DEF StepsInv, Chain, StepOrder
<1> QED
  BY <1>1, StepsInit, StepsInvKept, PTL DEF PodSpec

-----------------------------------------------------------------------------
\* A container that did not get as far as waiting has failed.
NoSetup == \A i \in Step : how[i] = "nosetup" => at[i] = "exit" /\ code[i] = "other"

\* How an entrypoint gets past its wait and to its exit; after that, nothing.
Moves(i) ==
  \/ at'[i] = at[i] /\ how'[i] = how[i] /\ code'[i] = code[i]
  \/ at[i] = "wait" /\ mayGo(i) /\ at'[i] \in {"before", "exec"} /\ how'[i] = how[i]
  \/ at[i] = "wait" /\ at'[i] = "exit" /\ how'[i] = "nosetup" /\ code'[i] = "other"
  \/ at[i] = "wait" /\ i > 1 /\ at'[i] = "exit" /\ how'[i] = "skipped"
  \/ at[i] \notin {"wait", "exit"} /\ at'[i] # "wait" /\ how'[i] # "nosetup"

LEMMA StepMoves ==
  ASSUME PodTypeOK, NoSetup, [PodNext]_podVars, NEW i \in Step
  PROVE  Moves(i)
<1> USE DEF PodTypeOK, NoSetup, Moves
<1>1. ASSUME NEW k \in Step, Entrypoint(k) PROVE Moves(i)
  <2>1. CASE Wait(k)
    BY ZenonT(60), <2>1 DEF Wait
  <2>2. CASE SkipStep(k)
    BY ZenonT(60), <2>2 DEF SkipStep
  <2>3. CASE WhenFalse(k)
    BY Zenon, <2>3 DEF WhenFalse
  <2>4. CASE NotStarted(k)
    BY <2>4, ZenonT(60) DEF NotStarted, Over
  <2>5. CASE Run(k)
    BY Zenon, <2>5 DEF Run
  <2>6. CASE CommandStopped(k)
    BY <2>6, ZenonT(60) DEF CommandStopped, Over
  <2>7. CASE ReadResults(k)
    BY ZenonT(60), <2>7 DEF ReadResults
  <2>8. CASE ReadResultsFails(k)
    BY ZenonT(60), <2>8 DEF ReadResultsFails
  <2>9. CASE BreakpointExit(k)
    BY Zenon, <2>9 DEF BreakpointExit
  <2> QED
    BY ZenonT(60), <1>1, <2>1, <2>2, <2>3, <2>4, <2>5, <2>6, <2>7, <2>8, <2>9 DEF Entrypoint
<1>2. ASSUME NEW k \in Step, CommandEnds(k) PROVE Moves(i)
  BY <1>2, ZenonT(60) DEF CommandEnds, Over
<1>3. ASSUME NEW k \in Step, Die(k) PROVE Moves(i)
  BY Zenon, <1>3 DEF Die
<1>4. ASSUME NEW k \in Step,
             BeforeStepContinue(k) \/ BeforeStepFail(k) \/ DebugContinue(k)
      PROVE  Moves(i)
  BY <1>4, ZenonT(60) DEF BeforeStepContinue, BeforeStepFail, DebugContinue, Over
<1>5. CASE MarkReady \/ Cancel \/ PodRest \/ UNCHANGED podVars
  BY Zenon, <1>5 DEF MarkReady, Cancel, PodRest, podVars
<1> QED
  BY ZenonT(60), <1>1, <1>2, <1>3, <1>4, <1>5 DEF PodNext

\* Only the reconciler marks the pod ready.
LEMMA ReadyKept ==
  ASSUME [PodNext]_podVars
  PROVE  UNCHANGED ready \/ MarkReady
<1>1. ASSUME NEW k \in Step, Entrypoint(k) PROVE UNCHANGED ready
  BY ZenonT(60), <1>1 DEF Entrypoint, Wait, SkipStep, WhenFalse, NotStarted, Run,
              CommandStopped,
     ReadResults, ReadResultsFails, BreakpointExit, Over
<1>2. ASSUME NEW k \in Step,
             \/ CommandEnds(k) \/ Die(k) \/ BeforeStepContinue(k) \/ BeforeStepFail(k)
             \/ DebugContinue(k)
      PROVE  UNCHANGED ready
  BY <1>2 DEF CommandEnds, Die, BeforeStepContinue, BeforeStepFail, DebugContinue,
              Over
<1>3. CASE Cancel \/ PodRest \/ UNCHANGED podVars
  BY <1>3 DEF Cancel, PodRest, podVars
<1> QED
  BY <1>1, <1>2, <1>3 DEF PodNext

LEMMA NoSetupKept ==
  ASSUME PodTypeOK, NoSetup, [PodNext]_podVars
  PROVE  NoSetup'
<1>1. \A i \in Step : Moves(i)
  BY StepMoves
<1> QED
  BY <1>1 DEF NoSetup, Moves

LEMMA StepImplements ==
  ASSUME PodTypeOK, NoSetup, [PodNext]_podVars
  PROVE  [PS!Next]_(PS!vars)
<1> DEFINE allExited == \A i \in Step : at[i] = "exit"
<1>1. 1 \in Step
  BY StepsAssumption DEF Step
<1>2. \A i \in Step : Moves(i)
  BY StepMoves
<1>3. CASE MarkReady
  <2>1. UNCHANGED <<at, how, code>> /\ ~ready /\ ready' = TRUE
    BY <1>3 DEF MarkReady
  <2>2. UNCHANGED stepsState
    BY <2>1 DEF stepsState
  <2> QED
    BY <2>1, <2>2 DEF PS!Next, PS!MarkReady
<1>4. CASE UNCHANGED ready
  <2>1. CASE allExited
    <3>1. \A i \in Step : at'[i] = "exit" /\ code'[i] = code[i]
      BY <1>2, <2>1 DEF Moves
    <3>2. UNCHANGED stepsState
      BY <2>1, <3>1 DEF stepsState
    <3> QED
      BY <1>4, <3>2 DEF PS!vars
  <2>2. CASE ~allExited /\ allExited'
    <3>1. stepsState' \in {"ok", "failed"}
      BY <2>2 DEF stepsState
    <3>2. CASE stepsState = "going"
      BY <1>4, <3>1, <3>2 DEF PS!Next, PS!End
    <3>3. CASE stepsState # "going"
      <4>1. stepsState = "created" /\ (at[1] = "wait" \/ how[1] = "nosetup")
        BY <2>2, <3>3 DEF stepsState
      <4>2. code'[1] = "other"
        BY <1>1, <1>2, <2>2, <4>1 DEF Moves, NoSetup
      <4>3. stepsState' = "failed"
        BY <1>1, <2>2, <4>2 DEF stepsState
      <4> QED
        BY <1>4, <4>1, <4>3 DEF PS!Next, PS!End
    <3> QED
      BY <3>2, <3>3
  <2>3. CASE ~allExited /\ ~allExited'
    <3>1. CASE stepsState' = stepsState
      BY <1>4, <3>1 DEF PS!vars
    <3>2. CASE stepsState' # stepsState
      <4>1. at[1] = "wait" \/ how[1] = "nosetup"
        BY <1>1, <1>2, <2>3, <3>2 DEF Moves, stepsState
      <4>2. ~(at'[1] = "wait" \/ how'[1] = "nosetup")
        BY <2>3, <3>2, <4>1 DEF stepsState
      <4>3. mayGo(1)
        BY <1>1, <1>2, <4>1, <4>2 DEF Moves, NoSetup
      <4>4. ready
        BY <4>3 DEF mayGo
      <4>5. stepsState = "created" /\ stepsState' = "going"
        BY <2>3, <4>1, <4>2 DEF stepsState
      <4> QED
        BY <1>4, <4>4, <4>5 DEF PS!Next, PS!Start
    <3> QED
      BY <3>1, <3>2
  <2> QED
    BY <2>1, <2>2, <2>3
<1> QED
  BY <1>3, <1>4, ReadyKept

(***************************************************************************)
(* The entrypoints of a pod together are the steps the TaskRun reconciler  *)
(* reads from the container statuses (PodSteps): none gets past its wait   *)
(* before the pod is ready, and the outcome is final.                      *)
(***************************************************************************)
THEOREM StepsImplementPodSteps == PodSpec => ImplementsPodSteps
<1>1. PodInit => PS!Init /\ PodTypeOK /\ NoSetup
  <2> SUFFICES ASSUME PodInit PROVE PS!Init /\ PodTypeOK /\ NoSetup
    OBVIOUS
  <2>1. PodTypeOK /\ NoSetup
    BY Zenon, StepsInit DEF StepsInv, PodInit, NoSetup
  <2>2. 1 \in Step
    BY StepsAssumption DEF Step
  <2>3. stepsState = "created"
    BY Zenon, <2>2 DEF PodInit, stepsState
  <2> QED
    BY Zenon, <2>1, <2>3 DEF PS!Init, PodTypeOK
<1>2. PodTypeOK /\ NoSetup /\ [PodNext]_podVars => PodTypeOK' /\ NoSetup' /\ [PS!Next]_(PS!vars)
  BY StepTypesKept, NoSetupKept, StepImplements
<1> QED
  BY <1>1, <1>2, PTL DEF PodSpec, ImplementsPodSteps, PS!Spec
=============================================================================
