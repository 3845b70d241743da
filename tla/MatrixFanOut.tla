---------------------------- MODULE MatrixFanOut ----------------------------
(***************************************************************************)
(* The matrix of a pipeline task (pkg/apis/pipeline/v1/matrix_types.go):   *)
(* CountCombinations says how many runs the task has when it is resolved,  *)
(* FanOut what the params of each are when they are created.  The two are  *)
(* computed apart, loop by loop, as the code does.                         *)
(***************************************************************************)
EXTENDS Naturals, FiniteSets, Sequences

CONSTANTS
  Names,                \* names of params
  Values,               \* strings
  Matrices              \* the matrices of interest

Param == [name : Names, vals : Seq(Values)]
Clause == Seq([name : Names, val : Values])

unique(ps) == \A k, l \in 1..Len(ps) : ps[k].name = ps[l].name => k = l

\* Validation comes before anything is counted.
validateUniqueParams(m) == unique(m.params) /\ \A k \in 1..Len(m.include) : unique(m.include[k])
IsMatrixed(m) == m.params # <<>> \/ m.include # <<>>

ASSUME MatrixAssumption ==
  \A m \in Matrices :
    /\ m \in [params : Seq(Param), include : Seq(Clause)]
    /\ IsMatrixed(m)
    /\ validateUniqueParams(m)

VARIABLES
  params, include,      \* the matrix
  pc,                   \* the loop
  i, j,                 \* its counters, outer and inner
  count,                \* what CountCombinations has counted
  cs,                   \* combinations
  expanded,             \* expandedCombinations of distribute
  base,                 \* how many combinations came from the params
  runs                  \* the params that the runs were created with

vars == <<params, include, pc, i, j, count, cs, expanded, base, runs>>
matrix == <<params, include>>

\* A combination is a map from names to values.
Combination == UNION {[N -> Values] : N \in SUBSET Names}
NoParams == [n \in {} |-> n]

matrixNames == {params[k].name : k \in 1..Len(params)}
arrayOf(k) == {params[k].vals[v] : v \in 1..Len(params[k].vals)}

-----------------------------------------------------------------------------
Init ==
  /\ \E m \in Matrices : params = m.params /\ include = m.include
  /\ pc = "count" /\ i = 1 /\ j = 1
  /\ count = 1
  /\ cs = <<>> /\ expanded = <<>> /\ base = 0 /\ runs = <<>>

countGeneratedCombinationsFromParams ==
  /\ pc = "count"
  /\ i <= Len(params)
  /\ count' = count * Len(params[i].vals)
  /\ i' = i + 1
  /\ UNCHANGED <<matrix, pc, j, cs, expanded, base, runs>>

\* HasParams, HasInclude: without params every clause is a combination.
countedParams ==
  /\ pc = "count"
  /\ i > Len(params)
  /\ IF params = <<>>
     THEN count' = Len(include) /\ pc' = "skip"
     ELSE pc' = "include" /\ UNCHANGED count
  /\ i' = 1
  /\ UNCHANGED <<matrix, j, cs, expanded, base, runs>>

\* A value that the matrix has ends the clause, one that is new to it counts.
\* Mutant: a param that the matrix does not have counts too.
isKnown(p) == \E k \in 1..Len(params) : params[k].name = p.name /\ p.val \in arrayOf(k)
notKnown(p) == ~isKnown(p)
isNew(p) == \E k \in 1..Len(params) : params[k].name = p.name /\ p.val \notin arrayOf(k)

countNewCombinationsFromInclude ==
  /\ pc = "include"
  /\ i <= Len(include)
  /\ IF j > Len(include[i]) \/ isKnown(include[i][j])
     THEN i' = i + 1 /\ j' = 1 /\ UNCHANGED count
     ELSE j' = j + 1 /\ count' = (IF isNew(include[i][j]) THEN count + 1 ELSE count) /\ UNCHANGED i
  /\ UNCHANGED <<matrix, pc, cs, expanded, base, runs>>

countedInclude ==
  /\ pc = "include"
  /\ i > Len(include)
  /\ pc' = "skip"
  /\ i' = 1 /\ j' = 1
  /\ UNCHANGED <<matrix, count, cs, expanded, base, runs>>

\* A task with an empty array in its matrix is skipped; it has no runs.
skipBecauseEmptyArrayInMatrixParams ==
  /\ pc = "skip"
  /\ pc' = IF \E k \in 1..Len(params) : params[k].vals = <<>> THEN "skipped" ELSE "fan"
  /\ UNCHANGED <<matrix, i, j, count, cs, expanded, base, runs>>

-----------------------------------------------------------------------------
\* getIncludeCombinations: the clause as a map.
clauseNames(c) == {c[k].name : k \in 1..Len(c)}
combinationOf(c) == [n \in clauseNames(c) |-> (CHOOSE p \in {c[k] : k \in 1..Len(c)} : p.name = n).val]

\* FanOut, without params.
onlyInclude ==
  /\ pc = "fan"
  /\ params = <<>>
  /\ cs' = [k \in 1..Len(include) |-> combinationOf(include[k])]
  /\ pc' = "create"
  /\ UNCHANGED <<matrix, i, j, count, expanded, base, runs>>

put(c, n, v) == [x \in DOMAIN c \cup {n} |-> IF x = n THEN v ELSE c[x]]

\* One value of the param, with each of the combinations before (distribute),
\* or by itself (initializeCombinations).
fanOutMatrixParams ==
  /\ pc = "fan"
  /\ i <= Len(params)
  /\ j <= Len(params[i].vals)
  /\ LET before == IF cs = <<>> THEN <<NoParams>> ELSE cs
     IN  expanded' = expanded \o [k \in 1..Len(before) |-> put(before[k], params[i].name, params[i].vals[j])]
  /\ j' = j + 1
  /\ UNCHANGED <<matrix, pc, i, count, cs, base, runs>>

nextParam ==
  /\ pc = "fan"
  /\ i <= Len(params)
  /\ j > Len(params[i].vals)
  /\ cs' = expanded /\ expanded' = <<>>
  /\ j' = 1
  /\ IF i < Len(params)
     THEN i' = i + 1 /\ UNCHANGED <<pc, base>>
     ELSE i' = 1 /\ pc' = "overwrite" /\ base' = Len(expanded)
  /\ UNCHANGED <<matrix, count, runs>>

\* Mutant: contains takes a common value for agreement.
containsOne(c, clause) == \E n \in DOMAIN c \cap DOMAIN clause : c[n] = clause[n]
contains(c, clause) == \A n \in DOMAIN c \cap DOMAIN clause : c[n] = clause[n]

overwritten(c, clause) ==
  [n \in DOMAIN c \cup DOMAIN clause |-> IF n \in DOMAIN clause THEN clause[n] ELSE c[n]]

overwriteCombinations ==
  /\ pc = "overwrite"
  /\ IF j <= Len(include)
     THEN LET clause == combinationOf(include[j])
          IN  /\ cs' = IF contains(cs[i], clause) THEN [cs EXCEPT ![i] = overwritten(@, clause)] ELSE cs
              /\ j' = j + 1
              /\ UNCHANGED <<i, pc>>
     ELSE /\ j' = 1
          /\ IF i < Len(cs) THEN i' = i + 1 /\ UNCHANGED pc ELSE i' = 1 /\ pc' = "add"
          /\ UNCHANGED cs
  /\ UNCHANGED <<matrix, count, expanded, base, runs>>

shouldAddNewCombination(clause) ==
  /\ DOMAIN clause # {}
  /\ \A k \in 1..Len(cs) : \A n \in DOMAIN cs[k] \cap DOMAIN clause : cs[k][n] # clause[n]

addNewCombinations ==
  /\ pc = "add"
  /\ IF i <= Len(include)
     THEN LET clause == combinationOf(include[i])
          IN  /\ cs' = IF shouldAddNewCombination(clause) THEN Append(cs, clause) ELSE cs
              /\ i' = i + 1
              /\ UNCHANGED pc
     ELSE pc' = "create" /\ UNCHANGED <<cs, i>>
  /\ UNCHANGED <<matrix, j, count, expanded, base, runs>>

-----------------------------------------------------------------------------
\* createTaskRuns: as many as were counted, each with its combination if there
\* is one.
createTaskRuns ==
  /\ pc = "create"
  /\ runs' = [k \in 1..count |-> IF k <= Len(cs) THEN cs[k] ELSE NoParams]
  /\ pc' = "created"
  /\ UNCHANGED <<matrix, i, j, count, cs, expanded, base>>

Rest == pc \in {"skipped", "created"} /\ UNCHANGED vars

Next ==
  \/ countGeneratedCombinationsFromParams \/ countedParams
  \/ countNewCombinationsFromInclude \/ countedInclude
  \/ skipBecauseEmptyArrayInMatrixParams
  \/ onlyInclude \/ fanOutMatrixParams \/ nextParam \/ overwriteCombinations \/ addNewCombinations
  \/ createTaskRuns \/ Rest

Spec == Init /\ [][Next]_vars

-----------------------------------------------------------------------------
TypeOK ==
  /\ params \in Seq(Param)
  /\ include \in Seq(Clause)
  /\ pc \in {"count", "include", "skip", "skipped", "fan", "overwrite", "add", "create", "created"}
  /\ i \in Nat \ {0} /\ j \in Nat \ {0}
  /\ count \in Nat /\ base \in Nat
  /\ cs \in Seq(Combination) /\ expanded \in Seq(Combination) /\ runs \in Seq(Combination)

\* One value of every array.
Product ==
  {g \in [matrixNames -> Values] : \A k \in 1..Len(params) : g[params[k].name] \in arrayOf(k)}

matrixPart(c) == [n \in matrixNames |-> c[n]]
fannedOut == params # <<>> /\ pc \in {"overwrite", "add", "create", "created"}
distinctArrays ==
  \A k \in 1..Len(params) : \A v, w \in 1..Len(params[k].vals) :
    params[k].vals[v] = params[k].vals[w] => v = w

(***************************************************************************)
(* FanOut crosses every value of every array with every other, once, and   *)
(* the include clauses that overwriteCombinations writes into the          *)
(* combinations, in whatever order and however they overlap, never change  *)
(* a matrix param of one: the matrix part of the combinations stays the    *)
(* Cartesian product of the arrays to the end.                             *)
(***************************************************************************)
ProductExact ==
  fannedOut =>
    /\ base <= Len(cs)
    /\ \A k \in 1..base : matrixNames \subseteq DOMAIN cs[k] /\ matrixPart(cs[k]) \in Product
    /\ \A g \in Product : \E k \in 1..base : matrixPart(cs[k]) = g
    /\ distinctArrays => \A k, l \in 1..base : matrixPart(cs[k]) = matrixPart(cs[l]) => k = l

-----------------------------------------------------------------------------
\* What docs/matrix.md says a clause does: it is added to the combinations it
\* can be added to without overwriting a matrix param, or else by itself.
agrees(g, k) == contains(g, combinationOf(include[k]))
isExtra(k) == \A g \in Product : ~agrees(g, k)
documentedValue(g, n) ==
  IF n \in DOMAIN g THEN g[n]
  ELSE combinationOf(include[CHOOSE k \in 1..Len(include) :
                               agrees(g, k) /\ n \in clauseNames(include[k])])[n]
documented ==
  {[n \in matrixNames \cup UNION {clauseNames(include[k]) : k \in {l \in 1..Len(include) : agrees(g, l)}}
      |-> documentedValue(g, n)] : g \in Product}
  \cup {combinationOf(include[k]) : k \in {l \in 1..Len(include) : isExtra(l)}}

\* The clauses keep out of each other's way: one that makes a combination of
\* its own has one matrix param and shares no value with another clause; two
\* that are added to the same combination do not disagree.
shareValue(c, d) == \E n \in DOMAIN c \cap DOMAIN d : c[n] = d[n]
clausesApart ==
  \A k \in 1..Len(include) :
    LET c == combinationOf(include[k]) IN
    /\ isExtra(k) => Cardinality(DOMAIN c \cap matrixNames) = 1
    /\ \A l \in 1..Len(include) \ {k} :
         LET d == combinationOf(include[l]) IN
         /\ isExtra(k) => ~shareValue(c, d)
         /\ (\E g \in Product : agrees(g, k) /\ agrees(g, l)) => contains(c, d)

(***************************************************************************)
(* CountCombinations and FanOut, two different algorithms, agree with each *)
(* other and with docs/matrix.md if the clauses keep apart: the task has   *)
(* one run for each combination that is documented, and no other.  Without *)
(* params the runs are the clauses.                                        *)
(***************************************************************************)
RunsAsDocumented ==
  pc = "created" =>
    /\ params = <<>> => runs = [k \in 1..Len(include) |-> combinationOf(include[k])]
    /\ params # <<>> /\ distinctArrays /\ clausesApart =>
         /\ {runs[k] : k \in 1..Len(runs)} = documented
         /\ Len(runs) = Cardinality(documented)

(***************************************************************************)
(* The same without a condition, as the comment of CountCombinations has   *)
(* it: the count is that of the combinations generated from the matrix.    *)
(***************************************************************************)
CountIsFanOut == pc = "created" => count = Len(cs)
=============================================================================
