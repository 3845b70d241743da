---------------------------- MODULE MatrixProofs ----------------------------
(***************************************************************************)
(* What FanOut computes, for every matrix: types, and that the matrix part *)
(* of its combinations is the product of the arrays.                       *)
(***************************************************************************)
EXTENDS MatrixFanOut, TLAPS

-----------------------------------------------------------------------------
\* What is used of sequences.

LEMMA ElementOfSeq ==
  ASSUME NEW S, NEW s \in Seq(S), NEW k \in 1..Len(s)
  PROVE  s[k] \in S
  OBVIOUS

LEMMA LenIsNat ==
  ASSUME NEW S, NEW s \in Seq(S)
  PROVE  Len(s) \in Nat
  OBVIOUS

LEMMA EmptySeq ==
  ASSUME NEW S
  PROVE  /\ <<>> \in Seq(S) /\ Len(<<>>) = 0
         /\ \A s \in Seq(S) : s # <<>> => Len(s) \in Nat \ {0}
  OBVIOUS

LEMMA ReplaceInSeq ==
  ASSUME NEW S, NEW s \in Seq(S), NEW k \in 1..Len(s), NEW e \in S
  PROVE  /\ [s EXCEPT ![k] = e] \in Seq(S)
         /\ Len([s EXCEPT ![k] = e]) = Len(s)
         /\ \A l \in 1..Len(s) : [s EXCEPT ![k] = e][l] = IF l = k THEN e ELSE s[l]
  OBVIOUS

LEMMA AppendToSeq ==
  ASSUME NEW S, NEW s \in Seq(S), NEW e \in S
  PROVE  /\ Append(s, e) \in Seq(S)
         /\ Len(Append(s, e)) = Len(s) + 1
         /\ \A l \in 1..Len(s) : Append(s, e)[l] = s[l]
  OBVIOUS

-----------------------------------------------------------------------------
\* Combinations are functions from some names to values.

LEMMA CombinationIntro ==
  ASSUME NEW N \in SUBSET Names, NEW c \in [N -> Values]
  PROVE  c \in Combination
  BY DEF Combination

LEMMA CombinationElim ==
  ASSUME NEW c \in Combination
  PROVE  /\ DOMAIN c \subseteq Names
         /\ c \in [DOMAIN c -> Values]
<1>1. PICK N \in SUBSET Names : c \in [N -> Values]
  BY DEF Combination
<1> QED
  BY <1>1

LEMMA NoParamsIsCombination == NoParams \in Combination
<1>1. NoParams \in [{} -> Values]
  BY DEF NoParams
<1> QED
  BY <1>1, CombinationIntro

LEMMA PutIsCombination ==
  ASSUME NEW c \in Combination, NEW n \in Names, NEW v \in Values
  PROVE  put(c, n, v) \in Combination
<1>1. DOMAIN c \cup {n} \in SUBSET Names /\ \A x \in DOMAIN c : c[x] \in Values
  BY CombinationElim
<1>2. put(c, n, v) \in [DOMAIN c \cup {n} -> Values]
  BY <1>1 DEF put
<1> QED
  BY <1>1, <1>2, CombinationIntro

LEMMA OverwrittenIsCombination ==
  ASSUME NEW c \in Combination, NEW d \in Combination
  PROVE  overwritten(c, d) \in Combination
<1>1. /\ DOMAIN c \cup DOMAIN d \in SUBSET Names
      /\ \A x \in DOMAIN c : c[x] \in Values
      /\ \A x \in DOMAIN d : d[x] \in Values
  BY CombinationElim
<1>2. overwritten(c, d) \in [DOMAIN c \cup DOMAIN d -> Values]
  BY <1>1 DEF overwritten
<1> QED
  BY <1>1, <1>2, CombinationIntro

LEMMA ClauseIsCombination ==
  ASSUME NEW c \in Clause
  PROVE  combinationOf(c) \in Combination
<1> DEFINE S == {c[k] : k \in 1..Len(c)}
<1>1. \A k \in 1..Len(c) : c[k] \in [name : Names, val : Values]
  BY ElementOfSeq DEF Clause
<1>2. clauseNames(c) \in SUBSET Names
  BY <1>1 DEF clauseNames
<1>3. ASSUME NEW n \in clauseNames(c)
      PROVE  (CHOOSE p \in S : p.name = n).val \in Values
  <2>1. \E p \in S : p.name = n
    BY DEF clauseNames
  <2>2. (CHOOSE p \in S : p.name = n) \in S
    BY <2>1
  <2>3. \A p \in S : p.val \in Values
    BY <1>1
  <2> QED
    BY <2>2, <2>3
<1>4. combinationOf(c) \in [clauseNames(c) -> Values]
  BY <1>3 DEF combinationOf
<1> QED
  BY <1>2, <1>4, CombinationIntro

LEMMA ConcatAt ==
  ASSUME NEW S, NEW x \in Seq(S), NEW y \in Seq(S)
  PROVE  /\ Len(x \o y) = Len(x) + Len(y)
         /\ \A p \in 1..(Len(x) + Len(y)) : (x \o y)[p] = IF p <= Len(x) THEN x[p] ELSE y[p - Len(x)]
  OBVIOUS

LEMMA FunctionIsSeq ==
  ASSUME NEW S, NEW n \in Nat, NEW f \in [1..n -> S]
  PROVE  f \in Seq(S) /\ Len(f) = n
  OBVIOUS

-----------------------------------------------------------------------------
\* The combinations of the first k params, and what distribute makes of them.

namesTo(k) == {params[l].name : l \in 1..k}

ProductTo(k) == {g \in [namesTo(k) -> Values] : \A l \in 1..k : g[params[l].name] \in arrayOf(l)}

with(g, k, v) == put(g, params[k].name, params[k].vals[v])

\* s lists the combinations of the first k params, each once.
Lists(s, k) ==
  /\ \A p \in 1..Len(s) : s[p] \in ProductTo(k)
  /\ \A g \in ProductTo(k) : \E p \in 1..Len(s) : s[p] = g
  /\ distinctArrays => \A p, q \in 1..Len(s) : s[p] = s[q] => p = q

\* s lists those of the first k - 1 with each of the first m values of the kth.
ListsWith(s, k, m) ==
  /\ \A p \in 1..Len(s) : \E g \in ProductTo(k - 1), v \in 1..m : s[p] = with(g, k, v)
  /\ \A g \in ProductTo(k - 1), v \in 1..m : \E p \in 1..Len(s) : s[p] = with(g, k, v)
  /\ distinctArrays => \A p, q \in 1..Len(s) : s[p] = s[q] => p = q

\* The matrix does not change.
LEMMA ListsSame ==
  ASSUME params' = params
  PROVE  /\ \A s, k : Lists(s, k)' = Lists(s, k)
         /\ \A s, k, m : ListsWith(s, k, m)' = ListsWith(s, k, m)
         /\ distinctArrays' = distinctArrays
<1>1. \A l : arrayOf(l)' = arrayOf(l)
  BY DEF arrayOf
<1>2. \A k : namesTo(k)' = namesTo(k)
  BY DEF namesTo
<1>3. \A k : ProductTo(k)' = ProductTo(k)
  BY <1>1, <1>2 DEF ProductTo
<1>4. distinctArrays' = distinctArrays
  BY DEF distinctArrays
<1>5. \A g, k, v : with(g, k, v)' = with(g, k, v)
  BY DEF with
<1>6. \A s, k : Lists(s, k)' = Lists(s, k)
  BY <1>3, <1>4 DEF Lists
<1>7. ASSUME NEW s, NEW k, NEW m
      PROVE  ListsWith(s, k, m)' = ListsWith(s, k, m)
  <2>1. ProductTo(k - 1)' = ProductTo(k - 1) /\ \A g, v : with(g, k, v)' = with(g, k, v)
    BY <1>3, <1>5
  <2>2. (\A p \in 1..Len(s) : \E g \in ProductTo(k - 1), v \in 1..m : s[p] = with(g, k, v))'
        <=> \A p \in 1..Len(s) : \E g \in ProductTo(k - 1), v \in 1..m : s[p] = with(g, k, v)
    BY <2>1, Zenon
  <2>3. (\A g \in ProductTo(k - 1), v \in 1..m : \E p \in 1..Len(s) : s[p] = with(g, k, v))'
        <=> \A g \in ProductTo(k - 1), v \in 1..m : \E p \in 1..Len(s) : s[p] = with(g, k, v)
    BY <2>1, ZenonT(60)
  <2> QED
    BY <1>4, <2>2, <2>3 DEF ListsWith
<1> QED
  BY <1>4, <1>6, <1>7

LEMMA ParamTypes ==
  ASSUME params \in Seq(Param), NEW k \in 1..Len(params)
  PROVE  /\ params[k].name \in Names
         /\ params[k].vals \in Seq(Values)
         /\ Len(params[k].vals) \in Nat
         /\ \A v \in 1..Len(params[k].vals) : params[k].vals[v] \in Values
<1>1. params[k] \in Param
  BY ElementOfSeq
<1>2. params[k].vals \in Seq(Values) /\ params[k].name \in Names
  BY <1>1 DEF Param
<1> QED
  BY <1>2, ElementOfSeq, LenIsNat

\* The kth param is not among those before it.
LEMMA NewName ==
  ASSUME params \in Seq(Param), unique(params), NEW k \in 1..Len(params)
  PROVE  /\ params[k].name \notin namesTo(k - 1)
         /\ namesTo(k) = namesTo(k - 1) \cup {params[k].name}
<1>1. Len(params) \in Nat /\ k \in Nat
  BY LenIsNat
<1>2. \A l \in 1..(k - 1) : l \in 1..Len(params) /\ l # k
  BY <1>1
<1>3. 1..k = (1..(k - 1)) \cup {k}
  BY <1>1
<1> QED
  BY <1>2, <1>3 DEF namesTo, unique

\* A combination with a value put in is told apart by both.
LEMMA WithInjective ==
  ASSUME params \in Seq(Param), unique(params), NEW k \in 1..Len(params),
         NEW g \in ProductTo(k - 1), NEW h \in ProductTo(k - 1),
         NEW v \in 1..Len(params[k].vals), NEW w \in 1..Len(params[k].vals),
         with(g, k, v) = with(h, k, w)
  PROVE  g = h /\ params[k].vals[v] = params[k].vals[w]
<1> DEFINE n == params[k].name
           N == namesTo(k - 1)
<1>1. g \in [N -> Values] /\ h \in [N -> Values]
  BY DEF ProductTo
<1>2. n \notin N
  BY NewName
<1>3. /\ with(g, k, v)[n] = params[k].vals[v]
      /\ with(h, k, w)[n] = params[k].vals[w]
  BY DEF with, put
<1>4. ASSUME NEW x \in N PROVE g[x] = h[x]
  <2>1. with(g, k, v)[x] = g[x] /\ with(h, k, w)[x] = h[x]
    BY <1>1, <1>2 DEF with, put
  <2> QED
    BY <2>1
<1> QED
  BY <1>1, <1>3, <1>4

LEMMA WithInProduct ==
  ASSUME params \in Seq(Param), unique(params), NEW k \in 1..Len(params),
         NEW g \in ProductTo(k - 1), NEW v \in 1..Len(params[k].vals)
  PROVE  with(g, k, v) \in ProductTo(k)
<1> DEFINE n == params[k].name
           N == namesTo(k - 1)
           h == with(g, k, v)
<1>1. g \in [N -> Values] /\ \A l \in 1..(k - 1) : g[params[l].name] \in arrayOf(l)
  BY DEF ProductTo
<1>2. n \notin N /\ namesTo(k) = N \cup {n} /\ params[k].vals[v] \in Values
  BY NewName, ParamTypes
<1>3. h \in [namesTo(k) -> Values]
  BY <1>1, <1>2 DEF with, put
<1>4. h[n] = params[k].vals[v] /\ \A x \in N : h[x] = g[x]
  BY <1>1, <1>2 DEF with, put
<1>5. ASSUME NEW l \in 1..k PROVE h[params[l].name] \in arrayOf(l)
  <2>1. CASE l = k
    BY <1>4, <2>1 DEF arrayOf
  <2>2. CASE l # k
    <3>1. l \in 1..(k - 1)
      BY <2>2
    <3>2. params[l].name \in N
      BY <3>1, SMTT(60) DEF namesTo
    <3> QED
      BY <1>1, <1>4, <3>1, <3>2
  <2> QED
    BY <2>1, <2>2
<1> QED
  BY <1>3, <1>5 DEF ProductTo

\* Every combination of k params comes from one of k - 1.
LEMMA ProductIsWith ==
  ASSUME params \in Seq(Param), unique(params), NEW k \in 1..Len(params),
         NEW h \in ProductTo(k)
  PROVE  \E g \in ProductTo(k - 1), v \in 1..Len(params[k].vals) : h = with(g, k, v)
<1> DEFINE n == params[k].name
           N == namesTo(k - 1)
           g == [x \in N |-> h[x]]
<1>1. h \in [N \cup {n} -> Values] /\ \A l \in 1..k : h[params[l].name] \in arrayOf(l)
  BY NewName DEF ProductTo
<1>2. k \in 1..k /\ \A l \in 1..(k - 1) : l \in 1..k /\ params[l].name \in N
  BY DEF namesTo
<1>3. g \in ProductTo(k - 1)
  BY <1>1, <1>2 DEF ProductTo
<1>4. PICK v \in 1..Len(params[k].vals) : h[n] = params[k].vals[v]
  BY <1>1, <1>2 DEF arrayOf
<1>5. h = with(g, k, v)
  BY <1>1, <1>4 DEF with, put
<1> QED
  BY <1>3, <1>4, <1>5

-----------------------------------------------------------------------------
\* One iteration of distribute, its end, and the end of fanOutMatrixParams.

times(b, k, v) == [p \in 1..Len(b) |-> with(b[p], k, v)]

LEMMA DistributeStep ==
  ASSUME params \in Seq(Param), unique(params), NEW k \in 1..Len(params),
         NEW b \in Seq(Combination), Lists(b, k - 1),
         NEW e \in Seq(Combination), NEW m \in Nat, m + 1 <= Len(params[k].vals), ListsWith(e, k, m),
         times(b, k, m + 1) \in Seq(Combination), Len(times(b, k, m + 1)) = Len(b)
  PROVE  ListsWith(e \o times(b, k, m + 1), k, m + 1)
<1> DEFINE t == times(b, k, m + 1)
           s == e \o t
<1>1. /\ Len(e) \in Nat /\ Len(b) \in Nat /\ Len(params[k].vals) \in Nat
      /\ Len(s) = Len(e) + Len(b)
      /\ \A p \in 1..Len(e) : s[p] = e[p]
      /\ \A p \in 1..Len(b) : s[Len(e) + p] = t[p] /\ t[p] = with(b[p], k, m + 1)
  <2>1. Len(e) \in Nat /\ Len(b) \in Nat /\ Len(params[k].vals) \in Nat
    BY LenIsNat, ParamTypes
  <2>2. /\ Len(s) = Len(e) + Len(b)
        /\ \A p \in 1..(Len(e) + Len(b)) : s[p] = IF p <= Len(e) THEN e[p] ELSE t[p - Len(e)]
    <3>1. /\ Len(s) = Len(e) + Len(t)
          /\ \A p \in 1..(Len(e) + Len(t)) : s[p] = IF p <= Len(e) THEN e[p] ELSE t[p - Len(e)]
      BY ConcatAt
    <3> QED
      BY <3>1, Zenon
  <2>3. \A p \in 1..Len(b) : t[p] = with(b[p], k, m + 1)
    BY DEF times
  <2>4. \A p \in 1..Len(e) : s[p] = e[p]
    BY <2>1, <2>2
  <2>5. ASSUME NEW p \in 1..Len(b) PROVE s[Len(e) + p] = t[p]
    <3>1. Len(e) + p \in 1..(Len(e) + Len(b)) /\ ~(Len(e) + p <= Len(e)) /\ Len(e) + p - Len(e) = p
      BY <2>1
    <3> QED
      BY <2>2, <3>1
  <2> QED
    BY <2>1, <2>2, <2>3, <2>4, <2>5
<1>2. \A p \in 1..Len(s) : p \in 1..Len(e) \/ \E q \in 1..Len(b) : p = Len(e) + q
  <2> SUFFICES ASSUME NEW p \in 1..Len(s), p \notin 1..Len(e)
               PROVE  \E q \in 1..Len(b) : p = Len(e) + q
    OBVIOUS
  <2>1. p - Len(e) \in 1..Len(b) /\ p = Len(e) + (p - Len(e))
    BY <1>1
  <2> QED
    BY <2>1
<1>3. 1..(m + 1) = (1..m) \cup {m + 1} /\ m + 1 \in 1..Len(params[k].vals)
      /\ \A v \in 1..m : v \in 1..Len(params[k].vals) /\ v # m + 1
  BY <1>1, SMTT(60)
<1>4. \A p \in 1..Len(e) : p \in 1..Len(s)
  BY <1>1
<1>5. \A q \in 1..Len(b) : Len(e) + q \in 1..Len(s)
  BY <1>1
<1>6. ASSUME NEW p \in 1..Len(s)
      PROVE  \E g \in ProductTo(k - 1), v \in 1..(m + 1) : s[p] = with(g, k, v)
  <2>1. CASE p \in 1..Len(e)
    <3>1. PICK g \in ProductTo(k - 1), v \in 1..m : e[p] = with(g, k, v)
      BY <2>1 DEF ListsWith
    <3>2. s[p] = with(g, k, v) /\ v \in 1..(m + 1)
      BY <1>1, <1>3, <2>1, <3>1
    <3> QED
      BY <3>2, SMTT(60)
  <2>2. ASSUME NEW q \in 1..Len(b), p = Len(e) + q
        PROVE  \E g \in ProductTo(k - 1), v \in 1..(m + 1) : s[p] = with(g, k, v)
    <3>1. s[p] = with(b[q], k, m + 1) /\ b[q] \in ProductTo(k - 1)
      BY <1>1, <2>2 DEF Lists
    <3> QED
      BY <1>3, <3>1, SMTT(60)
  <2> QED
    BY <1>2, <2>1, <2>2
<1>7. ASSUME NEW g \in ProductTo(k - 1), NEW v \in 1..(m + 1)
      PROVE  \E p \in 1..Len(s) : s[p] = with(g, k, v)
  <2>1. CASE v \in 1..m
    <3>1. PICK p \in 1..Len(e) : e[p] = with(g, k, v)
      BY <2>1 DEF ListsWith
    <3> QED
      BY <1>1, <1>4, <3>1
  <2>2. CASE v = m + 1
    <3>1. PICK q \in 1..Len(b) : b[q] = g
      BY DEF Lists
    <3>2. s[Len(e) + q] = with(g, k, v)
      BY <1>1, <2>2, <3>1
    <3> QED
      BY <1>5, <3>2, SMTT(60)
  <2> QED
    BY <1>3, <2>1, <2>2, SMTT(60)
<1>8. ASSUME distinctArrays, NEW p \in 1..Len(s), NEW q \in 1..Len(s), s[p] = s[q]
      PROVE  p = q
  <2>0. \A g, h \in ProductTo(k - 1), v, w \in 1..Len(params[k].vals) :
          with(g, k, v) = with(h, k, w) => g = h /\ params[k].vals[v] = params[k].vals[w]
    BY WithInjective
  <2>1. \A x \in 1..Len(e), y \in 1..Len(b) : s[x] # s[Len(e) + y]
    <3> SUFFICES ASSUME NEW x \in 1..Len(e), NEW y \in 1..Len(b), s[x] = s[Len(e) + y]
                 PROVE  FALSE
      OBVIOUS
    <3>1. PICK g \in ProductTo(k - 1), v \in 1..m : e[x] = with(g, k, v)
      BY SMTT(60) DEF ListsWith
    <3>2. b[y] \in ProductTo(k - 1) /\ with(g, k, v) = with(b[y], k, m + 1)
      BY <1>1, <3>1 DEF Lists
    <3>3. params[k].vals[v] = params[k].vals[m + 1]
      <4>1. v \in 1..Len(params[k].vals) /\ m + 1 \in 1..Len(params[k].vals)
        BY <1>3, SMTT(60)
      <4> QED
        BY <2>0, <3>2, <4>1, SMTT(60)
    <3> QED
      BY <1>3, <1>8, <3>3, SMTT(60) DEF distinctArrays
  <2>2. \A x, y \in 1..Len(e) : s[x] = s[y] => x = y
    BY <1>1, <1>8 DEF ListsWith
  <2>3. ASSUME NEW x \in 1..Len(b), NEW y \in 1..Len(b), s[Len(e) + x] = s[Len(e) + y]
        PROVE  x = y
    <3>1. with(b[x], k, m + 1) = with(b[y], k, m + 1)
      BY <1>1, <2>3, SMTT(60)
    <3>2. b[x] \in ProductTo(k - 1) /\ b[y] \in ProductTo(k - 1)
      BY DEF Lists
    <3>3. b[x] = b[y]
      BY <1>3, <2>0, <3>1, <3>2, ZenonT(60)
    <3> QED
      BY <1>8, <3>3, SMTT(60) DEF Lists
  <2> QED
    BY <1>2, <1>8, <2>1, <2>2, <2>3
<1> QED
  BY <1>6, <1>7, <1>8 DEF ListsWith

LEMMA DistributeDone ==
  ASSUME params \in Seq(Param), unique(params), NEW k \in 1..Len(params),
         NEW e, ListsWith(e, k, Len(params[k].vals))
  PROVE  Lists(e, k)
<1>1. \A p \in 1..Len(e) : e[p] \in ProductTo(k)
  BY WithInProduct DEF ListsWith
<1>2. \A g \in ProductTo(k) : \E p \in 1..Len(e) : e[p] = g
  <2> SUFFICES ASSUME NEW h \in ProductTo(k) PROVE \E p \in 1..Len(e) : e[p] = h
    OBVIOUS
  <2>1. PICK g \in ProductTo(k - 1), v \in 1..Len(params[k].vals) : h = with(g, k, v)
    BY ProductIsWith
  <2> QED
    BY <2>1 DEF ListsWith
<1> QED
  BY <1>1, <1>2 DEF Lists, ListsWith

LEMMA NoParamsListed ==
  ASSUME NEW b, b = <<NoParams>>
  PROVE  Lists(b, 0)
<1>1. namesTo(0) = {}
  BY DEF namesTo
<1>2. ProductTo(0) = [{} -> Values]
  <2>1. \A l \in 1..0 : FALSE
    OBVIOUS
  <2> QED
    BY <1>1, <2>1, Zenon DEF ProductTo
<1>3. NoParams \in [{} -> Values] /\ \A g \in [{} -> Values] : g = NoParams
  BY DEF NoParams
<1>4. Len(b) = 1 /\ b[1] = NoParams
  OBVIOUS
<1>5. 1..Len(b) = {1}
  BY <1>4
<1> QED
  BY <1>2, <1>3, <1>4, <1>5, Zenon DEF Lists

LEMMA NothingListed ==
  ASSUME NEW k, NEW e, e = <<>>
  PROVE  ListsWith(e, k, 0)
  BY DEF ListsWith

LEMMA AllParams ==
  ASSUME params \in Seq(Param), NEW s, Lists(s, Len(params))
  PROVE  /\ \A p \in 1..Len(s) : matrixNames \subseteq DOMAIN s[p] /\ matrixPart(s[p]) \in Product
         /\ \A g \in Product : \E p \in 1..Len(s) : matrixPart(s[p]) = g
         /\ distinctArrays => \A p, q \in 1..Len(s) : matrixPart(s[p]) = matrixPart(s[q]) => p = q
<1>1. matrixNames = namesTo(Len(params)) /\ Product = ProductTo(Len(params))
  BY DEF matrixNames, namesTo, Product, ProductTo
<1>2. \A g \in Product : DOMAIN g = matrixNames /\ matrixPart(g) = g
  BY DEF Product, matrixPart
<1> QED
  BY <1>1, <1>2 DEF Lists

-----------------------------------------------------------------------------
(***************************************************************************)
(* The inductive invariant: while it fans out, the code has listed the     *)
(* combinations of the params before, and those with the values so far of  *)
(* the one it is at; no array is empty, so that an empty list means the    *)
(* first param; and what it overwrites is one of the combinations.         *)
(***************************************************************************)
listed == IF cs = <<>> THEN <<NoParams>> ELSE cs

Beginning ==
  /\ pc \in {"count", "include", "skip"} => cs = <<>> /\ expanded = <<>>
  /\ pc \in {"count", "skip"} => j = 1
  /\ pc = "skip" => i = 1

NoEmptyArray ==
  pc \in {"fan", "overwrite", "add", "create", "created"} =>
    \A k \in 1..Len(params) : params[k].vals # <<>>

Fanning ==
  pc = "fan" /\ params # <<>> =>
    /\ i \in 1..Len(params)
    /\ j - 1 \in 0..Len(params[i].vals)
    /\ Lists(listed, i - 1)
    /\ ListsWith(expanded, i, j - 1)
    /\ j > 1 => expanded # <<>>

Overwriting == pc = "overwrite" => params # <<>> /\ i \in 1..Len(cs) /\ base = Len(cs)

MatrixInv ==
  TypeOK /\ unique(params) /\ Beginning /\ NoEmptyArray /\ Fanning /\ Overwriting /\ ProductExact

LEMMA InitMatrixInv == Init => MatrixInv
<1> SUFFICES ASSUME Init PROVE MatrixInv
  OBVIOUS
<1>1. PICK m \in Matrices : params = m.params /\ include = m.include
  BY DEF Init
<1>2. params \in Seq(Param) /\ include \in Seq(Clause) /\ unique(params)
  BY <1>1, MatrixAssumption DEF validateUniqueParams
<1>3. TypeOK
  BY <1>2, EmptySeq DEF Init, TypeOK
<1> QED
  BY <1>2, <1>3 DEF Init, MatrixInv, Beginning, NoEmptyArray, Fanning, Overwriting,
                    ProductExact, fannedOut

LEMMA ListedTypes ==
  ASSUME TypeOK
  PROVE  listed \in Seq(Combination) /\ Len(listed) \in Nat \ {0}
<1>1. CASE cs = <<>>
  BY <1>1, NoParamsIsCombination DEF listed
<1>2. CASE cs # <<>>
  BY <1>2, EmptySeq DEF listed, TypeOK
<1> QED
  BY <1>1, <1>2

LEMMA TimesTypes ==
  ASSUME TypeOK, NEW k \in 1..Len(params), NEW v \in 1..Len(params[k].vals)
  PROVE  times(listed, k, v) \in Seq(Combination) /\ Len(times(listed, k, v)) = Len(listed)
<1>1. params[k].name \in Names /\ params[k].vals[v] \in Values
  BY ParamTypes DEF TypeOK
<1>2. \A p \in 1..Len(listed) : listed[p] \in Combination
  BY ListedTypes, ElementOfSeq
<1>3. \A p \in 1..Len(listed) : with(listed[p], k, v) \in Combination
  BY <1>1, <1>2, PutIsCombination DEF with
<1>4. times(listed, k, v) \in [1..Len(listed) -> Combination]
  BY <1>3 DEF times
<1> QED
  BY <1>4, FunctionIsSeq, ListedTypes, SMTT(60)

\* What an iteration of fanOutMatrixParams appends.
LEMMA FanOutStep ==
  ASSUME MatrixInv, fanOutMatrixParams
  PROVE  MatrixInv'
<1>1. /\ pc = "fan" /\ pc' = "fan" /\ i' = i /\ j' = j + 1 /\ cs' = cs
      /\ params' = params /\ include' = include /\ count' = count /\ base' = base /\ runs' = runs
      /\ expanded' = expanded \o times(listed, i, j)
      /\ i <= Len(params) /\ j <= Len(params[i].vals)
  BY DEF fanOutMatrixParams, matrix, times, with, listed
<1>2. /\ params \in Seq(Param) /\ unique(params) /\ i \in 1..Len(params) /\ params # <<>>
      /\ j \in 1..Len(params[i].vals) /\ Len(params[i].vals) \in Nat /\ j - 1 \in Nat /\ (j - 1) + 1 = j
  <2>1. params \in Seq(Param) /\ unique(params) /\ i \in Nat \ {0} /\ j \in Nat \ {0}
    BY DEF MatrixInv, TypeOK
  <2>2. i \in 1..Len(params) /\ params # <<>>
    BY <1>1, <2>1, LenIsNat
  <2>3. Len(params[i].vals) \in Nat
    BY <2>1, <2>2, ParamTypes
  <2> QED
    BY <1>1, <2>1, <2>2, <2>3
<1>3. /\ listed \in Seq(Combination) /\ expanded \in Seq(Combination)
      /\ times(listed, i, j) \in Seq(Combination) /\ Len(times(listed, i, j)) = Len(listed)
      /\ Len(listed) \in Nat \ {0} /\ Len(expanded) \in Nat
  BY <1>2, ListedTypes, TimesTypes, LenIsNat DEF MatrixInv, TypeOK
<1>4. Lists(listed, i - 1) /\ ListsWith(expanded, i, j - 1)
  BY <1>1, <1>2 DEF MatrixInv, Fanning
<1>5. ListsWith(expanded \o times(listed, i, j), i, j)
  <2>1. ASSUME NEW m \in Nat, m = j - 1
        PROVE  ListsWith(expanded \o times(listed, i, m + 1), i, m + 1)
    <3>1. m + 1 = j /\ m + 1 <= Len(params[i].vals)
      BY <1>2, <2>1
    <3> QED
      BY <1>2, <1>3, <1>4, <2>1, <3>1, DistributeStep
  <2> QED
    BY <1>2, <2>1
<1>6. expanded' \in Seq(Combination) /\ expanded' # <<>>
  <2>1. Len(expanded \o times(listed, i, j)) = Len(expanded) + Len(listed)
    BY <1>3, ConcatAt
  <2>2. expanded' \in Seq(Combination)
    BY <1>1, <1>3
  <2>3. Len(expanded') # 0
    BY <1>1, <1>3, <2>1
  <2> QED
    BY <2>2, <2>3, EmptySeq
<1>7. TypeOK' /\ unique(params)'
  BY <1>1, <1>2, <1>6 DEF MatrixInv, TypeOK
<1>8. Fanning'
  <2>1. Lists(listed, i - 1)' /\ ListsWith(expanded, i, j - 1)'
    <3>1. Lists(listed, i - 1)'
      BY <1>1, <1>4, ListsSame DEF listed
    <3>2. (j + 1) - 1 = j
      BY <1>2
    <3>3. ListsWith(expanded, i, j - 1)'
      BY <1>1, <1>5, <3>2, ListsSame
    <3> QED
      BY <3>1, <3>3
  <2>2. i' \in 1..Len(params') /\ j' - 1 \in 0..Len(params'[i'].vals)
    BY <1>1, <1>2
  <2> QED
    BY <1>6, <2>1, <2>2 DEF Fanning
<1>9. Beginning' /\ NoEmptyArray' /\ Overwriting' /\ ProductExact'
  BY <1>1 DEF MatrixInv, Beginning, NoEmptyArray, Overwriting, ProductExact, fannedOut
<1> QED
  BY <1>7, <1>8, <1>9 DEF MatrixInv

-----------------------------------------------------------------------------
\* The first b combinations of s are the product, as ProductExact has it.
IsProduct(s, b) ==
  /\ b <= Len(s)
  /\ \A k \in 1..b : matrixNames \subseteq DOMAIN s[k] /\ matrixPart(s[k]) \in Product
  /\ \A g \in Product : \E k \in 1..b : matrixPart(s[k]) = g
  /\ distinctArrays => \A k, l \in 1..b : matrixPart(s[k]) = matrixPart(s[l]) => k = l

LEMMA ProductExactIs == ProductExact <=> (fannedOut => IsProduct(cs, base))
  BY DEF ProductExact, IsProduct

LEMMA IsProductSame ==
  ASSUME params' = params
  PROVE  \A s, b : IsProduct(s, b)' = IsProduct(s, b)
<1>1. matrixNames' = matrixNames /\ distinctArrays' = distinctArrays
  BY DEF matrixNames, distinctArrays
<1>2. \A l : arrayOf(l)' = arrayOf(l)
  BY DEF arrayOf
<1>3. Product' = Product
  BY <1>1, <1>2 DEF Product
<1>4. \A c : matrixPart(c)' = matrixPart(c)
  BY <1>1 DEF matrixPart
<1> QED
  BY <1>1, <1>3, <1>4, ZenonT(60) DEF IsProduct

\* Changes that leave the matrix parts of the first b combinations alone.
LEMMA IsProductKept ==
  ASSUME NEW s, NEW t, NEW b, IsProduct(s, b), b <= Len(t),
         \A k \in 1..b : matrixNames \subseteq DOMAIN t[k] /\ matrixPart(t[k]) = matrixPart(s[k])
  PROVE  IsProduct(t, b)
  BY Zenon DEF IsProduct

LEMMA OverwrittenKeeps ==
  ASSUME NEW c, NEW d, contains(c, d), matrixNames \subseteq DOMAIN c
  PROVE  /\ matrixNames \subseteq DOMAIN overwritten(c, d)
         /\ matrixPart(overwritten(c, d)) = matrixPart(c)
<1>1. \A n \in matrixNames : n \in DOMAIN overwritten(c, d) /\ overwritten(c, d)[n] = c[n]
  BY DEF overwritten, contains
<1> QED
  BY <1>1 DEF matrixPart

LEMMA NextParamStep ==
  ASSUME MatrixInv, nextParam
  PROVE  MatrixInv'
<1>1. /\ pc = "fan" /\ cs' = expanded /\ expanded' = <<>> /\ j' = 1
      /\ params' = params /\ include' = include /\ count' = count /\ runs' = runs
      /\ i <= Len(params) /\ j > Len(params[i].vals)
  BY DEF nextParam, matrix
<1>2. /\ params \in Seq(Param) /\ unique(params) /\ i \in 1..Len(params) /\ params # <<>>
      /\ Len(params) \in Nat /\ Len(params[i].vals) \in Nat \ {0} /\ expanded \in Seq(Combination)
  <2>1. params \in Seq(Param) /\ unique(params) /\ i \in Nat \ {0} /\ expanded \in Seq(Combination)
    BY DEF MatrixInv, TypeOK
  <2>2. i \in 1..Len(params) /\ params # <<>> /\ Len(params) \in Nat
    BY <1>1, <2>1, LenIsNat
  <2>3. params[i].vals \in Seq(Values) /\ params[i].vals # <<>>
    BY <1>1, <2>1, <2>2, ParamTypes DEF MatrixInv, NoEmptyArray
  <2> QED
    BY <2>1, <2>2, <2>3, EmptySeq
<1>3. j - 1 = Len(params[i].vals) /\ ListsWith(expanded, i, j - 1) /\ expanded # <<>>
  <2>1. /\ j \in Nat /\ j - 1 \in 0..Len(params[i].vals)
        /\ ListsWith(expanded, i, j - 1) /\ (j > 1 => expanded # <<>>)
    BY <1>1, <1>2 DEF MatrixInv, Fanning, TypeOK
  <2> QED
    BY <1>1, <1>2, <2>1
<1>4. Lists(expanded, i)
  BY <1>2, <1>3, DistributeDone
<1>5. unique(params)' /\ Beginning' /\ NoEmptyArray'
  BY <1>1 DEF nextParam, MatrixInv, Beginning, NoEmptyArray
<1>6. CASE i < Len(params)
  <2>1. i' = i + 1 /\ pc' = "fan" /\ base' = base
    BY <1>1, <1>6 DEF nextParam
  <2>2. TypeOK'
    BY <1>1, <1>2, <2>1, EmptySeq DEF MatrixInv, TypeOK
  <2>3. Lists(listed, i - 1)'
    <3>1. (i + 1) - 1 = i /\ listed' = expanded
      BY <1>1, <1>2, <1>3 DEF listed
    <3> QED
      BY <1>1, <1>4, <2>1, <3>1, ListsSame
  <2>4. ListsWith(expanded, i, j - 1)'
    <3>1. ListsWith(<<>>, i + 1, 0) /\ 1 - 1 = 0
      BY NothingListed
    <3> QED
      BY <1>1, <2>1, <3>1, ListsSame
  <2>5. i' \in 1..Len(params') /\ j' - 1 \in 0..Len(params'[i'].vals) /\ ~(j' > 1)
    <3>1. i + 1 \in 1..Len(params)
      BY <1>2, <1>6
    <3>2. Len(params[i + 1].vals) \in Nat
      BY <1>2, <3>1, ParamTypes
    <3> QED
      BY <1>1, <2>1, <3>1, <3>2
  <2>6. Fanning' /\ Overwriting' /\ ProductExact'
    BY <2>1, <2>3, <2>4, <2>5 DEF Fanning, Overwriting, ProductExact, fannedOut
  <2> QED
    BY <1>5, <2>2, <2>6 DEF MatrixInv
<1>7. CASE ~(i < Len(params))
  <2>1. i' = 1 /\ pc' = "overwrite" /\ base' = Len(expanded) /\ i = Len(params)
    BY <1>1, <1>2, <1>7 DEF nextParam
  <2>2. Len(expanded) \in Nat \ {0}
    BY <1>2, <1>3, EmptySeq
  <2>3. TypeOK'
    BY <1>1, <1>2, <2>1, <2>2, EmptySeq DEF MatrixInv, TypeOK
  <2>4. IsProduct(expanded, Len(expanded))
    <3>1. Lists(expanded, Len(params)) /\ Len(expanded) <= Len(expanded)
      BY <1>4, <2>1, <2>2
    <3> QED
      BY <1>2, <3>1, AllParams DEF IsProduct
  <2>5. ProductExact'
    <3>1. IsProduct(cs, base)'
      BY <1>1, <2>1, <2>4, IsProductSame
    <3> QED
      BY <3>1 DEF ProductExact, IsProduct
  <2>6. Fanning' /\ Overwriting'
    BY <1>1, <1>2, <2>1, <2>2 DEF Fanning, Overwriting
  <2> QED
    BY <1>5, <2>3, <2>5, <2>6 DEF MatrixInv
<1> QED
  BY <1>6, <1>7

LEMMA OverwriteStep ==
  ASSUME MatrixInv, overwriteCombinations
  PROVE  MatrixInv'
<1>1. /\ pc = "overwrite" /\ pc' \in {"overwrite", "add"} /\ params # <<>>
      /\ params' = params /\ include' = include /\ count' = count /\ base' = base /\ runs' = runs
      /\ expanded' = expanded
      /\ i \in 1..Len(cs) /\ base = Len(cs) /\ cs \in Seq(Combination) /\ j \in Nat \ {0}
      /\ include \in Seq(Clause) /\ Len(include) \in Nat /\ Len(cs) \in Nat
  BY LenIsNat DEF overwriteCombinations, matrix, MatrixInv, Overwriting, TypeOK
<1>2. IsProduct(cs, base)
  BY <1>1 DEF MatrixInv, ProductExact, fannedOut, IsProduct
<1>3. unique(params)' /\ Beginning' /\ NoEmptyArray' /\ Fanning'
  BY <1>1 DEF MatrixInv, Beginning, NoEmptyArray, Fanning
<1>4. CASE j <= Len(include)
  <2> DEFINE d == combinationOf(include[j])
  <2>1. d \in Combination
    BY <1>1, <1>4, ElementOfSeq, ClauseIsCombination
  <2>2. /\ cs' = IF contains(cs[i], d) THEN [cs EXCEPT ![i] = overwritten(cs[i], d)] ELSE cs
        /\ j' = j + 1 /\ i' = i /\ pc' = pc
    BY <1>1, <1>4 DEF overwriteCombinations
  <2>3. /\ cs' \in Seq(Combination) /\ Len(cs') = Len(cs)
        /\ \A k \in 1..base : matrixNames \subseteq DOMAIN cs'[k] /\ matrixPart(cs'[k]) = matrixPart(cs[k])
    <3>1. CASE ~contains(cs[i], d)
      BY <1>1, <1>2, <2>2, <3>1, SMTT(60) DEF IsProduct
    <3>2. CASE contains(cs[i], d)
      <4>1. cs[i] \in Combination
        BY <1>1, ElementOfSeq
      <4>2. overwritten(cs[i], d) \in Combination
        BY <2>1, <4>1, OverwrittenIsCombination
      <4>3. /\ cs' \in Seq(Combination) /\ Len(cs') = Len(cs)
            /\ \A k \in 1..Len(cs) : cs'[k] = IF k = i THEN overwritten(cs[i], d) ELSE cs[k]
        BY <1>1, <2>2, <3>2, <4>2, ReplaceInSeq
      <4>4. \A k \in 1..base : matrixNames \subseteq DOMAIN cs[k]
        BY <1>2 DEF IsProduct
      <4>5. /\ matrixNames \subseteq DOMAIN overwritten(cs[i], d)
            /\ matrixPart(overwritten(cs[i], d)) = matrixPart(cs[i])
        BY <1>1, <3>2, <4>4, OverwrittenKeeps
      <4> QED
        BY <1>1, <4>3, <4>4, <4>5
    <3> QED
      BY <3>1, <3>2
  <2>4. IsProduct(cs', base)
    BY <1>1, <1>2, <2>3, IsProductKept
  <2>5. IsProduct(cs, base)'
    BY <1>1, <2>4, IsProductSame, SMTT(60)
  <2>6. ProductExact' /\ Overwriting'
    BY <1>1, <2>2, <2>3, <2>5, SMTT(60) DEF ProductExact, IsProduct, Overwriting
  <2>7. TypeOK'
    BY <1>1, <2>2, <2>3, SMTT(60) DEF MatrixInv, TypeOK
  <2> QED
    BY <1>3, <2>6, <2>7 DEF MatrixInv
<1>5. CASE ~(j <= Len(include))
  <2>1. /\ cs' = cs /\ j' = 1 /\ i' \in Nat \ {0}
        /\ pc' = "overwrite" => i' \in 1..Len(cs)
    BY <1>1, <1>5 DEF overwriteCombinations
  <2>2. IsProduct(cs, base)'
    BY <1>1, <1>2, <2>1, IsProductSame
  <2>3. ProductExact' /\ Overwriting'
    BY <1>1, <2>1, <2>2 DEF ProductExact, IsProduct, Overwriting
  <2>4. TypeOK'
    BY <1>1, <2>1 DEF MatrixInv, TypeOK
  <2> QED
    BY <1>3, <2>3, <2>4 DEF MatrixInv
<1> QED
  BY <1>4, <1>5

LEMMA AddStep ==
  ASSUME MatrixInv, addNewCombinations
  PROVE  MatrixInv'
<1>1. /\ pc = "add" /\ pc' \in {"add", "create"} /\ i \in Nat \ {0} /\ i' \in Nat \ {0}
      /\ params' = params /\ include' = include /\ count' = count /\ base' = base /\ runs' = runs
      /\ expanded' = expanded /\ j' = j
      /\ cs \in Seq(Combination) /\ include \in Seq(Clause) /\ Len(include) \in Nat
      /\ base \in Nat /\ Len(cs) \in Nat
  BY LenIsNat DEF addNewCombinations, matrix, MatrixInv, TypeOK
<1>2. unique(params)' /\ Beginning' /\ NoEmptyArray' /\ Fanning' /\ Overwriting'
  BY <1>1 DEF MatrixInv, Beginning, NoEmptyArray, Fanning, Overwriting
<1>3. /\ cs' \in Seq(Combination)
      /\ Len(cs) <= Len(cs')
      /\ \A k \in 1..Len(cs) : cs'[k] = cs[k]
  <2>1. CASE cs' = cs
    BY <1>1, <2>1
  <2>2. CASE cs' # cs
    <3>1. i \in 1..Len(include) /\ cs' = Append(cs, combinationOf(include[i]))
      BY <1>1, <2>2 DEF addNewCombinations
    <3>2. combinationOf(include[i]) \in Combination
      BY <1>1, <3>1, ElementOfSeq, ClauseIsCombination, SMTT(60)
    <3> QED
      BY <1>1, <3>1, <3>2, AppendToSeq
  <2> QED
    BY <2>1, <2>2
<1>4. TypeOK'
  BY <1>1, <1>3 DEF MatrixInv, TypeOK
<1>5. ProductExact'
  <2> SUFFICES ASSUME params # <<>> PROVE ProductExact'
    BY <1>1 DEF ProductExact, fannedOut
  <2>1. IsProduct(cs, base)
    BY <1>1 DEF MatrixInv, ProductExact, fannedOut, IsProduct
  <2>2. base <= Len(cs') /\ \A k \in 1..base : k \in 1..Len(cs)
    BY <1>1, <1>3, <2>1 DEF IsProduct
  <2>3. \A k \in 1..base : matrixNames \subseteq DOMAIN cs'[k] /\ matrixPart(cs'[k]) = matrixPart(cs[k])
    BY <1>3, <2>1, <2>2 DEF IsProduct
  <2>4. IsProduct(cs', base)
    BY <2>1, <2>2, <2>3, IsProductKept
  <2>5. IsProduct(cs, base)'
    BY <1>1, <2>4, IsProductSame, SMTT(60)
  <2> QED
    BY <2>5 DEF ProductExact, IsProduct
<1> QED
  BY <1>2, <1>4, <1>5 DEF MatrixInv
-----------------------------------------------------------------------------
\* The steps before FanOut and after it.

LEMMA CountStep ==
  ASSUME MatrixInv,
         \/ countGeneratedCombinationsFromParams \/ countedParams
         \/ countNewCombinationsFromInclude \/ countedInclude
  PROVE  MatrixInv'
<1>1. /\ pc \in {"count", "include"} /\ pc' \in {"count", "include", "skip"}
      /\ params' = params /\ include' = include /\ cs' = cs /\ expanded' = expanded
      /\ base' = base /\ runs' = runs
      /\ pc' = "skip" => i' = 1
      /\ pc' \in {"count", "skip"} => j' = 1
  BY DEF countGeneratedCombinationsFromParams, countedParams, countNewCombinationsFromInclude,
         countedInclude, matrix, MatrixInv, Beginning
<1>2. count' \in Nat /\ i' \in Nat \ {0} /\ j' \in Nat \ {0}
  <2>1. /\ count \in Nat /\ i \in Nat \ {0} /\ j \in Nat \ {0}
        /\ params \in Seq(Param) /\ include \in Seq(Clause) /\ Len(include) \in Nat
    BY LenIsNat DEF MatrixInv, TypeOK
  <2>2. CASE countGeneratedCombinationsFromParams
    <3>1. i \in 1..Len(params)
      BY <2>1, <2>2, LenIsNat DEF countGeneratedCombinationsFromParams
    <3>2. Len(params[i].vals) \in Nat
      BY <2>1, <3>1, ParamTypes
    <3>3. \A m, n \in Nat : m * n \in Nat
      OBVIOUS
    <3> QED
      BY <2>1, <2>2, <3>2, <3>3 DEF countGeneratedCombinationsFromParams
  <2>3. CASE countedParams
    BY <2>1, <2>3 DEF countedParams
  <2>4. CASE countNewCombinationsFromInclude
    BY <2>1, <2>4, SMTT(60) DEF countNewCombinationsFromInclude
  <2>5. CASE countedInclude
    BY <2>1, <2>5 DEF countedInclude
  <2> QED
    BY <2>2, <2>3, <2>4, <2>5
<1>3. TypeOK'
  BY <1>1, <1>2 DEF MatrixInv, TypeOK
<1> QED
  BY <1>1, <1>3, SMTT(60)
     DEF MatrixInv, Beginning, NoEmptyArray, Fanning, Overwriting, ProductExact, fannedOut, unique

LEMMA SkipStep ==
  ASSUME MatrixInv, skipBecauseEmptyArrayInMatrixParams
  PROVE  MatrixInv'
<1>1. /\ pc = "skip" /\ pc' \in {"skipped", "fan"}
      /\ pc' = "fan" => \A k \in 1..Len(params) : params[k].vals # <<>>
      /\ params' = params /\ include' = include /\ i' = i /\ j' = j /\ count' = count /\ cs' = cs
      /\ expanded' = expanded /\ base' = base /\ runs' = runs
      /\ cs = <<>> /\ expanded = <<>> /\ i = 1 /\ j = 1
  BY DEF skipBecauseEmptyArrayInMatrixParams, matrix, MatrixInv, Beginning
<1>2. TypeOK'
  BY <1>1 DEF MatrixInv, TypeOK
<1>3. Fanning'
  <2> SUFFICES ASSUME pc' = "fan", params # <<>> PROVE Fanning'
    BY <1>1 DEF Fanning
  <2>1. 1 \in 1..Len(params) /\ Len(params[1].vals) \in Nat
    <3>1. params \in Seq(Param) /\ Len(params) \in Nat \ {0}
      BY EmptySeq, LenIsNat DEF MatrixInv, TypeOK
    <3>2. 1 \in 1..Len(params)
      BY <3>1
    <3> QED
      BY <3>1, <3>2, ParamTypes
  <2>2. listed' = <<NoParams>>
    BY <1>1 DEF listed
  <2>3. Lists(<<NoParams>>, 0) /\ ListsWith(<<>>, 1, 0)
    BY NoParamsListed, NothingListed
  <2>4. Lists(listed, i - 1)' /\ ListsWith(expanded, i, j - 1)'
    <3>1. i' - 1 = 0 /\ j' - 1 = 0 /\ i' = 1 /\ expanded' = <<>>
      BY <1>1, SMTT(60)
    <3> QED
      BY <1>1, <2>2, <2>3, <3>1, ListsSame
  <2> QED
    BY <1>1, <2>1, <2>4 DEF Fanning
<1> QED
  BY <1>1, <1>2, <1>3 DEF MatrixInv, Beginning, NoEmptyArray, Overwriting, ProductExact,
                          fannedOut, unique

LEMMA OnlyIncludeStep ==
  ASSUME MatrixInv, onlyInclude
  PROVE  MatrixInv'
<1>1. /\ pc = "fan" /\ pc' = "create" /\ params = <<>>
      /\ cs' = [k \in 1..Len(include) |-> combinationOf(include[k])]
      /\ params' = params /\ include' = include /\ i' = i /\ j' = j /\ count' = count
      /\ expanded' = expanded /\ base' = base /\ runs' = runs
  BY DEF onlyInclude, matrix
<1>2. cs' \in Seq(Combination)
  <2>1. include \in Seq(Clause) /\ Len(include) \in Nat
    BY LenIsNat DEF MatrixInv, TypeOK
  <2>2. \A k \in 1..Len(include) : combinationOf(include[k]) \in Combination
    BY <2>1, ElementOfSeq, ClauseIsCombination
  <2>3. cs' \in [1..Len(include) -> Combination]
    BY <1>1, <2>2
  <2> QED
    BY <2>1, <2>3, FunctionIsSeq
<1>3. TypeOK'
  BY <1>1, <1>2, SMTT(60) DEF MatrixInv, TypeOK
<1> QED
  BY <1>1, <1>3
     DEF MatrixInv, Beginning, NoEmptyArray, Fanning, Overwriting, ProductExact, fannedOut, unique

LEMMA CreateStep ==
  ASSUME MatrixInv, createTaskRuns
  PROVE  MatrixInv'
<1>1. /\ pc = "create" /\ pc' = "created"
      /\ runs' = [k \in 1..count |-> IF k <= Len(cs) THEN cs[k] ELSE NoParams]
      /\ params' = params /\ include' = include /\ i' = i /\ j' = j /\ count' = count /\ cs' = cs
      /\ expanded' = expanded /\ base' = base
  BY DEF createTaskRuns, matrix
<1>2. runs' \in Seq(Combination)
  <2>1. cs \in Seq(Combination) /\ Len(cs) \in Nat /\ count \in Nat
    BY LenIsNat DEF MatrixInv, TypeOK
  <2>2. \A k \in 1..Len(cs) : cs[k] \in Combination
    BY <2>1, ElementOfSeq
  <2>3. \A k \in 1..count : k <= Len(cs) => k \in 1..Len(cs)
    BY <2>1
  <2>4. runs' \in [1..count -> Combination]
    BY <1>1, <2>2, <2>3, NoParamsIsCombination
  <2> QED
    BY <2>1, <2>4, FunctionIsSeq
<1>3. TypeOK'
  BY <1>1, <1>2 DEF MatrixInv, TypeOK
<1>4. ProductExact'
  <2> SUFFICES ASSUME params # <<>> PROVE ProductExact'
    BY <1>1 DEF ProductExact, fannedOut
  <2>1. IsProduct(cs, base)
    BY <1>1 DEF MatrixInv, ProductExact, fannedOut, IsProduct
  <2>2. IsProduct(cs, base)'
    BY <1>1, <2>1, IsProductSame
  <2> QED
    BY <2>2 DEF ProductExact, IsProduct
<1> QED
  BY <1>1, <1>3, <1>4 DEF MatrixInv, Beginning, NoEmptyArray, Fanning, Overwriting, unique

LEMMA StutterStep ==
  ASSUME MatrixInv, UNCHANGED vars
  PROVE  MatrixInv'
<1>1. /\ params' = params /\ include' = include /\ pc' = pc /\ i' = i /\ j' = j /\ count' = count
      /\ cs' = cs /\ expanded' = expanded /\ base' = base /\ runs' = runs
  BY DEF vars
<1>2. TypeOK' /\ unique(params)' /\ Beginning' /\ NoEmptyArray' /\ Overwriting'
  BY <1>1 DEF MatrixInv, TypeOK, Beginning, NoEmptyArray, Overwriting, unique
<1>3. Fanning'
  <2>1. listed' = listed
    BY <1>1 DEF listed
  <2>2. Lists(listed, i - 1)' = Lists(listed, i - 1)
        /\ ListsWith(expanded, i, j - 1)' = ListsWith(expanded, i, j - 1)
    BY <1>1, <2>1, ListsSame
  <2> QED
    BY <1>1, <2>2 DEF MatrixInv, Fanning
<1>4. ProductExact'
  <2>1. IsProduct(cs, base)' = IsProduct(cs, base)
    BY <1>1, IsProductSame
  <2>2. fannedOut' = fannedOut
    BY <1>1 DEF fannedOut
  <2>3. (fannedOut => IsProduct(cs, base))'
    BY <2>1, <2>2, ProductExactIs DEF MatrixInv
  <2> QED
    BY <2>3 DEF ProductExact, IsProduct
<1> QED
  BY <1>2, <1>3, <1>4 DEF MatrixInv

LEMMA NextMatrixInv == MatrixInv /\ [Next]_vars => MatrixInv'
<1> SUFFICES ASSUME MatrixInv, [Next]_vars PROVE MatrixInv'
  OBVIOUS
<1>1. CASE \/ countGeneratedCombinationsFromParams \/ countedParams
           \/ countNewCombinationsFromInclude \/ countedInclude
  BY <1>1, CountStep
<1>2. CASE skipBecauseEmptyArrayInMatrixParams
  BY <1>2, SkipStep
<1>3. CASE onlyInclude
  BY <1>3, OnlyIncludeStep, SMTT(60)
<1>4. CASE fanOutMatrixParams
  BY <1>4, FanOutStep
<1>5. CASE nextParam
  BY <1>5, NextParamStep
<1>6. CASE overwriteCombinations
  BY <1>6, OverwriteStep
<1>7. CASE addNewCombinations
  BY <1>7, AddStep
<1>8. CASE createTaskRuns
  BY <1>8, CreateStep
<1>9. CASE Rest \/ UNCHANGED vars
  BY <1>9, StutterStep DEF Rest
<1> QED
  BY <1>1, <1>2, <1>3, <1>4, <1>5, <1>6, <1>7, <1>8, <1>9, SMTT(60) DEF Next

(***************************************************************************)
(* The counters, the combinations and the runs keep their types: whatever  *)
(* FanOut distributes, overwrites or adds is a map from names to values,   *)
(* and so are the params that createTaskRuns gives every run it creates.   *)
(***************************************************************************)
THEOREM MatrixTypeCorrect == Spec => []TypeOK
<1>1. MatrixInv => TypeOK
  BY DEF MatrixInv
<1> QED
  BY <1>1, InitMatrixInv, NextMatrixInv, PTL DEF Spec

(***************************************************************************)
(* FanOut: for any number of params, of values and of include clauses, the *)
(* matrix part of the combinations is the Cartesian product of the arrays, *)
(* each element once, and no clause that overwriteCombinations or          *)
(* addNewCombinations applies ever changes that.                           *)
(***************************************************************************)
THEOREM FanOutIsProduct == Spec => []ProductExact
<1>1. MatrixInv => ProductExact
  BY DEF MatrixInv
<1> QED
  BY <1>1, InitMatrixInv, NextMatrixInv, PTL DEF Spec
=============================================================================
