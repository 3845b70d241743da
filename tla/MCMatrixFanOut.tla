--------------------------- MODULE MCMatrixFanOut ---------------------------
(***************************************************************************)
(* Matrices that MatrixFanOut is checked with: up to two params, among     *)
(* them empty arrays and repeated values, and up to two include clauses of *)
(* up to two params each, in both orders, or three of one, with values     *)
(* that are in the matrix, new to it, or of a param it does not have.      *)
(***************************************************************************)
EXTENDS MatrixFanOut

array(n, vals) == [name |-> n, vals |-> vals]

SomeParams ==
  {<<array("a", <<"x">>)>>, <<array("a", <<"x", "y">>), array("b", <<"x">>)>>,
   <<array("b", <<"x", "y">>), array("a", <<"y", "x">>)>>}
OddParams == {<<array("a", <<>>), array("b", <<"x">>)>>, <<array("a", <<"x", "x">>)>>}

Pairs ==
  {[name |-> n, val |-> v] : n \in Names, v \in {"x", "z"}} \cup {[name |-> "a", val |-> "y"]}
Single == {<<p>> : p \in Pairs}
Clauses == {<<>>} \cup Single \cup {c \in {<<p, q>> : p, q \in Pairs} : unique(c)}

One(S) == {<<s>> : s \in S}
Two(S) == {<<s, t>> : s, t \in S}
Three(S) == {<<s, t, u>> : s, t, u \in S}

AllMatrices ==
  [params : SomeParams \cup {<<>>}, include : One(Clauses) \cup Two(Clauses) \cup Three(Single)]
  \cup [params : OddParams, include : Two(Single)]
  \cup [params : SomeParams \cup OddParams, include : {<<>>}]

\* One clause is enough for CountCombinations and FanOut to disagree.
OneClause == [params : SomeParams, include : One(Clauses)]
=============================================================================
