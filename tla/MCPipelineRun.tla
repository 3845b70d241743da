--------------------------- MODULE MCPipelineRun ---------------------------
(***************************************************************************)
(* Pipelines that PipelineRun is checked with, and what may happen to      *)
(* them.  Tasks are ta to th; fin is the final task.                       *)
(***************************************************************************)
EXTENDS PipelineRun, TLC

CONSTANTS ta, tb, tc, td, te, tg, th, fin

Final == {fin}
None == {}

\* tb after ta.
ChainDag == {ta, tb}
ChainOrder == <<ta, tb, fin>>
ChainPrev == (ta :> {} @@ tb :> {ta})
ChainRefs == [t \in {ta, tb, fin} |-> {}]
Single == [t \in {ta, tb, fin} |-> 1]
Matrix == [t \in {ta, tb, fin} |-> IF t = ta THEN 2 ELSE 1]

\* tb uses a result of ta, tc runs after ta.
ForkDag == {ta, tb, tc}
ForkOrder == <<ta, tb, tc, fin>>
ForkPrev == (ta :> {} @@ tb :> {ta} @@ tc :> {ta})
ForkRefs == (ta :> {} @@ tb :> {ta} @@ tc :> {} @@ fin :> {})
ForkWidth == [t \in {ta, tb, tc, fin} |-> 1]

\* tc runs after ta and tb, td uses a result of ta, tg runs after te, th and
\* fin use a result of tb.
JoinDag == {ta, tb, tc, td, te, tg, th}
JoinOrder == <<ta, tb, td, te, tc, tg, th, fin>>
JoinPrev ==
  [t \in JoinDag |-> CASE t = tc -> {ta, tb}
                       [] t = td -> {ta}
                       [] t = tg -> {te}
                       [] t = th -> {tb}
                       [] OTHER -> {}]
JoinRefs ==
  [t \in JoinDag \cup {fin} |-> CASE t = td -> {ta}
                                [] t \in {th, fin} -> {tb}
                                [] OTHER -> {}]
JoinWidth == [t \in JoinDag \cup {fin} |-> 1]

\* ta and tb start together, tc uses a result of ta.
CustomPrev == (ta :> {} @@ tb :> {} @@ tc :> {ta})
CustomRefs == (ta :> {} @@ tb :> {} @@ tc :> {ta} @@ fin :> {})

\* tc runs after ta and tb, and each of td, te and tg after the one before it.
LateDag == {ta, tb, tc, td, te, tg}
LateOrder == <<ta, tb, tc, td, te, tg, fin>>
LatePrev ==
  [t \in LateDag |-> CASE t = tc -> {ta, tb}
                       [] t = td -> {tc}
                       [] t = te -> {td}
                       [] t = tg -> {te}
                       [] OTHER -> {}]
LateRefs == [t \in LateDag \cup {fin} |-> {}]
LateWidth == [t \in LateDag \cup {fin} |-> 1]

\* Deadlines.
AllDeadlines == {"tasks", "pipeline", "long", "finally"}
PipelineDeadline == {"pipeline"}

\* The spec.status values a run starts with, and what the user does to it.
Fresh == {""}
FreshOrHeld == {"", "Pending"}
CancelOnly == {<<"", "Cancelled">>}
StopOnly == {<<"", "StoppedRunFinally">>}
GracefulCancel == {<<"", "CancelledRunFinally">>}
Graceful == GracefulCancel \cup StopOnly
Anything ==
  Graceful \cup CancelOnly \cup
  {<<"Pending", "">>, <<"Pending", "Cancelled">>,
   <<"StoppedRunFinally", "Cancelled">>, <<"CancelledRunFinally", "Cancelled">>}

\* What resolving and validating ends in.
Resolved == {"ok"}
AnyOutcome == {"ok", "invalid", "retry", "resolving", "noresult"}
=============================================================================
