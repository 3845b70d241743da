------------------------------ MODULE MCSteps ------------------------------
(***************************************************************************)
(* The Tasks that Steps is checked with: three steps, with every choice of *)
(* onError for the first two, when expressions on the second, a timeout on *)
(* the first, and breakpoints.                                             *)
(***************************************************************************)
EXTENDS Steps

ThreeSteps ==
  [continue : SUBSET {1, 2}, when : {{}, {2}}, timed : {{}, {1}}, before : {{}, {2}},
   breakpoint : BOOLEAN]
=============================================================================
