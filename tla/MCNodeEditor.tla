---------------------------- MODULE MCNodeEditor ----------------------------
(* A source a, a filter b and a sink c: chains, fan-out from a, fan-in to  *)
(* c, and the filter with a link on either side.                           *)
EXTENDS NodeEditor, TLC

CONSTANTS a, b, c, aOut, bOut, bIn, cIn

MCNode == {a, b, c}
MCOut == {aOut, bOut}
MCIn == {bIn, cIn}
MCOwner == aOut :> a @@ bOut :> b @@ bIn :> b @@ cIn :> c
=============================================================================
