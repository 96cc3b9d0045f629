------------------------- MODULE MCPursuitEvidence -------------------------
(* Small instances of PursuitEvidence: criteria, contents and outputs.      *)
EXTENDS PursuitEvidence

CONSTANTS c1, c2, h1, w1, w2, o1

TwoObjective == {c1, c2}
OneObjective == {c1}
OneHuman == {h1}
NoHuman == {}
TwoContents == {w1, w2}
OneOutput == {o1}
=============================================================================
