--------------------------- MODULE MCZeroRiskTurn ---------------------------
(* Small instances of ZeroRiskTurn for TLC. *)
EXTENDS ZeroRiskTurn

CONSTANTS k1, a1, a2

TwoAnswers == [k \in Completion |-> IF k = k1 THEN a1 ELSE a2]
=============================================================================
