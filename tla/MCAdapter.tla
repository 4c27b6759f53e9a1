------------------------------ MODULE MCAdapter ------------------------------
(* The machines between the adapter and its helpers that share no state, side by side: the
   recorder of turn progress and its mirror, the line protocol to the browser helper, and a
   Zero Risk turn.  focus names the machine that moves. *)
EXTENDS TurnProgress, HelperProtocol, ZeroRiskTurn

CONSTANTS k1, a1, a2
VARIABLE focus

TwoAnswers == [k \in Completion |-> IF k = k1 THEN a1 ELSE a2]

Init == /\ focus \in {"progress", "helper", "zero-risk"}
        /\ ProgressInit /\ HelperInit /\ ZeroRiskInit

Progress == /\ focus = "progress" /\ ProgressNext
            /\ UNCHANGED <<focus, protocolVars, zeroRiskVars>>
Helper == /\ focus = "helper" /\ HelperNext
          /\ UNCHANGED <<focus, progressVars, zeroRiskVars>>
ZeroRisk == /\ focus = "zero-risk" /\ ZeroRiskNext
            /\ UNCHANGED <<focus, progressVars, protocolVars>>

vars == <<focus, progressVars, protocolVars, zeroRiskVars>>

\* The fairness of each machine.  The steps that its initial state enables are owed only
\* while it moves.
Spec ==
    /\ Init /\ [][Progress \/ Helper \/ ZeroRisk]_vars
    /\ BatchFairness /\ SF_progressVars(focus = "progress" /\ AcceptAnswer)
    /\ HelperFairness
    /\ RequestFairness /\ WF_zeroRiskVars(focus = "zero-risk" /\ RunManual /\ NoFault)
=============================================================================
