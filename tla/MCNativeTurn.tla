---------------------------- MODULE MCNativeTurn ----------------------------
(* A native turn end to end and, side by side, the rolling checkpoint of its task and the
   socket of its broker.  focus names what moves. *)
EXTENDS NativeTurn, RollingCheckpoint, BrokerEndpoint

CONSTANT x1
VARIABLE focus

OneTrace == [t \in Token |-> x1]

\* How the snapshots of a page cut text (t), the marker (m1, m2) and the summary (c).
Pages == {<<"t", "m1", "m2", "c">>, <<"t", "t", "t">>, <<"m1", "t", "m1", "m2", "c">>,
          <<"m1", "m2", "c">>, <<"t", "m1", "m2", "c", "m1", "m2", "c">>}

\* A machine that does not move starts in one way.
SumInit == /\ focus \in {"native", "checkpoint", "endpoint"}
           /\ TurnInit /\ RCInit /\ EPInit
           /\ focus # "endpoint" => path = 0

Native == focus = "native" /\ TurnNext /\ UNCHANGED <<focus, rcVars, endpointVars>>
Checkpoint == focus = "checkpoint" /\ RCNext /\ UNCHANGED <<focus, turnVars, endpointVars>>
Endpoint == focus = "endpoint" /\ EPNext /\ UNCHANGED <<focus, turnVars, rcVars>>

\* The fairness of the turn's processes and of the socket's; no step of theirs is enabled
\* before the turn is opened and a daemon starts.
SumSpec == /\ SumInit
           /\ [][Native \/ Checkpoint \/ Endpoint]_<<focus, turnVars, rcVars, endpointVars>>
           /\ TurnFairness /\ EPFairness
=============================================================================
