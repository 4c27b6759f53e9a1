------------------------------- MODULE MCTurn -------------------------------
(* Four machines of a turn that are checked for safety, side by side: the broker, the
   environment Codex gives a turn, the binding of an answer on the page, and the clock of a
   turn's stages.  They share no state; focus names the machine that moves. *)
EXTENDS TurnBroker, TurnEnvironment, TurnBinding, StageClock, TLC

CONSTANTS t1, t2, x1, x2, c1, c2
VARIABLE focus

\* Two invoke requests are interchangeable.
CallSymmetry == Permutations({c1, c2})

TracePerToken == [t \in Token |-> IF t = t1 THEN x1 ELSE x2]

\* Two authorities, and what three versions of Codex write of them.
InProject == [cwd |-> "p", roots |-> {"p"}, extra |-> {"o"}, policy |-> "write", net |-> TRUE]
FullAccess == [cwd |-> "q", roots |-> {"q"}, extra |-> {"o"}, policy |-> "full", net |-> TRUE]
TwoAuthorities == {InProject, FullAccess}
V(style, tagged, ids, declares, lists, repeats, platform, git, homes, v2) ==
    [style |-> style, tagged |-> tagged, ids |-> ids, declares |-> declares, lists |-> lists,
     repeats |-> repeats, platform |-> platform, git |-> git, homes |-> homes, v2 |-> v2]
ThreeVersions ==
    {V("legacy", TRUE, FALSE, TRUE, FALSE, FALSE, FALSE, TRUE, 1, FALSE),
     V("profile", TRUE, TRUE, TRUE, TRUE, FALSE, TRUE, TRUE, 1, TRUE),
     V("roots", FALSE, TRUE, FALSE, FALSE, TRUE, FALSE, FALSE, 2, FALSE)}

\* The exchanges on the page that the binding tells apart.
ExchangeKeys == [stage |-> {1, 2}, mine |-> {3, 4}, foreign |-> {5}, old |-> {6}]
\* Two suspensions below the gap and one above it.
Naps == {1, 2, 4}

\* A machine that does not move starts in one way.
SumInit ==
    /\ focus \in {"broker", "environment", "binding", "clock"}
    /\ Init /\ EnvInit /\ BindInit /\ StageInit
    /\ focus # "environment" => codex = CHOOSE v \in ThreeVersions : TRUE
    /\ focus # "binding" => turn.stage = {1}

pageVars == <<bindVars, stageVars>>
Broker == focus = "broker" /\ Next /\ UNCHANGED <<focus, envVars, pageVars>>
Environment == /\ focus = "environment" /\ EnvNext
               /\ UNCHANGED <<focus, vars, pageVars>>
Binding == /\ focus = "binding" /\ BindNext
           /\ UNCHANGED <<focus, vars, envVars, stageVars>>
Clock == /\ focus = "clock" /\ StageNext
         /\ UNCHANGED <<focus, vars, envVars, bindVars>>

SumSpec ==
    /\ SumInit
    /\ [][Broker \/ Environment \/ Binding \/ Clock]_<<focus, vars, envVars, pageVars>>
=============================================================================
