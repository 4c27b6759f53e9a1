------------------------------ MODULE MCDaemon ------------------------------
(* Four machines of the daemon that share no state, checked side by side: the HTTP turns
   with their cancellation and shutdown, the shared catalogue requests, one Responses
   answer, and the store of earlier responses.  focus names the one that moves. *)
EXTENDS ServerTurns, ModelCatalog, ResponsesStream, ResponseHistory

VARIABLE focus

Init ==
    /\ focus \in {"turns", "catalog", "stream", "history"}
    /\ ServerInit /\ CatalogInit /\ HistoryInit
    /\ IF focus = "stream" THEN StreamInit ELSE StreamInit /\ mode = "turn"

Turns == focus = "turns" /\ ServerNext
            /\ UNCHANGED <<focus, catalogVars, streamVars, historyVars>>
Catalogue == focus = "catalog" /\ CatalogNext
            /\ UNCHANGED <<focus, serverVars, streamVars, historyVars>>
Streaming == focus = "stream" /\ StreamNext
            /\ UNCHANGED <<focus, serverVars, catalogVars, historyVars>>
History == focus = "history" /\ HistoryNext
            /\ UNCHANGED <<focus, serverVars, catalogVars, streamVars>>

vars == <<focus, serverVars, catalogVars, streamVars, historyVars>>

\* The fairness of each machine; an answer is aborted or runs from the first state on.
Spec == /\ Init /\ [][Turns \/ Catalogue \/ Streaming \/ History]_vars
        /\ ServerFairness
        /\ WF_streamVars(focus = "stream" /\ StreamRuns)
        /\ WF_streamVars(focus = "stream" /\ Aborted)
=============================================================================
