------------------------------ MODULE MCMachine ------------------------------
(* What the Launcher keeps running and on disk, side by side: the runtime supervisor, the
   integration journal, the update of a source checkout, the tab requests of Zero Risk
   turns, and the counter of what the user has sent.  focus names the machine that moves. *)
EXTENDS IntegrationJournal, RuntimeSupervisor, SourceUpdate, ManualControl, Limits

VARIABLE focus

TwoTurns == 1..2

\* A machine that does not move starts in one way.
Init ==
    /\ focus \in {"journal", "supervisor", "source", "manual", "limits"}
    /\ JournalInit /\ SupervisorInit /\ SUInit /\ MCInit /\ LMInit
    /\ focus # "journal" => baseline = Absent
    /\ focus # "limits" => signedIn.tier = "free"

fileVars == <<journalVars, suVars>>
turnVars == <<manualVars, limitsVars>>
Journaling == focus = "journal" /\ JournalNext /\ UNCHANGED <<focus, supervisorVars, suVars, turnVars>>
Supervisor == focus = "supervisor" /\ SupervisorNext /\ UNCHANGED <<focus, fileVars, turnVars>>
Source == focus = "source" /\ SUNext /\ UNCHANGED <<focus, journalVars, supervisorVars, turnVars>>
Manual == /\ focus = "manual" /\ MCtlNext
          /\ UNCHANGED <<focus, fileVars, supervisorVars, limitsVars>>
\* Bounds of the run: messages of a limited model only, and the last tick but ages them.
Counting == /\ focus = "limits" /\ LMNext
            /\ \A x \in sends' \ sends : x.model \in Family /\ wall < MAX_TIME
            /\ UNCHANGED <<focus, fileVars, supervisorVars, manualVars>>

vars == <<focus, fileVars, supervisorVars, turnVars>>

\* The supervisor's fairness; none of its steps is enabled before something happened.
Spec == /\ Init /\ [][Journaling \/ Supervisor \/ Source \/ Manual \/ Counting]_vars
        /\ SupervisorFairness
=============================================================================
