------------------------------ MODULE MCLauncher -----------------------------
(* What the Launcher keeps and changes, side by side: set-up and settings, its own update,
   and the tab of a turn as its worker drives it.  focus names the machine that moves. *)
EXTENDS LauncherSetup, LauncherUpdate, BrowserTurn

VARIABLE focus

\* A machine that does not move starts in one way; a compaction is one part in the chat it is about.
Init ==
    /\ focus \in {"setup", "update", "tab"}
    /\ LSInit /\ LUInit /\ BTInit
    /\ focus # "setup" => disk.cfg.owner = "none"
    /\ focus # "update" => platform = "linux" /\ bundle.at[1] = "none"
    /\ IF focus = "tab" THEN run.compact => run.parts = 1 /\ run.reuse
                         ELSE run.parts = 1 /\ ~run.reuse /\ ~run.compact

SetUp == focus = "setup" /\ LSNext /\ UNCHANGED <<focus, luVars, bturnVars>>
Update == focus = "update" /\ LUNext /\ UNCHANGED <<focus, setupVars, bturnVars>>
Tab == focus = "tab" /\ BTNext /\ UNCHANGED <<focus, setupVars, luVars>>

vars == <<focus, setupVars, luVars, bturnVars>>

\* The fairness of each machine; a worker's first step is enabled at once, no other's is.
Spec == /\ Init /\ [][SetUp \/ Update \/ Tab]_vars
        /\ SetupFairness /\ UpdateFairness
        /\ WF_bturnVars(focus = "tab" /\ Worker)
=============================================================================
