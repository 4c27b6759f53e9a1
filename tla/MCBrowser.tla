------------------------------ MODULE MCBrowser ------------------------------
(* The Launcher's browser: the registry of turn tabs and the sign-in of the primary view,
   side by side; an operation of the second is `operation` to the first. focus names the
   machine that moves. *)
EXTENDS BrowserHost, SignIn

CONSTANTS t1, t2, c1
VARIABLE focus

SameConversation == (t1 :> c1) @@ (t2 :> c1)

Init == /\ focus \in {"tabs", "sign-in"} /\ HostInit /\ SignInInit
        /\ focus = "tabs" => session /\ browserOp = "none"

Tabs == focus = "tabs" /\ HostNext /\ UNCHANGED <<focus, signInVars>>
Account == focus = "sign-in" /\ SignInNext /\ UNCHANGED <<focus, hostVars>>

\* Every wait of a sign-in has its deadline, and pages and sessions answer or fail.
vars == <<focus, hostVars, signInVars>>
Spec == /\ Init /\ [][Tabs \/ Account]_vars
        /\ WF_signInVars(focus = "sign-in" /\ Reading)
        /\ WF_signInVars(focus = "sign-in" /\ Operating)
        /\ WF_signInVars(focus = "sign-in" /\ TakeBrowser)
        /\ WF_signInVars(focus = "sign-in" /\ TimesOut)
        /\ WF_signInVars(focus = "sign-in" /\ Done)
        /\ WF_signInVars(focus = "sign-in" /\ Recovered)
=============================================================================
