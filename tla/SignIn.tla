------------------------------- MODULE SignIn -------------------------------
(***************************************************************************)
(* What the Launcher knows of the ChatGPT sign-in                          *)
(* (src/launcher/electron/browser-host.cjs): page probes and session       *)
(* reads that race cookie changes and redirects, the embedded and the      *)
(* passkey login, logout, and the recovery of the primary renderer.        *)
(*                                                                         *)
(* authenticationRevision only ever tells whether something changed since  *)
(* a read began, so a pending read carries the flag `stale` instead of the *)
(* number. `session` is what ChatGPT would answer for the partition.       *)
(* Pages, popups' navigation and wording are abstracted; the interaction   *)
(* mode is automatic, and its change is the operation "mode".              *)
(***************************************************************************)
EXTENDS Naturals, FiniteSets, TLC

CONSTANT MaxChanges  \* bounds the session changes, crashes and failures of a behaviour
ASSUME SignInAssumption == MaxChanges \in Nat

VARIABLES session,        \* the partition holds a signed-in session
          cookies,        \* cookie changes the listener has not been told of yet
          page,           \* the document of the primary view
          renderer,       \* "live", "needed" (primaryRendererRecoveryNeeded) or "recovering"
          navigationError,\* primaryNavigationError
          authenticated,  \* state.authenticated
          reauthenticate, \* reauthenticationRequired
          probe, refresh, \* authenticationProbe and authenticationRefresh
          browserOp,      \* manualOperation and where it stands
          login,          \* loginMode of the login operation, "none" without one
          import,         \* what a passkey import has done to the partition
          changes,
          missed          \* history: a change was ignored that something still depended on

signInVars == <<session, cookies, page, renderer, navigationError, authenticated,
                reauthenticate, probe, refresh, browserOp, login, import, changes, missed>>
readVars == <<probe, refresh>>

Idle == [phase |-> "none", result |-> FALSE, stale |-> FALSE]
Read == [phase: {"none", "begin", "await", "probing", "reading", "read"},
         result: BOOLEAN, stale: BOOLEAN]
Operations == {"none", "login", "inspect", "passkey", "install", "verify", "reset",
               "cleanup", "retry", "logout", "refresh", "mode"}

SignInTypeOK ==
    /\ session \in BOOLEAN /\ cookies \subseteq {"set", "removed"}
    /\ page \in {"idle", "home", "signin"}
    /\ renderer \in {"live", "needed", "recovering"}
    /\ navigationError \in BOOLEAN /\ authenticated \in BOOLEAN /\ reauthenticate \in BOOLEAN
    /\ probe \in Read /\ refresh \in Read
    /\ browserOp \in Operations
    /\ login \in {"none", "embedded", "passkey"}
    /\ import \in {"none", "mutated", "discarded", "kept", "abandoned"}
    /\ changes \in 0..MaxChanges /\ missed \in BOOLEAN

Opened == IF session THEN {"home"} ELSE {"home", "signin"}
Opens(p) == IF p = "home" THEN [Idle EXCEPT !.phase = "reading"] ELSE Idle
\* The Launcher starts in the manual mode, or with the check of the saved session
\* (refreshAuthentication, which main.cjs calls once).
SignInInit ==
    /\ session \in BOOLEAN /\ cookies = {} /\ renderer = "live"
    /\ \/ browserOp = "none" /\ page = "idle" /\ probe = Idle
       \/ browserOp = "refresh" /\ page \in Opened /\ probe = Opens(page)
    /\ navigationError = FALSE /\ authenticated = FALSE /\ reauthenticate = FALSE
    /\ refresh = Idle /\ login = "none" /\ import = "none" /\ changes = 0 /\ missed = FALSE

Change == changes < MaxChanges /\ changes' = changes + 1
Outdated(r) == IF r.phase = "none" THEN r ELSE [r EXCEPT !.stale = TRUE]
Owns(op) == browserOp = op
-----------------------------------------------------------------------------
(* Probing the loaded page *)

\* probeAuthentication: refused while the renderer is away or a new sign-in is due; one at
\* a time; an idle page says nothing and a sign-in page says signed out at once.
MayProbe == /\ renderer = "live"
            /\ reauthenticate => browserOp \in {"login", "passkey", "install", "verify",
                                               "reset", "retry", "logout"}
Probes == /\ MayProbe /\ probe.phase = "none"
          /\ probe' = Opens(page)
          /\ authenticated' = (authenticated /\ page # "signin")

\* The page answers, or cannot be read.
ProbeReads ==
    /\ probe.phase = "reading"
    /\ \E answer \in {session, FALSE} :
          /\ answer # session => Change
          /\ answer = session => UNCHANGED changes
          /\ probe' = [probe EXCEPT !.phase = "read", !.result = answer]
    /\ UNCHANGED <<session, cookies, page, renderer, navigationError, authenticated,
                   reauthenticate, refresh, browserOp, login, import, missed>>

PublishesAnyway == TRUE
\* A newer session change owns authentication: an old probe publishes nothing.
Publishes == ~probe.stale
ProbeSettles ==
    /\ probe.phase = "read"
    /\ probe' = Idle
    /\ authenticated' = IF Publishes THEN probe.result ELSE authenticated
    /\ reauthenticate' = (reauthenticate /\ ~(Publishes /\ probe.result))
    /\ UNCHANGED <<session, cookies, page, renderer, navigationError, refresh, browserOp,
                   login, import, changes, missed>>
-----------------------------------------------------------------------------
(* Session changes *)

\* refreshAuthenticationFromSession: whatever was being read is out of date.
Invalidate ==
    IF renderer # "live" \/ reauthenticate
    THEN /\ missed' = (missed \/ renderer # "live" \/ probe.phase # "none")
         /\ UNCHANGED readVars
    ELSE /\ probe' = Outdated(probe)
         /\ refresh' = IF refresh.phase = "none" THEN [Idle EXCEPT !.phase = "begin"]
                       ELSE Outdated(refresh)
         /\ UNCHANGED missed

\* bindAuthenticationChanges: a renewal during a refresh is not followed, a removal is.
CookieChanged(kind) ==
    /\ kind \in cookies
    /\ cookies' = cookies \ {kind}
    /\ IF kind = "set" /\ refresh.phase # "none" THEN UNCHANGED <<probe, refresh, missed>>
       ELSE Invalidate
    /\ UNCHANGED <<session, page, renderer, navigationError, authenticated, reauthenticate,
                   browserOp, login, import, changes>>

RefreshBegins ==
    /\ refresh.phase = "begin"
    /\ IF page = "home"
       THEN IF probe.phase # "none"
            THEN refresh' = [Idle EXCEPT !.phase = "await"] /\ UNCHANGED <<probe, authenticated>>
            ELSE IF MayProbe THEN refresh' = [Idle EXCEPT !.phase = "probing"] /\ Probes
            ELSE /\ refresh' = Idle /\ UNCHANGED probe   \* a dead renderer proves nothing
                 /\ authenticated' = (authenticated /\ reauthenticate)
       ELSE refresh' = [Idle EXCEPT !.phase = "reading"] /\ UNCHANGED <<probe, authenticated>>
    /\ UNCHANGED <<session, cookies, page, renderer, navigationError, reauthenticate,
                   browserOp, login, import, changes, missed>>

\* The probe that was in the way, or the refresh's own, has settled.
Again == [Idle EXCEPT !.phase = "begin"]
RefreshAwaited ==
    /\ refresh.phase \in {"await", "probing"} /\ probe.phase = "none"
    /\ refresh' = IF refresh.phase = "await" /\ reauthenticate THEN Idle
                  ELSE IF refresh.phase = "await" \/ refresh.stale THEN Again ELSE Idle
    /\ UNCHANGED <<session, cookies, page, renderer, navigationError, authenticated,
                   reauthenticate, probe, browserOp, login, import, changes, missed>>

RefreshReads ==
    /\ refresh.phase = "reading"
    /\ \E answer \in {session, FALSE} :
          /\ answer # session => Change
          /\ answer = session => UNCHANGED changes
          /\ refresh' = [refresh EXCEPT !.phase = "read", !.result = answer]
    /\ UNCHANGED <<session, cookies, page, renderer, navigationError, authenticated,
                   reauthenticate, probe, browserOp, login, import, missed>>

RefreshSettles ==
    /\ refresh.phase = "read"
    /\ refresh' = IF refresh.stale THEN Again ELSE Idle
    /\ authenticated' = IF refresh.stale \/ reauthenticate THEN authenticated ELSE refresh.result
    /\ UNCHANGED <<session, cookies, page, renderer, navigationError, reauthenticate, probe,
                   browserOp, login, import, changes, missed>>

\* ChatGPT ends the session, or the user signs in on the page or its popup.
SignedOut ==
    /\ session /\ Change
    /\ session' = FALSE /\ cookies' = cookies \cup {"removed"}
    /\ UNCHANGED <<page, renderer, navigationError, authenticated, reauthenticate, probe,
                   refresh, browserOp, login, import, missed>>
SignedIn ==
    /\ ~session /\ renderer = "live" /\ page \in {"home", "signin"} /\ Change
    /\ session' = TRUE /\ cookies' = cookies \cup {"set"}
    /\ page' = "home"                        \* the sign-in page returns to ChatGPT
    /\ probe' = Outdated(probe)              \* did-navigate-in-page or a new document
    /\ UNCHANGED <<renderer, navigationError, authenticated, reauthenticate, refresh,
                   browserOp, login, import, missed>>

\* markTurnAuthenticationRequired: a turn was redirected to the sign-in page. The host
\* then trusts no read that began before, and no session, until a login.
TurnRedirected ==
    /\ ~reauthenticate /\ Change
    /\ reauthenticate' = TRUE /\ authenticated' = FALSE
    /\ probe' = Outdated(probe) /\ refresh' = Outdated(refresh)
    /\ UNCHANGED <<session, cookies, page, renderer, navigationError, browserOp, login,
                   import, missed>>
-----------------------------------------------------------------------------
(* The primary renderer *)

\* did-finish-load marks the surface and probes it.
Loads(p) ==
    /\ page' = p /\ navigationError' = FALSE
    /\ IF MayProbe /\ probe.phase = "none"
       THEN /\ probe' = Opens(p)
            /\ authenticated' = (authenticated /\ p # "signin")
       ELSE UNCHANGED <<probe, authenticated>>

Navigate ==                                  \* reveal() and the user's own navigation
    /\ browserOp = "none" /\ renderer = "live" /\ page = "idle"
    /\ \E p \in Opened : Loads(p)
    /\ UNCHANGED <<session, cookies, renderer, reauthenticate, refresh, browserOp, login,
                   import, changes, missed>>

NavigationFails ==                           \* did-fail-load and the 60 s timeout
    /\ renderer = "live" /\ page # "idle" /\ ~navigationError /\ Change
    /\ navigationError' = TRUE
    /\ UNCHANGED <<session, cookies, page, renderer, authenticated, reauthenticate, probe,
                   refresh, browserOp, login, import, missed>>

\* recoverPrimaryRenderer runs at once, or when the operation that owns the browser ends
\* (withManualOperation; withInteractionModeChange leaves it to the next operation).
RecoversOnlyIdle == renderer
Recovery == IF renderer = "needed" THEN "recovering" ELSE renderer

\* render-process-gone: reads of the dead document are out of date.
RendererGone ==
    /\ renderer = "live" /\ Change
    /\ renderer' = (IF browserOp = "none" THEN "recovering" ELSE "needed")
    /\ navigationError' = TRUE
    /\ probe' = Idle /\ refresh' = Outdated(refresh)
    /\ UNCHANGED <<session, cookies, page, authenticated, reauthenticate, browserOp, login,
                   import, missed>>

Recovered ==
    /\ renderer = "recovering"
    /\ renderer' = "live"
    /\ \/ page' = "idle" /\ navigationError' = FALSE /\ UNCHANGED changes
       \/ Change /\ navigationError' = TRUE /\ UNCHANGED page
    /\ UNCHANGED <<session, cookies, authenticated, reauthenticate, probe, refresh,
                   browserOp, login, import, missed>>
-----------------------------------------------------------------------------
(* Operations that own the browser *)

Ready == browserOp = "none" /\ renderer # "recovering"   \* ready() and withManualOperation
EndsLogin == login' = "none"
Gives(op) == /\ browserOp' = op
             /\ renderer' = IF op = "none" /\ ~Owns("mode") THEN Recovery ELSE renderer

\* openLogin and openPasskeyLogin: an authenticated browser needs none, a second request
\* joins the first, and a passkey request turns the embedded login into a passkey login.
OpenLogin(kind) ==
    /\ ~authenticated \/ (kind = "embedded" /\ navigationError)
    /\ \/ login = "none" /\ login' = kind
       \/ login = "embedded" /\ kind = "passkey" /\ login' = "passkey"
    /\ UNCHANGED <<session, cookies, page, renderer, navigationError, authenticated,
                   reauthenticate, probe, refresh, browserOp, import, changes, missed>>

\* The login waited for a session refresh and takes the browser, or finds it busy.
TakeBrowser ==
    /\ login # "none" /\ browserOp \in {"none", "mode", "logout"} /\ renderer # "recovering"
    /\ \E turnRuns \in BOOLEAN :
       IF browserOp # "none" \/ turnRuns
       THEN /\ EndsLogin
            /\ UNCHANGED <<browserOp, renderer, page, navigationError, probe, authenticated>>
       ELSE /\ UNCHANGED login
            /\ IF login = "passkey"
               THEN /\ Gives("passkey") /\ authenticated' = FALSE
                    /\ UNCHANGED <<page, navigationError, probe>>
               ELSE /\ Gives("login")
                    /\ IF navigationError \/ reauthenticate \/ page # "home"
                       THEN \E p \in Opened : Loads(p)
                       ELSE UNCHANGED <<page, navigationError, probe, authenticated>>
    /\ UNCHANGED <<session, cookies, reauthenticate, refresh, import, changes, missed>>

\* waitForAuthenticated of the embedded login: the switch to a passkey, a page error, the
\* answer of a probe, or another probe.
LoginPolls ==
    /\ Owns("login")
    /\ \/ /\ login = "passkey" /\ Gives("passkey") /\ authenticated' = FALSE
          /\ UNCHANGED <<login, probe, changes>>
       \/ /\ login = "embedded" /\ navigationError
          /\ Gives("none") /\ EndsLogin /\ UNCHANGED <<authenticated, probe, changes>>
       \/ /\ login = "embedded" /\ ~navigationError /\ probe.phase = "none" /\ authenticated
          /\ Gives("inspect") /\ UNCHANGED <<login, authenticated, probe, changes>>
       \/ /\ login = "embedded" /\ ~navigationError /\ ~authenticated /\ Probes
          /\ UNCHANGED <<browserOp, renderer, login, changes>>
    /\ UNCHANGED <<session, cookies, page, navigationError, reauthenticate, refresh,
                   import, missed>>
\* The three minutes of an embedded login or the sixty seconds of an import are over.
TimesOut ==
    /\ \/ Owns("login") /\ Gives("none") /\ EndsLogin
       \/ Owns("verify") /\ Gives("reset") /\ UNCHANGED login
    /\ UNCHANGED <<session, cookies, page, navigationError, authenticated, reauthenticate,
                   probe, refresh, import, changes, missed>>

Inspected ==                       \* runSessionInspection ends the login, well or not
    /\ Owns("inspect") /\ Gives("none") /\ EndsLogin
    /\ page' \in {page, "idle"}
    /\ UNCHANGED <<session, cookies, navigationError, authenticated,
                   reauthenticate, probe, refresh, import, changes, missed>>

\* Chrome's sign-in ends: nothing to import, or a session to install.
PasskeyTransferred ==
    /\ Owns("passkey")
    /\ \/ Gives("none") /\ EndsLogin /\ import' = "none"
       \/ Gives("install") /\ UNCHANGED login /\ import' = "none"
    /\ UNCHANGED <<session, cookies, page, navigationError, authenticated,
                   reauthenticate, probe, refresh, changes, missed>>

\* installPasskeyLogin clears the partition, sets the imported cookies and loads ChatGPT.
PasskeyInstalls ==
    /\ Owns("install")
    /\ import' = "mutated"
    /\ \/ /\ Gives("verify") /\ session' = TRUE /\ cookies' = cookies \cup {"removed", "set"}
          /\ renderer = "live" /\ Loads("home") /\ UNCHANGED changes
       \/ /\ Change /\ Gives("reset") /\ session' \in BOOLEAN
          /\ cookies' = cookies \cup {"removed"}
          /\ UNCHANGED <<page, navigationError, probe, authenticated>>
       \/ /\ renderer # "live" /\ Gives("reset") /\ session' = FALSE
          /\ cookies' = cookies \cup {"removed"}
          /\ UNCHANGED <<page, navigationError, probe, authenticated, changes>>
    /\ UNCHANGED <<reauthenticate, refresh, login, missed>>

PasskeyVerified ==
    /\ Owns("verify")
    /\ \/ /\ probe.phase = "none" /\ authenticated
          /\ import' = "kept" /\ Gives("cleanup") /\ UNCHANGED <<probe, authenticated>>
       \/ ~authenticated /\ Probes /\ UNCHANGED <<import, browserOp, renderer>>
    /\ UNCHANGED <<session, cookies, page, navigationError, reauthenticate, refresh,
                   login, changes, missed>>

\* resetFailedPasskeyLogin: clear, load, and prove that nobody is signed in.
PasskeyResets ==
    /\ browserOp \in {"reset", "retry"}
    /\ \/ /\ renderer = "live" /\ session' = FALSE /\ cookies' = cookies \cup {"removed"}
          /\ import' = "discarded" /\ page' = "home" /\ navigationError' = FALSE
          /\ authenticated' = FALSE /\ probe' = Outdated(probe) /\ UNCHANGED changes
       \/ /\ IF renderer = "live" THEN Change ELSE UNCHANGED changes
          /\ import' = IF Owns("retry") THEN "abandoned" ELSE import
          /\ UNCHANGED <<session, cookies, page, navigationError, authenticated, probe>>
    /\ IF browserOp = "reset" THEN Gives("cleanup") /\ UNCHANGED login
       ELSE Gives("none") /\ EndsLogin
    /\ UNCHANGED <<reauthenticate, refresh, missed>>

\* transfer.cleanup() runs whatever happened; a failure of its own discards the import too.
CleanedUp ==
    /\ Owns("cleanup")
    /\ \E failed \in BOOLEAN :
         /\ failed => Change
         /\ ~failed => UNCHANGED changes
         /\ IF import = "mutated" \/ (import = "kept" /\ failed)
            THEN Gives("retry") /\ UNCHANGED login /\ import' = "mutated"
            ELSE Gives("none") /\ EndsLogin /\ UNCHANGED import
    /\ UNCHANGED <<session, cookies, page, navigationError, authenticated,
                   reauthenticate, probe, refresh, missed>>

\* logout clears the storage first, then proves on a fresh page that nobody is signed in.
Logout ==
    /\ Ready /\ renderer = "live"
    /\ Gives("logout") /\ session' = FALSE /\ cookies' = cookies \cup {"removed"}
    /\ authenticated' = FALSE /\ page' = "home" /\ navigationError' = FALSE
    /\ probe' = Outdated(probe)
    /\ UNCHANGED <<reauthenticate, refresh, login, import, changes, missed>>

\* withInteractionModeChange holds the browser in the same way and reads nothing here.
ModeChange ==
    /\ Ready /\ Gives("mode")
    /\ UNCHANGED <<session, cookies, page, navigationError, authenticated, reauthenticate,
                   probe, refresh, login, import, changes, missed>>
Done ==
    /\ browserOp \in {"logout", "refresh", "mode"} /\ probe.phase = "none"
    /\ Gives("none")
    /\ UNCHANGED <<session, cookies, page, navigationError, authenticated,
                   reauthenticate, probe, refresh, login, import, changes, missed>>

Reading == ProbeReads \/ ProbeSettles \/ RefreshBegins \/ RefreshAwaited \/ RefreshReads
           \/ RefreshSettles \/ \E kind \in {"set", "removed"} : CookieChanged(kind)
Operating == LoginPolls \/ Inspected \/ PasskeyTransferred
             \/ PasskeyInstalls \/ PasskeyVerified \/ PasskeyResets \/ CleanedUp
SignInNext ==
    \/ Reading \/ Operating \/ TakeBrowser \/ TimesOut \/ Done
    \/ SignedOut \/ SignedIn \/ TurnRedirected
    \/ Navigate \/ NavigationFails \/ RendererGone \/ Recovered
    \/ \E kind \in {"embedded", "passkey"} : OpenLogin(kind)
    \/ Logout \/ ModeChange
SignInSpec == SignInInit /\ [][SignInNext]_signInVars
-----------------------------------------------------------------------------
\* Once nothing is being read, the Launcher never claims a sign-in that ChatGPT has ended,
\* and never one while a redirected turn still waits for the user to sign in again; only a
\* change that came while the renderer was away, or during the probe of a login that a
\* redirect made necessary, goes unnoticed (refreshAuthenticationFromSession ignores both).
SettledSignIn ==
    /\ reauthenticate => ~authenticated
    /\ probe.phase = "none" /\ refresh.phase = "none" /\ cookies = {} /\ ~missed
       => (authenticated => session)

\* A passkey import that did not succeed leaves no partial session behind, unless the
\* last attempt to discard it failed too (installPasskeyLogin).
ImportIsWholeOrGone == browserOp = "none" => import # "mutated"

\* The account is what the Launcher says it is: types, imports and claims.
SignInInv == SignInTypeOK /\ ImportIsWholeOrGone /\ SettledSignIn

\* A renderer that crashes under an operation comes back when the operation is over (one
\* that crashes under a change of the interaction mode waits for the next operation), and a
\* login ends: it is answered, given up or fails, and never holds the browser for good.
RendererRecovers ==
    renderer = "needed" /\ browserOp \notin {"none", "mode"} ~> renderer = "live"
LoginEnds == login # "none" ~> login = "none"

\* Neither a crashed renderer nor a login holds the browser for ever.
SignInProceeds == RendererRecovers /\ LoginEnds
=============================================================================
