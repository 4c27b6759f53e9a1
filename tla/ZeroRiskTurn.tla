---------------------------- MODULE ZeroRiskTurn ----------------------------
(***************************************************************************)
(* One Zero Risk turn: the user pastes the prompt into a visible ChatGPT   *)
(* tab and presses Sent in the Launcher, and ChatGPT drives the turn       *)
(* through the "safe" MCP contract.  The module composes                   *)
(*   - the Launcher's manual tab (launcher/electron/browser-host.cjs),     *)
(*   - the adapter's runManual and its Codex observer (index.ts),          *)
(*   - the broker channel with its "safe" control block (turn-broker.ts),  *)
(*   - ChatGPT's MCP requests (mcp-server.ts, contract "safe").            *)
(* A broker action is one synchronous run of the daemon's event loop; the  *)
(* Launcher answers the adapter over HTTP.  Compaction is not modelled.    *)
(***************************************************************************)
EXTENDS Integers, FiniteSets

CONSTANTS
    SafeCall,        \* tool calls ChatGPT may make
    Completion,  \* codex_turn_complete requests ChatGPT may make
    SafeAnswer,      \* final answers
    AnswerOf,    \* the answer a completion carries
    RETAIN,      \* whether the finished conversation keeps its tab
    FAULTS       \* Launcher requests that may fail

ASSUME AnswerKinds == AnswerOf \in [Completion -> SafeAnswer] /\ "none" \notin SafeAnswer /\ "error" \notin SafeAnswer
ASSUME FaultBound == FAULTS \in Nat /\ RETAIN \in BOOLEAN

VARIABLES
    tab,               \* manualState of the tab; "closed" once it is removed
    terminal,          \* manualTerminalSignals of the trace
    confirmed,         \* the user has pressed Sent (history)
    asked,             \* somebody has ended the turn from outside (history)
    runner,           \* where runManual stands
    launcherStarted,
    aborted,           \* browserAbort.signal.aborted
    externallyAborted, \* what the catch block found it to be
    outcome,           \* session.browserOutcome
    observer,          \* the Responses request observing the turn
    channel,           \* the broker's channel of the token
    state,             \* safe.state
    launcherSent,
    connectorStarted,
    finalAnswer,
    waiter,            \* the promises that wait on the safe control block
    safeCall,
    completion,
    faults

launcherVars == <<tab, terminal, confirmed, asked>>
runnerVars == <<runner, launcherStarted, aborted, externallyAborted, outcome, observer>>
safeVars == <<channel, state, launcherSent, connectorStarted, finalAnswer>>
zeroRiskVars == <<launcherVars, runnerVars, safeVars, waiter, safeCall, completion, faults>>

Waiter == SafeCall \cup Completion \cup {"adapter", "observer"}
Registered == {"sent", "start", "completion"}   \* the three waiter sets
Invocations == {c \in SafeCall : safeCall[c] \in {"pending", "delivered"}}
Activities == Invocations \cup {c \in SafeCall : safeCall[c] \in {"claimed", "answered"}}
Active == channel = "active"
Held(r) == waiter[r] = "sent"

ZeroRiskTypeOK ==
    /\ tab \in {"none", "awaiting-user", "sent", "running", "completed", "timed-out", "cancelled", "closed"}
    /\ terminal \in {"none", "timeout", "cancelled", "failed"}
    /\ runner \in {"register", "open", "waitSent", "confirm", "waitStart", "mark",
                   "waitCompletion", "end", "failing", "answered", "failed"}
    /\ outcome \in SafeAnswer \cup {"none", "error"}
    /\ observer \in {"arm", "waitStart", "waitTools", "tools", "finish", "closed"}
    /\ channel \in {"none", "active", "retired"}
    /\ state \in {"awaiting_start", "running", "completed", "revoked"}
    /\ finalAnswer \in SafeAnswer \cup {"none"}
    /\ waiter \in [Waiter -> Registered \cup {"none", "resolved", "rejected"}]
    /\ safeCall \in [SafeCall -> {"idle", "claiming", "claimed", "pending", "delivered", "answered", "done"}]
    /\ completion \in [Completion -> {"idle", "completing", "accepted", "refused"}]
    /\ {confirmed, asked, launcherStarted, aborted, externallyAborted, launcherSent, connectorStarted} \subseteq BOOLEAN
    /\ faults \in 0..FAULTS

ZeroRiskInit ==
    /\ tab = "none" /\ terminal = "none" /\ confirmed = FALSE /\ asked = FALSE
    /\ runner = "register" /\ launcherStarted = FALSE /\ aborted = FALSE /\ externallyAborted = FALSE
    /\ outcome = "none" /\ observer = "arm"
    /\ channel = "none" /\ state = "awaiting_start"
    /\ launcherSent = FALSE /\ connectorStarted = FALSE /\ finalAnswer = "none"
    /\ waiter = [w \in Waiter |-> "none"]
    /\ safeCall = [c \in SafeCall |-> "idle"]
    /\ completion = [k \in Completion |-> "idle"]
    /\ faults = 0

Fault == faults < FAULTS /\ faults' = faults + 1

-----------------------------------------------------------------------------
(* The safe control block of the broker *)

Settle(ws, sets, result) == [w \in Waiter |-> IF ws[w] \in sets THEN result ELSE ws[w]]

(* activateSafeTurn, with the waiters ws: both confirmations start the turn *)
StartsTurn(sent, started) == state = "awaiting_start" /\ sent /\ started

Activate(sent, started, ws) ==
    /\ launcherSent' = sent
    /\ connectorStarted' = started
    /\ IF StartsTurn(sent, started)
       THEN state' = "running" /\ waiter' = Settle(ws, {"start"}, "resolved")
       ELSE state' = state /\ waiter' = ws
    /\ UNCHANGED <<channel, finalAnswer>>

(* revoke: the channel goes, every waiter and every invocation is rejected *)
Rejected(ws) == Settle(ws, Registered, "rejected")
DropInvocations == [c \in SafeCall |-> IF c \in Invocations THEN "answered" ELSE safeCall[c]]

RevokeChannel(ws) ==
    IF Active
    THEN /\ channel' = "retired" /\ state' = "revoked"
         /\ waiter' = Rejected(ws)
         /\ safeCall' = DropInvocations
         /\ UNCHANGED <<launcherSent, connectorStarted, finalAnswer>>
    ELSE waiter' = ws /\ UNCHANGED <<safeVars, safeCall>>

(* browserAbort.abort() rejects the promises that carry its signal *)
AbortWaits == [waiter EXCEPT !["adapter"] = IF @ \in Registered THEN "rejected" ELSE @]

(* session.cancel: abort, revoke, and with a reason the outcome is known at once *)
CancelSession(reason) ==
    /\ aborted' = TRUE
    /\ outcome' = IF reason /\ outcome = "none" THEN "error" ELSE outcome
    /\ IF runner = "register"
       THEN waiter' = AbortWaits /\ UNCHANGED <<safeVars, safeCall>>
       ELSE RevokeChannel(AbortWaits)

Knows == tab # "none"   \* ChatGPT learns the request_id from the copied prompt

(* codex_turn_start *)
StartSafeTurn ==
    /\ Knows /\ Active /\ state \in {"awaiting_start", "running"} /\ ~connectorStarted
    /\ Activate(launcherSent, TRUE, waiter)
    /\ UNCHANGED <<launcherVars, runnerVars, safeCall, completion, faults>>

MustWaitForSent == state = "awaiting_start" /\ ~launcherSent
HarnessRunning == Active /\ state = "running"

ClaimResult == IF HarnessRunning THEN "claimed" ELSE "done"

(* A tool request claims the turn; it is held until the user confirms Sent *)
Claim(c) ==
    /\ Knows /\ safeCall[c] = "idle"
    /\ IF Active /\ MustWaitForSent
       THEN waiter' = [waiter EXCEPT ![c] = "sent"] /\ safeCall' = [safeCall EXCEPT ![c] = "claiming"]
       ELSE safeCall' = [safeCall EXCEPT ![c] = ClaimResult] /\ UNCHANGED waiter
    /\ UNCHANGED <<launcherVars, runnerVars, safeVars, completion, faults>>

ResumeClaim(c) ==
    /\ safeCall[c] = "claiming" /\ ~Held(c)
    /\ safeCall' = [safeCall EXCEPT ![c] = IF waiter[c] = "resolved" THEN ClaimResult ELSE "done"]
    /\ UNCHANGED <<launcherVars, runnerVars, safeVars, waiter, completion, faults>>

Invoke(c) ==
    /\ safeCall[c] = "claimed"
    /\ safeCall' = [safeCall EXCEPT ![c] = IF HarnessRunning THEN "pending" ELSE "answered"]
    /\ UNCHANGED <<launcherVars, runnerVars, safeVars, waiter, completion, faults>>

(* The handler's finally block; an inventory tool never invokes *)
EndActivity(c) ==
    /\ safeCall[c] \in {"claimed", "answered"}
    /\ safeCall' = [safeCall EXCEPT ![c] = "done"]
    /\ UNCHANGED <<launcherVars, runnerVars, safeVars, waiter, completion, faults>>

(* An MCP invocation that times out or is cancelled releases the binding *)
Release(c) ==
    /\ c \in Invocations
    /\ RevokeChannel(waiter)
    /\ asked' = TRUE
    /\ UNCHANGED <<tab, terminal, confirmed, runnerVars, completion, faults>>

\* Mutant: open MCP requests are not looked at.
MayCompleteEarly == state = "running" /\ Invocations = {}
MayComplete == state = "running" /\ Invocations = {} /\ Activities = {}

Repeats(k) == AnswerOf[k] = finalAnswer

ResolvesCompletion(ws) == Settle(ws, {"completion"}, "resolved")

CompleteSafeTurn(k) ==
    IF Active /\ state = "completed"
    THEN /\ completion' = [completion EXCEPT ![k] =
                IF Repeats(k) THEN "accepted" ELSE "refused"]
         /\ UNCHANGED <<safeVars, waiter>>
    ELSE IF Active /\ MayComplete
    THEN /\ state' = "completed" /\ finalAnswer' = AnswerOf[k]
         /\ waiter' = ResolvesCompletion(waiter)
         /\ completion' = [completion EXCEPT ![k] = "accepted"]
         /\ UNCHANGED <<channel, launcherSent, connectorStarted>>
    ELSE completion' = [completion EXCEPT ![k] = "refused"] /\ UNCHANGED <<safeVars, waiter>>

(* codex_turn_complete; a refused one may be sent again *)
RequestCompletion(k) ==
    /\ Knows /\ completion[k] \in {"idle", "refused"}
    /\ IF Active /\ MustWaitForSent
       THEN /\ waiter' = [waiter EXCEPT ![k] = "sent"]
            /\ completion' = [completion EXCEPT ![k] = "completing"]
            /\ UNCHANGED safeVars
       ELSE CompleteSafeTurn(k)
    /\ UNCHANGED <<launcherVars, runnerVars, safeCall, faults>>

ResumeCompletion(k) ==
    /\ completion[k] = "completing" /\ ~Held(k)
    /\ IF waiter[k] = "resolved"
       THEN CompleteSafeTurn(k)
       ELSE completion' = [completion EXCEPT ![k] = "refused"] /\ UNCHANGED <<safeVars, waiter>>
    /\ UNCHANGED <<launcherVars, runnerVars, safeCall, faults>>

(* The MCP client gives up a held request: its socket closes *)
AbandonHeld(r) ==
    /\ Held(r)
    /\ waiter' = [waiter EXCEPT ![r] = "rejected"]
    /\ UNCHANGED <<launcherVars, runnerVars, safeVars, safeCall, completion, faults>>

-----------------------------------------------------------------------------
(* The Launcher's manual tab *)

ConfirmManualSent ==
    /\ tab = "awaiting-user"
    /\ tab' = "sent" /\ confirmed' = TRUE
    /\ UNCHANGED <<terminal, asked, runnerVars, safeVars, waiter, safeCall, completion, faults>>

DeadlinePasses ==
    /\ tab = "awaiting-user"
    /\ tab' = "timed-out" /\ terminal' = "timeout"
    /\ UNCHANGED <<confirmed, asked, runnerVars, safeVars, waiter, safeCall, completion, faults>>

Open == {"awaiting-user", "sent", "running"}

(* The page cannot be loaded, its renderer dies, or it is destroyed *)
PageFails ==
    /\ tab \in Open
    /\ tab' = "closed" /\ terminal' = "failed"
    /\ UNCHANGED <<confirmed, asked, runnerVars, safeVars, waiter, safeCall, completion, faults>>

(* closeTab: the tab is marked, the runtime is told, the tab is removed *)
UserClosesTab ==
    /\ tab \in Open \cup {"timed-out"}
    /\ tab' = IF tab \in Open THEN "cancelled" ELSE "closed"
    /\ terminal' = "cancelled" /\ asked' = TRUE
    /\ UNCHANGED <<confirmed, runnerVars, safeVars, waiter, safeCall, completion, faults>>

RuntimeIsTold ==
    /\ tab = "cancelled" /\ tab' = "closed"
    /\ \/ CancelSession(TRUE) /\ UNCHANGED faults
       \/ Fault /\ UNCHANGED <<aborted, outcome, safeVars, waiter, safeCall>>
    /\ UNCHANGED <<terminal, confirmed, asked, runner, launcherStarted, externallyAborted, observer, completion>>

-----------------------------------------------------------------------------
(* runManual *)

Goto(pc) == runner' = pc /\ UNCHANGED externallyAborted

(* catch: the capability is revoked before any other event is served *)
RunFails ==
    /\ runner' = "failing" /\ externallyAborted' = aborted
    /\ RevokeChannel([waiter EXCEPT !["adapter"] = "rejected"])

RegisterSafe ==
    /\ runner = "register" /\ Goto("open")
    /\ channel' = "active"
    /\ UNCHANGED <<launcherVars, launcherStarted, aborted, outcome, observer, state, launcherSent,
                   connectorStarted, finalAnswer, waiter, safeCall, completion, faults>>

(* A failed start may have opened the tab: both acknowledgements were lost *)
OpenTab ==
    /\ runner = "open"
    /\ \/ /\ tab' = "awaiting-user" /\ launcherStarted' = TRUE /\ Goto("waitSent")
          /\ UNCHANGED <<safeVars, waiter, safeCall, faults>>
       \/ /\ tab' \in {"none", "awaiting-user"} /\ RunFails /\ Fault
          /\ UNCHANGED launcherStarted
    /\ UNCHANGED <<terminal, confirmed, asked, aborted, outcome, observer, completion>>

WaitSent ==
    /\ runner = "waitSent"
    /\ \/ /\ ~aborted /\ tab \in {"sent", "running"} /\ Goto("confirm")
          /\ UNCHANGED <<safeVars, waiter, safeCall, faults>>
       \/ (aborted \/ tab \in {"timed-out", "cancelled", "closed"}) /\ RunFails /\ UNCHANGED faults
       \/ RunFails /\ Fault
    /\ UNCHANGED <<launcherVars, launcherStarted, aborted, outcome, observer, completion>>

(* confirmSafeTurnSent and the first part of waitForSafeStart *)
StartWait ==
    IF StartsTurn(TRUE, connectorStarted) THEN "resolved" ELSE IF aborted THEN "rejected" ELSE "start"

ConfirmSafeTurnSent ==
    /\ runner = "confirm"
    /\ IF ~Active
       THEN RunFails
       ELSE /\ Goto("waitStart") /\ UNCHANGED safeCall
            /\ Activate(TRUE, connectorStarted,
                        [Settle(waiter, {"sent"}, "resolved") EXCEPT !["adapter"] = StartWait])
    /\ UNCHANGED <<launcherVars, launcherStarted, aborted, outcome, observer, completion, faults>>

TerminalSeen == terminal \in {"cancelled", "failed"}

\* Mutant: only the Launcher's side of the race is listened to.
OnlyTerminal == TerminalSeen
RaceLost == waiter["adapter"] = "rejected" \/ TerminalSeen

(* Promise.race of a broker wait and waitTerminal, which a lost answer also ends *)
LosesRace ==
    /\ runner \in {"waitStart", "waitCompletion"}
    /\ waiter["adapter"] # "resolved"
    /\ \/ RaceLost /\ UNCHANGED faults
       \/ Fault
    /\ RunFails
    /\ UNCHANGED <<launcherVars, launcherStarted, aborted, outcome, observer, completion>>

SafeStarted ==
    /\ runner = "waitStart" /\ waiter["adapter"] = "resolved" /\ Goto("mark")
    /\ UNCHANGED <<launcherVars, launcherStarted, aborted, outcome, observer, safeVars,
                   waiter, safeCall, completion, faults>>

CompletionWait ==
    IF ~Active THEN "rejected"
    ELSE IF state = "completed" THEN "resolved"
    ELSE IF aborted THEN "rejected" ELSE "completion"

(* markManualTurnStarted, then waitForSafeCompletion *)
MarkStarted ==
    /\ runner = "mark"
    /\ \/ /\ tab \in {"sent", "running"} /\ tab' = "running" /\ Goto("waitCompletion")
          /\ waiter' = [waiter EXCEPT !["adapter"] = CompletionWait]
          /\ UNCHANGED <<safeVars, safeCall, faults>>
       \/ tab \notin {"sent", "running"} /\ RunFails /\ UNCHANGED <<tab, faults>>
       \/ RunFails /\ Fault /\ UNCHANGED tab
    /\ UNCHANGED <<terminal, confirmed, asked, launcherStarted, aborted, outcome, observer, completion>>

TakeAnswer ==
    /\ runner = "waitCompletion" /\ waiter["adapter"] = "resolved" /\ Goto("end")
    /\ UNCHANGED <<launcherVars, launcherStarted, aborted, outcome, observer, safeVars,
                   waiter, safeCall, completion, faults>>

(* finishLauncher("completed"): a failure is logged, the answer stands *)
EndCompleted ==
    /\ runner = "end" /\ Goto("answered")
    /\ \/ /\ tab' = IF tab \in {"sent", "running"} THEN (IF RETAIN THEN "completed" ELSE "closed") ELSE tab
          /\ UNCHANGED faults
       \/ Fault /\ UNCHANGED tab
    /\ outcome' = IF outcome = "none" THEN finalAnswer ELSE outcome
    /\ UNCHANGED <<terminal, confirmed, asked, launcherStarted, aborted, observer, safeVars, waiter, safeCall, completion>>

EndStatus == IF externallyAborted THEN "cancelled" ELSE "failed"

EndsTab == launcherStarted

(* The rest of the catch block: finishLauncher *)
EndFailed ==
    /\ runner = "failing" /\ Goto("failed")
    /\ IF EndsTab
       THEN \/ /\ tab' = IF tab = "completed" THEN tab ELSE "closed"
               /\ terminal' = IF tab \in {"completed", "closed"} THEN terminal
                              ELSE EndStatus
               /\ UNCHANGED faults
            \/ Fault /\ UNCHANGED <<tab, terminal>>
       ELSE UNCHANGED <<tab, terminal, faults>>
    /\ outcome' = IF outcome = "none" THEN "error" ELSE outcome
    /\ UNCHANGED <<confirmed, asked, launcherStarted, aborted, observer, safeVars, waiter, safeCall, completion>>

RunEnded == runner \in {"answered", "failed"}

(* observeCapabilityRetirement: a retired capability aborts the running turn *)
CapabilityRetired ==
    /\ channel = "retired" /\ ~RunEnded /\ ~aborted
    /\ aborted' = TRUE
    /\ waiter' = AbortWaits
    /\ UNCHANGED <<launcherVars, runner, launcherStarted, externallyAborted, outcome, observer, safeVars, safeCall, completion, faults>>

-----------------------------------------------------------------------------
(* The Responses request that observes the turn (runTurn) *)

Queued == {c \in SafeCall : safeCall[c] = "pending"}
Observe(pc) == observer' = pc
DeliverQueued == [c \in SafeCall |-> IF c \in Queued THEN "delivered" ELSE safeCall[c]]

RunVars == <<launcherVars, runner, launcherStarted, externallyAborted, completion, faults>>

(* A failed request cancels its session and ends with an error *)
ObserverFails == Observe("closed") /\ CancelSession(FALSE)

(* nextToolBatch once the turn has started; an empty batch announces completion *)
NextToolBatch ==
    IF ~Active THEN ObserverFails
    ELSE /\ IF state = "completed" THEN Observe("finish") /\ UNCHANGED safeCall
            ELSE IF Queued # {} THEN Observe("tools") /\ safeCall' = DeliverQueued
            ELSE Observe("waitTools") /\ UNCHANGED safeCall
         /\ UNCHANGED <<aborted, outcome, safeVars, waiter>>

Arm ==
    /\ observer = "arm" /\ channel # "none"
    /\ IF Active /\ state = "awaiting_start"
       THEN /\ Observe("waitStart")
            /\ waiter' = [waiter EXCEPT !["observer"] = "start"]
            /\ UNCHANGED <<aborted, outcome, safeVars, safeCall>>
       ELSE NextToolBatch
    /\ UNCHANGED RunVars

ObserverStarted ==
    /\ observer = "waitStart" /\ waiter["observer"] \in {"resolved", "rejected"}
    /\ NextToolBatch
    /\ UNCHANGED RunVars

BatchArrives ==
    /\ observer = "waitTools" /\ (Queued # {} \/ ~Active)
    /\ NextToolBatch
    /\ UNCHANGED RunVars

(* Codex returns the results of the round: completeTool for each, then arm again *)
ReturnResults ==
    /\ observer = "tools"
    /\ IF Active
       THEN /\ Observe("arm")
            /\ safeCall' = [c \in SafeCall |-> IF safeCall[c] = "delivered" THEN "answered" ELSE safeCall[c]]
            /\ UNCHANGED <<aborted, outcome, safeVars, waiter>>
       ELSE ObserverFails
    /\ UNCHANGED RunVars

Waiting == observer \in {"arm", "waitStart", "waitTools", "finish"}

(* finishBrowserOutcome: the outcome is known, the capability is revoked *)
FinishOutcome ==
    /\ Waiting /\ outcome # "none"
    /\ Observe("closed")
    /\ RevokeChannel(waiter)
    /\ UNCHANGED <<RunVars, aborted, outcome>>

(* A closed Responses stream retires a manual turn *)
ObserverDisconnects ==
    /\ Waiting /\ outcome = "none"
    /\ Observe("closed")
    /\ CancelSession(FALSE)
    /\ asked' = TRUE
    /\ UNCHANGED <<tab, terminal, confirmed, runner, launcherStarted, externallyAborted, completion, faults>>

(* Codex interrupts the turn, also between two rounds *)
Interrupt ==
    /\ outcome = "none"
    /\ CancelSession(TRUE)
    /\ asked' = TRUE
    /\ Observe(IF observer = "tools" THEN "closed" ELSE observer)
    /\ UNCHANGED <<tab, terminal, confirmed, runner, launcherStarted, externallyAborted, completion, faults>>

-----------------------------------------------------------------------------
ChatGPT == StartSafeTurn \/ (\E c \in SafeCall : Claim(c)) \/ (\E k \in Completion : RequestCompletion(k))
Handlers ==
    \/ \E c \in SafeCall : ResumeClaim(c) \/ Invoke(c) \/ EndActivity(c)
    \/ \E k \in Completion : ResumeCompletion(k)
GiveUp == (\E c \in SafeCall : Release(c)) \/ (\E r \in SafeCall \cup Completion : AbandonHeld(r))
User == ConfirmManualSent \/ UserClosesTab
Launcher == DeadlinePasses \/ RuntimeIsTold
RunManual ==
    \/ RegisterSafe \/ OpenTab \/ WaitSent \/ ConfirmSafeTurnSent \/ LosesRace \/ SafeStarted
    \/ MarkStarted \/ TakeAnswer \/ EndCompleted \/ EndFailed
Codex == Arm \/ ObserverStarted \/ BatchArrives \/ ReturnResults \/ FinishOutcome

(* Nothing is left to do: the turn is over and ChatGPT makes no more requests *)
NothingLeft ==
    /\ RunEnded /\ observer = "closed" /\ tab \notin Open \cup {"timed-out", "cancelled"}
    /\ UNCHANGED zeroRiskVars

ZeroRiskNext ==
    \/ ChatGPT \/ Handlers \/ GiveUp \/ User \/ Launcher \/ PageFails
    \/ RunManual \/ CapabilityRetired \/ Codex \/ ObserverDisconnects \/ Interrupt \/ NothingLeft

ZeroRiskSpec == ZeroRiskInit /\ [][ZeroRiskNext]_zeroRiskVars

(* The event loops of the daemon and the Launcher run; users, ChatGPT and
   faults are never obliged to do anything *)
NoFault == faults' = faults
RequestFairness ==
    /\ \A c \in SafeCall : WF_zeroRiskVars(ResumeClaim(c)) /\ WF_zeroRiskVars(Invoke(c) \/ EndActivity(c))
    /\ \A k \in Completion : WF_zeroRiskVars(ResumeCompletion(k))
    /\ WF_zeroRiskVars(DeadlinePasses) /\ WF_zeroRiskVars(RuntimeIsTold /\ NoFault)
    /\ WF_zeroRiskVars(CapabilityRetired) /\ WF_zeroRiskVars(Codex)

FairZeroRiskSpec == ZeroRiskSpec /\ RequestFairness /\ WF_zeroRiskVars(RunManual /\ NoFault)

-----------------------------------------------------------------------------
(* Safety *)

\* "Hold that call behind the local authorization boundary" (turn-broker.ts:1128):
\* no tool request of ChatGPT is let in before the user has pressed Sent.
NothingBeforeSent == ~confirmed => Activities = {} /\ finalAnswer = "none"

\* One final answer: every accepted completion carries it, and Codex gets it.
OneAnswer ==
    /\ \A k \in Completion : completion[k] = "accepted" => AnswerOf[k] = finalAnswer
    /\ outcome \in SafeAnswer => outcome = finalAnswer

\* An accepted answer is the end of the turn: no tool request is open then,
\* and none is let in afterwards.
QuietCompletion == Active /\ state = "completed" => Activities = {}

\* A promise waits only for something that can still happen, and a retired
\* turn holds neither a promise nor an invocation.
NoLostWaiter ==
    /\ \A w \in Waiter :
        /\ waiter[w] = "sent" => Active /\ MustWaitForSent
        /\ waiter[w] = "start" => Active /\ state = "awaiting_start"
        /\ waiter[w] = "completion" => Active /\ state = "running"
    /\ ~Active => Invocations = {}

\* "that self-induced abort must not turn an ordinary launcher/runtime failure
\* into a user cancellation" (index.ts:685).
NoFalseCancellation == terminal = "cancelled" => asked

\* When runManual has ended, its tab is retained, being closed or gone, unless a request to
\* the Launcher failed: tabs are a bounded resource.
TabIsReleased == RunEnded /\ faults = 0 => tab \in {"completed", "cancelled", "closed"}

\* The turn is sound: types, nothing before Sent, one answer at a quiet end, no promise
\* without a waker, no false cancellation and no tab that is left behind.
ManualInv ==
    /\ ZeroRiskTypeOK /\ NothingBeforeSent /\ OneAnswer /\ QuietCompletion /\ NoLostWaiter
    /\ NoFalseCancellation /\ TabIsReleased

\* "The broker result is already authoritative. A launcher acknowledgement
\* failure [...] must not replace a completed Codex answer with an error"
\* (index.ts:674): only a request to end the turn may.
AcceptedAnswerSurvives == finalAnswer # "none" /\ outcome = "error" => asked

-----------------------------------------------------------------------------
(* Liveness *)

\* A request held for Sent is answered: Sent, the deadline or an end comes.
HeldRequestsEnd == \A r \in SafeCall \cup Completion : Held(r) ~> ~Held(r)

\* A turn aborted from any side ends its run, and with it frees its owner; a tab
\* that failed ends the Codex turn, though no request reports it; and so does an
\* accepted completion, also when the Responses request is waiting for tools.
EveryEndIsSeen ==
    /\ aborted ~> RunEnded
    /\ terminal = "failed" ~> observer = "closed"
    /\ state = "completed" ~> observer = "closed"

\* Nobody waits for ever in a Zero Risk turn: no held request and no observer of an end.
ZeroRiskTurnEnds == HeldRequestsEnd /\ EveryEndIsSeen
=============================================================================
