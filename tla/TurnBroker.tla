----------------------------- MODULE TurnBroker -----------------------------
(***************************************************************************)
(* The turn broker (src/src/adapters/chatgpt-web/turn-broker.ts) as it     *)
(* treats turns of the native MCP contract: channels without the "safe"    *)
(* control block, which module ZeroRiskTurn models.                        *)
(*                                                                         *)
(* Every action is one synchronous run of the broker's event loop: a       *)
(* dispatched request, a call of the in-process owner, the batch timer, an *)
(* abort callback.  Requests may come in any order and from anybody; what  *)
(* the broker's real clients do is module NativeTurn.                      *)
(***************************************************************************)
EXTENDS Integers, FiniteSets, Sequences

CONSTANTS
    Token,                    \* turn tokens that can be issued
    Activity,                 \* activity ids the MCP server can generate
    Call,                     \* invoke requests
    Observer,                 \* pending nextToolBatch calls of the adapter
    Trace,                    \* Codex trace ids
    TraceOf,                  \* the trace a token is registered for
    External,                 \* tokens registered over the socket
    Bounded,                  \* tokens registered with a TTL
    MAX_RETIRED_TURN_HANDLES  \* handles a retired history keeps

ASSUME FiniteIds == IsFiniteSet(Token) /\ IsFiniteSet(Activity) /\ IsFiniteSet(Call)
ASSUME TokenKinds == TraceOf \in [Token -> Trace] /\ External \subseteq Token /\ Bounded \subseteq Token
ASSUME HistoryBound == MAX_RETIRED_TURN_HANDLES \in Nat \ {0}

NoRevision == -1   \* completionRevision is undefined

VARIABLES
    life,                     \* not issued, in the channels map, or retired
    expired,                  \* channels whose expiresAt has passed
    acceptingExternalOwners,
    bindings,                 \* turns whose binding is in the bindings map
    retiredTokens,
    retiredBindings,
    retirementWatch,          \* the owner's waitForRetirement call per turn
    activities,
    completedActivities,
    activityRevision,
    completionCommitted,
    completionRevision,
    invocations,
    queuedCallIds,
    deliveredCallIds,
    waiters,
    batchTimer,
    compactionRequested,
    compactionDeliveryCount,
    outcome                   \* how the promise of an invoke request stands

registryVars == <<life, expired, acceptingExternalOwners, bindings,
                  retiredTokens, retiredBindings, retirementWatch>>
fenceVars == <<activities, completedActivities, activityRevision,
               completionCommitted, completionRevision>>
toolVars == <<invocations, queuedCallIds, deliveredCallIds, waiters, batchTimer, outcome>>
compactionVars == <<compactionRequested, compactionDeliveryCount>>
vars == <<registryVars, fenceVars, toolVars, compactionVars>>

Live(t) == life[t] = "active"
LiveTokens == {t \in Token : Live(t)}
Settled == {"result", "control", "rejected"}

-----------------------------------------------------------------------------
(* Type invariant and initial state *)

TypeOK ==
    /\ life \in [Token -> {"unissued", "active", "retired"}]
    /\ expired \subseteq Token
    /\ acceptingExternalOwners \in BOOLEAN
    /\ bindings \subseteq Token
    /\ retiredTokens \in Seq(Token)
    /\ retiredBindings \in Seq(Token)
    /\ retirementWatch \in [Token -> {"none", "waiting", "retired", "failed"}]
    /\ activities \in [Token -> SUBSET Activity]
    /\ completedActivities \in [Token -> SUBSET Activity]
    /\ activityRevision \in [Token -> Nat]
    /\ completionCommitted \in [Token -> BOOLEAN]
    /\ completionRevision \in [Token -> Nat \cup {NoRevision}]
    /\ invocations \in [Token -> SUBSET Call]
    /\ queuedCallIds \in [Token -> SUBSET Call]
    /\ deliveredCallIds \in [Token -> SUBSET Call]
    /\ waiters \in [Token -> SUBSET Observer]
    /\ batchTimer \in [Token -> BOOLEAN]
    /\ compactionRequested \in [Token -> BOOLEAN]
    /\ compactionDeliveryCount \in [Token -> Nat]
    /\ outcome \in [Call -> {"unsent", "pending"} \cup Settled]

Init ==
    /\ life = [t \in Token |-> "unissued"]
    /\ expired = {}
    /\ acceptingExternalOwners = TRUE
    /\ bindings = {}
    /\ retiredTokens = <<>>
    /\ retiredBindings = <<>>
    /\ retirementWatch = [t \in Token |-> "none"]
    /\ activities = [t \in Token |-> {}]
    /\ completedActivities = [t \in Token |-> {}]
    /\ activityRevision = [t \in Token |-> 0]
    /\ completionCommitted = [t \in Token |-> FALSE]
    /\ completionRevision = [t \in Token |-> NoRevision]
    /\ invocations = [t \in Token |-> {}]
    /\ queuedCallIds = [t \in Token |-> {}]
    /\ deliveredCallIds = [t \in Token |-> {}]
    /\ waiters = [t \in Token |-> {}]
    /\ batchTimer = [t \in Token |-> FALSE]
    /\ compactionRequested = [t \in Token |-> FALSE]
    /\ compactionDeliveryCount = [t \in Token |-> 0]
    /\ outcome = [c \in Call |-> "unsent"]

-----------------------------------------------------------------------------
(* Retirement *)

\* Mutant: the trim takes the new end.
RememberedOldest(history, order) ==
    LET all == history \o order
    IN  IF Len(all) > MAX_RETIRED_TURN_HANDLES THEN SubSeq(all, 1, MAX_RETIRED_TURN_HANDLES) ELSE all

\* retire(): the history is a Map in insertion order, trimmed from its old end.
Remembered(history, order) ==
    LET all == history \o order
        excess == Len(all) - MAX_RETIRED_TURN_HANDLES
    IN  IF excess > 0 THEN SubSeq(all, excess + 1, Len(all)) ELSE all

\* The orders in which one synchronous loop can revoke the turns of S.
Orders(S) == {order \in [1..Cardinality(S) -> S] : \A t \in S : \E i \in DOMAIN order : order[i] = t}

\* revoke() for each turn of S: the channel and its binding go, the handles are
\* remembered, and every promise that hangs on the channel is settled.
RevokeAll(S, failure) ==
    /\ life' = [t \in Token |-> IF t \in S THEN "retired" ELSE life[t]]
    /\ expired' = expired \ S
    /\ bindings' = bindings \ S
    /\ \E order \in Orders(S) : retiredTokens' = Remembered(retiredTokens, order)
    /\ \E order \in Orders(S \cap bindings) : retiredBindings' = Remembered(retiredBindings, order)
    /\ retirementWatch' = [t \in Token |->
            IF t \in S /\ retirementWatch[t] = "waiting"
            THEN IF failure THEN "failed" ELSE "retired"
            ELSE retirementWatch[t]]
    /\ outcome' = [c \in Call |->
            IF \E t \in S : c \in invocations[t] THEN "rejected" ELSE outcome[c]]
    /\ invocations' = [t \in Token |-> IF t \in S THEN {} ELSE invocations[t]]
    /\ queuedCallIds' = [t \in Token |-> IF t \in S THEN {} ELSE queuedCallIds[t]]
    /\ deliveredCallIds' = [t \in Token |-> IF t \in S THEN {} ELSE deliveredCallIds[t]]
    /\ waiters' = [t \in Token |-> IF t \in S THEN {} ELSE waiters[t]]
    /\ batchTimer' = [t \in Token |-> batchTimer[t] /\ t \notin S]
    /\ UNCHANGED <<acceptingExternalOwners, fenceVars, compactionVars>>

\* owner_revoke and the in-process owner's revoke, which does not prune first.
Revoke(t) == Live(t) /\ RevokeAll({t}, FALSE)

\* revokeTrace: DELETE of a native turn cancels every channel of its trace.
RevokeTrace(x) ==
    LET owned == {t \in LiveTokens : TraceOf[t] = x}
    IN  owned # {} /\ RevokeAll(owned, FALSE)

\* revokeExternalOwners: the runtime shuts its remote owners out.
RevokeExternalOwners ==
    /\ LiveTokens \cap External # {}
    /\ RevokeAll(LiveTokens \cap External, FALSE)

\* close() revokes every channel.
Close == LiveTokens # {} /\ RevokeAll(LiveTokens, FALSE)

\* A TTL runs out.  Nothing happens until a handler calls prune().
Expire(t) ==
    /\ Live(t) /\ t \in Bounded /\ t \notin expired
    /\ expired' = expired \cup {t}
    /\ UNCHANGED <<life, acceptingExternalOwners, bindings, retiredTokens, retiredBindings,
                   retirementWatch, fenceVars, toolVars, compactionVars>>

\* prune(), with which every dispatched request and every owner call below
\* starts.  Those actions are enabled only once it has left nothing expired;
\* alone, this step is the owner_status request.
Prune == expired # {} /\ RevokeAll(expired, FALSE)
Pruned == expired = {}

-----------------------------------------------------------------------------
(* Registration *)

\* register(): a fresh token; remote owners are refused while the runtime drains.
Register(t) ==
    /\ Pruned
    /\ life[t] = "unissued"
    /\ t \in External => acceptingExternalOwners
    /\ life' = [life EXCEPT ![t] = "active"]
    /\ UNCHANGED <<expired, acceptingExternalOwners, bindings, retiredTokens, retiredBindings,
                   retirementWatch, fenceVars, toolVars, compactionVars>>

SetExternalOwnersAccepted(accepted) ==
    /\ acceptingExternalOwners # accepted
    /\ acceptingExternalOwners' = accepted
    /\ UNCHANGED <<life, expired, bindings, retiredTokens, retiredBindings, retirementWatch,
                   fenceVars, toolVars, compactionVars>>

\* waitForRetirement(): a turn that is already gone resolves at once, without
\* the failure it may have been retired with.
WatchAnswer(t) == IF Live(t) THEN "waiting" ELSE "retired"

WaitForRetirement(t) ==
    /\ Pruned
    /\ life[t] # "unissued" /\ retirementWatch[t] = "none"
    /\ retirementWatch' = [retirementWatch EXCEPT ![t] = WatchAnswer(t)]
    /\ UNCHANGED <<life, expired, acceptingExternalOwners, bindings, retiredTokens,
                   retiredBindings, fenceVars, toolVars, compactionVars>>

-----------------------------------------------------------------------------
(* MCP requests: claim, activity_complete, invoke, release *)

\* Mutant: the revision counts open requests.
OpenRequests(revision) == revision - 1

\* Start and end of an activity both move the revision.
AfterActivity(revision) == revision + 1

\* The branches of the claim handler that throw change nothing.
ClaimAccepted(t, a) ==
    Live(t) /\ ~completionCommitted[t] /\ a \notin completedActivities[t]

Claim(t, a) ==
    /\ Pruned
    /\ ClaimAccepted(t, a)
    /\ activities' = [activities EXCEPT ![t] = @ \cup {a}]
    /\ activityRevision' = [activityRevision EXCEPT ![t] = IF a \in activities[t] THEN @ ELSE AfterActivity(@)]
    /\ bindings' = bindings \cup {t}
    /\ UNCHANGED <<life, expired, acceptingExternalOwners, retiredTokens, retiredBindings,
                   retirementWatch, completedActivities, completionCommitted, completionRevision,
                   toolVars, compactionVars>>

\* activity_complete: of a live turn and not a duplicate.  It need not follow
\* the claim it retires.
ActivityComplete(t, a) ==
    /\ Pruned
    /\ Live(t) /\ a \notin completedActivities[t]
    /\ activities' = [activities EXCEPT ![t] = @ \ {a}]
    /\ completedActivities' = [completedActivities EXCEPT ![t] = @ \cup {a}]
    /\ activityRevision' = [activityRevision EXCEPT ![t] = AfterActivity(@)]
    /\ UNCHANGED <<registryVars, completionCommitted, completionRevision, toolVars, compactionVars>>

\* Mutant: invoke does not schedule the waiters.
TimerAsIs(t, queued, waiting) == batchTimer[t]

\* scheduleToolWaiters(), with the queue and the waiters it will see.
TimerAfter(t, queued, waiting) ==
    batchTimer[t] \/ (queued # {} /\ waiting # {})

QueuesCalls(t) == ~compactionRequested[t]

\* invoke: refused without a binding; answered with the control result once
\* compaction was requested; queued for the adapter otherwise.
Divert(t, c) ==
    /\ compactionRequested[t]
    /\ compactionDeliveryCount' = [compactionDeliveryCount EXCEPT ![t] = @ + 1]
    /\ outcome' = [outcome EXCEPT ![c] = "control"]
    /\ UNCHANGED <<invocations, queuedCallIds, batchTimer>>

Enqueue(t, c) ==
    /\ QueuesCalls(t)
    /\ invocations' = [invocations EXCEPT ![t] = @ \cup {c}]
    /\ queuedCallIds' = [queuedCallIds EXCEPT ![t] = @ \cup {c}]
    /\ batchTimer' = [batchTimer EXCEPT ![t] = TimerAfter(t, queuedCallIds[t] \cup {c}, waiters[t])]
    /\ outcome' = [outcome EXCEPT ![c] = "pending"]
    /\ UNCHANGED compactionDeliveryCount

Invoke(t, c) ==
    /\ Pruned
    /\ t \in bindings /\ outcome[c] = "unsent"
    /\ Divert(t, c) \/ Enqueue(t, c)
    /\ UNCHANGED <<registryVars, fenceVars, deliveredCallIds, waiters, compactionRequested>>

\* release: the client gave the invocation up, and with it the whole turn.
\* Releasing a remembered binding again is accepted and changes nothing.
Release(t, failure) == Pruned /\ t \in bindings /\ RevokeAll({t}, failure)

-----------------------------------------------------------------------------
(* The adapter: nextToolBatch and completeTool *)

MayAskForTools(t) == Pruned /\ Live(t) /\ ~compactionRequested[t]

\* Mutant: the batch stays in the queue.
TakeCopy(t) ==
    /\ deliveredCallIds' = [deliveredCallIds EXCEPT ![t] = @ \cup queuedCallIds[t]]
    /\ UNCHANGED queuedCallIds

\* takeQueued(): the whole queue moves to the delivered set.
TakeQueued(t) ==
    /\ queuedCallIds' = [queuedCallIds EXCEPT ![t] = {}]
    /\ deliveredCallIds' = [deliveredCallIds EXCEPT ![t] = @ \cup queuedCallIds[t]]

\* Mutant: a delivered call is never handed over again.
NoReplay(t) == FALSE

\* Calls handed over before and not yet answered are handed over again, alone.
CanReplay(t) == MayAskForTools(t) /\ deliveredCallIds[t] # {}

NextImmediate(t) ==
    /\ MayAskForTools(t) /\ deliveredCallIds[t] = {} /\ queuedCallIds[t] # {}
    /\ TakeQueued(t)
    /\ UNCHANGED <<registryVars, fenceVars, invocations, waiters, batchTimer, outcome, compactionVars>>

NextWait(t, o) ==
    /\ MayAskForTools(t) /\ deliveredCallIds[t] = {} /\ queuedCallIds[t] = {}
    /\ \A u \in Token : o \notin waiters[u]
    /\ waiters' = [waiters EXCEPT ![t] = @ \cup {o}]
    /\ UNCHANGED <<registryVars, fenceVars, invocations, queuedCallIds, deliveredCallIds,
                   batchTimer, outcome, compactionVars>>

\* The observer's abort signal, or the close of a remote observer's socket.
AbortWaiter(t, o) ==
    /\ o \in waiters[t]
    /\ waiters' = [waiters EXCEPT ![t] = @ \ {o}]
    /\ UNCHANGED <<registryVars, fenceVars, invocations, queuedCallIds, deliveredCallIds,
                   batchTimer, outcome, compactionVars>>

\* The timer callback wakeToolWaiters(): one waiter gets the batch, the others
\* are rejected.
BatchTimer(t) ==
    /\ batchTimer[t]
    /\ batchTimer' = [batchTimer EXCEPT ![t] = FALSE]
    /\ \/ /\ queuedCallIds[t] = {} \/ waiters[t] = {}
          /\ UNCHANGED <<queuedCallIds, deliveredCallIds, waiters>>
       \/ /\ queuedCallIds[t] # {} /\ waiters[t] # {}
          /\ TakeQueued(t)
          /\ waiters' = [waiters EXCEPT ![t] = {}]
    /\ UNCHANGED <<registryVars, fenceVars, invocations, outcome, compactionVars>>

\* Mutant: any pending invocation can be completed.
PendingCall(t, c) == c \in invocations[t]

DeliveredCall(t, c) == c \in invocations[t] /\ c \in deliveredCallIds[t]

CompleteTool(t, c) ==
    /\ Pruned
    /\ Live(t) /\ DeliveredCall(t, c)
    /\ deliveredCallIds' = [deliveredCallIds EXCEPT ![t] = @ \ {c}]
    /\ invocations' = [invocations EXCEPT ![t] = @ \ {c}]
    /\ outcome' = [outcome EXCEPT ![c] = "result"]
    /\ UNCHANGED <<registryVars, fenceVars, queuedCallIds, waiters, batchTimer, compactionVars>>

\* requestCompaction(): queued calls are answered with the control result;
\* delivered ones stay with Codex.
RequestCompaction(t) ==
    /\ Pruned
    /\ Live(t) /\ ~compactionRequested[t]
    /\ compactionRequested' = [compactionRequested EXCEPT ![t] = TRUE]
    /\ batchTimer' = [batchTimer EXCEPT ![t] = FALSE]
    /\ queuedCallIds' = [queuedCallIds EXCEPT ![t] = {}]
    /\ invocations' = [invocations EXCEPT ![t] = @ \ queuedCallIds[t]]
    /\ outcome' = [c \in Call |-> IF c \in queuedCallIds[t] THEN "control" ELSE outcome[c]]
    /\ compactionDeliveryCount' = [compactionDeliveryCount EXCEPT ![t] = @ + Cardinality(queuedCallIds[t])]
    /\ UNCHANGED <<registryVars, fenceVars, deliveredCallIds, waiters>>

-----------------------------------------------------------------------------
(* The completion fence of the browser worker *)

\* beginCompletionFence(): reads only.
FenceRevision(t) ==
    IF completionCommitted[t] THEN completionRevision[t]
    ELSE IF activities[t] = {} /\ invocations[t] = {} THEN activityRevision[t]
    ELSE NoRevision

CanCommit(t, revision) ==
    activityRevision[t] = revision /\ activities[t] = {} /\ invocations[t] = {}

\* The revisions a worker can hold: each activity id moves the revision twice at most.
Revisions == 0..(2 * Cardinality(Activity))

\* commitCompletionFence() when it is the commit that decides.
CommitCompletionFence(t, revision) ==
    /\ Pruned
    /\ Live(t) /\ ~completionCommitted[t] /\ CanCommit(t, revision)
    /\ completionCommitted' = [completionCommitted EXCEPT ![t] = TRUE]
    /\ completionRevision' = [completionRevision EXCEPT ![t] = revision]
    /\ UNCHANGED <<registryVars, activities, completedActivities, activityRevision,
                   toolVars, compactionVars>>

-----------------------------------------------------------------------------
RegistryNext ==
    \/ \E t \in Token : Register(t) \/ WaitForRetirement(t) \/ Revoke(t) \/ Expire(t)
    \/ \E x \in Trace : RevokeTrace(x)
    \/ \E accepted \in BOOLEAN : SetExternalOwnersAccepted(accepted)
    \/ RevokeExternalOwners \/ Close \/ Prune

McpNext ==
    \E t \in Token :
        \/ \E a \in Activity : Claim(t, a) \/ ActivityComplete(t, a)
        \/ \E c \in Call : Invoke(t, c)
        \/ \E failure \in BOOLEAN : Release(t, failure)

OwnerNext ==
    \E t \in Token :
        \/ NextImmediate(t) \/ BatchTimer(t) \/ RequestCompaction(t)
        \/ \E o \in Observer : NextWait(t, o) \/ AbortWaiter(t, o)
        \/ \E c \in Call : CompleteTool(t, c)
        \/ \E revision \in Revisions : CommitCompletionFence(t, revision)

Next == RegistryNext \/ McpNext \/ OwnerNext

Spec == Init /\ [][Next]_vars

-----------------------------------------------------------------------------
(* Safety *)

\* Every unanswered invocation is either queued or in the adapter's hands,
\* never both and never in two turns; an invoke request that waits for its
\* answer is on the books of some turn, so somebody can still answer it.
InvocationBooks ==
    /\ \A t \in Token :
        /\ queuedCallIds[t] \cap deliveredCallIds[t] = {}
        /\ invocations[t] = queuedCallIds[t] \cup deliveredCallIds[t]
    /\ \A t, u \in Token : t # u => invocations[t] \cap invocations[u] = {}
    /\ \A c \in Call : outcome[c] = "pending" <=> \E t \in Token : c \in invocations[t]

\* A queued call and a waiting adapter meet: the batch timer is armed whenever
\* both are there (scheduleToolWaiters is called by invoke alone).
NoLostWakeup ==
    \A t \in Token : queuedCallIds[t] # {} /\ waiters[t] # {} => batchTimer[t]

\* Once the browser's completion is committed no MCP request owns a lease of
\* the turn, and one that was retired never owns it again.
CommittedTurnIsQuiet ==
    \A t \in Token :
        /\ completionCommitted[t] => activities[t] = {}
        /\ activities[t] \cap completedActivities[t] = {}

\* A retired turn leaves nobody hanging: no binding to call through, no
\* pending invocation, no waiter, no timer, no owner still watching it.
RetiredTurnHoldsNothing ==
    \A t \in Token : ~Live(t) =>
        /\ t \notin bindings /\ invocations[t] = {} /\ waiters[t] = {}
        /\ ~batchTimer[t] /\ retirementWatch[t] # "waiting"

\* After a compaction request the adapter is offered nothing more, while calls
\* already with Codex are still owed an answer.
CompactionStopsDelivery ==
    \A t \in Token : compactionRequested[t] => queuedCallIds[t] = {} /\ ~batchTimer[t]

\* "Monotonic across activity start/end so a completed request cannot disappear
\* across a fence" (turn-broker.ts:118): whatever changes a turn's activities
\* moves its revision up, and nothing moves it back.
ActivityMovesRevision ==
    [][\A t \in Token :
        /\ activityRevision'[t] >= activityRevision[t]
        /\ activities'[t] # activities[t] => activityRevision'[t] > activityRevision[t]]_vars

\* A committed completion is never withdrawn or renumbered, and from then on
\* the worker that asks again is given the committed revision.
CommitIsFinal ==
    [][\A t \in Token : completionCommitted[t] =>
        /\ completionCommitted'[t] /\ completionRevision'[t] = completionRevision[t]
        /\ FenceRevision(t)' = completionRevision[t]]_vars

\* A caller that presents a handle retired a moment ago is told that its turn
\* has finished, not that the handle never existed (a loop that retires more
\* turns than the history holds loses some; the tab limit keeps that out of reach).
RetiringNow == {t \in Token : Live(t) /\ ~Live(t)'}
RetiredHandleIsRemembered ==
    [][Cardinality(RetiringNow) <= MAX_RETIRED_TURN_HANDLES =>
        \A t \in RetiringNow :
            /\ \E i \in DOMAIN retiredTokens' : retiredTokens'[i] = t
            /\ t \in bindings => \E i \in DOMAIN retiredBindings' : retiredBindings'[i] = t]_vars

\* Nobody waits for what will never come: neither an adapter beside a queued call, nor
\* anybody at a turn that is over.
NobodyHangs == NoLostWakeup /\ RetiredTurnHoldsNothing

\* What the broker promises about each invoke request (module ToolDelivery).
CallStatus ==
    [c \in Call |-> IF outcome[c] # "pending" THEN outcome[c]
                    ELSE IF \E t \in Token : c \in deliveredCallIds[t] THEN "offered"
                    ELSE "queued"]
Delivery == INSTANCE ToolDelivery WITH status <- CallStatus
DeliversEachCallOnce == Delivery!Spec
=============================================================================
