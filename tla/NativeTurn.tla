----------------------------- MODULE NativeTurn -----------------------------
(***************************************************************************)
(* One automatic turn with Codex tools, end to end: the turn broker        *)
(* (TurnBroker) composed with its three clients,                           *)
(*   - the MCP server, one request handler per tool call of ChatGPT        *)
(*     (mcp-server.ts: claimTurn, invoke, settleTurnActivity),             *)
(*   - the adapter that hands tool batches to Codex and returns results    *)
(*     (index.ts: runTurn; compaction-handoff.ts),                         *)
(*   - the browser worker that decides from the page that ChatGPT has      *)
(*     finished (browser-worker.ts, the completion fence).                 *)
(*                                                                         *)
(* The MCP server is another process: each of its requests travels on a    *)
(* connection of its own, so requests may overtake each other and a        *)
(* request its client has given up may still arrive.                       *)
(***************************************************************************)
EXTENDS TurnBroker

CONSTANTS
    turn,                 \* the token of the turn
    observer,             \* the adapter's nextToolBatch call
    COMPACTS,             \* whether Codex may ask for compaction
    MAX_OBSERVER_LOSSES   \* bound on lost HTTP observers

ASSUME OneTurn == turn \in Token /\ observer \in Observer
\* A tool call makes one claim and at most one invoke request.
ASSUME OneInvokePerRequest == Call = Activity
ASSUME LossBound == COMPACTS \in BOOLEAN /\ MAX_OBSERVER_LOSSES \in Nat

VARIABLES
    phase,       \* each MCP request handler
    attempts,    \* activity_complete attempts it has given up
    net,         \* requests of the MCP server the broker has not read yet
    adapter,
    batch,       \* calls the adapter has been handed
    losses,
    worker,
    fence,       \* revision of the completion candidate
    seen         \* activityRevision when the page was last read (history)

mcpVars == <<phase, attempts, net>>
adapterVars == <<adapter, batch, losses>>
workerVars == <<worker, fence, seen>>
turnVars == <<vars, mcpVars, adapterVars, workerVars>>

MAX_SETTLE_ATTEMPTS == 2

Request(kind, a) == [kind |-> kind, of |-> a]
Requests == [kind : {"claim", "invoke", "release", "timeout", "complete"}, of : Activity]

TurnTypeOK ==
    /\ TypeOK
    /\ phase \in [Activity -> {"idle", "claiming", "claimed", "invoking", "releasing",
                               "settling", "done"}]
    /\ attempts \in [Activity -> 0..MAX_SETTLE_ATTEMPTS]
    /\ net \subseteq Requests
    /\ adapter \in {"idle", "waiting", "handed", "executing", "compacting", "gone"}
    /\ batch \subseteq Call
    /\ losses \in 0..MAX_OBSERVER_LOSSES
    /\ worker \in {"reading", "rereading", "candidate", "completed", "cancelled"}
    /\ fence \in Revisions \cup {NoRevision}
    /\ seen \in Revisions \cup {NoRevision}

TurnInit ==
    /\ Init
    /\ phase = [a \in Activity |-> "idle"]
    /\ attempts = [a \in Activity |-> 0]
    /\ net = {}
    /\ adapter = "idle" /\ batch = {} /\ losses = 0
    /\ worker = "reading" /\ fence = NoRevision /\ seen = NoRevision

-----------------------------------------------------------------------------
(* The MCP server *)

Enters(a, next) == phase' = [phase EXCEPT ![a] = next]

\* The handler a moves on, from a step it was in, and sends a request.
Sends(a, from, next, request) ==
    /\ phase[a] = from
    /\ Enters(a, next)
    /\ net' = net \cup {request}
    /\ UNCHANGED <<vars, attempts, adapterVars, workerVars>>

StartCall(a) == life[turn] # "unissued" /\ Sends(a, "idle", "claiming", Request("claim", a))

InvokeTool(a) == Sends(a, "claimed", "invoking", Request("invoke", a))

\* A local inventory lookup, or a call refused before it is invoked.
FinishLocally(a) == Sends(a, "claimed", "settling", Request("complete", a))

\* The claim's deadline passes, or ChatGPT cancels the request: the lease the
\* broker may have granted is retired all the same.
GiveUpClaim(a) == Sends(a, "claiming", "settling", Request("complete", a))

\* The invocation's deadline passes or ChatGPT cancels it: nobody is left to
\* take the result, so the whole turn is released.
\* (The mutant only retires its own lease.)
SettleInvoke(a) == Sends(a, "invoking", "settling", Request("complete", a))
GiveUpInvoke(a) ==
    \E kind \in {"release", "timeout"} : Sends(a, "invoking", "releasing", Request(kind, a))

\* The broker's answer to invoke arrives: a result, or an error.
ReceiveAnswer(a) ==
    \/ outcome[a] \in {"result", "control"} /\ Sends(a, "invoking", "settling", Request("complete", a))
    \/ outcome[a] = "rejected" /\ Sends(a, "invoking", "releasing", Request("release", a))

MayRetry(a) == attempts[a] + 1 < MAX_SETTLE_ATTEMPTS

\* settleTurnActivity() retries once; then the handler fails.
RetrySettle(a) ==
    /\ phase[a] = "settling"
    /\ attempts' = [attempts EXCEPT ![a] = @ + 1]
    /\ IF MayRetry(a)
       THEN net' = net \cup {Request("complete", a)} /\ UNCHANGED phase
       ELSE Enters(a, "done") /\ UNCHANGED net
    /\ UNCHANGED <<vars, adapterVars, workerVars>>

-----------------------------------------------------------------------------
(* The broker reads a request of the MCP server and answers it *)

Reads(kind, a) ==
    /\ Request(kind, a) \in net
    /\ net' = net \ {Request(kind, a)}
    /\ UNCHANGED <<attempts, adapterVars, workerVars>>

\* The answer reaches a handler that still waits for it in the given phase.
Answers(a, waiting, next) ==
    phase' = IF phase[a] = waiting THEN [phase EXCEPT ![a] = next] ELSE phase

\* A refused handler that still waits sends its clean-up request.
CleanUp(a, waiting, kind) == IF phase[a] = waiting THEN {Request(kind, a)} ELSE {}

DispatchClaim(a) ==
    /\ Reads("claim", a)
    /\ Claim(turn, a)
    /\ Answers(a, "claiming", "claimed")

\* The handler of a refused claim cleans up at once.
RefuseClaim(a) ==
    /\ Pruned /\ ~ClaimAccepted(turn, a)
    /\ Request("claim", a) \in net
    /\ net' = (net \ {Request("claim", a)}) \cup CleanUp(a, "claiming", "complete")
    /\ Answers(a, "claiming", "settling")
    /\ UNCHANGED <<vars, attempts, adapterVars, workerVars>>

DispatchInvoke(a) ==
    /\ Reads("invoke", a)
    /\ Invoke(turn, a)
    /\ UNCHANGED phase

\* No binding: the handler of a refused invocation releases the turn.
RefuseInvoke(a) ==
    /\ Pruned /\ turn \notin bindings
    /\ Request("invoke", a) \in net
    /\ net' = (net \ {Request("invoke", a)}) \cup CleanUp(a, "invoking", "release")
    /\ Answers(a, "invoking", "releasing")
    /\ UNCHANGED <<vars, attempts, adapterVars, workerVars>>

\* release answers, or fails on a forgotten binding; the handler then settles.
DispatchRelease(a) ==
    \E kind \in {"release", "timeout"} :
        /\ Request(kind, a) \in net
        /\ net' = (net \ {Request(kind, a)}) \cup {Request("complete", a)}
        /\ \/ Release(turn, kind = "timeout")
           \/ Pruned /\ turn \notin bindings /\ UNCHANGED vars
        /\ Answers(a, "releasing", "settling")
        /\ UNCHANGED <<attempts, adapterVars, workerVars>>

DispatchComplete(a) ==
    /\ Reads("complete", a)
    /\ \/ ActivityComplete(turn, a)
       \/ Pruned /\ (~Live(turn) \/ a \in completedActivities[turn]) /\ UNCHANGED vars
    /\ Answers(a, "settling", "done")

-----------------------------------------------------------------------------
(* The adapter *)

OpenTurn ==
    /\ Register(turn)
    /\ UNCHANGED <<mcpVars, adapterVars, workerVars>>

WatchTurn ==
    /\ WaitForRetirement(turn)
    /\ UNCHANGED <<mcpVars, adapterVars, workerVars>>

\* nextToolBatch() of an observer: replay, immediate batch, or wait.
AskForTools ==
    /\ adapter = "idle"
    /\ \/ CanReplay(turn) /\ UNCHANGED vars /\ adapter' = "handed" /\ batch' = deliveredCallIds[turn]
       \/ NextImmediate(turn) /\ adapter' = "handed" /\ batch' = queuedCallIds[turn]
       \/ NextWait(turn, observer) /\ adapter' = "waiting" /\ batch' = {}
    /\ UNCHANGED <<losses, mcpVars, workerVars>>

TimerFires ==
    /\ BatchTimer(turn)
    /\ IF observer \in waiters[turn] /\ queuedCallIds[turn] # {}
       THEN adapter' = "handed" /\ batch' = queuedCallIds[turn]
       ELSE UNCHANGED <<adapter, batch>>
    /\ UNCHANGED <<losses, mcpVars, workerVars>>

\* The batch is journaled and emitted; Codex runs the calls.
Journal ==
    /\ adapter = "handed"
    /\ adapter' = "executing"
    /\ UNCHANGED <<vars, batch, losses, mcpVars, workerVars>>

\* The HTTP observer disconnects while it waits, or with a batch in its hands
\* that is not journaled yet.
LoseObserver ==
    /\ losses < MAX_OBSERVER_LOSSES
    /\ \/ adapter = "waiting" /\ AbortWaiter(turn, observer)
       \/ adapter = "handed" /\ UNCHANGED vars
    /\ adapter' = "idle" /\ batch' = {} /\ losses' = losses + 1
    /\ UNCHANGED <<mcpVars, workerVars>>

\* Codex comes back with the results, which complete the calls one by one.
ReturnResult(c) ==
    /\ adapter \in {"executing", "compacting"} /\ c \in batch
    /\ CompleteTool(turn, c)
    /\ batch' = batch \ {c}
    /\ adapter' = IF adapter = "executing" /\ batch' = {} THEN "idle" ELSE adapter
    /\ UNCHANGED <<losses, mcpVars, workerVars>>

\* Codex asks for compaction, with the results of the batch it was running.
StartCompaction ==
    /\ COMPACTS /\ adapter \in {"idle", "executing"}
    /\ RequestCompaction(turn)
    /\ adapter' = "compacting"
    /\ UNCHANGED <<batch, losses, mcpVars, workerVars>>

\* The browser's outcome is final; or the turn is gone and the owner notices.
CloseTurn ==
    /\ worker \in {"completed", "cancelled"} \/ life[turn] = "retired"
    /\ adapter # "gone" /\ life[turn] # "unissued"
    /\ \/ Revoke(turn)
       \/ life[turn] = "retired" /\ UNCHANGED vars
    /\ adapter' = "gone" /\ batch' = {}
    /\ UNCHANGED <<losses, mcpVars, workerVars>>

\* Codex cancels the native turn.
CancelTurn ==
    /\ Revoke(turn)
    /\ adapter' = "gone" /\ batch' = {}
    /\ UNCHANGED <<losses, mcpVars, workerVars>>

-----------------------------------------------------------------------------
(* The browser worker *)

\* One pass over the page that does not look complete: the candidate is void.
ReadUnfinishedPage ==
    /\ worker \in {"reading", "rereading", "candidate"} /\ life[turn] # "unissued"
    /\ worker' = "reading" /\ fence' = NoRevision
    /\ seen' = activityRevision[turn]
    /\ UNCHANGED <<vars, mcpVars, adapterVars>>

\* The page looks complete: begin() asks for a revision, and the cached page is
\* dropped so that the next pass reads it afresh.
BeginFence ==
    /\ worker = "reading" /\ Pruned /\ Live(turn)
    /\ FenceRevision(turn) # NoRevision
    /\ fence' = FenceRevision(turn)
    /\ worker' = "rereading"
    /\ UNCHANGED <<vars, seen, mcpVars, adapterVars>>

\* The fresh page still looks complete.
RereadPage ==
    /\ worker = "rereading"
    /\ worker' = "candidate" /\ seen' = activityRevision[turn]
    /\ UNCHANGED <<vars, fence, mcpVars, adapterVars>>

CommitFence ==
    /\ worker = "candidate"
    /\ CommitCompletionFence(turn, fence)
    /\ worker' = "completed"
    /\ UNCHANGED <<fence, seen, mcpVars, adapterVars>>

\* A refused commit starts over from a fresh page.
RefuseCommit ==
    /\ worker = "candidate" /\ Pruned /\ Live(turn)
    /\ ~CanCommit(turn, fence)
    /\ worker' = "reading" /\ fence' = NoRevision
    /\ UNCHANGED <<vars, seen, mcpVars, adapterVars>>

\* The broker tells the owner that the turn was retired under the worker.
CancelBrowser ==
    /\ worker \notin {"completed", "cancelled"}
    /\ retirementWatch[turn] \in {"retired", "failed"}
    /\ worker' = "cancelled"
    /\ UNCHANGED <<vars, fence, seen, mcpVars, adapterVars>>

-----------------------------------------------------------------------------
McpStep(a) ==
    \/ InvokeTool(a) \/ FinishLocally(a) \/ ReceiveAnswer(a) \/ RetrySettle(a)
    \/ GiveUpClaim(a) \/ GiveUpInvoke(a) \/ StartCall(a)

DispatchStep(a) ==
    \/ DispatchClaim(a) \/ RefuseClaim(a) \/ DispatchInvoke(a) \/ RefuseInvoke(a)
    \/ DispatchRelease(a) \/ DispatchComplete(a)

AdapterStep ==
    \/ OpenTurn \/ WatchTurn \/ AskForTools \/ TimerFires \/ Journal \/ LoseObserver
    \/ StartCompaction \/ CloseTurn \/ CancelTurn
    \/ \E c \in Call : ReturnResult(c)

WorkerStep ==
    \/ ReadUnfinishedPage \/ BeginFence \/ RereadPage \/ CommitFence \/ RefuseCommit
    \/ CancelBrowser

Expiry == Expire(turn) /\ UNCHANGED <<mcpVars, adapterVars, workerVars>>
Pruning == Prune /\ UNCHANGED <<mcpVars, adapterVars, workerVars>>

TurnNext ==
    \/ \E a \in Activity : McpStep(a) \/ DispatchStep(a)
    \/ AdapterStep \/ WorkerStep \/ Expiry \/ Pruning

TurnSpec == TurnInit /\ [][TurnNext]_turnVars

-----------------------------------------------------------------------------
(* Fairness: the event loops of the three processes run; Codex returns the   *)
(* results of the calls it was handed; ChatGPT's page is finished in the end  *)
(* (strong fairness, since an unfinished page voids a candidate).             *)

McpFairness ==
    \A a \in Activity :
        /\ WF_turnVars(DispatchStep(a))
        /\ WF_turnVars(InvokeTool(a) \/ FinishLocally(a) \/ ReceiveAnswer(a))

AdapterFairness ==
    /\ WF_turnVars(WatchTurn) /\ WF_turnVars(AskForTools) /\ WF_turnVars(TimerFires)
    /\ WF_turnVars(Journal) /\ WF_turnVars(CloseTurn)
    /\ \A c \in Call : WF_turnVars(ReturnResult(c))

WorkerFairness ==
    /\ SF_turnVars(BeginFence) /\ SF_turnVars(RereadPage)
    /\ SF_turnVars(CommitFence) /\ SF_turnVars(RefuseCommit)
    /\ WF_turnVars(CancelBrowser)

TurnFairness ==
    McpFairness /\ AdapterFairness /\ WF_turnVars(Pruning) /\ WorkerFairness

FairTurnSpec == TurnSpec /\ TurnFairness

-----------------------------------------------------------------------------
(* Safety *)

\* Once the browser's answer is final, no tool call of the turn runs any more
\* and none starts: no handler holds the turn's lease, nothing is pending at
\* the broker, nothing is with Codex.
NoToolAfterCompletion ==
    completionCommitted[turn] =>
        /\ \A a \in Activity : phase[a] \notin {"claimed", "invoking", "releasing"}
        /\ invocations[turn] = {} /\ batch = {}

\* "an MCP activity that just settled cannot disappear between a stale cached
\* completion and the broker's terminal decision" (browser-worker.ts:5662): the
\* page the answer is taken from was read after the last tool activity.
FinalPageIsFresh ==
    [][worker' = "completed" => worker = "completed" \/ seen = activityRevision[turn]]_turnVars

\* "Revoke the whole turn capability so the broker drops the pending invocation"
\* (mcp-server.ts:606): no invocation waits at the broker, or is given to
\* Codex, on behalf of a request handler that has gone.
NoOrphanInvocation ==
    \A a \in Activity : outcome[a] = "pending" => phase[a] \in {"invoking", "releasing"}

\* The batch an adapter reports on is what the broker counts as delivered, so
\* that no result is refused and none is reported twice.
BatchIsDelivered ==
    Live(turn) => batch \subseteq deliveredCallIds[turn]

\* The books of the turn: every variable has its type, no invocation outlives its
\* handler, broker and adapter agree on what is with Codex, and no tool outlives the
\* final answer.
NativeInv == TurnTypeOK /\ NoOrphanInvocation /\ BatchIsDelivered /\ NoToolAfterCompletion

-----------------------------------------------------------------------------
(* Liveness *)

\* A batch that was handed out and lost with its observer before a compaction
\* began: the adapter does not know its calls, and the broker offers them to
\* nobody any more.  What follows is not promised for such a turn.
BatchIsForgotten == compactionRequested[turn] /\ ~(deliveredCallIds[turn] \subseteq batch)

\* Every invocation is answered: by Codex, by compaction, or by the turn's end,
\* also when the observer that took the batch was lost before it was journaled.
EveryCallAnswered ==
    \A c \in Call : outcome[c] = "pending" ~> outcome[c] \in Settled \/ BatchIsForgotten

\* Every MCP request handler ends, whatever the broker answers.
HandlersEnd ==
    \A a \in Activity : phase[a] = "claiming" ~> phase[a] = "done" \/ BatchIsForgotten

\* A turn comes to its end, whatever ends it, and its browser with it: tool
\* traffic cannot keep the completion fence closed for ever, and a turn that is
\* retired under the browser stops the browser.
TurnEnds ==
    life[turn] = "active" ~>
        \/ life[turn] = "retired" /\ worker \in {"completed", "cancelled"}
        \/ BatchIsForgotten

\* Browser, broker, adapter and MCP server bring a turn to its end together: the final
\* page is fresh, and every invocation, every handler and the turn itself end.
NativeTurnEnds == FinalPageIsFresh /\ EveryCallAnswered /\ HandlersEnd /\ TurnEnds
=============================================================================
