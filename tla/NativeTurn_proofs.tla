------------------------- MODULE NativeTurn_proofs -------------------------
(***************************************************************************)
(* Proofs about NativeTurn for any number of concurrent tool calls of one  *)
(* turn: the composition is a broker (its steps are steps of TurnBroker,   *)
(* so that everything proved there holds here), and the books of broker,   *)
(* MCP server, adapter and browser worker agree.  Then RollingCheckpoint,  *)
(* the memory of a task over its turns: for any answers, pages and bounds. *)
(***************************************************************************)
EXTENDS NativeTurn, RollingCheckpoint, TurnBroker_proofs

\* Every step of the composition is a step of the broker, or leaves it alone.
LEMMA StepOfBroker ==
    ASSUME BrokerInv, [TurnNext]_turnVars
    PROVE  [Next]_vars
<1> USE OneTurn, OneInvokePerRequest
<1>1. CASE UNCHANGED vars
  BY <1>1
<1>2. ASSUME NEW a \in Activity, McpStep(a) PROVE UNCHANGED vars
  BY <1>2 DEF McpStep, InvokeTool, FinishLocally, ReceiveAnswer, RetrySettle, GiveUpClaim,
     GiveUpInvoke, StartCall, Sends
<1>3. ASSUME NEW a \in Activity, DispatchStep(a) PROVE McpNext \/ UNCHANGED vars
  BY <1>3 DEF DispatchStep, DispatchClaim, RefuseClaim, DispatchInvoke, RefuseInvoke,
     DispatchRelease, DispatchComplete, McpNext
<1>4. CASE AdapterStep
  <2>1. ASSUME NEW c \in Call, ReturnResult(c) PROVE OwnerNext
    BY <2>1 DEF ReturnResult, OwnerNext
  <2>2. OpenTurn \/ WatchTurn \/ CloseTurn \/ CancelTurn => RegistryNext \/ UNCHANGED vars
    BY DEF OpenTurn, WatchTurn, CloseTurn, CancelTurn, RegistryNext
  <2>3. AskForTools \/ TimerFires \/ Journal \/ LoseObserver \/ StartCompaction => OwnerNext \/ UNCHANGED vars
    BY DEF AskForTools, TimerFires, Journal, LoseObserver, StartCompaction, OwnerNext
  <2> QED
    BY <1>1, <1>4, <2>1, <2>2, <2>3 DEF AdapterStep, Next
<1>5. CASE WorkerStep
  <2>1. ASSUME CommitFence PROVE OwnerNext
    <3>1. fence \in Revisions /\ CommitCompletionFence(turn, fence)
      BY <2>1, RevisionFits DEF CommitFence, CommitCompletionFence, CanCommit, BrokerInv
    <3> QED
      BY <3>1 DEF OwnerNext
  <2> QED
    BY <1>1, <1>5, <2>1 DEF WorkerStep, ReadUnfinishedPage, BeginFence, RereadPage,
       RefuseCommit, CancelBrowser, Next
<1>6. CASE Expiry \/ Pruning
  BY <1>6 DEF Expiry, Pruning, Next, RegistryNext
<1>7. CASE UNCHANGED turnVars
  BY <1>1, <1>7 DEF turnVars
<1> QED
  BY <1>1, <1>2, <1>3, <1>4, <1>5, <1>6, <1>7 DEF TurnNext, Next

LEMMA NativeBroker == TurnSpec => [](BrokerInv)
<1>1. TurnInit => BrokerInv
  BY BrokerInit DEF TurnInit
<1>2. BrokerInv /\ [TurnNext]_turnVars => BrokerInv'
  BY StepOfBroker, BrokerStep
<1> QED
  BY <1>1, <1>2, PTL DEF TurnSpec

\* The turn's broker is a broker: none of its three clients drives it out of what
\* TurnBroker allows, and the promise of ToolDelivery holds for their calls.
THEOREM NativeUsesBroker == TurnSpec => Spec /\ DeliversEachCallOnce
<1>1. TurnInit => Init
  BY DEF TurnInit
<1>2. BrokerInv /\ [TurnNext]_turnVars => [Next]_vars
  BY StepOfBroker
<1> QED
  BY <1>1, <1>2, NativeBroker, DeliveryCorrect, PTL DEF TurnSpec, Spec

-----------------------------------------------------------------------------
(* The inductive invariant *)

Phases == {"idle", "claiming", "claimed", "invoking", "releasing", "settling", "done"}

\* A handler in one of these owes the broker the end of its activity.
InLease == {"claimed", "invoking", "releasing"}

OnlyThisTurn == \A t \in Token \ {turn} : life[t] = "unissued"

NothingBeforeTheTurn ==
    life[turn] = "unissued" =>
        net = {} /\ batch = {} /\ \A a \in Activity : phase[a] = "idle"

\* The broker counts the activity of every such handler, and has the binding.
LeaseIsCounted ==
    Live(turn) => \A a \in Activity :
        phase[a] \in InLease => a \in activities[turn] /\ turn \in bindings

\* What a request on its way says of the handler that sent it.  An invocation can
\* arrive after its handler has gone only when the turn has gone too.
Errand(a) ==
    /\ Request("invoke", a) \in net =>
         /\ outcome[a] = "unsent"
         /\ phase[a] \in {"invoking", "releasing", "settling", "done"}
         /\ (phase[a] \in {"settling", "done"} => life[turn] = "retired")
    /\ Request("complete", a) \in net => phase[a] \in {"settling", "done"}
    /\ Request("release", a) \in net => phase[a] = "releasing" /\ Request("timeout", a) \notin net
    /\ Request("timeout", a) \in net => phase[a] = "releasing"
    /\ phase[a] \in {"idle", "claiming", "claimed"} => outcome[a] = "unsent"
    /\ phase[a] # "done" => attempts[a] < MAX_SETTLE_ATTEMPTS
Errands == \A a \in Activity : Errand(a)

NativeIInv ==
    /\ NativeInv
    /\ OnlyThisTurn
    /\ NothingBeforeTheTurn
    /\ LeaseIsCounted
    /\ Errands

LEMMA RequestInjective ==
    \A kind, other, a, b : Request(kind, a) = Request(other, b) <=> kind = other /\ a = b
BY DEF Request

LEMMA RequestType ==
    ASSUME NEW a \in Activity, NEW kind \in {"claim", "invoke", "release", "timeout", "complete"}
    PROVE  Request(kind, a) \in Requests
BY DEF Request, Requests

\* With the turn gone, nothing is pending.
LEMMA NothingPending ==
    ASSUME IInv, OnlyThisTurn, ~Live(turn)
    PROVE  /\ turn \notin bindings /\ invocations[turn] = {}
           /\ \A c \in Call : outcome[c] # "pending"
<1>1. \A t \in Token : ~Live(t)
  BY OneTurn DEF OnlyThisTurn, Live
<1> QED
  BY <1>1, OneTurn DEF IInv, RetiredTurnHoldsNothing, InvocationBooks

-----------------------------------------------------------------------------
(* Steps of a request handler *)

\* A handler that moves without a step of the broker keeps everything, if it takes
\* no lease it did not have, leaves no pending invocation behind, and its own
\* requests fit its new phase.
LEMMA HandlerMoves ==
    ASSUME NativeIInv, UNCHANGED <<vars, adapterVars, workerVars>>,
           NEW a \in Activity, NEW next \in Phases, phase' = [phase EXCEPT ![a] = next],
           life[turn] # "unissued",
           net' \subseteq Requests,
           \A b \in Activity \ {a} : \A kind : Request(kind, b) \in net' <=> Request(kind, b) \in net,
           attempts' \in [Activity -> 0..MAX_SETTLE_ATTEMPTS],
           \A b \in Activity \ {a} : attempts'[b] = attempts[b],
           next \in InLease => phase[a] \in InLease,
           outcome[a] = "pending" => next \in {"invoking", "releasing"},
           Errand(a)'
    PROVE  NativeIInv'
<1> USE DEF NativeIInv, NativeInv
<1>0. phase \in [Activity -> Phases]
  BY DEF TurnTypeOK, Phases
<1>1. TurnTypeOK'
  BY <1>0 DEF TurnTypeOK, Phases, TypeOK, vars, registryVars, fenceVars, toolVars, compactionVars,
     adapterVars, workerVars
<1>2. OnlyThisTurn' /\ NothingBeforeTheTurn'
  BY DEF OnlyThisTurn, NothingBeforeTheTurn, vars, registryVars
<1>3. LeaseIsCounted'
  BY <1>0 DEF LeaseIsCounted, Live, vars, registryVars, fenceVars
<1>4. Errands'
  <2>1. ASSUME NEW b \in Activity, b # a PROVE Errand(b)'
    BY <1>0, <2>1 DEF Errands, Errand, vars, registryVars, toolVars
  <2> QED
    BY <2>1 DEF Errands
<1>5. NoOrphanInvocation'
  BY <1>0 DEF NoOrphanInvocation, vars, toolVars
<1>6. BatchIsDelivered'
  BY DEF BatchIsDelivered, Live, vars, registryVars, toolVars, adapterVars
<1>7. NoToolAfterCompletion'
  BY <1>0 DEF NoToolAfterCompletion, InLease, vars, fenceVars, toolVars, adapterVars
<1> QED
  BY <1>1, <1>2, <1>3, <1>4, <1>5, <1>6, <1>7

LEMMA McpStepKeeps ==
    ASSUME BrokerInv, NativeIInv, NEW a \in Activity, McpStep(a)
    PROVE  NativeIInv'
<1> USE OneInvokePerRequest
<1>0. /\ phase \in [Activity -> Phases] /\ net \subseteq Requests
      /\ attempts \in [Activity -> 0..MAX_SETTLE_ATTEMPTS] /\ Errand(a)
      /\ outcome \in [Call -> {"unsent", "pending"} \cup Settled]
      /\ (outcome[a] = "pending" => phase[a] \in {"invoking", "releasing"})
  BY DEF NativeIInv, NativeInv, TurnTypeOK, TypeOK, Phases, Errands, NoOrphanInvocation
<1>1. \/ life[turn] # "unissued"
      \/ phase[a] = "idle"
  BY DEF NativeIInv, NothingBeforeTheTurn
<1>2. ASSUME NEW from \in Phases, NEW next \in Phases,
             NEW kind \in {"claim", "invoke", "release", "timeout", "complete"},
             Sends(a, from, next, Request(kind, a)), life[turn] # "unissued",
             next \in InLease => from \in InLease,
             outcome[a] = "pending" => next \in {"invoking", "releasing"},
             Errand(a)'
      PROVE  NativeIInv'
  <2>1. /\ phase[a] = from /\ phase' = [phase EXCEPT ![a] = next] /\ net' = net \cup {Request(kind, a)}
        /\ UNCHANGED <<vars, attempts, adapterVars, workerVars>>
    BY <1>2 DEF Sends, Enters
  <2>2. net' \subseteq Requests
    BY <1>0, <2>1, RequestType
  <2>3. \A b \in Activity \ {a} : \A k : Request(k, b) \in net' <=> Request(k, b) \in net
    BY <2>1, RequestInjective
  <2> QED
    BY <1>0, <1>2, <2>1, <2>2, <2>3, HandlerMoves
<1>3. ASSUME NEW from, NEW next, NEW request, Sends(a, from, next, request)
      PROVE  /\ phase[a] = from /\ phase'[a] = next /\ net' = net \cup {request}
             /\ UNCHANGED <<outcome, life, attempts>>
  BY <1>0, <1>3 DEF Sends, Enters, vars, registryVars, toolVars
<1>4. CASE StartCall(a)
  <2>1. life[turn] # "unissued" /\ Sends(a, "idle", "claiming", Request("claim", a))
    BY <1>4 DEF StartCall
  <2>2. Errand(a)'
    BY <1>0, <1>3, <2>1, RequestInjective DEF Errand
  <2> QED
    BY <1>0, <1>2, <1>3, <2>1, <2>2 DEF Phases, InLease
<1>5. CASE InvokeTool(a)
  <2>1. Sends(a, "claimed", "invoking", Request("invoke", a))
    BY <1>5 DEF InvokeTool
  <2>2. Errand(a)'
    BY <1>0, <1>3, <2>1, RequestInjective DEF Errand
  <2> QED
    BY <1>0, <1>1, <1>2, <1>3, <2>1, <2>2 DEF Phases, InLease
<1>6. CASE FinishLocally(a)
  <2>1. Sends(a, "claimed", "settling", Request("complete", a))
    BY <1>6 DEF FinishLocally
  <2>2. Errand(a)'
    BY <1>0, <1>3, <2>1, RequestInjective DEF Errand
  <2> QED
    BY <1>0, <1>1, <1>2, <1>3, <2>1, <2>2 DEF Phases, InLease
<1>7. CASE GiveUpClaim(a)
  <2>1. Sends(a, "claiming", "settling", Request("complete", a))
    BY <1>7 DEF GiveUpClaim
  <2>2. Errand(a)'
    BY <1>0, <1>3, <2>1, RequestInjective DEF Errand
  <2> QED
    BY <1>0, <1>1, <1>2, <1>3, <2>1, <2>2 DEF Phases, InLease
<1>8. CASE GiveUpInvoke(a)
  <2>1. PICK kind \in {"release", "timeout"} : Sends(a, "invoking", "releasing", Request(kind, a))
    BY <1>8 DEF GiveUpInvoke
  <2>2. Errand(a)'
    BY <1>0, <1>3, <2>1, RequestInjective DEF Errand
  <2> QED
    BY <1>0, <1>1, <1>2, <1>3, <2>1, <2>2 DEF Phases, InLease
<1>9. CASE ReceiveAnswer(a)
  <2>1. CASE outcome[a] \in {"result", "control"} /\ Sends(a, "invoking", "settling", Request("complete", a))
    <3>1. Errand(a)'
      BY <1>0, <1>3, <2>1, RequestInjective DEF Errand
    <3> QED
      BY <1>0, <1>1, <1>2, <1>3, <2>1, <3>1 DEF Phases, InLease
  <2>2. CASE outcome[a] = "rejected" /\ Sends(a, "invoking", "releasing", Request("release", a))
    <3>1. Errand(a)'
      BY <1>0, <1>3, <2>2, RequestInjective DEF Errand
    <3> QED
      BY <1>0, <1>1, <1>2, <1>3, <2>2, <3>1 DEF Phases, InLease
  <2> QED
    BY <1>9, <2>1, <2>2 DEF ReceiveAnswer
<1>10. CASE RetrySettle(a)
  <2>1. /\ phase[a] = "settling" /\ attempts' = [attempts EXCEPT ![a] = @ + 1]
        /\ UNCHANGED <<vars, adapterVars, workerVars>> /\ UNCHANGED <<outcome, life>>
    BY <1>10 DEF RetrySettle, vars, registryVars, toolVars
  <2>2. attempts[a] < MAX_SETTLE_ATTEMPTS
    BY <1>0, <2>1 DEF Errand
  <2>3. attempts' \in [Activity -> 0..MAX_SETTLE_ATTEMPTS] /\ attempts'[a] = attempts[a] + 1
    BY <1>0, <2>1, <2>2 DEF MAX_SETTLE_ATTEMPTS
  <2>4. CASE MayRetry(a) /\ net' = net \cup {Request("complete", a)} /\ UNCHANGED phase
    <3>1. Errand(a)'
      BY <1>0, <2>1, <2>3, <2>4, RequestInjective DEF Errand, MayRetry
    <3>2. phase' = [phase EXCEPT ![a] = "settling"]
      BY <1>0, <2>1, <2>4
    <3>3. net' \subseteq Requests /\ \A b \in Activity \ {a} : \A k : Request(k, b) \in net' <=> Request(k, b) \in net
      BY <1>0, <2>4, RequestInjective, RequestType
    <3>4. \A b \in Activity \ {a} : attempts'[b] = attempts[b]
      BY <1>0, <2>1
    <3> QED
      BY <1>0, <1>1, <2>1, <2>3, <3>1, <3>2, <3>3, <3>4, HandlerMoves DEF Phases, InLease
  <2>5. CASE phase' = [phase EXCEPT ![a] = "done"] /\ UNCHANGED net
    <3>1. Errand(a)'
      BY <1>0, <2>1, <2>3, <2>5 DEF Errand
    <3>2. \A b \in Activity \ {a} : attempts'[b] = attempts[b]
      BY <1>0, <2>1
    <3> QED
      BY <1>0, <1>1, <2>1, <2>3, <2>5, <3>1, <3>2, HandlerMoves DEF Phases, InLease
  <2> QED
    BY <1>10, <2>4, <2>5 DEF RetrySettle, Enters
<1> QED
  BY <1>4, <1>5, <1>6, <1>7, <1>8, <1>9, <1>10 DEF McpStep

-----------------------------------------------------------------------------
(* Steps of the broker at a request *)

\* A step that retires the turn, whoever takes it.
LEMMA TurnRetires ==
    ASSUME BrokerInv, BrokerInv', OnlyThisTurn, NEW failure, RevokeAll({turn}, failure)
    PROVE  /\ life' = [life EXCEPT ![turn] = "retired"] /\ OnlyThisTurn' /\ ~Live(turn)'
           /\ turn \notin bindings' /\ invocations'[turn] = {}
           /\ \A c \in Call : outcome'[c] # "pending"
           /\ \A c \in Call : outcome[c] = "unsent" => outcome'[c] = "unsent"
           /\ completionCommitted' = completionCommitted
<1>1. life' = [life EXCEPT ![turn] = "retired"]
  BY OneTurn DEF RevokeAll, BrokerInv, IInv, TypeOK
<1>2. OnlyThisTurn' /\ life'[turn] = "retired"
  BY <1>1, OneTurn DEF OnlyThisTurn, BrokerInv, IInv, TypeOK
<1>3. \A t \in Token : ~Live(t)'
  BY <1>2 DEF OnlyThisTurn, Live
<1>4. \A t \in Token : t \notin bindings' /\ invocations'[t] = {}
  BY <1>3 DEF BrokerInv, IInv, RetiredTurnHoldsNothing
<1>5. \A c \in Call : outcome'[c] # "pending"
  BY <1>4 DEF BrokerInv, IInv, InvocationBooks
<1>6. \A c \in Call : outcome[c] = "unsent" => outcome'[c] = "unsent"
  <2>1. ASSUME NEW c \in Call, outcome[c] = "unsent" PROVE c \notin invocations[turn]
    BY <2>1, OneTurn DEF BrokerInv, IInv, InvocationBooks
  <2>2. \A c \in Call : c \notin invocations[turn] => outcome'[c] = outcome[c]
    BY DEF RevokeAll
  <2> QED
    BY <2>1, <2>2
<1>7. completionCommitted' = completionCommitted
  BY DEF RevokeAll, fenceVars
<1> QED
  BY <1>1, <1>2, <1>3, <1>4, <1>5, <1>6, <1>7, OneTurn

\* The answer to a request moves at most the handler that sent it.
LEMMA AnswerMoves ==
    ASSUME NativeIInv, NEW a \in Activity, NEW waiting, NEW next \in Phases, Answers(a, waiting, next)
    PROVE  /\ phase' = [phase EXCEPT ![a] = IF phase[a] = waiting THEN next ELSE phase[a]]
           /\ phase \in [Activity -> Phases] /\ phase' \in [Activity -> Phases]
           /\ phase'[a] = IF phase[a] = waiting THEN next ELSE phase[a]
           /\ \A b \in Activity \ {a} : phase'[b] = phase[b]
<1>1. phase \in [Activity -> Phases]
  BY DEF NativeIInv, NativeInv, TurnTypeOK, Phases
<1>2. CASE phase[a] = waiting
  BY <1>1, <1>2 DEF Answers
<1>3. CASE phase[a] # waiting
  BY <1>1, <1>3 DEF Answers
<1> QED
  BY <1>2, <1>3

LEMMA DispatchClaimKeeps ==
    ASSUME BrokerInv, BrokerInv', NativeIInv, NEW a \in Activity, DispatchClaim(a)
    PROVE  NativeIInv'
<1> USE OneTurn, OneInvokePerRequest DEF NativeIInv, NativeInv
<1>1. /\ net' = net \ {Request("claim", a)} /\ UNCHANGED <<attempts, adapterVars, workerVars>>
      /\ Live(turn) /\ ~completionCommitted[turn]
      /\ activities' = [activities EXCEPT ![turn] = @ \cup {a}] /\ bindings' = bindings \cup {turn}
      /\ UNCHANGED <<life, completionCommitted, toolVars>>
  BY DEF DispatchClaim, Reads, Claim, ClaimAccepted
<1>2. /\ phase \in [Activity -> Phases] /\ phase' \in [Activity -> Phases]
      /\ phase'[a] = IF phase[a] = "claiming" THEN "claimed" ELSE phase[a]
      /\ \A b \in Activity \ {a} : phase'[b] = phase[b]
  BY AnswerMoves DEF DispatchClaim, Phases
<1>3. TurnTypeOK'
  BY <1>1, <1>2 DEF TurnTypeOK, Phases, adapterVars, workerVars, BrokerInv, IInv
<1>4. OnlyThisTurn' /\ NothingBeforeTheTurn'
  BY <1>1 DEF OnlyThisTurn, NothingBeforeTheTurn, Live
<1>5. LeaseIsCounted'
  BY <1>1, <1>2 DEF LeaseIsCounted, Live, InLease, BrokerInv, IInv, TypeOK
<1>6. Errands'
  <2>1. ASSUME NEW b \in Activity PROVE Errand(b)'
    <3>1. Errand(b) /\ \A k : Request(k, b) \in net' => Request(k, b) \in net
      BY <1>1 DEF Errands
    <3>2. outcome' = outcome /\ attempts' = attempts /\ life' = life
      BY <1>1 DEF toolVars
    <3> QED
      BY <1>2, <3>1, <3>2 DEF Errand
  <2> QED
    BY <2>1 DEF Errands
<1>7. NoOrphanInvocation'
  BY <1>1, <1>2 DEF NoOrphanInvocation, toolVars, Errands, Errand
<1>8. BatchIsDelivered' /\ NoToolAfterCompletion'
  BY <1>1 DEF BatchIsDelivered, NoToolAfterCompletion, Live, toolVars, adapterVars
<1> QED
  BY <1>3, <1>4, <1>5, <1>6, <1>7, <1>8

LEMMA DispatchInvokeKeeps ==
    ASSUME BrokerInv, BrokerInv', NativeIInv, NEW a \in Activity, DispatchInvoke(a)
    PROVE  NativeIInv'
<1> USE OneTurn, OneInvokePerRequest DEF NativeIInv, NativeInv
<1>1. /\ Request("invoke", a) \in net /\ net' = net \ {Request("invoke", a)}
      /\ UNCHANGED <<attempts, phase, adapterVars, workerVars>> /\ turn \in bindings /\ outcome[a] = "unsent"
      /\ UNCHANGED <<registryVars, fenceVars, deliveredCallIds, waiters, compactionRequested>>
  BY DEF DispatchInvoke, Reads, Invoke
<1>2. Live(turn) /\ life[turn] # "retired"
  BY <1>1 DEF BrokerInv, IInv, RetiredTurnHoldsNothing, Live
<1>3. phase[a] \in {"invoking", "releasing"}
  BY <1>1, <1>2 DEF Errands, Errand
<1>4. ~completionCommitted[turn]
  BY <1>3 DEF NoToolAfterCompletion
<1>5. \A c \in Call \ {a} : outcome'[c] = outcome[c]
  BY DEF DispatchInvoke, Invoke, Divert, Enqueue, BrokerInv, IInv, TypeOK
<1>6. TurnTypeOK'
  BY <1>1 DEF TurnTypeOK, adapterVars, workerVars, BrokerInv, IInv
<1>7. OnlyThisTurn' /\ NothingBeforeTheTurn' /\ LeaseIsCounted'
  BY <1>1, <1>2 DEF OnlyThisTurn, NothingBeforeTheTurn, LeaseIsCounted, Live, registryVars, fenceVars
<1>8. Errands'
  <2>1. ASSUME NEW b \in Activity PROVE Errand(b)'
    <3>1. Errand(b) /\ \A k : Request(k, b) \in net' => Request(k, b) \in net
      BY <1>1 DEF Errands
    <3>2. phase' = phase /\ attempts' = attempts /\ life' = life
      BY <1>1 DEF registryVars
    <3>3. Request("invoke", a) \notin net'
      BY <1>1
    <3> QED
      BY <1>3, <1>5, <3>1, <3>2, <3>3 DEF Errand
  <2> QED
    BY <2>1 DEF Errands
<1>9. NoOrphanInvocation'
  BY <1>1, <1>3, <1>5 DEF NoOrphanInvocation
<1>10. BatchIsDelivered' /\ NoToolAfterCompletion'
  BY <1>1, <1>4 DEF BatchIsDelivered, NoToolAfterCompletion, Live, registryVars, fenceVars, adapterVars
<1> QED
  BY <1>6, <1>7, <1>8, <1>9, <1>10

LEMMA DispatchReleaseKeeps ==
    ASSUME BrokerInv, BrokerInv', NativeIInv, NEW a \in Activity, DispatchRelease(a)
    PROVE  NativeIInv'
<1> USE OneTurn, OneInvokePerRequest DEF NativeIInv, NativeInv
<1>1. PICK kind \in {"release", "timeout"} :
        /\ Request(kind, a) \in net
        /\ net' = (net \ {Request(kind, a)}) \cup {Request("complete", a)}
        /\ \/ Release(turn, kind = "timeout")
           \/ Pruned /\ turn \notin bindings /\ UNCHANGED vars
        /\ Answers(a, "releasing", "settling")
        /\ UNCHANGED <<attempts, adapterVars, workerVars>>
  BY DEF DispatchRelease
<1>2. /\ phase \in [Activity -> Phases] /\ phase' \in [Activity -> Phases]
      /\ phase[a] = "releasing" /\ phase'[a] = "settling"
      /\ \A b \in Activity \ {a} : phase'[b] = phase[b]
  BY <1>1, AnswerMoves DEF Phases, Errands, Errand
<1>3. /\ OnlyThisTurn' /\ ~Live(turn)' /\ life'[turn] = "retired"
      /\ turn \notin bindings' /\ invocations'[turn] = {}
      /\ \A c \in Call : outcome'[c] # "pending"
      /\ \A c \in Call : outcome[c] = "unsent" => outcome'[c] = "unsent"
      /\ completionCommitted' = completionCommitted
  <2>1. CASE Release(turn, kind = "timeout")
    BY <2>1, TurnRetires DEF Release, BrokerInv, IInv, TypeOK
  <2>2. CASE Pruned /\ turn \notin bindings /\ UNCHANGED vars
    <3>1. life[turn] # "unissued"
      BY <1>1 DEF NothingBeforeTheTurn
    <3>2. ~Live(turn)
      BY <1>2, <2>2 DEF LeaseIsCounted, InLease
    <3>3. life[turn] = "retired"
      BY <3>1, <3>2 DEF Live, BrokerInv, IInv, TypeOK
    <3> QED
      BY <2>2, <3>2, <3>3, NothingPending DEF vars, registryVars, fenceVars, toolVars, OnlyThisTurn,
         Live, BrokerInv
  <2> QED
    BY <1>1, <2>1, <2>2
<1>4. net' \subseteq Requests
  BY <1>1, RequestType DEF TurnTypeOK
<1>5. TurnTypeOK'
  BY <1>1, <1>2, <1>4 DEF TurnTypeOK, Phases, adapterVars, workerVars, BrokerInv, IInv
<1>6. NothingBeforeTheTurn' /\ LeaseIsCounted' /\ NoOrphanInvocation' /\ BatchIsDelivered'
  BY <1>3 DEF NothingBeforeTheTurn, LeaseIsCounted, NoOrphanInvocation, BatchIsDelivered
<1>7. Errands'
  <2>1. ASSUME NEW b \in Activity, b # a PROVE Errand(b)'
    <3>1. Errand(b) /\ \A k : Request(k, b) \in net' => Request(k, b) \in net
      BY <1>1, <2>1, RequestInjective DEF Errands
    <3>2. phase'[b] = phase[b] /\ attempts' = attempts
      BY <1>1, <1>2, <2>1
    <3> QED
      BY <1>3, <3>1, <3>2 DEF Errand
  <2>2. Errand(a)'
    <3>1. Errand(a) /\ \A k : k # "complete" /\ Request(k, a) \in net' => Request(k, a) \in net /\ k # kind
      BY <1>1, RequestInjective DEF Errands
    <3>2. Request("release", a) \notin net' /\ Request("timeout", a) \notin net'
      BY <1>1, <3>1 DEF Errand
    <3> QED
      BY <1>1, <1>2, <1>3, <3>1, <3>2 DEF Errand
  <2> QED
    BY <2>1, <2>2 DEF Errands
<1>8. NoToolAfterCompletion'
  BY <1>1, <1>2, <1>3 DEF NoToolAfterCompletion, adapterVars
<1> QED
  BY <1>3, <1>5, <1>6, <1>7, <1>8

LEMMA DispatchStepKeeps ==
    ASSUME BrokerInv, BrokerInv', NativeIInv, NEW a \in Activity, DispatchStep(a)
    PROVE  NativeIInv'
<1> USE OneTurn, OneInvokePerRequest DEF NativeIInv, NativeInv
<1>0. /\ net \subseteq Requests /\ attempts \in [Activity -> 0..MAX_SETTLE_ATTEMPTS]
      /\ Errand(a) /\ phase \in [Activity -> Phases] /\ phase[a] \in Phases
      /\ (outcome[a] = "pending" => phase[a] \in {"invoking", "releasing"})
  BY DEF TurnTypeOK, Phases, Errands, NoOrphanInvocation
<1>1. CASE RefuseClaim(a)
  <2> DEFINE next == IF phase[a] = "claiming" THEN "settling" ELSE phase[a]
  <2>1. /\ Request("claim", a) \in net
        /\ net' = (net \ {Request("claim", a)}) \cup CleanUp(a, "claiming", "complete")
        /\ phase' = [phase EXCEPT ![a] = next] /\ phase'[a] = next
        /\ UNCHANGED <<vars, attempts, adapterVars, workerVars>> /\ UNCHANGED <<outcome, life>>
    BY <1>1, AnswerMoves DEF RefuseClaim, vars, registryVars, toolVars, Phases
  <2>2. /\ net' \subseteq Requests
        /\ \A b \in Activity \ {a} : \A k : Request(k, b) \in net' <=> Request(k, b) \in net
        /\ \A k : k # "complete" /\ Request(k, a) \in net' => Request(k, a) \in net
        /\ Request("complete", a) \in net' /\ Request("complete", a) \notin net => phase[a] = "claiming"
    BY <1>0, <2>1, RequestInjective, RequestType DEF CleanUp
  <2>3. Errand(a)'
    BY <1>0, <2>1, <2>2 DEF Errand
  <2>4. life[turn] # "unissued"
    BY <2>1 DEF NothingBeforeTheTurn
  <2>5. next \in Phases /\ (next \in InLease => phase[a] \in InLease)
        /\ (outcome[a] = "pending" => next \in {"invoking", "releasing"})
    BY <1>0 DEF Phases, InLease
  <2> HIDE DEF next
  <2> QED
    BY <1>0, <2>1, <2>2, <2>3, <2>4, <2>5, HandlerMoves
<1>2. CASE RefuseInvoke(a)
  <2> DEFINE next == IF phase[a] = "invoking" THEN "releasing" ELSE phase[a]
  <2>1. /\ Request("invoke", a) \in net
        /\ net' = (net \ {Request("invoke", a)}) \cup CleanUp(a, "invoking", "release")
        /\ phase' = [phase EXCEPT ![a] = next] /\ phase'[a] = next
        /\ UNCHANGED <<vars, attempts, adapterVars, workerVars>> /\ UNCHANGED <<outcome, life>>
    BY <1>2, AnswerMoves DEF RefuseInvoke, vars, registryVars, toolVars, Phases
  <2>2. /\ net' \subseteq Requests
        /\ \A b \in Activity \ {a} : \A k : Request(k, b) \in net' <=> Request(k, b) \in net
        /\ \A k : k # "release" /\ Request(k, a) \in net' => Request(k, a) \in net
        /\ Request("release", a) \in net' /\ Request("release", a) \notin net => phase[a] = "invoking"
    BY <1>0, <2>1, RequestInjective, RequestType DEF CleanUp
  <2>3. Errand(a)'
    BY <1>0, <2>1, <2>2 DEF Errand
  <2>4. life[turn] # "unissued"
    BY <2>1 DEF NothingBeforeTheTurn
  <2>5. next \in Phases /\ (next \in InLease => phase[a] \in InLease)
        /\ (outcome[a] = "pending" => next \in {"invoking", "releasing"})
    BY <1>0 DEF Phases, InLease
  <2> HIDE DEF next
  <2> QED
    BY <1>0, <2>1, <2>2, <2>3, <2>4, <2>5, HandlerMoves
<1>3. CASE DispatchComplete(a)
  <2>1. /\ Request("complete", a) \in net /\ net' = net \ {Request("complete", a)}
        /\ UNCHANGED <<attempts, adapterVars, workerVars>> /\ Answers(a, "settling", "done")
    BY <1>3 DEF DispatchComplete, Reads
  <2>2. /\ phase' \in [Activity -> Phases] /\ phase[a] \in {"settling", "done"}
        /\ phase' = [phase EXCEPT ![a] = "done"] /\ phase'[a] = "done"
        /\ \A b \in Activity \ {a} : phase'[b] = phase[b]
    BY <1>0, <2>1, AnswerMoves DEF Errand, Phases
  <2>3. CASE ActivityComplete(turn, a)
    <3>1. /\ UNCHANGED <<registryVars, completionCommitted, toolVars>>
          /\ activities' = [activities EXCEPT ![turn] = @ \ {a}]
      BY <2>3 DEF ActivityComplete
    <3>2. TurnTypeOK'
      BY <2>1, <2>2 DEF TurnTypeOK, Phases, adapterVars, workerVars, BrokerInv, IInv
    <3>3. OnlyThisTurn' /\ NothingBeforeTheTurn'
      BY <2>1, <3>1 DEF OnlyThisTurn, NothingBeforeTheTurn, registryVars
    <3>4. LeaseIsCounted'
      BY <2>2, <3>1 DEF LeaseIsCounted, Live, InLease, registryVars, BrokerInv, IInv, TypeOK
    <3>5. Errands'
      <4>1. ASSUME NEW b \in Activity PROVE Errand(b)'
        <5>1. Errand(b) /\ \A k : Request(k, b) \in net' => Request(k, b) \in net
          BY <2>1 DEF Errands
        <5>2. outcome' = outcome /\ attempts' = attempts /\ life' = life
          BY <2>1, <3>1 DEF toolVars, registryVars
        <5> QED
          BY <2>2, <5>1, <5>2 DEF Errand
      <4> QED
        BY <4>1 DEF Errands
    <3>6. NoOrphanInvocation'
      BY <1>0, <2>2, <3>1 DEF NoOrphanInvocation, toolVars
    <3>7. BatchIsDelivered' /\ NoToolAfterCompletion'
      BY <2>1, <2>2, <3>1 DEF BatchIsDelivered, NoToolAfterCompletion, Live, toolVars, registryVars, adapterVars
    <3> QED
      BY <3>2, <3>3, <3>4, <3>5, <3>6, <3>7
  <2>4. CASE UNCHANGED vars
    <3>1. UNCHANGED <<vars, attempts, adapterVars, workerVars>> /\ UNCHANGED <<outcome, life>>
      BY <2>1, <2>4 DEF vars, registryVars, toolVars
    <3>2. /\ net' \subseteq Requests
          /\ \A b \in Activity \ {a} : \A k : Request(k, b) \in net' <=> Request(k, b) \in net
          /\ \A k : Request(k, a) \in net' => Request(k, a) \in net
      BY <1>0, <2>1, RequestInjective
    <3>3. Errand(a)'
      BY <1>0, <2>2, <3>1, <3>2 DEF Errand
    <3>4. life[turn] # "unissued"
      BY <2>1 DEF NothingBeforeTheTurn
    <3> QED
      BY <1>0, <2>2, <3>1, <3>2, <3>3, <3>4, HandlerMoves DEF Phases, InLease
  <2> QED
    BY <1>3, <2>3, <2>4 DEF DispatchComplete
<1> QED
  BY <1>1, <1>2, <1>3, DispatchClaimKeeps, DispatchInvokeKeeps, DispatchReleaseKeeps DEF DispatchStep

-----------------------------------------------------------------------------
(* Steps of the adapter, the browser worker and time *)

\* They leave the handlers and their requests alone; what they do to the broker
\* must leave its leases, and may settle invocations but make none pending.
LEMMA HandlersStay ==
    ASSUME BrokerInv, BrokerInv', NativeIInv, UNCHANGED mcpVars,
           adapter' \in {"idle", "waiting", "handed", "executing", "compacting", "gone"},
           batch' \subseteq Call, losses' \in 0..MAX_OBSERVER_LOSSES,
           worker' \in {"reading", "rereading", "candidate", "completed", "cancelled"},
           fence' \in Revisions \cup {NoRevision}, seen' \in Revisions \cup {NoRevision},
           OnlyThisTurn',
           life'[turn] = "unissued" => life[turn] = "unissued" /\ batch' = {},
           life[turn] = "retired" => life'[turn] = "retired",
           Live(turn) /\ Live(turn)' =>
               activities'[turn] = activities[turn] /\ (turn \in bindings => turn \in bindings'),
           \A c \in Call : outcome[c] = "unsent" => outcome'[c] = "unsent",
           \A c \in Call : outcome'[c] = "pending" => outcome[c] = "pending",
           BatchIsDelivered',
           completionCommitted'[turn] =>
               /\ \A a \in Activity : phase[a] \notin InLease
               /\ invocations'[turn] = {} /\ batch' = {}
    PROVE  NativeIInv'
<1> USE OneTurn, OneInvokePerRequest DEF NativeIInv, NativeInv, mcpVars
<1>1. TurnTypeOK'
  BY DEF TurnTypeOK, BrokerInv, IInv
<1>2. NothingBeforeTheTurn'
  BY DEF NothingBeforeTheTurn
<1>3. LeaseIsCounted'
  <2>1. CASE Live(turn)
    BY <2>1 DEF LeaseIsCounted
  <2>2. CASE life[turn] = "unissued"
    BY <2>2 DEF LeaseIsCounted, NothingBeforeTheTurn, InLease
  <2>3. CASE life[turn] = "retired"
    BY <2>3 DEF LeaseIsCounted, Live
  <2> QED
    BY <2>1, <2>2, <2>3 DEF Live, BrokerInv, IInv, TypeOK
<1>4. Errands'
  BY DEF Errands, Errand
<1>5. NoOrphanInvocation'
  BY DEF NoOrphanInvocation
<1>6. NoToolAfterCompletion'
  BY DEF NoToolAfterCompletion, InLease
<1> QED
  BY <1>1, <1>2, <1>3, <1>4, <1>5, <1>6

\* The types and the frame of the parts a step of the adapter may leave alone.
LEMMA PartTypes ==
    ASSUME NativeIInv
    PROVE  /\ adapter \in {"idle", "waiting", "handed", "executing", "compacting", "gone"}
           /\ batch \subseteq Call /\ losses \in 0..MAX_OBSERVER_LOSSES
           /\ worker \in {"reading", "rereading", "candidate", "completed", "cancelled"}
           /\ fence \in Revisions \cup {NoRevision} /\ seen \in Revisions \cup {NoRevision}
           /\ OnlyThisTurn /\ BatchIsDelivered /\ (life[turn] = "unissued" => batch = {})
           /\ (completionCommitted[turn] =>
                   /\ \A a \in Activity : phase[a] \notin InLease
                   /\ invocations[turn] = {} /\ batch = {})
BY DEF NativeIInv, NativeInv, TurnTypeOK, NothingBeforeTheTurn, NoToolAfterCompletion, InLease

\* A committed turn has nothing at the broker.
LEMMA CommittedTurnIsEmpty ==
    ASSUME BrokerInv, NativeIInv, completionCommitted[turn]
    PROVE  queuedCallIds[turn] = {} /\ deliveredCallIds[turn] = {} /\ invocations[turn] = {}
BY PartTypes, OneTurn DEF BrokerInv, IInv, InvocationBooks

\* The turn is retired, and the adapter is gone or notices later.
LEMMA RetirementKeeps ==
    ASSUME BrokerInv, BrokerInv', NativeIInv, NEW failure, RevokeAll({turn}, failure),
           UNCHANGED <<mcpVars, workerVars, losses>>,
           UNCHANGED <<adapter, batch>> \/ (adapter' = "gone" /\ batch' = {})
    PROVE  NativeIInv'
<1>1. TurnTypeOK /\ OnlyThisTurn
  BY DEF NativeIInv, NativeInv
<1>2. /\ life' = [life EXCEPT ![turn] = "retired"] /\ OnlyThisTurn' /\ ~Live(turn)'
      /\ invocations'[turn] = {} /\ \A c \in Call : outcome'[c] # "pending"
      /\ \A c \in Call : outcome[c] = "unsent" => outcome'[c] = "unsent"
      /\ completionCommitted' = completionCommitted
  BY <1>1, TurnRetires
<1>3. life'[turn] = "retired"
  BY <1>2, OneTurn DEF BrokerInv, IInv, TypeOK
<1>4. BatchIsDelivered'
  BY <1>2 DEF BatchIsDelivered
<1> QED
  BY <1>2, <1>3, <1>4, PartTypes, HandlersStay DEF workerVars

LEMMA AdapterStepKeeps ==
    ASSUME BrokerInv, BrokerInv', NativeIInv, AdapterStep
    PROVE  NativeIInv'
<1> USE OneTurn, OneInvokePerRequest DEF workerVars
<1>0. TypeOK /\ OnlyThisTurn
  BY DEF BrokerInv, IInv, NativeIInv
<1>1. CASE OpenTurn
  <2>1. /\ life[turn] = "unissued" /\ life' = [life EXCEPT ![turn] = "active"]
        /\ UNCHANGED <<bindings, fenceVars, toolVars>> /\ UNCHANGED <<mcpVars, adapterVars, workerVars>>
    BY <1>1 DEF OpenTurn, Register
  <2>2. life'[turn] = "active" /\ OnlyThisTurn'
    BY <1>0, <2>1 DEF OnlyThisTurn, TypeOK
  <2>3. BatchIsDelivered'
    BY <2>1, PartTypes DEF BatchIsDelivered, adapterVars
  <2> QED
    BY <2>1, <2>2, <2>3, PartTypes, HandlersStay DEF adapterVars, toolVars, fenceVars, Live
<1>2. CASE WatchTurn
  <2>1. /\ UNCHANGED <<life, bindings, fenceVars, toolVars>> /\ UNCHANGED <<mcpVars, adapterVars, workerVars>>
    BY <1>2 DEF WatchTurn, WaitForRetirement
  <2>2. OnlyThisTurn' /\ BatchIsDelivered'
    BY <1>0, <2>1, PartTypes DEF OnlyThisTurn, BatchIsDelivered, Live, adapterVars, toolVars
  <2> QED
    BY <2>1, <2>2, PartTypes, HandlersStay DEF adapterVars, toolVars, fenceVars
<1>3. ASSUME MayAskForTools(turn), UNCHANGED <<registryVars, fenceVars, invocations, outcome>>,
             UNCHANGED <<losses, mcpVars, workerVars>>, adapter' \in {"handed", "waiting"},
             batch' \subseteq deliveredCallIds'[turn], batch' \subseteq invocations[turn]
      PROVE  NativeIInv'
  <2>1. OnlyThisTurn' /\ BatchIsDelivered'
    BY <1>0, <1>3 DEF OnlyThisTurn, BatchIsDelivered, Live, registryVars
  <2>2. life[turn] = "active" /\ batch' \subseteq Call
    BY <1>0, <1>3 DEF MayAskForTools, Live, TypeOK
  <2> QED
    BY <1>3, <2>1, <2>2, PartTypes, HandlersStay DEF registryVars, fenceVars
<1>4. CASE AskForTools
  <2>1. /\ queuedCallIds[turn] \subseteq invocations[turn] /\ deliveredCallIds[turn] \subseteq invocations[turn]
    BY DEF BrokerInv, IInv, InvocationBooks
  <2>2. UNCHANGED <<losses, mcpVars, workerVars>>
    BY <1>4 DEF AskForTools
  <2>3. CASE CanReplay(turn) /\ UNCHANGED vars /\ adapter' = "handed" /\ batch' = deliveredCallIds[turn]
    BY <1>3, <2>1, <2>2, <2>3 DEF CanReplay, vars, toolVars
  <2>4. CASE NextImmediate(turn) /\ adapter' = "handed" /\ batch' = queuedCallIds[turn]
    <3>1. batch' \subseteq deliveredCallIds'[turn]
      BY <1>0, <2>4 DEF NextImmediate, TakeQueued, TypeOK
    <3> QED
      BY <1>3, <2>1, <2>2, <2>4, <3>1 DEF NextImmediate
  <2>5. CASE NextWait(turn, observer) /\ adapter' = "waiting" /\ batch' = {}
    BY <1>3, <2>2, <2>5 DEF NextWait
  <2> QED
    BY <1>4, <2>3, <2>4, <2>5 DEF AskForTools
<1>5. CASE TimerFires
  <2>1. /\ UNCHANGED <<registryVars, fenceVars, invocations, outcome>>
        /\ UNCHANGED <<losses, mcpVars, workerVars>>
    BY <1>5 DEF TimerFires, BatchTimer
  <2>2. deliveredCallIds[turn] \subseteq deliveredCallIds'[turn]
    BY <1>0, <1>5 DEF TimerFires, BatchTimer, TakeQueued, TypeOK
  <2>3. CASE observer \in waiters[turn] /\ queuedCallIds[turn] # {}
    <3>1. adapter' = "handed" /\ batch' = queuedCallIds[turn]
      BY <1>5, <2>3 DEF TimerFires
    <3>2. batch' \subseteq deliveredCallIds'[turn]
      BY <1>0, <1>5, <2>3, <3>1 DEF TimerFires, BatchTimer, TakeQueued, TypeOK
    <3>3. batch' \subseteq Call /\ (completionCommitted[turn] => batch' = {})
      BY <1>0, <3>1, CommittedTurnIsEmpty DEF TypeOK
    <3>4. life[turn] = "active"
      BY <1>0, <2>3 DEF BrokerInv, IInv, RetiredTurnHoldsNothing, Live
    <3>5. OnlyThisTurn' /\ BatchIsDelivered'
      BY <1>0, <2>1, <3>2 DEF OnlyThisTurn, BatchIsDelivered, registryVars
    <3> QED
      BY <2>1, <3>1, <3>3, <3>4, <3>5, PartTypes, HandlersStay DEF registryVars, fenceVars
  <2>4. CASE UNCHANGED <<adapter, batch>>
    <3>1. OnlyThisTurn' /\ BatchIsDelivered'
      BY <1>0, <2>1, <2>2, <2>4, PartTypes DEF OnlyThisTurn, BatchIsDelivered, Live, registryVars
    <3> QED
      BY <2>1, <2>4, <3>1, PartTypes, HandlersStay DEF registryVars, fenceVars
  <2> QED
    BY <1>5, <2>3, <2>4 DEF TimerFires
<1>6. CASE Journal
  <2>1. UNCHANGED vars /\ UNCHANGED <<batch, losses, mcpVars, workerVars>> /\ adapter' = "executing"
    BY <1>6 DEF Journal
  <2>2. OnlyThisTurn' /\ BatchIsDelivered'
    BY <1>0, <2>1, PartTypes DEF OnlyThisTurn, BatchIsDelivered, Live, vars, registryVars, toolVars
  <2> QED
    BY <2>1, <2>2, PartTypes, HandlersStay DEF vars, registryVars, fenceVars, toolVars
<1>7. CASE LoseObserver
  <2>1. /\ losses' \in 0..MAX_OBSERVER_LOSSES /\ adapter' = "idle" /\ batch' = {}
        /\ UNCHANGED <<mcpVars, workerVars>>
    BY <1>7, PartTypes, LossBound DEF LoseObserver
  <2>2. UNCHANGED <<registryVars, fenceVars, invocations, outcome>>
    BY <1>7 DEF LoseObserver, AbortWaiter, vars, toolVars
  <2>3. OnlyThisTurn' /\ BatchIsDelivered'
    BY <1>0, <2>1, <2>2 DEF OnlyThisTurn, BatchIsDelivered, registryVars
  <2> QED
    BY <2>1, <2>2, <2>3, PartTypes, HandlersStay DEF registryVars, fenceVars
<1>8. CASE StartCompaction
  <2>1. /\ adapter' = "compacting" /\ UNCHANGED <<batch, losses, mcpVars, workerVars>>
        /\ UNCHANGED <<registryVars, fenceVars, deliveredCallIds>>
        /\ invocations' = [invocations EXCEPT ![turn] = @ \ queuedCallIds[turn]]
        /\ outcome' = [c \in Call |-> IF c \in queuedCallIds[turn] THEN "control" ELSE outcome[c]]
    BY <1>8 DEF StartCompaction, RequestCompaction
  <2>2. \A c \in Call : c \in queuedCallIds[turn] => outcome[c] = "pending"
    BY DEF BrokerInv, IInv, InvocationBooks
  <2>3. OnlyThisTurn' /\ BatchIsDelivered'
    BY <1>0, <2>1, PartTypes DEF OnlyThisTurn, BatchIsDelivered, Live, registryVars
  <2>4. invocations'[turn] \subseteq invocations[turn]
    BY <1>0, <2>1 DEF TypeOK
  <2> QED
    BY <2>1, <2>2, <2>3, <2>4, PartTypes, HandlersStay DEF registryVars, fenceVars
<1>9. CASE CloseTurn
  <2>1. /\ adapter' = "gone" /\ batch' = {} /\ UNCHANGED <<losses, mcpVars, workerVars>>
    BY <1>9 DEF CloseTurn
  <2>2. CASE Revoke(turn)
    BY <2>1, <2>2, RetirementKeeps DEF Revoke
  <2>3. CASE UNCHANGED vars
    <3>1. OnlyThisTurn' /\ BatchIsDelivered'
      BY <1>0, <2>1, <2>3 DEF OnlyThisTurn, BatchIsDelivered, vars, registryVars
    <3> QED
      BY <2>1, <2>3, <3>1, PartTypes, HandlersStay DEF vars, registryVars, fenceVars, toolVars
  <2> QED
    BY <1>9, <2>2, <2>3 DEF CloseTurn
<1>10. CASE CancelTurn
  BY <1>10, RetirementKeeps DEF CancelTurn, Revoke
<1>11. ASSUME NEW c \in Call, ReturnResult(c) PROVE NativeIInv'
  <2>1. /\ adapter' \in {"idle", "executing", "compacting"} /\ batch' = batch \ {c} /\ c \in batch
        /\ UNCHANGED <<losses, mcpVars, workerVars>> /\ UNCHANGED <<registryVars, fenceVars>>
        /\ Live(turn) /\ c \in invocations[turn]
        /\ deliveredCallIds' = [deliveredCallIds EXCEPT ![turn] = @ \ {c}]
        /\ invocations' = [invocations EXCEPT ![turn] = @ \ {c}]
        /\ outcome' = [outcome EXCEPT ![c] = "result"]
    BY <1>11 DEF ReturnResult, CompleteTool, DeliveredCall
  <2>2. outcome[c] = "pending"
    BY <2>1 DEF BrokerInv, IInv, InvocationBooks
  <2>3. OnlyThisTurn' /\ BatchIsDelivered'
    BY <1>0, <2>1, PartTypes DEF OnlyThisTurn, BatchIsDelivered, Live, registryVars, TypeOK
  <2>4. /\ \A d \in Call : outcome[d] = "unsent" => outcome'[d] = "unsent"
        /\ \A d \in Call : outcome'[d] = "pending" => outcome[d] = "pending"
        /\ invocations'[turn] \subseteq invocations[turn]
    BY <1>0, <2>1, <2>2 DEF TypeOK
  <2> QED
    BY <2>1, <2>3, <2>4, PartTypes, HandlersStay DEF registryVars, fenceVars, Live
<1> QED
  BY <1>1, <1>2, <1>4, <1>5, <1>6, <1>7, <1>8, <1>9, <1>10, <1>11 DEF AdapterStep

LEMMA WorkerStepKeeps ==
    ASSUME BrokerInv, BrokerInv', NativeIInv, WorkerStep
    PROVE  NativeIInv'
<1> USE OneTurn, OneInvokePerRequest DEF adapterVars
<1>1. CASE CommitFence
  <2>1. /\ Live(turn) /\ activities[turn] = {} /\ invocations[turn] = {} /\ worker' = "completed"
        /\ UNCHANGED <<fence, seen, mcpVars, adapterVars>>
        /\ UNCHANGED <<registryVars, activities, toolVars>>
    BY <1>1 DEF CommitFence, CommitCompletionFence, CanCommit
  <2>2. \A a \in Activity : phase[a] \notin InLease
    BY <2>1 DEF NativeIInv, LeaseIsCounted
  <2>3. batch = {}
    BY <2>1, PartTypes DEF BatchIsDelivered, BrokerInv, IInv, InvocationBooks
  <2>4. OnlyThisTurn' /\ BatchIsDelivered'
    BY <2>1, PartTypes DEF OnlyThisTurn, BatchIsDelivered, Live, registryVars, toolVars
  <2> QED
    BY <2>1, <2>2, <2>3, <2>4, PartTypes, HandlersStay DEF registryVars, toolVars
<1>2. CASE /\ UNCHANGED <<vars, mcpVars, adapterVars>>
           /\ worker' \in {"reading", "rereading", "candidate", "completed", "cancelled"}
           /\ fence' \in Revisions \cup {NoRevision} /\ seen' \in Revisions \cup {NoRevision}
  <2>1. OnlyThisTurn' /\ BatchIsDelivered'
    BY <1>2, PartTypes DEF OnlyThisTurn, BatchIsDelivered, Live, vars, registryVars, toolVars
  <2> QED
    BY <1>2, <2>1, PartTypes, HandlersStay DEF vars, registryVars, fenceVars, toolVars
<1>3. activityRevision[turn] \in Revisions /\ FenceRevision(turn) \in Revisions \cup {NoRevision}
  <2>1. activityRevision[turn] \in Revisions
    BY RevisionFits DEF BrokerInv
  <2>2. completionRevision[turn] \in Revisions \cup {NoRevision}
    BY DEF BrokerInv, CommittedRevisionFits
  <2> QED
    BY <2>1, <2>2 DEF FenceRevision
<1>4. CASE ReadUnfinishedPage \/ RereadPage
  BY <1>2, <1>3, <1>4, PartTypes DEF ReadUnfinishedPage, RereadPage
<1>5. CASE BeginFence
  BY <1>2, <1>3, <1>5, PartTypes DEF BeginFence
<1>6. CASE RefuseCommit \/ CancelBrowser
  BY <1>2, <1>6, PartTypes DEF RefuseCommit, CancelBrowser
<1> QED
  BY <1>1, <1>4, <1>5, <1>6 DEF WorkerStep

LEMMA TimeKeeps ==
    ASSUME BrokerInv, BrokerInv', NativeIInv, Expiry \/ Pruning
    PROVE  NativeIInv'
<1> USE OneTurn, OneInvokePerRequest
<1>1. CASE Expiry
  <2>1. /\ UNCHANGED <<life, bindings, fenceVars, toolVars>>
        /\ UNCHANGED <<mcpVars, adapterVars, workerVars>>
    BY <1>1 DEF Expiry, Expire
  <2>2. OnlyThisTurn' /\ BatchIsDelivered'
    BY <2>1, PartTypes DEF OnlyThisTurn, BatchIsDelivered, Live, adapterVars, toolVars
  <2> QED
    BY <2>1, <2>2, PartTypes, HandlersStay DEF adapterVars, workerVars, toolVars, fenceVars
<1>2. CASE Pruning
  <2>1. expired = {turn}
    BY <1>2 DEF Pruning, Prune, BrokerInv, ExpiredAreLive, LiveTokens, Live, NativeIInv, OnlyThisTurn
  <2> QED
    BY <1>2, <2>1, RetirementKeeps DEF Pruning, Prune, adapterVars
<1> QED
  BY <1>1, <1>2

LEMMA NativeInit == TurnInit => NativeIInv
<1> SUFFICES ASSUME TurnInit PROVE NativeIInv
  OBVIOUS
<1> USE OneTurn, OneInvokePerRequest, LossBound DEF TurnInit
<1>1. TypeOK
  BY BrokerInit DEF BrokerInv, IInv
<1>2. TurnTypeOK
  BY <1>1 DEF TurnTypeOK, MAX_SETTLE_ATTEMPTS
<1>3. NativeInv
  BY <1>2 DEF NativeInv, Init, NoOrphanInvocation, BatchIsDelivered, NoToolAfterCompletion
<1>4. OnlyThisTurn /\ NothingBeforeTheTurn /\ LeaseIsCounted
  BY DEF Init, OnlyThisTurn, NothingBeforeTheTurn, LeaseIsCounted, InLease
<1>5. Errands
  BY DEF Init, Errands, Errand, MAX_SETTLE_ATTEMPTS
<1> QED
  BY <1>3, <1>4, <1>5 DEF NativeIInv

LEMMA TurnStepKeeps ==
    ASSUME BrokerInv, NativeIInv, [TurnNext]_turnVars
    PROVE  NativeIInv'
<1>1. BrokerInv'
  BY StepOfBroker, BrokerStep
<1>2. CASE UNCHANGED turnVars
  BY <1>2 DEF turnVars, vars, mcpVars, adapterVars, workerVars, registryVars, fenceVars, toolVars,
     compactionVars, NativeIInv, NativeInv, TurnTypeOK, TypeOK, NoOrphanInvocation, BatchIsDelivered,
     NoToolAfterCompletion, Live, OnlyThisTurn, NothingBeforeTheTurn, LeaseIsCounted, Errands, Errand
<1>3. CASE TurnNext
  BY <1>1, <1>3, McpStepKeeps, DispatchStepKeeps, AdapterStepKeeps, WorkerStepKeeps, TimeKeeps
     DEF TurnNext
<1> QED
  BY <1>2, <1>3

\* The books of broker, MCP server, adapter and browser worker agree in every state
\* of a turn with any number of concurrent tool calls: no invocation outlives its
\* handler, and no tool runs once the browser's answer is final.
THEOREM NativeCorrect == TurnSpec => []NativeInv
<1>1. NativeIInv => NativeInv
  BY DEF NativeIInv
<1> QED
  BY <1>1, NativeInit, TurnStepKeeps, NativeBroker, PTL DEF TurnSpec

-----------------------------------------------------------------------------
(* The final page *)

\* A candidate's page was read after its revision was taken, and an uncommitted turn
\* is the only one whose page is still read.
PageFollowsFence ==
    /\ completionCommitted[turn] => worker = "completed"
    /\ worker = "rereading" => fence \in Nat /\ fence <= activityRevision[turn]
    /\ worker = "candidate" => /\ fence \in Nat /\ seen \in Nat
                               /\ fence <= seen /\ seen <= activityRevision[turn]

LEMMA PageStep ==
    ASSUME BrokerInv, NativeIInv, PageFollowsFence, [TurnNext]_turnVars
    PROVE  /\ PageFollowsFence'
           /\ worker' = "completed" => worker = "completed" \/ seen = activityRevision[turn]
<1> USE OneTurn
<1>0. /\ activityRevision[turn] \in Nat /\ activityRevision'[turn] \in Nat
      /\ activityRevision[turn] <= activityRevision'[turn]
  BY StepOfBroker, BrokerStep, StepAdvances DEF BrokerInv, IInv, TypeOK
<1>1. CASE WorkerStep
  <2>1. CASE CommitFence
    BY <1>0, <1>1, <2>1 DEF CommitFence, CommitCompletionFence, CanCommit, PageFollowsFence
  <2>2. CASE ReadUnfinishedPage \/ RefuseCommit
    BY <1>0, <2>2 DEF ReadUnfinishedPage, RefuseCommit, PageFollowsFence, vars, fenceVars
  <2>3. CASE BeginFence
    <3>1. ~completionCommitted[turn]
      BY <2>3 DEF BeginFence, PageFollowsFence
    <3> QED
      BY <1>0, <2>3, <3>1 DEF BeginFence, FenceRevision, PageFollowsFence, vars, fenceVars
  <2>4. CASE RereadPage
    BY <1>0, <2>4 DEF RereadPage, PageFollowsFence, vars, fenceVars
  <2>5. CASE CancelBrowser
    BY <1>0, <2>5 DEF CancelBrowser, PageFollowsFence, vars, fenceVars
  <2> QED
    BY <1>1, <2>1, <2>2, <2>3, <2>4, <2>5 DEF WorkerStep
<1>2. ASSUME UNCHANGED workerVars, UNCHANGED completionCommitted
      PROVE  /\ PageFollowsFence'
             /\ worker' = "completed" => worker = "completed" \/ seen = activityRevision[turn]
  BY <1>0, <1>2 DEF PageFollowsFence, workerVars
<1>3. ASSUME NEW S, NEW failure, RevokeAll(S, failure) PROVE UNCHANGED completionCommitted
  BY <1>3 DEF RevokeAll, fenceVars
<1>4. ASSUME NEW a \in Activity, McpStep(a) PROVE UNCHANGED workerVars /\ UNCHANGED completionCommitted
  BY <1>4 DEF McpStep, InvokeTool, FinishLocally, ReceiveAnswer, RetrySettle, GiveUpClaim,
     GiveUpInvoke, StartCall, Sends, vars, fenceVars
<1>5. ASSUME NEW a \in Activity, DispatchStep(a)
      PROVE  UNCHANGED workerVars /\ UNCHANGED completionCommitted
  <2>1. CASE DispatchClaim(a) \/ DispatchComplete(a) \/ DispatchInvoke(a)
    BY <2>1 DEF DispatchClaim, DispatchComplete, DispatchInvoke, Reads, Claim, ActivityComplete,
       Invoke, fenceVars, vars
  <2>2. CASE RefuseClaim(a) \/ RefuseInvoke(a)
    BY <2>2 DEF RefuseClaim, RefuseInvoke, vars, fenceVars
  <2>3. CASE DispatchRelease(a)
    BY <1>3, <2>3 DEF DispatchRelease, Release, vars, fenceVars
  <2> QED
    BY <1>5, <2>1, <2>2, <2>3 DEF DispatchStep
<1>6. CASE AdapterStep \/ Expiry \/ Pruning
  <2>1. UNCHANGED workerVars
    BY <1>6 DEF AdapterStep, OpenTurn, WatchTurn, AskForTools, TimerFires, Journal, LoseObserver,
       StartCompaction, CloseTurn, CancelTurn, ReturnResult, Expiry, Pruning
  <2>2. ASSUME OpenTurn \/ WatchTurn \/ Expiry
        PROVE  UNCHANGED completionCommitted
    BY <2>2 DEF OpenTurn, WatchTurn, Expiry, Register, WaitForRetirement, Expire, fenceVars
  <2>3. ASSUME CloseTurn \/ CancelTurn \/ Pruning
        PROVE  UNCHANGED completionCommitted
    BY <1>3, <2>3 DEF CloseTurn, CancelTurn, Pruning, Revoke, Prune, vars, fenceVars
  <2>4. ASSUME AskForTools \/ TimerFires \/ Journal \/ LoseObserver \/ StartCompaction
        PROVE  UNCHANGED completionCommitted
    BY <2>4 DEF AskForTools, TimerFires, Journal, LoseObserver, StartCompaction, NextImmediate,
       NextWait, BatchTimer, AbortWaiter, RequestCompaction, vars, fenceVars
  <2>5. ASSUME NEW c \in Call, ReturnResult(c) PROVE UNCHANGED completionCommitted
    BY <2>5 DEF ReturnResult, CompleteTool, fenceVars
  <2>6. UNCHANGED completionCommitted
    BY <1>6, <2>2, <2>3, <2>4, <2>5 DEF AdapterStep
  <2> QED
    BY <1>2, <2>1, <2>6
<1>7. CASE UNCHANGED turnVars
  BY <1>2, <1>7 DEF turnVars, vars, fenceVars
<1> QED
  BY <1>1, <1>2, <1>4, <1>5, <1>6, <1>7 DEF TurnNext

\* The page the final answer is taken from was read after the last tool activity.
THEOREM NativePageIsFresh == TurnSpec => FinalPageIsFresh
<1>1. TurnInit => PageFollowsFence
  BY OneTurn DEF TurnInit, Init, PageFollowsFence
<1>2. BrokerInv /\ NativeIInv /\ PageFollowsFence /\ [TurnNext]_turnVars =>
          /\ PageFollowsFence'
          /\ [worker' = "completed" => worker = "completed" \/ seen = activityRevision[turn]]_turnVars
  BY PageStep
<1> QED
  BY <1>1, <1>2, NativeInit, TurnStepKeeps, NativeBroker, PTL DEF TurnSpec, FinalPageIsFresh

-----------------------------------------------------------------------------
(* Numbers *)

\* A set of numbers that holds 0 and every successor holds them all up to a bound: otherwise
\* those missing could be mapped one to one into themselves without the last.
LEMMA CountsUp ==
    ASSUME NEW n \in Nat, NEW G, 0 \in G, \A i \in 0..(n - 1) : i \in G => i + 1 \in G
    PROVE  \A i \in 0..n : i \in G
<1> DEFINE B == {i \in 0..n : i \notin G}
<1> SUFFICES ASSUME NEW x \in B PROVE FALSE
  OBVIOUS
<1>1. IsFiniteSet(B)
  BY FS_Interval, FS_Subset, 0..n \in SUBSET (0..n), IsFiniteSet(0..n)
<1> DEFINE C == {i \in B : i # x /\ i < x}
           D == {i \in B : i <= x}
           h == [i \in D |-> i - 1]
<1>2. \A i \in D : i # 0 /\ i - 1 \in C
  <2> TAKE i \in D
  <2>1. i \in 0..n /\ i \notin G /\ i <= x /\ x \in 0..n
    OBVIOUS
  <2>2. i # 0 /\ i - 1 \in 0..(n - 1) /\ i - 1 + 1 = i
    BY <2>1
  <2>3. i - 1 \notin G
    BY <2>1, <2>2
  <2> QED
    BY <2>1, <2>2, <2>3
<1>3. h \in Injection(D, C)
  <2>1. h \in [D -> C]
    BY <1>2
  <2>2. \A i, j \in D : h[i] = h[j] => i = j
    OBVIOUS
  <2> QED
    BY <2>1, <2>2 DEF Injection, IsInjective
<1>4. IsFiniteSet(D) /\ IsFiniteSet(C) /\ x \in D /\ C = D \ {x}
  <2>1. D \in SUBSET B /\ C \in SUBSET B
    OBVIOUS
  <2>2. IsFiniteSet(D) /\ IsFiniteSet(C)
    BY <1>1, <2>1, FS_Subset
  <2>3. C = D \ {x}
    OBVIOUS
  <2> QED
    BY <2>2, <2>3
<1>5. Cardinality(D) <= Cardinality(C)
  BY <1>3, <1>4, FS_Injection
<1>6. Cardinality(C) = Cardinality(D) - 1 /\ Cardinality(D) \in Nat
  <2> HIDE DEF D, C
  <2>1. Cardinality(D \ {x}) = Cardinality(D) - 1
    BY <1>4, FS_RemoveElement
  <2>2. Cardinality(D) \in Nat
    BY <1>4, FS_CardinalityType
  <2> QED
    BY <1>4, <2>1, <2>2
<1> QED
  BY <1>5, <1>6

\* So a set of numbers has a least member.
LEMMA HasLeast ==
    ASSUME NEW n \in Nat, NEW S \in SUBSET (0..n), S # {}
    PROVE  \E m \in S : \A k \in S : m <= k
<1> DEFINE G == {i \in 0..n : \A k \in S : i <= k}
<1> SUFFICES ASSUME \A m \in S : \E k \in S : k < m PROVE FALSE
  OBVIOUS
<1>1. 0 \in G
  OBVIOUS
<1>2. \A i \in 0..(n - 1) : i \in G => i + 1 \in G
  <2> SUFFICES ASSUME NEW i \in 0..(n - 1), i \in G, NEW k \in S PROVE i + 1 <= k
    OBVIOUS
  <2>1. i <= k /\ k \in 0..n
    OBVIOUS
  <2>2. k # i
    OBVIOUS
  <2> QED
    BY <2>1, <2>2
<1> HIDE DEF G
<1>3. \A i \in 0..n : i \in G
  BY <1>1, <1>2, CountsUp
<1>4. \A k \in S : n <= k
  BY <1>3 DEF G
<1>5. \A k \in S : k = n
  BY <1>4
<1>6. PICK k \in S : TRUE
  OBVIOUS
<1>7. PICK j \in S : j < k
  OBVIOUS
<1> QED
  BY <1>5, <1>7

\* A bounded one has a greatest: the least distance to the bound.
LEMMA HasGreatest ==
    ASSUME NEW n \in Nat, NEW S \in SUBSET (0..n), S # {}
    PROVE  Max(S) \in S /\ \A k \in S : k <= Max(S)
<1> DEFINE T == {n - k : k \in S}
<1>1. T \in SUBSET (0..n) /\ T # {}
  <2>1. \A k \in S : n - k \in 0..n
    OBVIOUS
  <2>2. T \in SUBSET (0..n)
    BY <2>1, Zenon
  <2> QED
    BY <2>2, Zenon
<1> HIDE DEF T
<1>2. PICK m \in T : \A k \in T : m <= k
  BY <1>1, HasLeast
<1>3. PICK x \in S : m = n - x
  BY DEF T
<1>4. \A k \in S : x >= k
  <2> TAKE k \in S
  <2>1. n - k \in T
    BY DEF T
  <2>2. n - x <= n - k
    BY <1>2, <1>3, <2>1
  <2> QED
    BY <2>2
<1>5. Max(S) \in S /\ \A k \in S : Max(S) >= k
  BY <1>4 DEF Max
<1> QED
  BY <1>5

LEMMA HasLeastOne ==
    ASSUME NEW n \in Nat, NEW S \in SUBSET (0..n), S # {}
    PROVE  Min(S) \in S /\ \A k \in S : Min(S) <= k
<1>1. PICK m \in S : \A k \in S : m <= k
  BY HasLeast
<1> QED
  BY <1>1 DEF Min

-----------------------------------------------------------------------------
(* Rolling checkpoint: what the daemon and the history agree on *)

\* What the first n items of a history told.
Heard(h, n) == {h[j].id : j \in {i \in 1..n : Says(h[i])}}
Unanswered(h, n) ==
    \E i \in 1..(n - 1) : Says(h[i]) /\ Says(h[i + 1]) /\ h[i].turn # h[i + 1].turn
Twice(h, n) == \E i, j \in 1..n : i < j /\ Answered(h[i]) /\ h[i] = h[j]

\* Turns follow each other and begin with an instruction.
HistoryItem == [k : {"user", "answer"}, turn : Nat, text : AnswerText \cup {""}, id : Nat]
HistoryOf(h, t) ==
    /\ t \in Nat /\ h \in Seq(HistoryItem)
    /\ \A i \in 1..Len(h) : h[i].turn <= t /\ (Answered(h[i]) => h[i].id = 0)
    /\ \A i, j \in 1..Len(h) : i < j => h[i].turn <= h[j].turn
    /\ \A i \in 1..Len(h) : Answered(h[i]) => i > 1 /\ h[i - 1].turn = h[i].turn

Holds(x, c) == Answered(x) /\ x.turn = c.turn /\ x.text = c.text
\* An answer of which nothing is known that the code would mistake.
Plain(h, i) == ~Unanswered(h, i) /\ ~Twice(h, i) /\ \A j \in 1..Len(h) : h[j] = h[i] => j = i

Checkpoint == [text : AnswerText, turn : Nat, covers : SUBSET Nat, old : BOOLEAN]
\* A checkpoint belongs to an answer, until its turn is rolled back, and covers what that
\* answer was told.
EntryOf(c, h, t) ==
    /\ c \in Checkpoint /\ c.turn <= t
    /\ (\E j \in 1..Len(h) : h[j].turn = c.turn) => \E i \in 1..Len(h) : Holds(h[i], c)
    /\ \A i \in 1..Len(h) : Holds(h[i], c) /\ Plain(h, i) => c.covers = Heard(h, i)
\* An answer has one.
ListOf(m, h, t) ==
    /\ m \in Seq(Checkpoint) /\ \A i, j \in 1..Len(m) : m[i].text = m[j].text => i = j
    /\ \A n \in 1..Len(m) : EntryOf(m[n], h, t)

StoreHolds == /\ ListOf(memory, past, turns) /\ ListOf(saved.list, past, turns)
              /\ saved = [damaged |-> saved.damaged, list |-> saved.list]
              /\ saved.damaged \in BOOLEAN /\ loaded \in BOOLEAN
              /\ costs \in Nat /\ costs <= (IF loaded THEN 1 ELSE 0)

\* The turn that runs is the last of the history, and was told all of it.
LiveBooks ==
    live # NoTurn =>
        /\ live = [turn |-> live.turn, told |-> live.told, parent |-> live.parent,
                   page |-> live.page, read |-> live.read]
        /\ Len(past) > 0 /\ Says(past[Len(past)]) /\ live.turn = past[Len(past)].turn
        /\ live.told \in SUBSET Nat
        /\ ~Unanswered(past, Len(past)) /\ ~Twice(past, Len(past)) => live.told = Heard(past, Len(past))

Token4 == {"t", "m1", "m2", "c"}
\* No marker begins among the first n tokens of a page.
Unmarked(p, n) == \A j \in 1..n : j + 1 <= Len(p) => ~(p[j] = "m1" /\ p[j + 1] = "m2")
\* The stream splits what it has read of the page into what it shows and what it holds back.
StreamOf(p, read, s, q, found) ==
    /\ p = << >> \/ p \in Page
    /\ read \in 0..Len(p) /\ Len(s) <= read
    /\ \A i \in 1..Len(s) : s[i] = p[i]
    /\ found => Unmarked(p, Len(s))
    /\ ~found => /\ Len(s) + Len(q) = read
                 /\ \A i \in 1..Len(q) : q[i] = p[Len(s) + i]
                 /\ Len(s) > 0 => Len(q) > 0
                 /\ Unmarked(p, read - 1)
\* What a snapshot of the page, up to its token n, leaves to look at.
Snapshot(p, read, s, q, n, all) ==
    /\ StreamOf(p, read, s, q, FALSE) /\ s \in Seq(Token4) /\ q \in Seq(Token4)
    /\ n \in (read + 1)..Len(p) /\ all = q \o SubSeq(p, read + 1, n)
StreamBooks == live # NoTurn => StreamOf(live.page, live.read, shown, pend, cut)
Kept(s) == (\A i \in 1..Len(s) : s[i] # "c") /\ Unmarked(s, Len(s) - 1)
Private == Kept(shown)
StreamTypes == shown \in Seq(Token4) /\ pend \in Seq(Token4) /\ cut \in BOOLEAN

CheckpointIInv == /\ said \in Nat /\ HistoryOf(past, turns) /\ StoreHolds /\ LiveBooks
                  /\ StreamTypes /\ StreamBooks /\ Private

-----------------------------------------------------------------------------
(* Rolling checkpoint: the list of the store *)

LEMMA ItemsApart ==
    ASSUME NEW x \in HistoryItem, NEW y \in HistoryItem, Answered(x), Answered(y),
           x.id = y.id, x.turn = y.turn, x.text = y.text
    PROVE  x = y
<1>1. /\ x = [k |-> x.k, turn |-> x.turn, text |-> x.text, id |-> x.id]
      /\ y = [k |-> y.k, turn |-> y.turn, text |-> y.text, id |-> y.id]
  BY DEF HistoryItem
<1>2. x.k = "answer" /\ y.k = "answer"
  BY DEF Answered
<1> QED
  BY <1>1, <1>2

\* Histories that agree on their first items.
LEMMA SameBeginning ==
    ASSUME NEW h, NEW g, NEW n \in Nat, \A i \in 1..n : g[i] = h[i]
    PROVE  /\ Heard(g, n) = Heard(h, n) /\ (Unanswered(g, n) <=> Unanswered(h, n))
           /\ (Twice(g, n) <=> Twice(h, n))
<1>1. Heard(g, n) = Heard(h, n)
  BY DEF Heard
<1>2. Unanswered(g, n) <=> Unanswered(h, n)
  BY DEF Unanswered
<1>3. Twice(g, n) <=> Twice(h, n)
  BY DEF Twice
<1> QED
  BY <1>1, <1>2, <1>3

\* An item that is said or answered leaves every checkpoint what it was.
LEMMA EntryExtends ==
    ASSUME NEW h, NEW t, HistoryOf(h, t), NEW x \in HistoryItem, NEW u, HistoryOf(Append(h, x), u),
           t <= u, x.turn > t \/ \E j \in 1..Len(h) : h[j].turn = x.turn,
           NEW c, EntryOf(c, h, t)
    PROVE  EntryOf(c, Append(h, x), u)
<1> DEFINE g == Append(h, x)
           n == Len(h) + 1
<1>1. /\ Len(g) = n /\ g[n] = x /\ \A i \in 1..Len(h) : g[i] = h[i]
      /\ Len(h) \in Nat /\ \A i \in 1..Len(h) : h[i] \in HistoryItem
  BY DEF HistoryOf
<1>2. \A i \in 1..n : i \in 1..Len(h) \/ i = n
  BY <1>1
<1>3. HistoryOf(g, u)
  OBVIOUS
<1>0. g = Append(h, x)
  OBVIOUS
<1> HIDE DEF g
<1>4. c \in Checkpoint /\ c.turn <= t /\ c.turn \in Nat /\ t \in Nat /\ u \in Nat /\ x.turn \in Nat
  BY <1>3 DEF EntryOf, Checkpoint, HistoryOf, HistoryItem
<1>5. ASSUME NEW j \in 1..Len(g), g[j].turn = c.turn PROVE \E i \in 1..Len(h) : Holds(h[i], c)
  <2>1. \E i \in 1..Len(h) : h[i].turn = c.turn
    <3>1. CASE j \in 1..Len(h)
      BY <1>1, <1>5, <3>1
    <3>2. CASE j = n
      <4>1. x.turn = c.turn
        BY <1>1, <1>5, <3>2
      <4>2. ~(x.turn > t)
        BY <1>4, <4>1
      <4> QED
        BY <4>1, <4>2
    <3> QED
      BY <1>1, <1>2, <3>1, <3>2
  <2> QED
    BY <2>1 DEF EntryOf
<1>6. ASSUME NEW j \in 1..Len(g), g[j].turn = c.turn PROVE \E i \in 1..Len(g) : Holds(g[i], c)
  <2>1. PICK i \in 1..Len(h) : Holds(h[i], c)
    BY <1>5, <1>6
  <2>2. i \in 1..Len(g) /\ g[i] = h[i]
    BY <1>1
  <2> QED
    BY <2>1, <2>2
<1>7. ASSUME NEW i \in 1..Len(g), Holds(g[i], c), Plain(g, i) PROVE c.covers = Heard(g, i)
  <2>1. CASE i = n
    <3>1. g[i].turn = c.turn
      BY <1>7 DEF Holds
    <3>2. PICK j \in 1..Len(h) : Holds(h[j], c)
      BY <1>5, <3>1
    <3>3. g[j] = g[n] /\ j # n /\ j \in 1..Len(g)
      <4>1. g[j] = h[j] /\ j # n /\ j \in 1..Len(g) /\ h[j].id = 0
        BY <1>1, <3>2 DEF HistoryOf, Holds
      <4>2. g[n].id = 0
        BY <1>1, <1>3, <1>7, <2>1 DEF HistoryOf, Holds
      <4>3. g[n] \in HistoryItem /\ h[j] \in HistoryItem
        BY <1>1
      <4>4. Answered(g[n]) /\ Answered(h[j]) /\ g[n].turn = h[j].turn /\ g[n].text = h[j].text
        BY <1>7, <2>1, <3>2 DEF Holds
      <4>5. g[n] = h[j]
        BY <4>1, <4>2, <4>3, <4>4, ItemsApart
      <4> QED
        BY <4>1, <4>5
    <3> QED
      BY <1>7, <2>1, <3>3 DEF Plain
  <2>2. CASE i \in 1..Len(h)
    <3>1. Holds(h[i], c)
      BY <1>1, <1>7, <2>2
    <3>2. \A k \in 1..i : g[k] = h[k]
      BY <1>1, <2>2
    <3>3. Heard(g, i) = Heard(h, i) /\ (Unanswered(g, i) <=> Unanswered(h, i)) /\ (Twice(g, i) <=> Twice(h, i))
      BY <2>2, <3>2, SameBeginning
    <3>4. Plain(h, i)
      BY <1>1, <1>7, <2>2, <3>3 DEF Plain
    <3> QED
      BY <2>2, <3>1, <3>3, <3>4 DEF EntryOf
  <2> QED
    BY <1>1, <1>2, <2>1, <2>2
<1>8. c.turn <= u
  BY <1>4
<1>9. EntryOf(c, g, u)
  BY <1>4, <1>6, <1>7, <1>8, Zenon DEF EntryOf
<1> QED
  BY <1>0, <1>9

LEMMA ListExtends ==
    ASSUME NEW h, NEW t, HistoryOf(h, t), NEW x \in HistoryItem, NEW u, HistoryOf(Append(h, x), u),
           t <= u, x.turn > t \/ \E j \in 1..Len(h) : h[j].turn = x.turn,
           NEW m, ListOf(m, h, t)
    PROVE  ListOf(m, Append(h, x), u)
<1>1. \A n \in 1..Len(m) : EntryOf(m[n], Append(h, x), u)
  <2> TAKE n \in 1..Len(m)
  <2>1. EntryOf(m[n], h, t)
    BY DEF ListOf
  <2> QED
    BY <2>1, EntryExtends
<1> QED
  BY <1>1, Zenon DEF ListOf

\* A history whose last turns are dropped, whole.
LEMMA HistoryCut ==
    ASSUME NEW h, NEW t, HistoryOf(h, t), NEW n \in 1..(Len(h) - 1)
    PROVE  HistoryOf(SubSeq(h, 1, n), t)
<1> DEFINE g == SubSeq(h, 1, n)
<1>1. h \in Seq(HistoryItem) /\ Len(h) \in Nat /\ n \in 0..Len(h) /\ n \in Nat
  BY DEF HistoryOf
<1>2. g \in Seq(HistoryItem) /\ Len(g) = n /\ \A i \in 1..n : g[i] = h[i]
  BY <1>1
<1> HIDE DEF g
<1>3. 1..Len(g) \subseteq 1..Len(h) /\ \A i \in 1..Len(g) : i > 1 => i - 1 \in 1..Len(g)
  BY <1>1, <1>2
<1>4. /\ t \in Nat
      /\ \A i \in 1..Len(g) : g[i].turn <= t /\ (Answered(g[i]) => g[i].id = 0)
  BY <1>2, <1>3 DEF HistoryOf
<1>5. \A i, j \in 1..Len(g) : i < j => g[i].turn <= g[j].turn
  BY <1>2, <1>3 DEF HistoryOf
<1>6. \A i \in 1..Len(g) : Answered(g[i]) => i > 1 /\ g[i - 1].turn = g[i].turn
  BY <1>2, <1>3 DEF HistoryOf
<1>7. HistoryOf(g, t)
  BY <1>2, <1>4, <1>5, <1>6 DEF HistoryOf
<1> QED
  BY <1>7 DEF g

\* Such a cut leaves the checkpoints of the answers it keeps what they were.
LEMMA EntryCut ==
    ASSUME NEW h, NEW t, HistoryOf(h, t), NEW n \in 1..(Len(h) - 1), h[n].turn # h[n + 1].turn,
           NEW c, EntryOf(c, h, t)
    PROVE  EntryOf(c, SubSeq(h, 1, n), t)
<1> DEFINE g == SubSeq(h, 1, n)
<1>1. /\ h \in Seq(HistoryItem) /\ Len(h) \in Nat /\ n \in 1..Len(h) /\ n + 1 \in 1..Len(h) /\ n \in Nat
      /\ \A i \in 1..Len(h) : h[i].turn \in Nat
      /\ \A i, j \in 1..Len(h) : i < j => h[i].turn <= h[j].turn
  <2>1. /\ h \in Seq(HistoryItem) /\ Len(h) \in Nat
        /\ \A i, j \in 1..Len(h) : i < j => h[i].turn <= h[j].turn
    BY DEF HistoryOf
  <2>2. \A i \in 1..Len(h) : h[i] \in HistoryItem
    BY <2>1
  <2>3. \A i \in 1..Len(h) : h[i].turn \in Nat
    BY <2>2 DEF HistoryItem
  <2> QED
    BY <2>1, <2>3
<1>2. Len(g) = n /\ (\A i \in 1..n : g[i] = h[i]) /\ 1..Len(g) \subseteq 1..Len(h)
  BY <1>1
<1>0. g = SubSeq(h, 1, n)
  OBVIOUS
<1> HIDE DEF g
<1>3. \A i \in 1..n, j \in 1..Len(h) : h[i].turn = h[j].turn => j \in 1..n
  <2> TAKE i \in 1..n, j \in 1..Len(h)
  <2> SUFFICES ASSUME h[i].turn = h[j].turn, j > n PROVE FALSE
    BY <1>1
  <2>1. h[n].turn < h[n + 1].turn
    BY <1>1
  <2>2. h[i].turn <= h[n].turn
    BY <1>1
  <2>3. h[n + 1].turn <= h[j].turn
    BY <1>1
  <2> QED
    BY <1>1, <2>1, <2>2, <2>3
<1>4. ASSUME NEW j \in 1..Len(g), g[j].turn = c.turn PROVE \E i \in 1..Len(g) : Holds(g[i], c)
  <2>1. h[j].turn = c.turn /\ j \in 1..Len(h) /\ j \in 1..n
    BY <1>2, <1>4
  <2>2. PICK i \in 1..Len(h) : Holds(h[i], c)
    BY <2>1 DEF EntryOf
  <2>3. i \in 1..n
    BY <1>3, <2>1, <2>2 DEF Holds
  <2> QED
    BY <1>2, <2>2, <2>3
<1>5. ASSUME NEW i \in 1..Len(g), Holds(g[i], c), Plain(g, i) PROVE c.covers = Heard(g, i)
  <2>1. i \in 1..n /\ i \in Nat /\ i \in 1..Len(h) /\ Holds(h[i], c) /\ \A k \in 1..i : g[k] = h[k]
    BY <1>1, <1>2, <1>5
  <2>2. Heard(g, i) = Heard(h, i) /\ (Unanswered(g, i) <=> Unanswered(h, i)) /\ (Twice(g, i) <=> Twice(h, i))
    BY <2>1, SameBeginning
  <2>3. \A j \in 1..Len(h) : h[j] = h[i] => j = i
    BY <1>2, <1>3, <1>5, <2>1 DEF Plain
  <2>4. Plain(h, i)
    BY <1>5, <2>2, <2>3 DEF Plain
  <2> QED
    BY <2>1, <2>2, <2>4 DEF EntryOf
<1>6. EntryOf(c, g, t)
  BY <1>4, <1>5, Zenon DEF EntryOf
<1> QED
  BY <1>0, <1>6

LEMMA ListCut ==
    ASSUME NEW h, NEW t, HistoryOf(h, t), NEW n \in 1..(Len(h) - 1), h[n].turn # h[n + 1].turn,
           NEW m, ListOf(m, h, t)
    PROVE  ListOf(m, SubSeq(h, 1, n), t)
<1>1. \A k \in 1..Len(m) : EntryOf(m[k], SubSeq(h, 1, n), t)
  <2> TAKE k \in 1..Len(m)
  <2>1. EntryOf(m[k], h, t)
    BY DEF ListOf
  <2> QED
    BY <2>1, EntryCut
<1> QED
  BY <1>1, Zenon DEF ListOf

\* The newest checkpoints of a list are a list.
LEMMA ListTail ==
    ASSUME NEW m, NEW h, NEW t, ListOf(m, h, t), NEW k \in 0..Len(m)
    PROVE  /\ ListOf(SubSeq(m, k + 1, Len(m)), h, t)
           /\ \A i \in 1..Len(SubSeq(m, k + 1, Len(m))) :
                \E j \in 1..Len(m) : SubSeq(m, k + 1, Len(m))[i] = m[j]
<1> DEFINE s == SubSeq(m, k + 1, Len(m))
<1>1. m \in Seq(Checkpoint) /\ Len(m) \in Nat /\ k \in Nat
  BY DEF ListOf
<1>2. /\ s \in Seq(Checkpoint) /\ Len(s) = Len(m) - k
      /\ \A i \in 1..Len(s) : s[i] = m[k + i] /\ k + i \in 1..Len(m)
  BY <1>1
<1>0. s = SubSeq(m, k + 1, Len(m))
  OBVIOUS
<1> HIDE DEF s
<1>3. \A i, j \in 1..Len(s) : s[i].text = s[j].text => i = j
  <2> TAKE i, j \in 1..Len(s)
  <2>1. s[i] = m[k + i] /\ s[j] = m[k + j] /\ k + i \in 1..Len(m) /\ k + j \in 1..Len(m)
    BY <1>2
  <2>2. m[k + i].text = m[k + j].text => k + i = k + j
    BY <2>1 DEF ListOf
  <2> QED
    BY <1>1, <2>1, <2>2
<1>4. \A n \in 1..Len(s) : EntryOf(s[n], h, t)
  BY <1>2 DEF ListOf
<1>5. ListOf(s, h, t)
  BY <1>2, <1>3, <1>4 DEF ListOf
<1>6. \A i \in 1..Len(s) : \E j \in 1..Len(m) : s[i] = m[j]
  BY <1>2
<1> QED
  BY <1>0, <1>5, <1>6

\* PruneStore drops the oldest.
LEMMA PruneDrops ==
    ASSUME NEW m \in Seq(Checkpoint)
    PROVE  \E k \in 0..Len(m) : PruneStore(m) = SubSeq(m, k + 1, Len(m))
<1> DEFINE X == {i \in DOMAIN m : m[i].old}
           e == Cardinality(X)
<1>1. Len(m) \in Nat /\ DOMAIN m = 1..Len(m)
  OBVIOUS
<1>2. IsFiniteSet(1..Len(m)) /\ Cardinality(1..Len(m)) = Len(m)
  BY <1>1, FS_Interval
<1>3. e \in Nat /\ e <= Len(m)
  <2>1. X \in SUBSET (1..Len(m))
    BY <1>1
  <2>2. IsFiniteSet(X) /\ Cardinality(X) <= Cardinality(1..Len(m))
    BY <1>2, <2>1, FS_Subset
  <2>3. Cardinality(X) \in Nat
    BY <2>2, FS_CardinalityType
  <2> QED
    BY <1>2, <2>2, <2>3
<1> DEFINE k == Max({e, Len(m) - MAX_STORED})
<1>4. PruneStore(m) = SubSeq(m, k + 1, Len(m))
  BY DEF PruneStore
<1> HIDE DEF e
<1>5. k \in 0..Len(m)
  <2>1. MAX_STORED \in Nat
    BY CheckpointBounds
  <2>2. \E x \in {e, Len(m) - MAX_STORED} : \A y \in {e, Len(m) - MAX_STORED} : x >= y
    BY <1>1, <1>3, <2>1
  <2>3. k \in {e, Len(m) - MAX_STORED} /\ \A y \in {e, Len(m) - MAX_STORED} : k >= y
    BY <2>2 DEF Max
  <2> QED
    BY <1>1, <1>3, <2>1, <2>3
<1> QED
  BY <1>4, <1>5

LEMMA PrunedList ==
    ASSUME NEW m, NEW h, NEW t, ListOf(m, h, t)
    PROVE  ListOf(PruneStore(m), h, t)
<1>1. PICK k \in 0..Len(m) : PruneStore(m) = SubSeq(m, k + 1, Len(m))
  BY PruneDrops DEF ListOf
<1> QED
  BY <1>1, ListTail

\* The checkpoints of the other answers, and a new one.
LEMMA ListWithNew ==
    ASSUME NEW m, NEW h, NEW t, ListOf(m, h, t), NEW c, EntryOf(c, h, t),
           \A i \in 1..Len(m) : m[i].text # c.text
    PROVE  ListOf(Append(m, c), h, t)
<1> DEFINE s == Append(m, c)
<1>1. m \in Seq(Checkpoint) /\ Len(m) \in Nat /\ c \in Checkpoint
  BY DEF ListOf, EntryOf
<1>2. /\ s \in Seq(Checkpoint) /\ Len(s) = Len(m) + 1 /\ s[Len(m) + 1] = c
      /\ \A i \in 1..Len(m) : s[i] = m[i]
      /\ \A i \in 1..Len(s) : i \in 1..Len(m) \/ i = Len(m) + 1
  BY <1>1
<1> HIDE DEF s
<1>3. \A i, j \in 1..Len(s) : s[i].text = s[j].text => i = j
  BY <1>2 DEF ListOf
<1>4. \A n \in 1..Len(s) : EntryOf(s[n], h, t)
  BY <1>2 DEF ListOf
<1>5. ListOf(s, h, t)
  BY <1>2, <1>3, <1>4 DEF ListOf
<1> QED
  BY <1>5 DEF s

LEMMA ListWithout ==
    ASSUME NEW m, NEW h, NEW t, ListOf(m, h, t), NEW k \in 1..Len(m)
    PROVE  /\ ListOf(RemoveAt(m, k), h, t)
           /\ \A i \in 1..Len(RemoveAt(m, k)) : RemoveAt(m, k)[i].text # m[k].text
<1> DEFINE s == RemoveAt(m, k)
           at(i) == IF i < k THEN i ELSE i + 1
<1>1. m \in Seq(Checkpoint) /\ Len(m) \in Nat /\ k \in Nat
  BY DEF ListOf
<1>2. /\ s \in Seq(Checkpoint) /\ Len(s) = Len(m) - 1
      /\ \A i \in 1..Len(s) : s[i] = m[at(i)]
  <2> DEFINE p == SubSeq(m, 1, k - 1)
             q == SubSeq(m, k + 1, Len(m))
  <2>1. s = p \o q
    BY DEF RemoveAt
  <2>2. p \in Seq(Checkpoint) /\ Len(p) = k - 1 /\ \A i \in 1..(k - 1) : p[i] = m[i]
    BY <1>1
  <2>3. q \in Seq(Checkpoint) /\ Len(q) = Len(m) - k /\ \A i \in 1..(Len(m) - k) : q[i] = m[k + i]
    BY <1>1
  <2> HIDE DEF p, q, s
  <2>4. s \in Seq(Checkpoint) /\ Len(s) = Len(m) - 1
    BY <1>1, <2>1, <2>2, <2>3
  <2>5. \A i \in 1..Len(s) : s[i] = m[at(i)]
    <3> TAKE i \in 1..Len(s)
    <3>1. CASE i < k
      BY <1>1, <2>1, <2>2, <2>3, <2>4, <3>1
    <3>2. CASE ~(i < k)
      <4>1. s[i] = q[i - (k - 1)]
        BY <1>1, <2>1, <2>2, <2>3, <2>4, <3>2
      <4>2. i - (k - 1) \in 1..(Len(m) - k) /\ k + (i - (k - 1)) = i + 1
        BY <1>1, <2>4, <3>2
      <4> QED
        BY <2>3, <3>2, <4>1, <4>2
    <3> QED
      BY <3>1, <3>2
  <2> QED
    BY <2>4, <2>5
<1>3. /\ \A i \in 1..Len(s) : at(i) \in 1..Len(m) /\ at(i) # k
      /\ \A i, j \in 1..Len(s) : at(i) = at(j) => i = j
  BY <1>1, <1>2
<1>0. s = RemoveAt(m, k)
  OBVIOUS
<1> HIDE DEF s, at
<1>4. \A i, j \in 1..Len(s) : s[i].text = s[j].text => i = j
  BY <1>2, <1>3 DEF ListOf
<1>5. \A n \in 1..Len(s) : EntryOf(s[n], h, t)
  BY <1>2, <1>3 DEF ListOf
<1>6. \A i \in 1..Len(s) : s[i].text # m[k].text
  BY <1>2, <1>3 DEF ListOf
<1>7. ListOf(s, h, t)
  BY <1>2, <1>4, <1>5 DEF ListOf
<1> QED
  BY <1>0, <1>6, <1>7

LEMMA NoCheckpoints ==
    ASSUME NEW h, NEW t
    PROVE  ListOf(<< >>, h, t)
  BY DEF ListOf

LEMMA LoadedList ==
    ASSUME StoreHolds
    PROVE  /\ ListOf(Load.mem, past, turns) /\ Load.ok \in BOOLEAN
           /\ ~Load.ok => ~loaded /\ Load.mem = << >>
<1>1. ListOf(memory, past, turns) /\ ListOf(PruneStore(saved.list), past, turns) /\ loaded \in BOOLEAN
  BY PrunedList DEF StoreHolds
<1>2. CASE loaded
  BY <1>1, <1>2 DEF Load
<1>3. CASE ~loaded /\ saved.damaged
  BY <1>3, NoCheckpoints DEF Load
<1>4. CASE ~loaded /\ ~saved.damaged
  BY <1>1, <1>4 DEF Load
<1> QED
  BY <1>2, <1>3, <1>4

\* Commit keeps one checkpoint for each answer.
LEMMA CommittedList ==
    ASSUME NEW h, NEW t, ListOf(Load.mem, h, t), NEW c, EntryOf(c, h, t)
    PROVE  ListOf(Commit(c), h, t)
<1> DEFINE m == Load.mem
           older == {i \in DOMAIN m : m[i].text = c.text}
           others == IF older = {} THEN m ELSE RemoveAt(m, CHOOSE i \in older : TRUE)
<1>1. m \in Seq(Checkpoint) /\ DOMAIN m = 1..Len(m) /\ ListOf(m, h, t)
  BY DEF ListOf
<1>2. Commit(c) = PruneStore(Append(others, c))
  BY DEF Commit
<1>3. ListOf(others, h, t) /\ \A i \in 1..Len(others) : others[i].text # c.text
  <2>1. CASE older = {}
    BY <1>1, <2>1
  <2>2. CASE older # {}
    <3>1. PICK k \in older : k = CHOOSE i \in older : TRUE
      BY <2>2
    <3>2. k \in 1..Len(m) /\ m[k].text = c.text
      BY <1>1, <3>1
    <3>3. others = RemoveAt(m, k)
      BY <2>2, <3>1
    <3> HIDE DEF m, others
    <3> QED
      BY <1>1, <3>2, <3>3, ListWithout
  <2> QED
    BY <2>1, <2>2
<1> HIDE DEF others
<1>4. ListOf(Append(others, c), h, t)
  BY <1>3, ListWithNew
<1> QED
  BY <1>2, <1>4, PrunedList

\* The checkpoints of a list that have expired meanwhile.
LEMMA AgedList ==
    ASSUME NEW m, NEW h, NEW t, ListOf(m, h, t)
    PROVE  ListOf([i \in DOMAIN m |-> [m[i] EXCEPT !.old = TRUE]], h, t)
<1> DEFINE s == [i \in DOMAIN m |-> [m[i] EXCEPT !.old = TRUE]]
<1>1. m \in Seq(Checkpoint) /\ DOMAIN m = 1..Len(m) /\ Len(m) \in Nat
  BY DEF ListOf
<1>2. \A i \in 1..Len(m) : /\ s[i] \in Checkpoint /\ s[i].text = m[i].text /\ s[i].turn = m[i].turn
                           /\ s[i].covers = m[i].covers
  <2> TAKE i \in 1..Len(m)
  <2>1. m[i] \in Checkpoint /\ s[i] = [m[i] EXCEPT !.old = TRUE]
    BY <1>1
  <2> HIDE DEF s
  <2> QED
    BY <2>1 DEF Checkpoint
<1>3. s \in Seq(Checkpoint) /\ Len(s) = Len(m)
  <2>1. s \in [1..Len(m) -> Checkpoint]
    BY <1>1, <1>2
  <2> HIDE DEF s
  <2>2. s \in Seq(Checkpoint)
    BY <1>1, <2>1, SeqDef
  <2> QED
    BY <1>1, <2>1, <2>2, LenProperties
<1> HIDE DEF s
<1>4. \A n \in 1..Len(s) : EntryOf(s[n], h, t)
  <2> TAKE n \in 1..Len(s)
  <2>1. EntryOf(m[n], h, t)
    BY <1>3 DEF ListOf
  <2> QED
    BY <1>2, <1>3, <2>1 DEF EntryOf, Holds
<1>5. \A i, j \in 1..Len(s) : s[i].text = s[j].text => i = j
  BY <1>2, <1>3 DEF ListOf
<1>6. ListOf(s, h, t)
  BY <1>3, <1>4, <1>5 DEF ListOf
<1> QED
  BY <1>6 DEF s

-----------------------------------------------------------------------------
(* Rolling checkpoint: what was told *)

LEMMA ToldIsHeard ==
    ASSUME NEW h
    PROVE  Told(h) = Heard(h, Len(h))
  BY DEF Told, Heard

LEMMA HeardIsNumbers ==
    ASSUME NEW h, NEW t, HistoryOf(h, t)
    PROVE  Heard(h, Len(h)) \in SUBSET Nat
<1>1. \A i \in 1..Len(h) : h[i] \in HistoryItem
  BY DEF HistoryOf
<1> QED
  BY <1>1 DEF Heard, HistoryItem

LEMMA HeardIs ==
    ASSUME NEW h, NEW n, NEW x
    PROVE  x \in Heard(h, n) <=> \E i \in 1..n : Says(h[i]) /\ x = h[i].id
  BY DEF Heard

LEMMA ToldIs ==
    ASSUME NEW h, NEW x
    PROVE  x \in Told(h) <=> \E i \in 1..Len(h) : Says(h[i]) /\ x = h[i].id
  BY DEF Told

\* What was told up to an answer and what was told from the next item on is all that was told.
LEMMA ToldSplit ==
    ASSUME NEW h, NEW t, HistoryOf(h, t), NEW b \in 1..Len(h)
    PROVE  Heard(h, b - 1) \cup Told(SubSeq(h, b, Len(h))) = Heard(h, Len(h))
<1> DEFINE s == SubSeq(h, b, Len(h))
<1>1. h \in Seq(HistoryItem) /\ Len(h) \in Nat /\ b \in Nat
  BY DEF HistoryOf
<1>2. Len(s) = Len(h) - b + 1 /\ \A i \in 1..Len(s) : s[i] = h[b - 1 + i]
  BY <1>1
<1> HIDE DEF s
<1>3. ASSUME NEW x \in Told(s) PROVE x \in Heard(h, Len(h))
  <2>1. PICK i \in 1..Len(s) : Says(s[i]) /\ x = s[i].id
    BY <1>3, ToldIs
  <2>2. b - 1 + i \in 1..Len(h) /\ s[i] = h[b - 1 + i]
    BY <1>1, <1>2
  <2> QED
    BY <2>1, <2>2, HeardIs
<1>4. ASSUME NEW x \in Heard(h, b - 1) PROVE x \in Heard(h, Len(h))
  <2>1. PICK i \in 1..(b - 1) : Says(h[i]) /\ x = h[i].id
    BY <1>4, HeardIs
  <2>2. i \in 1..Len(h)
    BY <1>1
  <2> QED
    BY <2>1, <2>2, HeardIs
<1>5. ASSUME NEW x \in Heard(h, Len(h)) PROVE x \in Heard(h, b - 1) \cup Told(s)
  <2>1. PICK i \in 1..Len(h) : Says(h[i]) /\ x = h[i].id
    BY <1>5, HeardIs
  <2>2. CASE i < b
    <3>1. i \in 1..(b - 1)
      BY <1>1, <2>2
    <3> QED
      BY <2>1, <3>1, HeardIs
  <2>3. CASE ~(i < b)
    <3>1. i - b + 1 \in 1..Len(s) /\ b - 1 + (i - b + 1) = i
      BY <1>1, <1>2, <2>3
    <3>2. s[i - b + 1] = h[i]
      BY <1>2, <3>1
    <3> QED
      BY <2>1, <3>1, <3>2, ToldIs
  <2> QED
    BY <2>2, <2>3
<1> QED
  BY <1>3, <1>4, <1>5 DEF s

\* The answer before a boundary.
AnswersTo(h, n) == {i \in 1..n : Answered(h[i])}

LEMMA AnswersGreatest ==
    ASSUME NEW h, NEW n \in Nat, AnswersTo(h, n) # {}
    PROVE  /\ Max(AnswersTo(h, n)) \in 1..n /\ Answered(h[Max(AnswersTo(h, n))])
           /\ \A i \in 1..n : Answered(h[i]) => i <= Max(AnswersTo(h, n))
<1>1. AnswersTo(h, n) \in SUBSET (0..n)
  BY DEF AnswersTo
<1>2. Max(AnswersTo(h, n)) \in AnswersTo(h, n) /\ \A k \in AnswersTo(h, n) : k <= Max(AnswersTo(h, n))
  BY <1>1, HasGreatest
<1> QED
  BY <1>2 DEF AnswersTo

LEMMA LastAnswerIs ==
    ASSUME NEW h, Len(h) \in Nat, LastAnswer(h) > 0
    PROVE  /\ LastAnswer(h) \in 1..Len(h) /\ Answered(h[LastAnswer(h)])
           /\ \A i \in 1..Len(h) : Answered(h[i]) => i <= LastAnswer(h)
<1> DEFINE X == {0} \cup {i \in 1..Len(h) : Answered(h[i])}
<1>1. X \in SUBSET (0..Len(h)) /\ X # {}
  OBVIOUS
<1>2. LastAnswer(h) = Max(X)
  BY DEF LastAnswer
<1> HIDE DEF X
<1>3. Max(X) \in X /\ \A k \in X : k <= Max(X)
  BY <1>1, HasGreatest
<1>4. LastAnswer(h) \in X /\ LastAnswer(h) # 0
  BY <1>2, <1>3
<1> QED
  BY <1>2, <1>3, <1>4 DEF X

LEMMA FirstOfTurnIs ==
    ASSUME NEW h, Len(h) \in Nat, NEW t, \E i \in 1..Len(h) : h[i].turn = t
    PROVE  /\ FirstOfTurn(h, t) \in 1..Len(h) /\ h[FirstOfTurn(h, t)].turn = t
           /\ \A j \in 1..(FirstOfTurn(h, t) - 1) : h[j].turn # t
<1> DEFINE X == {i \in 1..Len(h) : h[i].turn = t}
<1>1. X \in SUBSET (0..Len(h)) /\ X # {}
  OBVIOUS
<1>2. PICK m \in X : \A k \in X : m <= k
  <2> HIDE DEF X
  <2> QED
    BY <1>1, HasLeast
<1>3. m \in 1..Len(h) /\ h[m].turn = t /\ \A j \in 1..(m - 1) : h[j].turn # t
  BY <1>2
<1> QED
  BY <1>3, Zenon DEF FirstOfTurn

\* The boundary is one of the items, and nothing is said between the last answer before it and
\* the item before it, unless a turn was left unanswered.
LEMMA BoundaryIs ==
    ASSUME NEW h, NEW t, HistoryOf(h, t), Len(h) > 0, Says(h[Len(h)]), NEW replayed \in BOOLEAN,
           replayed => LastAnswer(h) > 0, NEW b, b = Boundary(h, h[Len(h)].turn, replayed)
    PROVE  /\ b \in 1..Len(h)
           /\ AnswersTo(h, b - 1) # {} /\ ~Unanswered(h, Len(h)) => Max(AnswersTo(h, b - 1)) = b - 1
<1>1. h \in Seq(HistoryItem) /\ Len(h) \in Nat /\ \A i \in 1..Len(h) : h[i] \in HistoryItem
  BY DEF HistoryOf
<1>2. \A i \in 1..Len(h) : Says(h[i]) <=> ~Answered(h[i])
  BY <1>1 DEF HistoryItem, Says, Answered
<1>3. CASE replayed
  <2>1. b = LastAnswer(h) + 1
    BY <1>3 DEF Boundary
  <2>2. LastAnswer(h) \in 1..Len(h) /\ Answered(h[LastAnswer(h)])
    BY <1>1, <1>3, LastAnswerIs
  <2>3. LastAnswer(h) # Len(h)
    BY <1>1, <1>2, <2>2
  <2>4. b \in 1..Len(h) /\ b - 1 = LastAnswer(h) /\ b - 1 \in Nat /\ b - 1 \in 1..(b - 1)
    BY <1>1, <2>1, <2>2, <2>3
  <2>5. ASSUME AnswersTo(h, b - 1) # {} PROVE Max(AnswersTo(h, b - 1)) = b - 1
    <3>1. /\ Max(AnswersTo(h, b - 1)) \in 1..(b - 1)
          /\ \A i \in 1..(b - 1) : Answered(h[i]) => i <= Max(AnswersTo(h, b - 1))
      BY <2>4, <2>5, AnswersGreatest
    <3>2. b - 1 <= Max(AnswersTo(h, b - 1))
      BY <2>2, <2>4, <3>1
    <3> QED
      BY <2>4, <3>1, <3>2
  <2> QED
    BY <2>4, <2>5
<1>4. CASE ~replayed
  <2> DEFINE u == h[Len(h)].turn
  <2>1. b = FirstOfTurn(h, u)
    BY <1>4 DEF Boundary
  <2>2. b \in 1..Len(h) /\ h[b].turn = u /\ \A j \in 1..(b - 1) : h[j].turn # u
    <3>1. Len(h) \in 1..Len(h)
      BY <1>1
    <3>2. \E i \in 1..Len(h) : h[i].turn = u
      BY <3>1
    <3> HIDE DEF u
    <3> QED
      BY <1>1, <2>1, <3>2, FirstOfTurnIs
  <2> HIDE DEF u
  <2>3. Says(h[b])
    <3> SUFFICES ASSUME Answered(h[b]) PROVE FALSE
      BY <1>2, <2>2
    <3>1. b > 1 /\ h[b - 1].turn = h[b].turn
      BY <2>2 DEF HistoryOf
    <3>2. b - 1 \in 1..(b - 1)
      BY <1>1, <2>2, <3>1
    <3> QED
      BY <2>2, <3>1, <3>2
  <2>4. ASSUME AnswersTo(h, b - 1) # {}, ~Unanswered(h, Len(h))
        PROVE  Max(AnswersTo(h, b - 1)) = b - 1
    <3> DEFINE a == Max(AnswersTo(h, b - 1))
    <3>1. b - 1 \in Nat
      BY <1>1, <2>2
    <3>2. a \in 1..(b - 1) /\ \A i \in 1..(b - 1) : Answered(h[i]) => i <= a
      BY <2>4, <3>1, AnswersGreatest
    <3> HIDE DEF a
    <3> SUFFICES ASSUME a # b - 1 PROVE FALSE
      BY DEF a
    <3>3. b - 1 \in 1..(b - 1) /\ b - 1 \in 1..Len(h) /\ b - 1 \in 1..(Len(h) - 1) /\ b - 1 + 1 = b
      BY <1>1, <2>2, <3>2
    <3>4. Says(h[b - 1])
      BY <1>2, <3>2, <3>3
    <3>5. h[b - 1].turn # h[b].turn
      BY <2>2, <3>3
    <3>6. Unanswered(h, Len(h))
      BY <2>3, <3>3, <3>4, <3>5 DEF Unanswered
    <3> QED
      BY <2>4, <3>6
  <2> QED
    BY <2>2, <2>4
<1> QED
  BY <1>3, <1>4

\* Then the checkpoint of the parent and what was said since tell the whole history.
LEMMA ParentTells ==
    ASSUME NEW h, NEW t, HistoryOf(h, t), Len(h) > 0, Says(h[Len(h)]), NEW replayed \in BOOLEAN,
           replayed => LastAnswer(h) > 0, NEW b, b = Boundary(h, h[Len(h)].turn, replayed),
           Parent(h, b) # NoTurn, NEW c, EntryOf(c, h, t),
           c.text = Parent(h, b).text, c.turn = Parent(h, b).turn,
           ~Unanswered(h, Len(h)), ~Twice(h, Len(h))
    PROVE  c.covers \cup Told(SubSeq(h, b, Len(h))) = Heard(h, Len(h))
<1>1. Len(h) \in Nat
  BY DEF HistoryOf
<1>2. AnswersTo(h, b - 1) # {} /\ Parent(h, b) = h[Max(AnswersTo(h, b - 1))]
  BY DEF Parent, AnswersTo
<1>3. b \in 1..Len(h) /\ Max(AnswersTo(h, b - 1)) = b - 1
  BY <1>2, BoundaryIs
<1>4. b - 1 \in Nat
  BY <1>1, <1>3
<1>5. b - 1 \in 1..(b - 1) /\ Answered(h[b - 1])
  BY <1>2, <1>3, <1>4, AnswersGreatest
<1>6. Parent(h, b) = h[b - 1] /\ b - 1 \in 1..Len(h)
  BY <1>1, <1>2, <1>3, <1>5
<1>7. Holds(h[b - 1], c)
  BY <1>5, <1>6 DEF Holds
<1>8. Plain(h, b - 1)
  <2>1. ~Unanswered(h, b - 1)
    <3>1. 1..((b - 1) - 1) \subseteq 1..(Len(h) - 1)
      BY <1>1, <1>3
    <3> QED
      BY <3>1 DEF Unanswered
  <2>2. ~Twice(h, b - 1)
    <3>1. 1..(b - 1) \subseteq 1..Len(h)
      BY <1>1, <1>3
    <3> QED
      BY <3>1 DEF Twice
  <2>3. ASSUME NEW j \in 1..Len(h), h[j] = h[b - 1] PROVE j = b - 1
    <3>1. j < b - 1 \/ j = b - 1 \/ b - 1 < j
      BY <1>1, <1>3
    <3>2. Answered(h[j])
      BY <1>5, <2>3
    <3> QED
      BY <1>5, <1>6, <2>3, <3>1, <3>2 DEF Twice
  <2> QED
    BY <2>1, <2>2, <2>3 DEF Plain
<1>9. c.covers = Heard(h, b - 1)
  BY <1>6, <1>7, <1>8 DEF EntryOf
<1> QED
  BY <1>3, <1>9, ToldSplit

-----------------------------------------------------------------------------
(* Rolling checkpoint: what is shown of a page *)

LEMMA MarkedAt ==
    ASSUME NEW S, NEW s \in Seq(S), NEW i
    PROVE  i \in At(s, Marker) <=> i \in 1..Len(s) /\ i + 1 <= Len(s) /\ s[i] = "m1" /\ s[i + 1] = "m2"
<1>1. Len(Marker) = 2 /\ Marker[1] = "m1" /\ Marker[2] = "m2" /\ Len(s) \in Nat
  BY DEF Marker
<1>2. i \in At(s, Marker) <=> i \in 1..Len(s) /\ i + 1 <= Len(s) /\ SubSeq(s, i, i + 1) = Marker
  BY <1>1 DEF At
<1>3. ASSUME i \in 1..Len(s), i + 1 <= Len(s)
      PROVE  SubSeq(s, i, i + 1) = Marker <=> s[i] = "m1" /\ s[i + 1] = "m2"
  <2> DEFINE x == SubSeq(s, i, i + 1)
  <2>1. x \in Seq(S) /\ Len(x) = 2 /\ x[1] = s[i] /\ x[2] = s[i + 1]
    <3>1. i \in Nat /\ i >= 1 /\ i + 1 \in Nat /\ i + 1 <= Len(s) /\ i <= i + 1 /\ i + 1 - i + 1 = 2
      BY <1>1, <1>3
    <3>2. x \in Seq(S) /\ Len(x) = 2 /\ \A j \in 1..2 : x[j] = s[i + j - 1]
      BY <3>1
    <3>3. x[1] = s[i + 1 - 1] /\ x[2] = s[i + 2 - 1] /\ i + 1 - 1 = i /\ i + 2 - 1 = i + 1
      BY <3>1, <3>2
    <3> QED
      BY <3>2, <3>3
  <2> HIDE DEF x
  <2>2. x = <<x[1], x[2]>>
    BY <2>1
  <2>3. x = Marker <=> x[1] = "m1" /\ x[2] = "m2"
    BY <2>2 DEF Marker
  <2> QED
    BY <2>1, <2>3 DEF x
<1> QED
  BY <1>2, <1>3

LEMMA PageIs ==
    ASSUME NEW p, p = << >> \/ p \in Page
    PROVE  p \in Seq(Token4) /\ \A i \in 1..Len(p) : p[i] = "c" => \E j \in 1..(i - 2) : p[j] = "m1" /\ p[j + 1] = "m2"
<1>1. CASE p = << >>
  BY <1>1
<1>2. CASE p \in Page
  BY <1>2, PageTokens DEF Token4
<1> QED
  BY <1>1, <1>2

\* The beginning of a page that ends before its first marker does.
LEMMA NothingPrivate ==
    ASSUME NEW p, p = << >> \/ p \in Page, NEW s \in Seq(Token4), Len(s) <= Len(p),
           \A i \in 1..Len(s) : s[i] = p[i], Unmarked(p, Len(s) - 1)
    PROVE  Kept(s)
<1>1. Len(s) \in Nat /\ Len(p) \in Nat /\ p \in Seq(Token4)
  BY PageIs
<1>2. ASSUME NEW i \in 1..Len(s), s[i] = "c" PROVE FALSE
  <2>1. i \in 1..Len(p) /\ p[i] = "c"
    BY <1>1, <1>2
  <2>2. PICK j \in 1..(i - 2) : p[j] = "m1" /\ p[j + 1] = "m2"
    BY <2>1, PageIs
  <2>3. j \in 1..(Len(s) - 1) /\ j + 1 <= Len(p)
    BY <1>1, <2>2
  <2> QED
    BY <2>2, <2>3 DEF Unmarked
<1>3. ASSUME NEW j \in 1..(Len(s) - 1), j + 1 <= Len(s), s[j] = "m1", s[j + 1] = "m2" PROVE FALSE
  <2>1. j \in 1..Len(s) /\ j + 1 \in 1..Len(s) /\ j + 1 <= Len(p)
    BY <1>1, <1>3
  <2> QED
    BY <1>3, <2>1 DEF Unmarked
<1> QED
  BY <1>2, <1>3 DEF Kept, Unmarked

\* What is held back and what is read now are the next tokens of the page.
LEMMA ReadsOn ==
    ASSUME NEW p, NEW r, NEW s, NEW q, NEW n, NEW all, Snapshot(p, r, s, q, n, all)
    PROVE  /\ all \in Seq(Token4) /\ Len(all) = n - Len(s)
           /\ \A i \in 1..Len(all) : all[i] = p[Len(s) + i]
<1>0. StreamOf(p, r, s, q, FALSE) /\ s \in Seq(Token4) /\ q \in Seq(Token4) /\ n \in (r + 1)..Len(p)
  BY Zenon DEF Snapshot
<1>1. p \in Seq(Token4) /\ Len(p) \in Nat
  BY <1>0, PageIs DEF StreamOf
<1>2. /\ r \in Nat /\ r <= Len(p) /\ Len(s) + Len(q) = r /\ Len(s) \in Nat /\ Len(q) \in Nat
      /\ \A i \in 1..Len(q) : q[i] = p[Len(s) + i]
  BY <1>0, <1>1 DEF StreamOf
<1> DEFINE d == SubSeq(p, r + 1, n)
<1>3. n \in Nat /\ r + 1 \in Nat /\ r + 1 >= 1 /\ n <= Len(p)
  BY <1>0, <1>1, <1>2
<1>4. d \in Seq(Token4) /\ Len(d) = n - r /\ \A i \in 1..(n - r) : d[i] = p[r + i]
  <2>1. \A i \in (r + 1)..n : p[i] \in Token4
    BY <1>1, <1>2, <1>3
  <2>2. /\ d \in Seq(Token4) /\ Len(d) = IF r + 1 <= n THEN n - (r + 1) + 1 ELSE 0
        /\ \A i \in 1..(n - (r + 1) + 1) : d[i] = p[(r + 1) + i - 1]
    BY <1>3, <2>1, SubSeqProperties
  <2>3. r + 1 <= n /\ n - (r + 1) + 1 = n - r /\ \A i \in 1..(n - r) : (r + 1) + i - 1 = r + i
    BY <1>0, <1>2, <1>3
  <2> QED
    BY <2>2, <2>3
<1>5. all = q \o d
  BY Zenon DEF Snapshot
<1> HIDE DEF d
<1>8. n \in Nat /\ Len(s) \in Nat /\ Len(q) \in Nat /\ r = Len(s) + Len(q)
  BY <1>0, <1>2, <1>3
<1>6. all \in Seq(Token4) /\ Len(all) = n - Len(s)
  <2>1. all \in Seq(Token4) /\ Len(all) = Len(q) + (n - r)
    BY <1>0, <1>4, <1>5, ConcatProperties
  <2>2. Len(q) + (n - r) = n - Len(s)
    BY <1>8
  <2> QED
    BY <2>1, <2>2
<1>7. ASSUME NEW i \in 1..Len(all) PROVE all[i] = p[Len(s) + i]
  <2>1. CASE i <= Len(q)
    BY <1>0, <1>2, <1>3, <1>4, <1>5, <1>6, <2>1
  <2>2. CASE ~(i <= Len(q))
    <3>1. all[i] = d[i - Len(q)]
      BY <1>0, <1>2, <1>3, <1>4, <1>5, <1>6, <2>2
    <3>2. i - Len(q) \in 1..(n - r) /\ r + (i - Len(q)) = Len(s) + i
      <4>1. i \in Nat /\ i <= n - Len(s) /\ i > Len(q)
        BY <1>2, <1>3, <1>6, <2>2
      <4>2. n - Len(s) = (n - r) + Len(q) /\ r = Len(s) + Len(q)
        BY <1>8
      <4> QED
        BY <1>2, <1>3, <4>1, <4>2
    <3> QED
      BY <1>4, <3>1, <3>2
  <2> QED
    BY <2>1, <2>2
<1> QED
  BY <1>6, <1>7

\* What is shown grows by a beginning of these.
LEMMA ShowsMore ==
    ASSUME NEW p \in Seq(Token4), NEW s \in Seq(Token4), NEW all \in Seq(Token4),
           \A i \in 1..Len(s) : s[i] = p[i],
           \A i \in 1..Len(all) : all[i] = p[Len(s) + i], NEW e \in 0..Len(all)
    PROVE  /\ s \o SubSeq(all, 1, e) \in Seq(Token4) /\ Len(s \o SubSeq(all, 1, e)) = Len(s) + e
           /\ \A i \in 1..(Len(s) + e) : (s \o SubSeq(all, 1, e))[i] = p[i]
<1> DEFINE d == SubSeq(all, 1, e)
<1>1. Len(s) \in Nat /\ Len(all) \in Nat /\ e \in Nat
  OBVIOUS
<1>2. d \in Seq(Token4) /\ Len(d) = e /\ \A i \in 1..e : d[i] = all[i]
  BY <1>1
<1> HIDE DEF d
<1>3. s \o d \in Seq(Token4) /\ Len(s \o d) = Len(s) + e
  BY <1>2, ConcatProperties
<1>4. ASSUME NEW i \in 1..(Len(s) + e) PROVE (s \o d)[i] = p[i]
  <2>1. CASE i <= Len(s)
    BY <1>1, <1>2, <1>3, <2>1
  <2>2. CASE ~(i <= Len(s))
    <3>1. (s \o d)[i] = d[i - Len(s)]
      BY <1>1, <1>2, <1>3, <2>2
    <3>2. i - Len(s) \in 1..e /\ i - Len(s) \in 1..Len(all) /\ Len(s) + (i - Len(s)) = i
      BY <1>1, <2>2
    <3> QED
      BY <1>2, <3>1, <3>2
  <2> QED
    BY <2>1, <2>2
<1> QED
  BY <1>3, <1>4 DEF d

\* A marker in the tokens that follow is one of the page.
LEMMA MarkerOfPage ==
    ASSUME NEW p, NEW r, NEW s \in Seq(Token4), NEW q \in Seq(Token4), StreamOf(p, r, s, q, FALSE),
           NEW all \in Seq(Token4), Len(all) \in Nat, Len(s) + Len(all) <= Len(p),
           \A i \in 1..Len(all) : all[i] = p[Len(s) + i],
           NEW e \in Nat, e < Len(all), \A i \in 1..e : i \notin At(all, Marker)
    PROVE  Unmarked(p, Len(s) + e)
<1>1. p \in Seq(Token4) /\ Len(p) \in Nat /\ Len(s) \in Nat /\ Len(q) \in Nat
  BY PageIs DEF StreamOf
<1> SUFFICES ASSUME NEW j \in 1..(Len(s) + e), j + 1 <= Len(p), p[j] = "m1", p[j + 1] = "m2" PROVE FALSE
  BY DEF Unmarked
<1>2. CASE j <= Len(s)
  <2>1. j \in 1..(r - 1)
    BY <1>1, <1>2 DEF StreamOf
  <2> QED
    BY <2>1 DEF StreamOf, Unmarked
<1>3. CASE ~(j <= Len(s))
  <2> DEFINE i == j - Len(s)
  <2>1. i \in 1..e /\ i \in 1..Len(all) /\ i + 1 \in 1..Len(all) /\ Len(s) + i = j /\ Len(s) + (i + 1) = j + 1
    BY <1>1, <1>3
  <2> HIDE DEF i
  <2>2. all[i] = "m1" /\ all[i + 1] = "m2"
    BY <2>1
  <2>3. i + 1 <= Len(all)
    BY <2>1
  <2>4. i \in At(all, Marker)
    BY <2>1, <2>2, <2>3, MarkedAt
  <2> QED
    BY <2>1, <2>4
<1> QED
  BY <1>2, <1>3

Shows(p, n, s, all) ==
    \E z \in Seq(Token4) : /\ z = s \o SubSeq(all, 1, Min(At(all, Marker)) - 1)
                           /\ StreamOf(p, n, z, << >>, TRUE) /\ Kept(z)
HoldsBack(p, n, s, all) ==
    \E z, w \in Seq(Token4) :
       /\ z = s \o SubSeq(all, 1, Emits(all)) /\ w = SubSeq(all, Emits(all) + 1, Len(all))
       /\ StreamOf(p, n, z, w, FALSE) /\ Kept(z)

\* The marker is found: what comes before it is shown.
LEMMA FindsMarker ==
    ASSUME NEW p, NEW r, NEW s, NEW q, NEW n, NEW all, Snapshot(p, r, s, q, n, all),
           At(all, Marker) # {}
    PROVE  Shows(p, n, s, all)
<1> DEFINE e == Min(At(all, Marker)) - 1
           z == s \o SubSeq(all, 1, e)
<1>0. StreamOf(p, r, s, q, FALSE) /\ s \in Seq(Token4) /\ q \in Seq(Token4) /\ n \in (r + 1)..Len(p)
  BY Zenon DEF Snapshot
<1>1. /\ p \in Seq(Token4) /\ Len(p) \in Nat /\ Len(s) \in Nat /\ r \in Nat /\ n \in Nat /\ n <= Len(p)
      /\ Len(s) <= r /\ (p = << >> \/ p \in Page) /\ r + 1 <= n
  BY <1>0, PageIs DEF StreamOf
<1>2. all \in Seq(Token4) /\ Len(all) = n - Len(s) /\ \A i \in 1..Len(all) : all[i] = p[Len(s) + i]
  BY ReadsOn
<1>3. Len(all) \in Nat
  BY <1>2
<1>4. At(all, Marker) \in SUBSET (0..Len(all))
  BY <1>2, MarkedAt
<1>5. Min(At(all, Marker)) \in At(all, Marker) /\ \A k \in At(all, Marker) : Min(At(all, Marker)) <= k
  BY <1>3, <1>4, HasLeastOne
<1>6. Min(At(all, Marker)) \in 1..Len(all)
  BY <1>2, <1>5, MarkedAt
<1>7. e \in Nat /\ e < Len(all) /\ e \in 0..Len(all) /\ e + 1 = Min(At(all, Marker))
  BY <1>3, <1>6
<1>8. \A i \in 1..e : i \notin At(all, Marker)
  BY <1>5, <1>6, <1>7
<1>9. z = s \o SubSeq(all, 1, e)
  OBVIOUS
<1>16. z = s \o SubSeq(all, 1, Min(At(all, Marker)) - 1)
  OBVIOUS
<1> HIDE DEF e, z
<1>10. z \in Seq(Token4) /\ Len(z) = Len(s) + e /\ \A i \in 1..(Len(s) + e) : z[i] = p[i]
  <2>1. \A i \in 1..Len(s) : s[i] = p[i]
    BY <1>0, Zenon DEF StreamOf
  <2>2. p \in Seq(Token4) /\ s \in Seq(Token4) /\ all \in Seq(Token4) /\ e \in 0..Len(all)
    BY <1>0, <1>1, <1>2, <1>7
  <2> QED
    BY <1>2, <1>9, <2>1, <2>2, ShowsMore
<1>11. Len(s) + Len(all) <= Len(p) /\ Len(s) + e <= n /\ Len(s) + e <= Len(p)
  BY <1>1, <1>2, <1>3, <1>7
<1>12. Unmarked(p, Len(s) + e)
  BY <1>0, <1>2, <1>3, <1>7, <1>8, <1>11, MarkerOfPage
<1>13. StreamOf(p, n, z, << >>, TRUE)
  BY <1>1, <1>10, <1>11, <1>12 DEF StreamOf
<1>14. Unmarked(p, Len(z) - 1)
  BY <1>1, <1>7, <1>10, <1>12 DEF Unmarked
<1>15. Kept(z)
  BY <1>1, <1>10, <1>11, <1>14, NothingPrivate
<1> QED
  BY <1>10, <1>13, <1>15, <1>16, Zenon DEF Shows

\* It is not: what may begin one is held back.
LEMMA FindsNone ==
    ASSUME NEW p, NEW r, NEW s, NEW q, NEW n, NEW all, Snapshot(p, r, s, q, n, all),
           At(all, Marker) = {}
    PROVE  HoldsBack(p, n, s, all)
<1> DEFINE e == Emits(all)
           z == s \o SubSeq(all, 1, e)
           w == SubSeq(all, e + 1, Len(all))
<1>0. StreamOf(p, r, s, q, FALSE) /\ s \in Seq(Token4) /\ q \in Seq(Token4) /\ n \in (r + 1)..Len(p)
  BY Zenon DEF Snapshot
<1>1. /\ p \in Seq(Token4) /\ Len(p) \in Nat /\ Len(s) \in Nat /\ Len(q) \in Nat /\ r \in Nat /\ n \in Nat
      /\ n <= Len(p) /\ Len(s) <= r /\ (p = << >> \/ p \in Page) /\ r + 1 <= n /\ r = Len(s) + Len(q)
  BY <1>0, PageIs DEF StreamOf
<1>2. all \in Seq(Token4) /\ Len(all) = n - Len(s) /\ \A i \in 1..Len(all) : all[i] = p[Len(s) + i]
  BY ReadsOn
<1>3. Len(all) \in Nat /\ Len(all) > 0
  BY <1>1, <1>2
<1>4. e \in 0..Len(all) /\ e \in Nat /\ e < Len(all)
  BY <1>3 DEF Emits, RESERVE, Marker
<1>5. z = s \o SubSeq(all, 1, e) /\ w = SubSeq(all, e + 1, Len(all))
  OBVIOUS
<1>14. z = s \o SubSeq(all, 1, Emits(all)) /\ w = SubSeq(all, Emits(all) + 1, Len(all))
  OBVIOUS
<1> HIDE DEF e, z, w
<1>6. z \in Seq(Token4) /\ Len(z) = Len(s) + e /\ \A i \in 1..(Len(s) + e) : z[i] = p[i]
  <2>1. \A i \in 1..Len(s) : s[i] = p[i]
    BY <1>0, Zenon DEF StreamOf
  <2>2. p \in Seq(Token4) /\ s \in Seq(Token4) /\ all \in Seq(Token4) /\ e \in 0..Len(all)
    BY <1>0, <1>1, <1>2, <1>4
  <2> QED
    BY <1>2, <1>5, <2>1, <2>2, ShowsMore
<1>7. w \in Seq(Token4) /\ Len(w) = Len(all) - e /\ \A i \in 1..(Len(all) - e) : w[i] = all[e + i]
  BY <1>2, <1>3, <1>4, <1>5
<1>8. \A i \in 1..Len(w) : w[i] = p[Len(z) + i]
  <2> TAKE i \in 1..Len(w)
  <2>1. i \in 1..(Len(all) - e) /\ e + i \in 1..Len(all)
    BY <1>3, <1>4, <1>7
  <2>2. w[i] = p[Len(s) + (e + i)]
    BY <1>2, <1>7, <2>1
  <2>3. Len(s) + (e + i) = Len(z) + i
    BY <1>1, <1>4, <1>6, <2>1
  <2> QED
    BY <2>2, <2>3
<1>9. Len(z) + Len(w) = n /\ Len(w) > 0 /\ Len(z) <= n - 1 /\ Len(z) \in Nat
  <2>1. Len(all) = n - Len(s) /\ Len(z) = Len(s) + e /\ Len(w) = Len(all) - e
    BY <1>2, <1>6, <1>7
  <2>2. Len(all) \in Nat /\ Len(s) \in Nat /\ n \in Nat /\ e \in Nat /\ e < Len(all)
    BY <1>1, <1>3, <1>4
  <2> QED
    BY <2>1, <2>2
<1>10. Unmarked(p, n - 1)
  <2>1. Len(all) - 1 \in Nat /\ Len(all) - 1 < Len(all) /\ Len(s) + Len(all) <= Len(p) /\ Len(s) + (Len(all) - 1) = n - 1
    BY <1>1, <1>2, <1>3
  <2>2. Unmarked(p, Len(s) + (Len(all) - 1))
    BY <1>0, <1>2, <1>3, <2>1, MarkerOfPage
  <2> QED
    BY <2>1, <2>2
<1>11. StreamOf(p, n, z, w, FALSE)
  <2>1. n \in 0..Len(p) /\ Len(z) <= n
    BY <1>1, <1>9
  <2>2. \A i \in 1..Len(z) : z[i] = p[i]
    BY <1>6
  <2> QED
    BY <1>1, <1>8, <1>9, <1>10, <2>1, <2>2 DEF StreamOf
<1>12. Unmarked(p, Len(z) - 1)
  <2>1. 1..(Len(z) - 1) \subseteq 1..(n - 1)
    BY <1>1, <1>9
  <2> QED
    BY <1>10, <2>1 DEF Unmarked
<1>13. Kept(z)
  <2>1. Len(z) <= Len(p) /\ \A i \in 1..Len(z) : z[i] = p[i]
    BY <1>1, <1>6, <1>9
  <2> QED
    BY <1>1, <1>6, <1>12, <2>1, NothingPrivate
<1> QED
  BY <1>6, <1>7, <1>11, <1>13, <1>14, Zenon DEF HoldsBack

-----------------------------------------------------------------------------
(* Rolling checkpoint: the steps *)

\* Nothing but the stream and how far it has read.
LEMMA PushKeeps ==
    ASSUME CheckpointIInv, Push
    PROVE  CheckpointIInv'
<1>1. PICK n \in (live.read + 1)..Len(live.page) :
        /\ live' = [live EXCEPT !.read = n]
        /\ \/ cut /\ UNCHANGED streamVars
           \/ ~cut /\ \E all \in {pend \o SubSeq(live.page, live.read + 1, n)} :
                \/ /\ At(all, Marker) # {} /\ cut' = TRUE /\ pend' = << >>
                   /\ shown' = shown \o SubSeq(all, 1, Min(At(all, Marker)) - 1)
                \/ /\ At(all, Marker) = {} /\ cut' = FALSE
                   /\ shown' = shown \o SubSeq(all, 1, Emits(all))
                   /\ pend' = SubSeq(all, Emits(all) + 1, Len(all))
  BY Zenon DEF Push
<1>2. live # NoTurn /\ UNCHANGED <<past, turns, said, storeVars, costs, mishaps>>
  BY Zenon DEF Push
<1>3. /\ live = [turn |-> live.turn, told |-> live.told, parent |-> live.parent, page |-> live.page, read |-> live.read]
      /\ StreamOf(live.page, live.read, shown, pend, cut)
      /\ shown \in Seq(Token4) /\ pend \in Seq(Token4) /\ cut \in BOOLEAN /\ Kept(shown)
  BY <1>2, Zenon DEF CheckpointIInv, LiveBooks, StreamBooks, StreamTypes, Private
<1>4. live' = [turn |-> live.turn, told |-> live.told, parent |-> live.parent, page |-> live.page, read |-> n]
  BY <1>1, <1>3
<1>5. live'.turn = live.turn /\ live'.told = live.told /\ live'.page = live.page /\ live'.read = n /\ live'.parent = live.parent
  BY <1>4
<1>6. StreamOf(live.page, n, shown', pend', cut') /\ StreamTypes' /\ Kept(shown')
  <2>1. CASE cut /\ UNCHANGED streamVars
    <3>1. shown' = shown /\ pend' = pend /\ cut' = cut
      BY <2>1 DEF streamVars
    <3>2. live.page \in Seq(Token4) /\ Len(live.page) \in Nat /\ Len(shown) \in Nat /\ live.read \in Nat
      BY <1>3, PageIs DEF StreamOf
    <3>3. n \in 0..Len(live.page) /\ Len(shown) <= n
      BY <1>3, <3>2 DEF StreamOf
    <3>4. StreamOf(live.page, n, shown, pend, cut)
      BY <1>3, <2>1, <3>3, Zenon DEF StreamOf
    <3> QED
      BY <1>3, <3>1, <3>4, Zenon DEF StreamTypes
  <2>2. CASE ~cut
    <3>1. StreamOf(live.page, live.read, shown, pend, FALSE)
      <4>1. cut = FALSE
        BY <1>3, <2>2
      <4> QED
        BY <1>3, <4>1, Zenon
    <3> DEFINE all == pend \o SubSeq(live.page, live.read + 1, n)
    <3>4. Snapshot(live.page, live.read, shown, pend, n, all)
      BY <1>3, <3>1, Zenon DEF Snapshot
    <3> HIDE DEF all
    <3>2. CASE At(all, Marker) # {}
      <4>1. cut' = TRUE /\ pend' = << >> /\ shown' = shown \o SubSeq(all, 1, Min(At(all, Marker)) - 1)
        BY <1>1, <2>2, <3>2, Zenon DEF all
      <4>4. PICK z \in Seq(Token4) : /\ z = shown \o SubSeq(all, 1, Min(At(all, Marker)) - 1)
                                     /\ StreamOf(live.page, n, z, << >>, TRUE) /\ Kept(z)
        <5>1. Shows(live.page, n, shown, all)
          BY <3>2, <3>4, FindsMarker
        <5> QED
          BY <5>1, Zenon DEF Shows
      <4>2. StreamOf(live.page, n, shown', << >>, TRUE) /\ shown' \in Seq(Token4) /\ Kept(shown')
        BY <4>1, <4>4, Zenon
      <4>3. << >> \in Seq(Token4)
        OBVIOUS
      <4> QED
        BY <4>1, <4>2, <4>3, Zenon DEF StreamTypes
    <3>3. CASE At(all, Marker) = {}
      <4>1. cut' = FALSE /\ shown' = shown \o SubSeq(all, 1, Emits(all)) /\ pend' = SubSeq(all, Emits(all) + 1, Len(all))
        BY <1>1, <2>2, <3>3, Zenon DEF all
      <4>2. /\ StreamOf(live.page, n, shown', pend', FALSE) /\ shown' \in Seq(Token4) /\ pend' \in Seq(Token4)
            /\ Kept(shown')
        <5>1. PICK z, w \in Seq(Token4) :
                /\ z = shown \o SubSeq(all, 1, Emits(all)) /\ w = SubSeq(all, Emits(all) + 1, Len(all))
                /\ StreamOf(live.page, n, z, w, FALSE) /\ Kept(z)
          <6>1. HoldsBack(live.page, n, shown, all)
            BY <3>3, <3>4, FindsNone
          <6> QED
            BY <6>1, Zenon DEF HoldsBack
        <5> QED
          BY <4>1, <5>1, Zenon
      <4> QED
        BY <4>1, <4>2, Zenon DEF StreamTypes
    <3> QED
      BY <3>2, <3>3
  <2> QED
    BY <1>1, <2>1, <2>2
<1>7. StreamBooks' /\ Private'
  BY <1>5, <1>6, Zenon DEF StreamBooks, Private
<1>8. LiveBooks'
  <2>1. LiveBooks /\ past' = past
    BY <1>2 DEF CheckpointIInv
  <2>2. live' = [turn |-> live'.turn, told |-> live'.told, parent |-> live'.parent, page |-> live'.page, read |-> live'.read]
    BY <1>4, <1>5
  <2> QED
    BY <1>2, <1>5, <2>1, <2>2, Zenon DEF LiveBooks
<1>9. (said \in Nat /\ HistoryOf(past, turns))' /\ StoreHolds'
  BY <1>2, Zenon DEF CheckpointIInv, StoreHolds, storeVars
<1> QED
  BY <1>6, <1>7, <1>8, <1>9, Zenon DEF CheckpointIInv

LEMMA HistoryExtends ==
    ASSUME NEW h, NEW t, HistoryOf(h, t), NEW x \in HistoryItem, NEW u \in Nat, t <= u, x.turn <= u,
           Len(h) > 0 => h[Len(h)].turn <= x.turn,
           Answered(x) => Len(h) > 0 /\ h[Len(h)].turn = x.turn /\ x.id = 0
    PROVE  HistoryOf(Append(h, x), u)
<1> DEFINE g == Append(h, x)
           n == Len(h) + 1
<1>1. /\ h \in Seq(HistoryItem) /\ Len(h) \in Nat /\ \A i \in 1..Len(h) : h[i] \in HistoryItem
      /\ t \in Nat /\ \A i \in 1..Len(h) : h[i].turn <= t /\ (Answered(h[i]) => h[i].id = 0)
      /\ \A i, j \in 1..Len(h) : i < j => h[i].turn <= h[j].turn
      /\ \A i \in 1..Len(h) : Answered(h[i]) => i > 1 /\ h[i - 1].turn = h[i].turn
  BY DEF HistoryOf
<1>2. g \in Seq(HistoryItem) /\ Len(g) = n /\ g[n] = x /\ \A i \in 1..Len(h) : g[i] = h[i]
  BY <1>1
<1> HIDE DEF g
<1>3. \A i \in 1..Len(g) : i \in 1..Len(h) \/ i = n
  BY <1>1, <1>2
<1>4. \A i \in 1..Len(h) : h[i].turn \in Nat
  BY <1>1 DEF HistoryItem
<1>5. x.turn \in Nat
  BY DEF HistoryItem
<1>6. \A i \in 1..Len(g) : g[i].turn <= u /\ (Answered(g[i]) => g[i].id = 0)
  <2> TAKE i \in 1..Len(g)
  <2>1. CASE i \in 1..Len(h)
    BY <1>1, <1>2, <1>4, <2>1
  <2>2. CASE i = n
    BY <1>2, <2>2
  <2> QED
    BY <1>3, <2>1, <2>2
<1>7. \A i \in 1..Len(h) : h[i].turn <= x.turn
  <2> TAKE i \in 1..Len(h)
  <2>1. Len(h) > 0 /\ Len(h) \in 1..Len(h)
    BY <1>1
  <2>2. h[i].turn <= h[Len(h)].turn
    BY <1>1, <1>4, <2>1
  <2> QED
    BY <1>4, <1>5, <2>1, <2>2
<1>8. \A i, j \in 1..Len(g) : i < j => g[i].turn <= g[j].turn
  <2> TAKE i, j \in 1..Len(g)
  <2> SUFFICES ASSUME i < j PROVE g[i].turn <= g[j].turn
    OBVIOUS
  <2>1. i \in 1..Len(h)
    BY <1>1, <1>2, <1>3
  <2>2. CASE j \in 1..Len(h)
    BY <1>1, <1>2, <2>1, <2>2
  <2>3. CASE j = n
    BY <1>2, <1>7, <2>1, <2>3
  <2> QED
    BY <1>3, <2>2, <2>3
<1>9. \A i \in 1..Len(g) : Answered(g[i]) => i > 1 /\ g[i - 1].turn = g[i].turn
  <2> TAKE i \in 1..Len(g)
  <2> SUFFICES ASSUME Answered(g[i]) PROVE i > 1 /\ g[i - 1].turn = g[i].turn
    OBVIOUS
  <2>1. CASE i \in 1..Len(h)
    <3>1. i > 1 /\ h[i - 1].turn = h[i].turn
      BY <1>1, <1>2, <2>1
    <3>2. i - 1 \in 1..Len(h)
      BY <1>1, <2>1, <3>1
    <3> QED
      BY <1>2, <2>1, <3>1, <3>2
  <2>2. CASE i = n
    <3>1. Len(h) > 0 /\ h[Len(h)].turn = x.turn /\ g[n] = x
      BY <1>2, <2>2
    <3>2. i > 1 /\ i - 1 = Len(h) /\ i - 1 \in 1..Len(h)
      BY <1>1, <2>2, <3>1
    <3> QED
      BY <1>2, <2>2, <3>1, <3>2
  <2> QED
    BY <1>3, <2>1, <2>2
<1>10. HistoryOf(g, u)
  BY <1>1, <1>2, <1>6, <1>8, <1>9 DEF HistoryOf
<1> QED
  BY <1>10 DEF g

\* The store when the history grows: what it holds is about the same answers.
LEMMA SaidMore ==
    ASSUME CheckpointIInv, live = NoTurn, NEW x \in HistoryItem, Says(x), NEW u \in Nat, turns <= u, x.turn = u,
           u > turns \/ (Len(past) > 0 /\ past[Len(past)].turn = u),
           past' = Append(past, x), turns' = u, said' = said + 1,
           UNCHANGED <<live, streamVars, storeVars, costs>>
    PROVE  CheckpointIInv'
<1>1. /\ said \in Nat /\ HistoryOf(past, turns) /\ StoreHolds /\ StreamTypes /\ Private
      /\ past \in Seq(HistoryItem) /\ Len(past) \in Nat /\ turns \in Nat
  BY DEF CheckpointIInv, HistoryOf
<1>2. \A i \in 1..Len(past) : past[i].turn <= turns /\ past[i].turn \in Nat
  <2>1. \A i \in 1..Len(past) : past[i].turn <= turns /\ past[i] \in HistoryItem
    BY <1>1 DEF HistoryOf
  <2> QED
    BY <2>1 DEF HistoryItem
<1>3. Len(past) > 0 => Len(past) \in 1..Len(past)
  BY <1>1
<1>4. Len(past) > 0 => past[Len(past)].turn <= x.turn
  BY <1>1, <1>2, <1>3
<1>5. ~Answered(x)
  BY DEF Says, Answered
<1>6. x.turn > turns \/ \E j \in 1..Len(past) : past[j].turn = x.turn
  BY <1>1, <1>3
<1>7. x.turn <= u
  BY <1>1
<1>8. HistoryOf(Append(past, x), u)
  BY <1>1, <1>4, <1>5, <1>7, HistoryExtends
<1>9. ListOf(memory, past, turns) /\ ListOf(saved.list, past, turns)
  BY <1>1 DEF StoreHolds
<1>10. ListOf(memory, Append(past, x), u)
  BY <1>1, <1>6, <1>8, <1>9, ListExtends
<1>11. ListOf(saved.list, Append(past, x), u)
  BY <1>1, <1>6, <1>8, <1>9, ListExtends
<1>12. HistoryOf(past, turns)' /\ said' \in Nat
  <2>1. said + 1 \in Nat
    BY <1>1
  <2> QED
    BY <1>8, <2>1, Zenon
<1>13. memory' = memory /\ saved' = saved /\ loaded' = loaded /\ costs' = costs /\ live' = live
  BY Zenon DEF storeVars
<1>14. shown' = shown /\ pend' = pend /\ cut' = cut
  BY Zenon DEF streamVars
<1>15. StoreHolds'
  BY <1>1, <1>10, <1>11, <1>13, Zenon DEF StoreHolds
<1>16. LiveBooks' /\ StreamBooks'
  BY <1>13, Zenon DEF LiveBooks, StreamBooks
<1>17. StreamTypes' /\ Private'
  BY <1>1, <1>14, Zenon DEF StreamTypes, Private
<1> QED
  BY <1>12, <1>15, <1>16, <1>17, Zenon DEF CheckpointIInv

LEMMA InstructionItem ==
    ASSUME said \in Nat, NEW t \in Nat
    PROVE  Told1("user", t) \in HistoryItem /\ Says(Told1("user", t)) /\ Told1("user", t).turn = t
<1> DEFINE x == [k |-> "user", turn |-> t, text |-> "", id |-> said + 1]
<1>1. Told1("user", t) = x
  BY DEF Told1
<1>2. "user" \in {"user", "answer"} /\ "" \in AnswerText \cup {""} /\ said + 1 \in Nat
  OBVIOUS
<1>3. x \in HistoryItem
  BY <1>2, Zenon DEF HistoryItem
<1>4. x.k = "user" /\ x.turn = t
  OBVIOUS
<1> HIDE DEF x
<1> QED
  BY <1>1, <1>3, <1>4, Zenon DEF Says

LEMMA StartTurnKeeps ==
    ASSUME CheckpointIInv, StartTurn
    PROVE  CheckpointIInv'
<1>1. /\ live = NoTurn /\ turns' = turns + 1 /\ said' = said + 1 /\ past' = Append(past, Told1("user", turns + 1))
      /\ UNCHANGED <<live, streamVars, storeVars, costs>>
  BY Zenon DEF StartTurn
<1>2. said \in Nat /\ turns \in Nat
  BY DEF CheckpointIInv, HistoryOf
<1>3. /\ Told1("user", turns + 1) \in HistoryItem /\ Says(Told1("user", turns + 1))
      /\ Told1("user", turns + 1).turn = turns + 1
  BY <1>2, InstructionItem
<1>4. turns + 1 \in Nat /\ turns <= turns + 1 /\ turns + 1 > turns
  BY <1>2
<1> QED
  BY <1>1, <1>3, <1>4, SaidMore

LEMMA SteerTaskKeeps ==
    ASSUME CheckpointIInv, SteerTask
    PROVE  CheckpointIInv'
<1>1. /\ live = NoTurn /\ turns' = turns /\ said' = said + 1 /\ past' = Append(past, Told1("user", turns))
      /\ UNCHANGED <<live, streamVars, storeVars, costs>> /\ past # << >> /\ Last(past).turn = turns
  BY Zenon DEF SteerTask
<1>2. said \in Nat /\ turns \in Nat /\ past \in Seq(HistoryItem)
  BY DEF CheckpointIInv, HistoryOf
<1>3. /\ Told1("user", turns) \in HistoryItem /\ Says(Told1("user", turns))
      /\ Told1("user", turns).turn = turns
  BY <1>2, InstructionItem
<1>4. turns <= turns /\ Len(past) > 0 /\ past[Len(past)].turn = turns
  BY <1>1, <1>2 DEF Last
<1> QED
  BY <1>1, <1>2, <1>3, <1>4, SaidMore

LEMMA RollbackKeeps ==
    ASSUME CheckpointIInv, Rollback
    PROVE  CheckpointIInv'
<1>1. live = NoTurn /\ UNCHANGED <<turns, said, live, streamVars, storeVars, costs>>
  BY Zenon DEF Rollback
<1>2. PICK n \in 1..(Len(past) - 1) : past[n].turn # past[n + 1].turn /\ past' = SubSeq(past, 1, n)
  BY Zenon DEF Rollback
<1>3. said \in Nat /\ HistoryOf(past, turns) /\ StoreHolds /\ StreamTypes /\ Private
  BY Zenon DEF CheckpointIInv
<1>4. HistoryOf(SubSeq(past, 1, n), turns)
  BY <1>3, HistoryCut
<1>5. ListOf(memory, past, turns) /\ ListOf(saved.list, past, turns)
  BY <1>3 DEF StoreHolds
<1>6. ListOf(memory, SubSeq(past, 1, n), turns)
  BY <1>2, <1>3, <1>5, ListCut
<1>7. ListOf(saved.list, SubSeq(past, 1, n), turns)
  BY <1>2, <1>3, <1>5, ListCut
<1>8. memory' = memory /\ saved' = saved /\ loaded' = loaded /\ costs' = costs /\ live' = live /\ turns' = turns
  BY <1>1, Zenon DEF storeVars
<1>9. shown' = shown /\ pend' = pend /\ cut' = cut /\ said' = said
  BY <1>1, Zenon DEF streamVars
<1>10. StoreHolds'
  BY <1>2, <1>3, <1>6, <1>7, <1>8, Zenon DEF StoreHolds
<1>11. LiveBooks' /\ StreamBooks'
  BY <1>1, <1>8, Zenon DEF LiveBooks, StreamBooks
<1>12. StreamTypes' /\ Private' /\ said' \in Nat /\ HistoryOf(past, turns)'
  BY <1>2, <1>3, <1>4, <1>8, <1>9, Zenon DEF StreamTypes, Private
<1> QED
  BY <1>10, <1>11, <1>12, Zenon DEF CheckpointIInv

LEMMA AbortTurnKeeps ==
    ASSUME CheckpointIInv, AbortTurn
    PROVE  CheckpointIInv'
<1>1. live' = NoTurn /\ UNCHANGED <<past, turns, said, streamVars, storeVars, costs>>
  BY Zenon DEF AbortTurn
<1>2. LiveBooks' /\ StreamBooks'
  BY <1>1, Zenon DEF LiveBooks, StreamBooks
<1> QED
  BY <1>1, <1>2, Zenon DEF CheckpointIInv, StoreHolds, StreamTypes, Private, streamVars, storeVars

LEMMA RestartRuntimeKeeps ==
    ASSUME CheckpointIInv, RestartRuntime
    PROVE  CheckpointIInv'
<1>1. /\ live' = NoTurn /\ loaded' = FALSE /\ memory' = << >> /\ costs' = 0
      /\ (saved' = [damaged |-> TRUE, list |-> << >>] \/ saved' = saved)
      /\ UNCHANGED <<past, turns, said, streamVars>>
  BY Zenon DEF RestartRuntime
<1>2. LiveBooks' /\ StreamBooks'
  BY <1>1, Zenon DEF LiveBooks, StreamBooks
<1>3. StoreHolds'
  <2>1. StoreHolds
    BY DEF CheckpointIInv
  <2>2. ListOf(memory', past', turns')
    BY <1>1, NoCheckpoints, Zenon
  <2>3. /\ ListOf(saved'.list, past', turns') /\ saved' = [damaged |-> saved'.damaged, list |-> saved'.list]
        /\ saved'.damaged \in BOOLEAN
    <3>1. CASE saved' = [damaged |-> TRUE, list |-> << >>]
      <4>1. saved'.list = << >> /\ saved'.damaged = TRUE
        BY <3>1
      <4> QED
        BY <3>1, <4>1, NoCheckpoints, Zenon
    <3>2. CASE saved' = saved
      BY <1>1, <2>1, <3>2, Zenon DEF StoreHolds
    <3> QED
      BY <1>1, <3>1, <3>2
  <2>4. costs' \in Nat /\ costs' <= 0 /\ loaded' = FALSE
    BY <1>1
  <2>5. loaded' \in BOOLEAN /\ costs' <= (IF loaded' THEN 1 ELSE 0)
    BY <2>4, Zenon
  <2> QED
    BY <2>2, <2>3, <2>4, <2>5, Zenon DEF StoreHolds
<1>4. StreamTypes' /\ Private' /\ (said \in Nat /\ HistoryOf(past, turns))'
  BY <1>1, Zenon DEF CheckpointIInv, StreamTypes, Private, streamVars
<1> QED
  BY <1>2, <1>3, <1>4, Zenon DEF CheckpointIInv

LEMMA AgeOutKeeps ==
    ASSUME CheckpointIInv, AgeOut
    PROVE  CheckpointIInv'
<1> DEFINE aged(m) == [i \in DOMAIN m |-> [m[i] EXCEPT !.old = TRUE]]
<1>1. /\ memory' = aged(memory) /\ saved' = [saved EXCEPT !.list = aged(@)]
      /\ UNCHANGED <<past, turns, said, live, streamVars, loaded, costs>>
  BY DEF AgeOut
<1>2. StoreHolds
  BY DEF CheckpointIInv
<1>3. ListOf(aged(memory), past, turns) /\ ListOf(aged(saved.list), past, turns)
  BY <1>2, AgedList DEF StoreHolds
<1>4. saved' = [damaged |-> saved.damaged, list |-> aged(saved.list)]
  <2> HIDE DEF aged
  <2> QED
    BY <1>1, <1>2 DEF StoreHolds
<1> HIDE DEF aged
<1>5. saved'.damaged = saved.damaged /\ saved'.list = aged(saved.list)
  BY <1>4
<1>6. StoreHolds'
  BY <1>1, <1>2, <1>3, <1>4, <1>5, Zenon DEF StoreHolds
<1>7. (said \in Nat /\ HistoryOf(past, turns))' /\ LiveBooks' /\ StreamBooks' /\ StreamTypes' /\ Private'
  BY <1>1, Zenon DEF CheckpointIInv, StreamTypes, Private, streamVars, LiveBooks, StreamBooks
<1> QED
  BY <1>6, <1>7, Zenon DEF CheckpointIInv

LEMMA WriteKeeps ==
    ASSUME CheckpointIInv, Write
    PROVE  CheckpointIInv'
<1>1. live # NoTurn /\ live.page = << >> /\ UNCHANGED <<past, turns, said, streamVars, storeVars, costs>>
  BY Zenon DEF Write
<1>2. PICK p \in Page : live' = [live EXCEPT !.page = p]
  BY Zenon DEF Write
<1>3. /\ live = [turn |-> live.turn, told |-> live.told, parent |-> live.parent, page |-> live.page, read |-> live.read]
      /\ StreamOf(live.page, live.read, shown, pend, cut)
      /\ shown \in Seq(Token4) /\ pend \in Seq(Token4) /\ cut \in BOOLEAN
  BY <1>1, Zenon DEF CheckpointIInv, LiveBooks, StreamBooks, StreamTypes
<1>4. live' = [turn |-> live.turn, told |-> live.told, parent |-> live.parent, page |-> p, read |-> live.read]
  BY <1>2, <1>3
<1>5. live'.turn = live.turn /\ live'.told = live.told /\ live'.page = p /\ live'.read = live.read /\ live'.parent = live.parent
  BY <1>4
<1>6. live.read = 0 /\ Len(shown) = 0 /\ (~cut => Len(pend) = 0) /\ p \in Seq(Token4)
  <2>1. Len(live.page) = 0
    BY <1>1
  <2>2. live.read \in 0..0 /\ Len(shown) <= live.read /\ (~cut => Len(shown) + Len(pend) = live.read)
    BY <1>3, <2>1 DEF StreamOf
  <2>3. Len(shown) \in Nat /\ Len(pend) \in Nat /\ p \in Seq(Token4)
    BY <1>3, PageIs
  <2> QED
    BY <2>2, <2>3
<1>7. StreamOf(p, 0, shown, pend, cut)
  BY <1>6 DEF StreamOf, Unmarked
<1>8. StreamBooks'
  <2>1. shown' = shown /\ pend' = pend /\ cut' = cut
    BY <1>1, Zenon DEF streamVars
  <2> QED
    BY <1>5, <1>6, <1>7, <2>1, Zenon DEF StreamBooks
<1>9. LiveBooks'
  <2>1. live' = [turn |-> live'.turn, told |-> live'.told, parent |-> live'.parent, page |-> live'.page, read |-> live'.read]
    BY <1>4, <1>5
  <2>2. LiveBooks /\ past' = past
    BY <1>1 DEF CheckpointIInv
  <2> QED
    BY <1>1, <1>5, <2>1, <2>2, Zenon DEF LiveBooks
<1> QED
  BY <1>1, <1>8, <1>9, Zenon DEF CheckpointIInv, StoreHolds, StreamTypes, Private, streamVars, storeVars

\* What a turn is told when it begins.
LEMMA ApplyKeeps ==
    ASSUME CheckpointIInv, Apply
    PROVE  CheckpointIInv'
<1>1. /\ past # << >> /\ Says(Last(past)) /\ pend' = << >> /\ shown' = << >> /\ cut' = FALSE
      /\ UNCHANGED <<past, turns, said, mishaps>>
  BY Zenon DEF Apply
<1>2. PICK replayed \in BOOLEAN :
        /\ replayed => LastAnswer(past) > 0
        /\ \E b \in {Boundary(past, Last(past).turn, replayed)} : \E p \in {Parent(past, b)} :
             \/ /\ p = NoTurn /\ UNCHANGED <<storeVars, costs>>
                /\ live' = [turn |-> Last(past).turn, told |-> Told(past), parent |-> NoTurn, page |-> << >>, read |-> 0]
             \/ /\ p # NoTurn /\ SetsLoaded /\ UNCHANGED saved /\ memory' = PruneStore(Load.mem)
                /\ costs' = IF Load.ok THEN costs ELSE costs + 1
                /\ live' = IF ~Load.ok THEN NoTurn
                           ELSE [turn |-> Last(past).turn, parent |-> p, page |-> << >>, read |-> 0,
                                 told |-> LET found == Stored(PruneStore(Load.mem), p) IN
                                          IF found = {} THEN Told(past)
                                          ELSE (CHOOSE c \in found : TRUE).covers \cup Told(SubSeq(past, b, Len(past)))]
  BY DEF Apply
<1> DEFINE b == Boundary(past, Last(past).turn, replayed)
           p == Parent(past, b)
           found == Stored(PruneStore(Load.mem), p)
           told == IF found = {} THEN Told(past)
                   ELSE (CHOOSE c \in found : TRUE).covers \cup Told(SubSeq(past, b, Len(past)))
<1> DEFINE Begins(d, q) ==
             /\ live' = [turn |-> Last(past).turn, told |-> d, parent |-> q, page |-> << >>, read |-> 0]
             /\ d \in SUBSET Nat
             /\ ~Unanswered(past, Len(past)) /\ ~Twice(past, Len(past)) => d = Heard(past, Len(past))
<1>3. /\ said \in Nat /\ HistoryOf(past, turns) /\ StoreHolds /\ StreamTypes
      /\ past \in Seq(HistoryItem)
  BY DEF CheckpointIInv, HistoryOf
<1>4. Len(past) \in Nat /\ Len(past) > 0 /\ Last(past) = past[Len(past)] /\ Says(past[Len(past)])
  BY <1>1, <1>3 DEF Last
<1>5. ListOf(PruneStore(Load.mem), past, turns) /\ Load.ok \in BOOLEAN /\ (~Load.ok => ~loaded)
  BY <1>3, LoadedList, PrunedList
<1>6. Told(past) \in SUBSET Nat /\ Told(past) = Heard(past, Len(past))
  BY <1>3, ToldIsHeard, HeardIsNumbers
<1>7. ASSUME p = NoTurn PROVE StoreHolds' /\ \E d, q : Begins(d, q)
  <2>1. /\ live' = [turn |-> Last(past).turn, told |-> Told(past), parent |-> NoTurn, page |-> << >>, read |-> 0]
        /\ UNCHANGED <<storeVars, costs>>
    BY <1>2, <1>7, Zenon
  <2>2. Begins(Told(past), NoTurn)
    BY <1>6, <2>1, Zenon
  <2>3. StoreHolds'
    BY <1>1, <1>3, <2>1, Zenon DEF StoreHolds, storeVars
  <2> QED
    BY <2>2, <2>3
<1>8. ASSUME p # NoTurn, found # {} PROVE told \in SUBSET Nat /\ (~Unanswered(past, Len(past)) /\ ~Twice(past, Len(past)) => told = Heard(past, Len(past)))
  <2> DEFINE m == PruneStore(Load.mem)
             c == CHOOSE x \in found : TRUE
  <2>1. c \in found
    <3> HIDE DEF found
    <3> QED
      BY <1>8
  <2>2. c \in Range(m) /\ c.text = p.text /\ c.turn = p.turn
    <3> HIDE DEF c, p, m
    <3> QED
      BY <2>1 DEF Stored, m
  <2>3. told = c.covers \cup Told(SubSeq(past, b, Len(past)))
    BY <1>8
  <2> HIDE DEF c, m, told
  <2>4. EntryOf(c, past, turns)
    <3>1. DOMAIN m = 1..Len(m)
      BY <1>5 DEF ListOf, m
    <3>2. PICK i \in 1..Len(m) : c = m[i]
      BY <2>2, <3>1 DEF Range
    <3> QED
      BY <1>5, <3>2, Zenon DEF ListOf, m
  <2>5. c.covers \in SUBSET Nat
    BY <2>4 DEF EntryOf, Checkpoint
  <2>6. b \in 1..Len(past)
    BY <1>2, <1>3, <1>4, BoundaryIs
  <2>7. Told(SubSeq(past, b, Len(past))) \subseteq Heard(past, Len(past))
    BY <1>3, <2>6, ToldSplit
  <2>8. ASSUME ~Unanswered(past, Len(past)), ~Twice(past, Len(past)) PROVE told = Heard(past, Len(past))
    <3>1. b = Boundary(past, past[Len(past)].turn, replayed) /\ Parent(past, b) # NoTurn
      BY <1>4, <1>8
    <3>2. c.text = Parent(past, b).text /\ c.turn = Parent(past, b).turn
      BY <2>2
    <3> HIDE DEF b, p
    <3>3. c.covers \cup Told(SubSeq(past, b, Len(past))) = Heard(past, Len(past))
      BY <1>2, <1>3, <1>4, <2>4, <2>8, <3>1, <3>2, ParentTells
    <3> QED
      BY <2>3, <3>3
  <2> QED
    BY <1>6, <2>3, <2>5, <2>7, <2>8
<1>9. ASSUME p # NoTurn PROVE told \in SUBSET Nat /\ (~Unanswered(past, Len(past)) /\ ~Twice(past, Len(past)) => told = Heard(past, Len(past)))
  BY <1>6, <1>8, <1>9
<1>10. ASSUME p # NoTurn PROVE StoreHolds' /\ (live' = NoTurn \/ \E d, q : Begins(d, q))
  <2>1. /\ loaded' = TRUE /\ saved' = saved /\ memory' = PruneStore(Load.mem)
        /\ costs' = IF Load.ok THEN costs ELSE costs + 1
        /\ live' = IF ~Load.ok THEN NoTurn
                   ELSE [turn |-> Last(past).turn, parent |-> p, page |-> << >>, read |-> 0, told |-> told]
    BY <1>2, <1>10, Zenon DEF SetsLoaded
  <2>2. StoreHolds'
    <3>1. costs \in Nat /\ costs <= (IF loaded THEN 1 ELSE 0) /\ loaded \in BOOLEAN
      BY <1>3 DEF StoreHolds
    <3>2. costs' \in Nat /\ costs' <= 1
      BY <1>5, <2>1, <3>1
    <3> QED
      BY <1>1, <1>3, <1>5, <2>1, <3>2, Zenon DEF StoreHolds
  <2>3. CASE ~Load.ok
    BY <2>1, <2>2, <2>3
  <2>4. CASE Load.ok
    <3>1. live' = [turn |-> Last(past).turn, parent |-> p, page |-> << >>, read |-> 0, told |-> told]
      BY <2>1, <2>4, Zenon
    <3> HIDE DEF told, p
    <3>2. live' = [turn |-> Last(past).turn, told |-> told, parent |-> p, page |-> << >>, read |-> 0]
      BY <3>1
    <3>3. Begins(told, p)
      BY <1>9, <1>10, <3>2, Zenon
    <3> QED
      BY <2>2, <3>3
  <2> QED
    BY <2>3, <2>4
<1>11. StoreHolds' /\ (live' = NoTurn \/ \E d, q : Begins(d, q))
  BY <1>7, <1>10
<1>12. LiveBooks' /\ StreamBooks'
  <2>1. CASE live' = NoTurn
    BY <2>1, Zenon DEF LiveBooks, StreamBooks
  <2>2. CASE \E d, q : Begins(d, q)
    <3>1. PICK d, q : Begins(d, q)
      BY <2>2
    <3>2. /\ live' = [turn |-> live'.turn, told |-> live'.told, parent |-> live'.parent, page |-> live'.page, read |-> live'.read]
          /\ live'.turn = past[Len(past)].turn /\ live'.told = d /\ live'.page = << >> /\ live'.read = 0
      BY <1>4, <3>1
    <3>3. LiveBooks'
      BY <1>1, <1>4, <3>1, <3>2, Zenon DEF LiveBooks
    <3>4. StreamOf(<< >>, 0, << >>, << >>, FALSE)
      BY DEF StreamOf, Unmarked
    <3>5. StreamBooks'
      BY <1>1, <3>2, <3>4, Zenon DEF StreamBooks
    <3> QED
      BY <3>3, <3>5
  <2> QED
    BY <1>11, <2>1, <2>2
<1>13. StreamTypes' /\ Private'
  <2>1. << >> \in Seq(Token4) /\ Kept(<< >>) /\ FALSE \in BOOLEAN
    BY DEF Kept, Unmarked
  <2> QED
    BY <1>1, <2>1, Zenon DEF StreamTypes, Private
<1>14. (said \in Nat /\ HistoryOf(past, turns))'
  BY <1>1, <1>3, Zenon
<1> QED
  BY <1>11, <1>12, <1>13, <1>14, Zenon DEF CheckpointIInv

\* The answer that finishes a turn is new, and its checkpoint covers what the turn was told.
LEMMA NewEntry ==
    ASSUME NEW h, NEW t, HistoryOf(h, t), Len(h) > 0, NEW text \in AnswerText, NEW told \in SUBSET Nat,
           ~Unanswered(h, Len(h)) /\ ~Twice(h, Len(h)) => told = Heard(h, Len(h))
    PROVE  LET x == [k |-> "answer", turn |-> h[Len(h)].turn, text |-> text, id |-> 0]
               c == [text |-> text, turn |-> h[Len(h)].turn, covers |-> told, old |-> FALSE]
           IN  /\ x \in HistoryItem /\ HistoryOf(Append(h, x), t) /\ EntryOf(c, Append(h, x), t)
               /\ \A m : ListOf(m, h, t) => ListOf(m, Append(h, x), t)
<1> DEFINE u == h[Len(h)].turn
           x == [k |-> "answer", turn |-> u, text |-> text, id |-> 0]
           c == [text |-> text, turn |-> u, covers |-> told, old |-> FALSE]
           g == Append(h, x)
           n == Len(h) + 1
<1>1. h \in Seq(HistoryItem) /\ Len(h) \in Nat /\ t \in Nat /\ Len(h) \in 1..Len(h)
  BY DEF HistoryOf
<1>2. u \in Nat /\ u <= t
  <2>1. h[Len(h)] \in HistoryItem /\ h[Len(h)].turn <= t
    BY <1>1 DEF HistoryOf
  <2> QED
    BY <2>1 DEF HistoryItem
<1>3. h[Len(h)].turn = u /\ u <= u /\ t <= t
  BY <1>1, <1>2
<1> HIDE DEF u
<1>4. x \in HistoryItem /\ x.turn = u /\ x.text = text /\ x.id = 0 /\ Answered(x) /\ ~Says(x)
  <2>1. "answer" \in {"user", "answer"} /\ text \in AnswerText \cup {""} /\ 0 \in Nat
    OBVIOUS
  <2>2. x \in HistoryItem
    BY <1>2, <2>1, Zenon DEF HistoryItem
  <2> QED
    BY <2>2 DEF Answered, Says
<1>5. c \in Checkpoint /\ c.turn = u /\ c.text = text /\ c.covers = told
  <2>1. c \in Checkpoint
    BY <1>2, Zenon DEF Checkpoint
  <2> QED
    BY <2>1
<1>6. g = Append(h, x)
  OBVIOUS
<1> HIDE DEF x, c, g
<1>7. HistoryOf(g, t)
  BY <1>1, <1>2, <1>3, <1>4, <1>6, HistoryExtends
<1>8. \A m : ListOf(m, h, t) => ListOf(m, g, t)
  <2> SUFFICES ASSUME NEW m, ListOf(m, h, t) PROVE ListOf(m, g, t)
    OBVIOUS
  <2>1. x.turn > t \/ \E j \in 1..Len(h) : h[j].turn = x.turn
    BY <1>1, <1>3, <1>4
  <2> QED
    BY <1>1, <1>3, <1>4, <1>6, <1>7, <2>1, ListExtends
<1>9. /\ Len(g) = n /\ g[n] = x /\ \A i \in 1..Len(h) : g[i] = h[i]
      /\ \A i \in 1..Len(h) : h[i] \in HistoryItem
  BY <1>1, <1>4, <1>6
<1>10. \A i \in 1..n : i \in 1..Len(h) \/ i = n
  BY <1>1
<1>11. n \in 1..Len(g) /\ Holds(g[n], c)
  BY <1>1, <1>4, <1>5, <1>9 DEF Holds
<1>12. ASSUME NEW i \in 1..Len(g), Holds(g[i], c), Plain(g, i) PROVE c.covers = Heard(g, i)
  <2>1. CASE i \in 1..Len(h)
    <3>1. Answered(h[i]) /\ h[i].turn = u /\ h[i].text = text /\ g[i] = h[i]
      BY <1>5, <1>9, <1>12, <2>1 DEF Holds
    <3>2. h[i].id = 0 /\ h[i] \in HistoryItem
      BY <1>9, <2>1, <3>1 DEF HistoryOf
    <3>3. h[i] = x
      BY <1>4, <3>1, <3>2, ItemsApart
    <3>4. n = i
      BY <1>9, <1>11, <1>12, <3>1, <3>3 DEF Plain
    <3> QED
      BY <1>1, <2>1, <3>4
  <2>2. CASE i = n
    <3>1. \A k \in 1..Len(h) : g[k] = h[k]
      BY <1>9
    <3>2. /\ Heard(g, Len(h)) = Heard(h, Len(h)) /\ (Unanswered(g, Len(h)) <=> Unanswered(h, Len(h)))
          /\ (Twice(g, Len(h)) <=> Twice(h, Len(h)))
      BY <1>1, <3>1, SameBeginning
    <3>3. ~Unanswered(g, Len(h)) /\ ~Twice(g, Len(h))
      <4>1. ~Unanswered(g, n) /\ ~Twice(g, n)
        BY <1>12, <2>2 DEF Plain
      <4>2. 1..(Len(h) - 1) \subseteq 1..(n - 1) /\ 1..Len(h) \subseteq 1..n
        BY <1>1
      <4>3. ~Unanswered(g, Len(h))
        BY <4>1, <4>2 DEF Unanswered
      <4>4. ~Twice(g, Len(h))
        BY <4>1, <4>2 DEF Twice
      <4> QED
        BY <4>3, <4>4
    <3>4. told = Heard(g, Len(h))
      BY <3>2, <3>3
    <3>5. Heard(g, n) = Heard(g, Len(h))
      <4>1. \A j \in 1..n : Says(g[j]) <=> j \in 1..Len(h) /\ Says(g[j])
        BY <1>4, <1>9, <1>10
      <4>2. 1..Len(h) \subseteq 1..n
        BY <1>1
      <4>3. {j \in 1..n : Says(g[j])} = {j \in 1..Len(h) : Says(g[j])}
        BY <4>1, <4>2
      <4> QED
        BY <4>3, Zenon DEF Heard
    <3> QED
      BY <1>5, <2>2, <3>4, <3>5
  <2> QED
    BY <1>9, <1>10, <2>1, <2>2
<1>13. c.turn <= t /\ (\E i \in 1..Len(g) : Holds(g[i], c))
  BY <1>2, <1>5, <1>11
<1>14. EntryOf(c, g, t)
  BY <1>5, <1>12, <1>13, Zenon DEF EntryOf
<1> QED
  BY <1>4, <1>7, <1>8, <1>14 DEF u, x, c, g

LEMMA FinishKeeps ==
    ASSUME CheckpointIInv, Finish
    PROVE  CheckpointIInv'
<1>1. /\ live # NoTurn /\ live.read = Len(live.page)
      /\ shown' = Whole(live.page) /\ pend' = << >> /\ live' = NoTurn
      /\ UNCHANGED <<turns, said, cut, mishaps>>
  BY Zenon DEF Finish
<1>2. PICK text \in AnswerText :
        LET ok == CompletePage(live.page)
            c  == [text |-> text, turn |-> live.turn, covers |-> live.told, old |-> FALSE]
            lost == ok /\ cut /\ ~Load.ok IN
        /\ past' = IF ok /\ ~lost THEN Append(past, [k |-> "answer", turn |-> live.turn, text |-> text, id |-> 0]) ELSE past
        /\ IF ok /\ cut
           THEN /\ SetsLoaded
                /\ IF Load.ok THEN memory' = Commit(c) /\ saved' = [damaged |-> FALSE, list |-> Commit(c)]
                              ELSE memory' = << >> /\ UNCHANGED saved
           ELSE UNCHANGED storeVars
        /\ costs' = IF lost THEN costs + 1 ELSE costs
  BY DEF Finish
<1> DEFINE ok == CompletePage(live.page)
           x == [k |-> "answer", turn |-> live.turn, text |-> text, id |-> 0]
           c == [text |-> text, turn |-> live.turn, covers |-> live.told, old |-> FALSE]
<1>3. \/ /\ past' = Append(past, x) /\ costs' = costs
         /\ \/ /\ loaded' = TRUE /\ Load.ok /\ memory' = Commit(c)
               /\ saved' = [damaged |-> FALSE, list |-> Commit(c)]
            \/ memory' = memory /\ saved' = saved /\ loaded' = loaded
      \/ past' = past /\ costs' = costs /\ memory' = memory /\ saved' = saved /\ loaded' = loaded
      \/ /\ past' = past /\ costs' = costs + 1 /\ ~Load.ok
         /\ loaded' = TRUE /\ memory' = << >> /\ saved' = saved
  BY <1>2, Zenon DEF SetsLoaded, storeVars
<1>4. /\ said \in Nat /\ HistoryOf(past, turns) /\ StoreHolds /\ StreamTypes /\ Private
      /\ StreamOf(live.page, live.read, shown, pend, cut)
      /\ Len(past) > 0 /\ live.turn = past[Len(past)].turn /\ live.told \in SUBSET Nat
      /\ ~Unanswered(past, Len(past)) /\ ~Twice(past, Len(past)) => live.told = Heard(past, Len(past))
  BY <1>1, Zenon DEF CheckpointIInv, LiveBooks, StreamBooks
<1>5. /\ x \in HistoryItem /\ HistoryOf(Append(past, x), turns) /\ EntryOf(c, Append(past, x), turns)
      /\ \A m : ListOf(m, past, turns) => ListOf(m, Append(past, x), turns)
  <2> DEFINE y == [k |-> "answer", turn |-> past[Len(past)].turn, text |-> text, id |-> 0]
             d == [text |-> text, turn |-> past[Len(past)].turn, covers |-> live.told, old |-> FALSE]
  <2>1. x = y /\ c = d
    BY <1>4
  <2>2. /\ y \in HistoryItem /\ HistoryOf(Append(past, y), turns) /\ EntryOf(d, Append(past, y), turns)
        /\ \A m : ListOf(m, past, turns) => ListOf(m, Append(past, y), turns)
    BY <1>4, NewEntry
  <2> HIDE DEF x, y, c, d
  <2> QED
    BY <2>1, <2>2, Zenon
<1> HIDE DEF x, c
<1>6. /\ ListOf(memory, past, turns) /\ ListOf(saved.list, past, turns) /\ ListOf(Load.mem, past, turns)
      /\ saved = [damaged |-> saved.damaged, list |-> saved.list] /\ saved.damaged \in BOOLEAN
      /\ loaded \in BOOLEAN /\ costs \in Nat /\ costs <= (IF loaded THEN 1 ELSE 0)
      /\ (~Load.ok => ~loaded)
  BY <1>4, LoadedList DEF StoreHolds
<1>7. costs <= 1 /\ (~loaded => costs = 0) /\ costs + 1 \in Nat
  BY <1>6
<1>8. HistoryOf(past', turns) /\ StoreHolds'
  <2>1. CASE /\ past' = Append(past, x) /\ costs' = costs /\ loaded' = TRUE /\ memory' = Commit(c)
             /\ saved' = [damaged |-> FALSE, list |-> Commit(c)]
    <3>1. ListOf(Commit(c), Append(past, x), turns)
      <4>1. ListOf(Load.mem, Append(past, x), turns) /\ EntryOf(c, Append(past, x), turns)
        BY <1>5, <1>6
      <4> QED
        BY <4>1, CommittedList
    <3>2. saved'.damaged = FALSE /\ saved'.list = Commit(c)
      BY <2>1
    <3>3. costs' \in Nat /\ costs' <= (IF loaded' THEN 1 ELSE 0)
      BY <1>6, <1>7, <2>1
    <3> QED
      BY <1>1, <1>5, <2>1, <3>1, <3>2, <3>3, Zenon DEF StoreHolds
  <2>2. CASE past' = Append(past, x) /\ costs' = costs /\ memory' = memory /\ saved' = saved /\ loaded' = loaded
    <3>1. ListOf(memory, Append(past, x), turns) /\ ListOf(saved.list, Append(past, x), turns)
      BY <1>5, <1>6
    <3> QED
      BY <1>1, <1>5, <1>6, <2>2, <3>1, Zenon DEF StoreHolds
  <2>3. CASE past' = past /\ costs' = costs /\ memory' = memory /\ saved' = saved /\ loaded' = loaded
    BY <1>1, <1>4, <1>6, <2>3, Zenon DEF StoreHolds
  <2>4. CASE /\ past' = past /\ costs' = costs + 1 /\ ~Load.ok
             /\ loaded' = TRUE /\ memory' = << >> /\ saved' = saved
    <3>1. costs' \in Nat /\ costs' <= (IF loaded' THEN 1 ELSE 0)
      BY <1>6, <1>7, <2>4
    <3>2. ListOf(<< >>, past, turns)
      BY NoCheckpoints
    <3>3. loaded' \in BOOLEAN
      BY <2>4
    <3> QED
      BY <1>1, <1>4, <1>6, <2>4, <3>1, <3>2, <3>3, Zenon DEF StoreHolds
  <2> QED
    BY <1>3, <2>1, <2>2, <2>3, <2>4
<1>9. Whole(live.page) \in Seq(Token4) /\ Kept(Whole(live.page))
  <2>1. shown \in Seq(Token4) /\ pend \in Seq(Token4) /\ cut \in BOOLEAN /\ Kept(shown)
    BY <1>4, Zenon DEF StreamTypes, Private
  <2>2. CASE cut
    BY <2>1, <2>2 DEF Whole
  <2>3. CASE ~cut
    <3> DEFINE z == shown \o pend
    <3>1. Whole(live.page) = z
      BY <2>3 DEF Whole
    <3>2. /\ live.page = << >> \/ live.page \in Page
          /\ Len(shown) + Len(pend) = live.read /\ (\A i \in 1..Len(shown) : shown[i] = live.page[i])
          /\ (\A i \in 1..Len(pend) : pend[i] = live.page[Len(shown) + i])
          /\ Unmarked(live.page, live.read - 1)
      BY <1>4, <2>3, Zenon DEF StreamOf
    <3>3. /\ z \in Seq(Token4) /\ Len(z) = Len(shown) + Len(pend)
          /\ \A i \in 1..(Len(shown) + Len(pend)) : z[i] = IF i <= Len(shown) THEN shown[i] ELSE pend[i - Len(shown)]
      BY <2>1, ConcatProperties
    <3>4. Len(shown) \in Nat /\ Len(pend) \in Nat
      BY <2>1
    <3> HIDE DEF z
    <3>5. Len(z) = Len(live.page) /\ Unmarked(live.page, Len(z) - 1)
      BY <1>1, <3>2, <3>3
    <3>6. Len(z) <= Len(live.page)
      BY <3>3, <3>5
    <3>7. \A i \in 1..Len(z) : z[i] = live.page[i]
      <4> TAKE i \in 1..Len(z)
      <4>1. i \in 1..(Len(shown) + Len(pend))
        BY <3>3
      <4>2. CASE i <= Len(shown)
        <5>1. i \in 1..Len(shown) /\ z[i] = shown[i]
          BY <3>3, <3>4, <4>1, <4>2
        <5> QED
          BY <3>2, <5>1
      <4>3. CASE ~(i <= Len(shown))
        <5>1. i - Len(shown) \in 1..Len(pend) /\ Len(shown) + (i - Len(shown)) = i /\ z[i] = pend[i - Len(shown)]
          BY <3>3, <3>4, <4>1, <4>3
        <5> QED
          BY <3>2, <5>1
      <4> QED
        BY <4>2, <4>3
    <3>8. Kept(z)
      BY <3>2, <3>3, <3>5, <3>6, <3>7, NothingPrivate
    <3> QED
      BY <3>1, <3>3, <3>8
  <2> QED
    BY <2>2, <2>3
<1>10. StreamTypes' /\ Private'
  <2>1. << >> \in Seq(Token4) /\ cut \in BOOLEAN
    BY <1>4 DEF StreamTypes
  <2> QED
    BY <1>1, <1>9, <2>1, Zenon DEF StreamTypes, Private
<1>11. LiveBooks' /\ StreamBooks'
  BY <1>1, Zenon DEF LiveBooks, StreamBooks
<1>12. (said \in Nat /\ HistoryOf(past, turns))'
  BY <1>1, <1>4, <1>8, Zenon
<1> QED
  BY <1>8, <1>10, <1>11, <1>12, Zenon DEF CheckpointIInv

LEMMA CheckpointIInvInit ==
    ASSUME RCInit
    PROVE  CheckpointIInv
<1>1. /\ past = << >> /\ turns = 0 /\ said = 0 /\ live = NoTurn
      /\ pend = << >> /\ shown = << >> /\ cut = FALSE
      /\ memory = << >> /\ saved = [damaged |-> FALSE, list |-> << >>] /\ loaded = FALSE /\ costs = 0
  BY DEF RCInit
<1>2. HistoryOf(past, turns) /\ said \in Nat
  BY <1>1 DEF HistoryOf
<1>3. saved.damaged = FALSE /\ saved.list = << >>
  <2>1. saved = [damaged |-> FALSE, list |-> << >>]
    BY <1>1, Zenon
  <2>2. saved.damaged = FALSE
    BY <2>1, Zenon
  <2>3. saved.list = << >>
    BY <2>1, Zenon
  <2> QED
    BY <2>2, <2>3
<1>4. StoreHolds
  <2>1. ListOf(<< >>, past, turns)
    BY NoCheckpoints
  <2>2. costs \in Nat /\ costs <= (IF loaded THEN 1 ELSE 0) /\ loaded \in BOOLEAN
    <3>1. costs = 0 /\ loaded = FALSE
      BY <1>1, Zenon
    <3>2. costs \in Nat /\ costs <= 0
      BY <3>1
    <3> QED
      BY <3>1, <3>2, Zenon
  <2> QED
    BY <1>1, <1>3, <2>1, <2>2, Zenon DEF StoreHolds
<1>5. LiveBooks /\ StreamBooks
  BY <1>1, Zenon DEF LiveBooks, StreamBooks
<1>6. << >> \in Seq(Token4) /\ Kept(<< >>) /\ FALSE \in BOOLEAN
  BY DEF Kept, Unmarked
<1> QED
  BY <1>1, <1>2, <1>4, <1>5, <1>6, Zenon DEF CheckpointIInv, StreamTypes, Private

LEMMA CheckpointIInvStep ==
    ASSUME CheckpointIInv, [RCNext]_rcVars
    PROVE  CheckpointIInv'
<1>1. CASE RCNext
  BY <1>1, ApplyKeeps, WriteKeeps, PushKeeps, FinishKeeps, StartTurnKeeps, SteerTaskKeeps, RollbackKeeps,
     AbortTurnKeeps, RestartRuntimeKeeps, AgeOutKeeps, Zenon DEF RCNext
<1>2. CASE UNCHANGED rcVars
  BY <1>2, Zenon DEF rcVars, CheckpointIInv, StoreHolds, LiveBooks, StreamBooks, StreamTypes, Private
<1> QED
  BY <1>1, <1>2

LEMMA CheckpointIInvShows ==
    ASSUME CheckpointIInv
    PROVE  CheckpointInv
<1>1. NothingForgotten
  <2> SUFFICES ASSUME live # NoTurn, ~LeftUnanswered, ~SaidTwice PROVE live.told = Told(past)
    BY Zenon DEF NothingForgotten
  <2>1. ~Unanswered(past, Len(past)) /\ ~Twice(past, Len(past))
    BY Zenon DEF LeftUnanswered, SaidTwice, Unanswered, Twice
  <2>2. live.told = Heard(past, Len(past))
    BY <2>1, Zenon DEF CheckpointIInv, LiveBooks
  <2> QED
    BY <2>2, ToldIsHeard
<1>2. shown \in Seq(Token4) /\ Len(shown) \in Nat /\ Kept(shown)
  BY DEF CheckpointIInv, StreamTypes, Private
<1>3. \A i \in 1..Len(shown) : shown[i] # "c"
  BY <1>2 DEF Kept
<1>4. At(shown, Marker) = {}
  <2> SUFFICES ASSUME NEW i \in At(shown, Marker) PROVE FALSE
    OBVIOUS
  <2>1. i \in 1..Len(shown) /\ i + 1 <= Len(shown) /\ shown[i] = "m1" /\ shown[i + 1] = "m2"
    BY <1>2, MarkedAt
  <2>2. i \in 1..(Len(shown) - 1)
    BY <1>2, <2>1
  <2> QED
    BY <1>2, <2>1, <2>2 DEF Kept, Unmarked
<1>5. costs <= 1
  BY DEF CheckpointIInv, StoreHolds
<1> QED
  BY <1>1, <1>3, <1>4, <1>5, Zenon DEF CheckpointInv

\* A browser turn is told the whole history, in full or through the summary of its exact parent,
\* and nothing else, but for the two exceptions the invariant names; nothing private is shown,
\* and a damaged file costs one request (rolling-checkpoint.ts, apply, commit and the stream).
THEOREM CheckpointCorrect == RCSpec => []CheckpointInv
<1>1. RCInit => CheckpointIInv
  BY CheckpointIInvInit
<1>2. CheckpointIInv /\ [RCNext]_rcVars => CheckpointIInv'
  BY CheckpointIInvStep
<1>3. CheckpointIInv => CheckpointInv
  BY CheckpointIInvShows
<1> QED
  BY <1>1, <1>2, <1>3, PTL DEF RCSpec
=============================================================================
