------------------------- MODULE TurnBroker_proofs -------------------------
(***************************************************************************)
(* Proofs about TurnBroker for every set of tokens, activities, calls and  *)
(* observers: type correctness, the safety invariants and the action       *)
(* properties the run "broker" checks, and that the broker implements      *)
(* ToolDelivery.                                                           *)
(***************************************************************************)
EXTENDS TurnBroker, FiniteSetTheorems, SequenceTheorems, TLAPS

\* The conjunction of the invariants is inductive as it stands.
IInv ==
    /\ TypeOK
    /\ InvocationBooks
    /\ NoLostWakeup
    /\ CommittedTurnIsQuiet
    /\ RetiredTurnHoldsNothing
    /\ CompactionStopsDelivery

-----------------------------------------------------------------------------
(* Retired histories *)

\* An order in which a loop revokes the turns of S is a sequence of tokens.
LEMMA OrdersAreSequences ==
    ASSUME NEW S \in SUBSET Token, NEW order \in Orders(S)
    PROVE  order \in Seq(Token)
<1>1. IsFiniteSet(S)
  BY FiniteIds, FS_Subset
<1>2. Cardinality(S) \in Nat
  BY <1>1, FS_CardinalityType
<1>3. order \in [1..Cardinality(S) -> Token]
  BY DEF Orders
<1> QED
  BY <1>2, <1>3

\* Trimming a history leaves a history.
LEMMA RememberedIsHistory ==
    ASSUME NEW history \in Seq(Token), NEW order \in Seq(Token)
    PROVE  Remembered(history, order) \in Seq(Token)
<1> DEFINE all == history \o order
           excess == Len(all) - MAX_RETIRED_TURN_HANDLES
<1>1. all \in Seq(Token)
  OBVIOUS
<1>2. CASE excess > 0
  <2>1. excess + 1 \in 1..Len(all) + 1
    BY <1>1, <1>2, HistoryBound
  <2>2. SubSeq(all, excess + 1, Len(all)) \in Seq(Token)
    BY <1>1, <2>1
  <2> QED
    BY <1>2, <2>2 DEF Remembered
<1>3. CASE ~(excess > 0)
  BY <1>1, <1>3 DEF Remembered
<1> QED
  BY <1>2, <1>3

\* Retiring any set of turns keeps the types.
LEMMA RevokeAllType ==
    ASSUME TypeOK, NEW S \in SUBSET Token, NEW failure \in BOOLEAN, RevokeAll(S, failure)
    PROVE  TypeOK'
<1>1. retiredTokens' \in Seq(Token)
  BY OrdersAreSequences, RememberedIsHistory DEF TypeOK, RevokeAll
<1>2. retiredBindings' \in Seq(Token)
  <2>1. S \cap bindings \in SUBSET Token
    BY DEF TypeOK
  <2> QED
    BY <2>1, OrdersAreSequences, RememberedIsHistory DEF TypeOK, RevokeAll
<1>3. /\ life' \in [Token -> {"unissued", "active", "retired"}]
      /\ expired' \subseteq Token
      /\ acceptingExternalOwners' \in BOOLEAN
      /\ bindings' \subseteq Token
      /\ retirementWatch' \in [Token -> {"none", "waiting", "retired", "failed"}]
  BY DEF TypeOK, RevokeAll
<1>4. /\ invocations' \in [Token -> SUBSET Call]
      /\ queuedCallIds' \in [Token -> SUBSET Call]
      /\ deliveredCallIds' \in [Token -> SUBSET Call]
      /\ waiters' \in [Token -> SUBSET Observer]
      /\ batchTimer' \in [Token -> BOOLEAN]
      /\ outcome' \in [Call -> {"unsent", "pending"} \cup Settled]
  BY DEF TypeOK, RevokeAll, Settled
<1> QED
  BY <1>1, <1>2, <1>3, <1>4 DEF TypeOK, RevokeAll, fenceVars, compactionVars

-----------------------------------------------------------------------------
(* Type correctness *)

LEMMA StepType == TypeOK /\ [Next]_vars => TypeOK'
<1> SUFFICES ASSUME TypeOK, [Next]_vars PROVE TypeOK'
  OBVIOUS
<1> USE DEF TypeOK, registryVars, fenceVars, toolVars, compactionVars
<1>1. ASSUME NEW t \in Token, Register(t) PROVE TypeOK'
  BY <1>1 DEF Register
<1>2. ASSUME NEW t \in Token, WaitForRetirement(t) PROVE TypeOK'
  BY <1>2 DEF WaitForRetirement, WatchAnswer
<1>3. ASSUME NEW t \in Token, Revoke(t) PROVE TypeOK'
  <2>1. {t} \in SUBSET Token /\ FALSE \in BOOLEAN
    OBVIOUS
  <2> QED
    BY <1>3, <2>1, RevokeAllType DEF Revoke
<1>4. ASSUME NEW t \in Token, Expire(t) PROVE TypeOK'
  BY <1>4 DEF Expire
<1>5. ASSUME NEW x \in Trace, RevokeTrace(x) PROVE TypeOK'
  <2>1. {t \in LiveTokens : TraceOf[t] = x} \in SUBSET Token
    BY DEF LiveTokens
  <2> QED
    BY <1>5, <2>1, RevokeAllType DEF RevokeTrace
<1>6. ASSUME NEW accepted \in BOOLEAN, SetExternalOwnersAccepted(accepted) PROVE TypeOK'
  BY <1>6 DEF SetExternalOwnersAccepted
<1>7. CASE RevokeExternalOwners
  <2>1. LiveTokens \cap External \in SUBSET Token
    BY DEF LiveTokens
  <2> QED
    BY <1>7, <2>1, RevokeAllType DEF RevokeExternalOwners
<1>8. CASE Close
  <2>1. LiveTokens \in SUBSET Token
    BY DEF LiveTokens
  <2> QED
    BY <1>8, <2>1, RevokeAllType DEF Close
<1>9. CASE Prune
  BY <1>9, RevokeAllType DEF Prune
<1>10. ASSUME NEW t \in Token, NEW a \in Activity, Claim(t, a) PROVE TypeOK'
  BY <1>10 DEF Claim, AfterActivity
<1>11. ASSUME NEW t \in Token, NEW a \in Activity, ActivityComplete(t, a) PROVE TypeOK'
  BY SMTT(40), <1>11 DEF ActivityComplete, AfterActivity
<1>12. ASSUME NEW t \in Token, NEW c \in Call, Invoke(t, c) PROVE TypeOK'
  <2>1. CASE Divert(t, c)
    BY <1>12, <2>1 DEF Invoke, Divert, Settled
  <2>2. CASE Enqueue(t, c)
    <3>1. TimerAfter(t, queuedCallIds[t] \cup {c}, waiters[t]) \in BOOLEAN
      BY DEF TimerAfter
    <3>2. batchTimer' \in [Token -> BOOLEAN]
      BY <2>2, <3>1 DEF Enqueue
    <3> QED
      BY <1>12, <2>2, <3>2 DEF Invoke, Enqueue, Settled
  <2> QED
    BY <1>12, <2>1, <2>2 DEF Invoke
<1>13. ASSUME NEW t \in Token, NEW failure \in BOOLEAN, Release(t, failure) PROVE TypeOK'
  <2>1. {t} \in SUBSET Token
    OBVIOUS
  <2> QED
    BY <1>13, <2>1, RevokeAllType DEF Release
<1>14. ASSUME NEW t \in Token, NextImmediate(t) PROVE TypeOK'
  BY <1>14 DEF NextImmediate, TakeQueued
<1>15. ASSUME NEW t \in Token, BatchTimer(t) PROVE TypeOK'
  <2>1. CASE UNCHANGED <<queuedCallIds, deliveredCallIds, waiters>>
    BY <1>15, <2>1 DEF BatchTimer
  <2>2. CASE TakeQueued(t) /\ waiters' = [waiters EXCEPT ![t] = {}]
    BY <1>15, <2>2 DEF BatchTimer, TakeQueued
  <2> QED
    BY <1>15, <2>1, <2>2 DEF BatchTimer
<1>16. ASSUME NEW t \in Token, RequestCompaction(t) PROVE TypeOK'
  <2>1. Cardinality(queuedCallIds[t]) \in Nat
    BY FiniteIds, FS_Subset, FS_CardinalityType
  <2>2. compactionDeliveryCount' \in [Token -> Nat]
    BY <1>16, <2>1 DEF RequestCompaction
  <2> QED
    BY <1>16, <2>2 DEF RequestCompaction, Settled
<1>17. ASSUME NEW t \in Token, NEW o \in Observer, NextWait(t, o) PROVE TypeOK'
  BY <1>17 DEF NextWait
<1>18. ASSUME NEW t \in Token, NEW o \in Observer, AbortWaiter(t, o) PROVE TypeOK'
  BY <1>18 DEF AbortWaiter
<1>19. ASSUME NEW t \in Token, NEW c \in Call, CompleteTool(t, c) PROVE TypeOK'
  BY <1>19 DEF CompleteTool, Settled
<1>20. ASSUME NEW t \in Token, NEW revision \in Revisions, CommitCompletionFence(t, revision)
       PROVE TypeOK'
  <2>1. revision \in Nat
    BY FS_CardinalityType, FiniteIds DEF Revisions
  <2> QED
    BY <1>20, <2>1 DEF CommitCompletionFence
<1>21. CASE UNCHANGED vars
  BY <1>21 DEF vars
<1> QED
  BY <1>1, <1>2, <1>3, <1>4, <1>5, <1>6, <1>7, <1>8, <1>9, <1>10, <1>11, <1>12, <1>13,
     <1>14, <1>15, <1>16, <1>17, <1>18, <1>19, <1>20, <1>21
  DEF Next, RegistryNext, McpNext, OwnerNext

\* Every variable of the broker keeps its type.
THEOREM TypeCorrect == Spec => []TypeOK
<1>1. Init => TypeOK
  BY DEF Init, TypeOK, NoRevision, Settled
<1> QED
  BY <1>1, StepType, PTL DEF Spec

-----------------------------------------------------------------------------
(* Safety *)

\* The invariants other than the types, as one formula.
Safe ==
    /\ InvocationBooks
    /\ NoLostWakeup
    /\ CommittedTurnIsQuiet
    /\ RetiredTurnHoldsNothing
    /\ CompactionStopsDelivery

\* What an action leaves alone keeps the invariants that speak of it.
LEMMA Frame ==
    /\ InvocationBooks /\ UNCHANGED <<invocations, queuedCallIds, deliveredCallIds, outcome>>
       => InvocationBooks'
    /\ NoLostWakeup /\ UNCHANGED <<queuedCallIds, waiters, batchTimer>> => NoLostWakeup'
    /\ CommittedTurnIsQuiet /\ UNCHANGED fenceVars => CommittedTurnIsQuiet'
    /\ RetiredTurnHoldsNothing
       /\ UNCHANGED <<life, bindings, retirementWatch, invocations, waiters, batchTimer>>
       => RetiredTurnHoldsNothing'
    /\ CompactionStopsDelivery /\ UNCHANGED <<compactionRequested, queuedCallIds, batchTimer>>
       => CompactionStopsDelivery'
BY DEF InvocationBooks, NoLostWakeup, CommittedTurnIsQuiet, RetiredTurnHoldsNothing,
       CompactionStopsDelivery, Live, fenceVars

\* Retiring live turns keeps them: what is taken away from a retired turn is
\* exactly what the invariants look at.
LEMMA RevokeAllSafe ==
    ASSUME IInv, NEW S \in SUBSET Token, NEW failure \in BOOLEAN, RevokeAll(S, failure)
    PROVE  Safe'
<1> USE DEF IInv, TypeOK
<1>1. InvocationBooks'
  <2>1. \A t \in Token : /\ queuedCallIds'[t] \cap deliveredCallIds'[t] = {}
                         /\ invocations'[t] = queuedCallIds'[t] \cup deliveredCallIds'[t]
    BY DEF InvocationBooks, RevokeAll
  <2>2. \A t, u \in Token : t # u => invocations'[t] \cap invocations'[u] = {}
    BY DEF InvocationBooks, RevokeAll
  <2>3. ASSUME NEW c \in Call
        PROVE  outcome'[c] = "pending" <=> \E t \in Token : c \in invocations'[t]
    <3>1. CASE \E t \in S : c \in invocations[t]
      <4>1. PICK t \in S : c \in invocations[t]
        BY <3>1
      <4>2. \A u \in Token : u # t => c \notin invocations[u]
        BY <4>1 DEF InvocationBooks
      <4>3. \A u \in Token : c \notin invocations'[u]
        BY <4>1, <4>2 DEF RevokeAll
      <4>4. outcome'[c] = "rejected"
        BY <3>1 DEF RevokeAll
      <4> QED
        BY <4>3, <4>4
    <3>2. CASE ~\E t \in S : c \in invocations[t]
      BY <3>2 DEF InvocationBooks, RevokeAll
    <3> QED
      BY <3>1, <3>2
  <2> QED
    BY <2>1, <2>2, <2>3 DEF InvocationBooks
<1>2. NoLostWakeup'
  BY DEF NoLostWakeup, RevokeAll
<1>3. CommittedTurnIsQuiet'
  BY DEF CommittedTurnIsQuiet, RevokeAll, fenceVars
<1>4. RetiredTurnHoldsNothing'
  BY DEF RetiredTurnHoldsNothing, RevokeAll, Live
<1>5. CompactionStopsDelivery'
  BY DEF CompactionStopsDelivery, RevokeAll, compactionVars
<1> QED
  BY <1>1, <1>2, <1>3, <1>4, <1>5 DEF Safe

LEMMA StepSafe == IInv /\ [Next]_vars => Safe'
<1> SUFFICES ASSUME IInv, [Next]_vars PROVE Safe'
  OBVIOUS
<1> USE DEF IInv, Safe, registryVars, fenceVars, toolVars, compactionVars
<1>1. ASSUME NEW t \in Token, Register(t) PROVE Safe'
  <2>1. RetiredTurnHoldsNothing'
    BY <1>1 DEF Register, RetiredTurnHoldsNothing, Live, TypeOK
  <2> QED
    BY <1>1, <2>1, Frame DEF Register
<1>2. ASSUME NEW t \in Token, WaitForRetirement(t) PROVE Safe'
  <2>1. RetiredTurnHoldsNothing'
    BY <1>2 DEF WaitForRetirement, WatchAnswer, RetiredTurnHoldsNothing, Live, TypeOK
  <2> QED
    BY <1>2, <2>1, Frame DEF WaitForRetirement
<1>3. ASSUME NEW t \in Token, Revoke(t) PROVE Safe'
  <2>1. {t} \in SUBSET Token /\ FALSE \in BOOLEAN
    OBVIOUS
  <2> QED
    BY <1>3, <2>1, RevokeAllSafe DEF Revoke
<1>4. ASSUME NEW t \in Token, Expire(t) PROVE Safe'
  BY <1>4, Frame DEF Expire
<1>5. ASSUME NEW x \in Trace, RevokeTrace(x) PROVE Safe'
  <2>1. {t \in LiveTokens : TraceOf[t] = x} \in SUBSET Token
    BY DEF LiveTokens
  <2> QED
    BY <1>5, <2>1, RevokeAllSafe DEF RevokeTrace
<1>6. ASSUME NEW accepted \in BOOLEAN, SetExternalOwnersAccepted(accepted) PROVE Safe'
  BY <1>6, Frame DEF SetExternalOwnersAccepted
<1>7. CASE RevokeExternalOwners
  <2>1. LiveTokens \cap External \in SUBSET Token
    BY DEF LiveTokens
  <2> QED
    BY <1>7, <2>1, RevokeAllSafe DEF RevokeExternalOwners
<1>8. CASE Close
  <2>1. LiveTokens \in SUBSET Token
    BY DEF LiveTokens
  <2> QED
    BY <1>8, <2>1, RevokeAllSafe DEF Close
<1>9. CASE Prune
  <2>1. expired \in SUBSET Token
    BY DEF TypeOK
  <2> QED
    BY <1>9, <2>1, RevokeAllSafe DEF Prune
<1>10. ASSUME NEW t \in Token, NEW a \in Activity, Claim(t, a) PROVE Safe'
  <2>1. CommittedTurnIsQuiet'
    BY <1>10 DEF Claim, ClaimAccepted, CommittedTurnIsQuiet, TypeOK
  <2>2. RetiredTurnHoldsNothing'
    BY <1>10 DEF Claim, ClaimAccepted, RetiredTurnHoldsNothing, Live, TypeOK
  <2> QED
    BY <1>10, <2>1, <2>2, Frame DEF Claim
<1>11. ASSUME NEW t \in Token, NEW a \in Activity, ActivityComplete(t, a) PROVE Safe'
  <2>1. CommittedTurnIsQuiet'
    BY <1>11 DEF ActivityComplete, CommittedTurnIsQuiet, TypeOK
  <2> QED
    BY <1>11, <2>1, Frame DEF ActivityComplete
<1>12. ASSUME NEW t \in Token, NEW c \in Call, Invoke(t, c) PROVE Safe'
  <2>0. Live(t) /\ \A u \in Token : c \notin invocations[u]
    BY <1>12 DEF Invoke, RetiredTurnHoldsNothing, InvocationBooks
  <2>1. CASE Divert(t, c)
    <3>1. InvocationBooks'
      BY <1>12, <2>0, <2>1 DEF Invoke, Divert, InvocationBooks, TypeOK
    <3> QED
      BY <1>12, <2>1, <3>1, Frame DEF Invoke, Divert
  <2>2. CASE Enqueue(t, c)
    <3>1. InvocationBooks'
      BY <1>12, <2>0, <2>2 DEF Invoke, Enqueue, InvocationBooks, TypeOK
    <3>2. NoLostWakeup'
      BY <1>12, <2>2 DEF Invoke, Enqueue, NoLostWakeup, TimerAfter, TypeOK
    <3>3. RetiredTurnHoldsNothing'
      BY <1>12, <2>0, <2>2 DEF Invoke, Enqueue, RetiredTurnHoldsNothing, Live, TypeOK
    <3>4. CompactionStopsDelivery'
      BY <1>12, <2>2 DEF Invoke, Enqueue, QueuesCalls, CompactionStopsDelivery, TypeOK
    <3> QED
      BY <1>12, <2>2, <3>1, <3>2, <3>3, <3>4, Frame DEF Invoke
  <2> QED
    BY <1>12, <2>1, <2>2 DEF Invoke
<1>13. ASSUME NEW t \in Token, NEW failure \in BOOLEAN, Release(t, failure) PROVE Safe'
  <2>1. {t} \in SUBSET Token
    OBVIOUS
  <2> QED
    BY <1>13, <2>1, RevokeAllSafe DEF Release
<1>14. ASSUME NEW t \in Token, NextImmediate(t) PROVE Safe'
  <2>1. InvocationBooks'
    BY <1>14 DEF NextImmediate, TakeQueued, InvocationBooks, TypeOK
  <2>2. NoLostWakeup' /\ CompactionStopsDelivery'
    BY <1>14 DEF NextImmediate, TakeQueued, NoLostWakeup, CompactionStopsDelivery, TypeOK
  <2> QED
    BY <1>14, <2>1, <2>2, Frame DEF NextImmediate
<1>15. ASSUME NEW t \in Token, BatchTimer(t) PROVE Safe'
  <2>1. RetiredTurnHoldsNothing'
    BY <1>15 DEF BatchTimer, RetiredTurnHoldsNothing, Live, TypeOK
  <2>2. CASE UNCHANGED <<queuedCallIds, deliveredCallIds, waiters>>
                /\ (queuedCallIds[t] = {} \/ waiters[t] = {})
    <3>1. NoLostWakeup' /\ CompactionStopsDelivery'
      BY <1>15, <2>2 DEF BatchTimer, NoLostWakeup, CompactionStopsDelivery, TypeOK
    <3> QED
      BY <1>15, <2>1, <2>2, <3>1, Frame DEF BatchTimer
  <2>3. CASE TakeQueued(t) /\ waiters' = [waiters EXCEPT ![t] = {}]
    <3>1. InvocationBooks'
      BY <1>15, <2>3 DEF BatchTimer, TakeQueued, InvocationBooks, TypeOK
    <3>2. NoLostWakeup' /\ CompactionStopsDelivery'
      BY <1>15, <2>3 DEF BatchTimer, TakeQueued, NoLostWakeup, CompactionStopsDelivery, TypeOK
    <3> QED
      BY <1>15, <2>1, <3>1, <3>2, Frame DEF BatchTimer
  <2> QED
    BY <1>15, <2>2, <2>3 DEF BatchTimer
<1>16. ASSUME NEW t \in Token, RequestCompaction(t) PROVE Safe'
  <2>1. InvocationBooks'
    BY <1>16 DEF RequestCompaction, InvocationBooks, TypeOK
  <2>2. NoLostWakeup' /\ CompactionStopsDelivery'
    BY <1>16 DEF RequestCompaction, NoLostWakeup, CompactionStopsDelivery, TypeOK
  <2>3. RetiredTurnHoldsNothing'
    BY <1>16 DEF RequestCompaction, RetiredTurnHoldsNothing, Live, TypeOK
  <2> QED
    BY <1>16, <2>1, <2>2, <2>3, Frame DEF RequestCompaction
<1>17. ASSUME NEW t \in Token, NEW o \in Observer, NextWait(t, o) PROVE Safe'
  <2>1. NoLostWakeup' /\ RetiredTurnHoldsNothing'
    BY <1>17 DEF NextWait, MayAskForTools, NoLostWakeup, RetiredTurnHoldsNothing, Live, TypeOK
  <2> QED
    BY <1>17, <2>1, Frame DEF NextWait
<1>18. ASSUME NEW t \in Token, NEW o \in Observer, AbortWaiter(t, o) PROVE Safe'
  <2>1. NoLostWakeup' /\ RetiredTurnHoldsNothing'
    BY <1>18 DEF AbortWaiter, NoLostWakeup, RetiredTurnHoldsNothing, Live, TypeOK
  <2> QED
    BY <1>18, <2>1, Frame DEF AbortWaiter
<1>19. ASSUME NEW t \in Token, NEW c \in Call, CompleteTool(t, c) PROVE Safe'
  <2>1. InvocationBooks'
    BY <1>19 DEF CompleteTool, DeliveredCall, InvocationBooks, TypeOK
  <2>2. RetiredTurnHoldsNothing'
    BY <1>19 DEF CompleteTool, RetiredTurnHoldsNothing, Live, TypeOK
  <2> QED
    BY <1>19, <2>1, <2>2, Frame DEF CompleteTool
<1>20. ASSUME NEW t \in Token, NEW revision \in Revisions, CommitCompletionFence(t, revision)
       PROVE Safe'
  <2>1. CommittedTurnIsQuiet'
    BY <1>20 DEF CommitCompletionFence, CanCommit, CommittedTurnIsQuiet, TypeOK
  <2> QED
    BY <1>20, <2>1, Frame DEF CommitCompletionFence
<1>21. CASE UNCHANGED vars
  BY <1>21, Frame DEF vars
<1> QED
  BY <1>1, <1>2, <1>3, <1>4, <1>5, <1>6, <1>7, <1>8, <1>9, <1>10, <1>11, <1>12, <1>13,
     <1>14, <1>15, <1>16, <1>17, <1>18, <1>19, <1>20, <1>21
  DEF Next, RegistryNext, McpNext, OwnerNext

LEMMA Inductive == Spec => []IInv
<1>1. Init => IInv
  <2>1. Init => TypeOK
    BY DEF Init, TypeOK, NoRevision, Settled
  <2>2. Init => InvocationBooks
    BY DEF Init, InvocationBooks
  <2>3. Init => Safe
    BY <2>2 DEF Init, Safe, NoLostWakeup, CommittedTurnIsQuiet, RetiredTurnHoldsNothing,
                CompactionStopsDelivery
  <2> QED
    BY <2>1, <2>3 DEF IInv, Safe
<1>2. IInv /\ [Next]_vars => IInv'
  BY StepType, StepSafe DEF IInv, Safe
<1> QED
  BY <1>1, <1>2, PTL DEF Spec

\* The safety invariants hold in every reachable state of every broker: the
\* books of the invocations agree, no wake-up is lost, a committed or retired
\* turn holds nothing, and compaction stops delivery.
THEOREM SafetyCorrect ==
    Spec => [](/\ InvocationBooks
               /\ NoLostWakeup
               /\ CommittedTurnIsQuiet
               /\ RetiredTurnHoldsNothing
               /\ CompactionStopsDelivery)
<1>1. IInv => /\ InvocationBooks
              /\ NoLostWakeup
              /\ CommittedTurnIsQuiet
              /\ RetiredTurnHoldsNothing
              /\ CompactionStopsDelivery
  BY DEF IInv
<1> QED
  BY <1>1, Inductive, PTL

\* No adapter waits beside a queued call without a timer to wake it, and nobody
\* waits at a turn that is over: neither observer, nor invocation, nor owner.
THEOREM NobodyHangsCorrect == Spec => []NobodyHangs
<1>1. IInv => NobodyHangs
  BY DEF IInv, NobodyHangs
<1> QED
  BY <1>1, Inductive, PTL

-----------------------------------------------------------------------------
(* What no step may do *)

\* Only claims and the ends of activities touch the fence's revision, and both
\* move it up: no activity comes or goes under an unchanged revision.
THEOREM RevisionCorrect == Spec => ActivityMovesRevision
<1> DEFINE Moves == \A t \in Token :
               /\ activityRevision'[t] >= activityRevision[t]
               /\ activities'[t] # activities[t] => activityRevision'[t] > activityRevision[t]
<1>1. TypeOK /\ [Next]_vars => Moves
  <2> SUFFICES ASSUME TypeOK, [Next]_vars PROVE Moves
    OBVIOUS
  <2> USE DEF TypeOK
  <2>1. ASSUME NEW t \in Token, NEW a \in Activity, Claim(t, a) PROVE Moves
    BY <2>1 DEF Claim, AfterActivity
  <2>2. ASSUME NEW t \in Token, NEW a \in Activity, ActivityComplete(t, a) PROVE Moves
    BY <2>2 DEF ActivityComplete, AfterActivity
  <2>3. CASE UNCHANGED <<activities, activityRevision>>
    BY <2>3
  <2>4. ASSUME NEW S, NEW failure, RevokeAll(S, failure) PROVE UNCHANGED <<activities, activityRevision>>
    BY <2>4 DEF RevokeAll, fenceVars
  <2>5. CASE RegistryNext
    BY <2>3, <2>4, <2>5 DEF RegistryNext, Register, WaitForRetirement, Revoke, Expire, RevokeTrace,
          SetExternalOwnersAccepted, RevokeExternalOwners, Close, Prune, fenceVars
  <2>6. CASE McpNext
    <3>1. ASSUME NEW t \in Token, NEW c \in Call, Invoke(t, c)
          PROVE  UNCHANGED <<activities, activityRevision>>
      BY <3>1 DEF Invoke, fenceVars
    <3>2. ASSUME NEW t \in Token, NEW failure \in BOOLEAN, Release(t, failure)
          PROVE  UNCHANGED <<activities, activityRevision>>
      BY <2>4, <3>2 DEF Release
    <3> QED
      BY <2>1, <2>2, <2>3, <2>6, <3>1, <3>2 DEF McpNext
  <2>7. CASE OwnerNext
    BY <2>3, <2>7 DEF OwnerNext, NextImmediate, BatchTimer, RequestCompaction, NextWait,
          AbortWaiter, CompleteTool, CommitCompletionFence, fenceVars
  <2>8. CASE UNCHANGED vars
    BY <2>3, <2>8 DEF vars, fenceVars
  <2> QED
    BY <2>5, <2>6, <2>7, <2>8 DEF Next
<1> QED
  BY <1>1, TypeCorrect, PTL DEF Spec, ActivityMovesRevision

\* A commit is for good: no later request of anybody withdraws it, renumbers it
\* or makes the fence hand out another revision.
THEOREM CommitCorrect == Spec => CommitIsFinal
<1> DEFINE Final == \A t \in Token : completionCommitted[t] =>
               /\ completionCommitted'[t] /\ completionRevision'[t] = completionRevision[t]
               /\ FenceRevision(t)' = completionRevision[t]
<1>1. TypeOK /\ [Next]_vars => Final
  <2> SUFFICES ASSUME TypeOK, [Next]_vars PROVE Final
    OBVIOUS
  <2>1. CASE UNCHANGED <<completionCommitted, completionRevision>>
    BY <2>1 DEF FenceRevision
  <2>2. ASSUME NEW t \in Token, NEW revision \in Revisions, CommitCompletionFence(t, revision)
        PROVE Final
    BY <2>2 DEF CommitCompletionFence, FenceRevision, TypeOK
  <2>3. ASSUME NEW S, NEW failure, RevokeAll(S, failure)
        PROVE UNCHANGED <<completionCommitted, completionRevision>>
    BY <2>3 DEF RevokeAll, fenceVars
  <2>4. CASE RegistryNext
    BY <2>1, <2>3, <2>4 DEF RegistryNext, Register, WaitForRetirement, Revoke, Expire, RevokeTrace,
          SetExternalOwnersAccepted, RevokeExternalOwners, Close, Prune, fenceVars
  <2>5. CASE McpNext
    BY <2>1, <2>3, <2>5 DEF McpNext, Claim, ActivityComplete, Invoke, Release, fenceVars
  <2>6. CASE OwnerNext
    BY <2>1, <2>2, <2>6 DEF OwnerNext, NextImmediate, BatchTimer, RequestCompaction, NextWait,
          AbortWaiter, CompleteTool, fenceVars
  <2>7. CASE UNCHANGED vars
    BY <2>1, <2>7 DEF vars, fenceVars
  <2> QED
    BY <2>4, <2>5, <2>6, <2>7 DEF Next
<1> QED
  BY <1>1, TypeCorrect, PTL DEF Spec, CommitIsFinal

-----------------------------------------------------------------------------
(* Retired handles *)

\* Trimming keeps the newest handles: what was just added stays, unless it is
\* more than the history holds.
LEMMA RememberedKeepsNewest ==
    ASSUME NEW history \in Seq(Token), NEW order \in Seq(Token),
           Len(order) <= MAX_RETIRED_TURN_HANDLES, NEW i \in 1..Len(order)
    PROVE  \E j \in DOMAIN Remembered(history, order) : Remembered(history, order)[j] = order[i]
<1> DEFINE all == history \o order
           excess == Len(all) - MAX_RETIRED_TURN_HANDLES
           k == Len(history) + i
<1>1. /\ all \in Seq(Token) /\ Len(all) = Len(history) + Len(order)
      /\ Len(history) \in Nat /\ Len(order) \in Nat
  BY ConcatProperties, LenProperties
<1>2. k \in 1..Len(all) /\ all[k] = order[i]
  BY <1>1, ConcatProperties
<1>3. CASE excess > 0
  <2>1. excess \in Nat /\ excess <= Len(history)
    BY <1>1, <1>3, HistoryBound
  <2> DEFINE kept == SubSeq(all, excess + 1, Len(all))
  <2>2. /\ DOMAIN kept = 1..(Len(all) - (excess + 1) + 1)
        /\ \A j \in 1..(Len(all) - (excess + 1) + 1) : kept[j] = all[excess + 1 + j - 1]
    BY SMTT(40), <1>1, <2>1, SubSeqProperties, LenProperties
  <2>3. k - excess \in 1..(Len(all) - (excess + 1) + 1) /\ excess + 1 + (k - excess) - 1 = k
    BY SMTT(40), <1>1, <1>2, <2>1
  <2>4. k - excess \in DOMAIN kept /\ kept[k - excess] = order[i]
    BY <1>2, <2>2, <2>3
  <2> QED
    BY <1>3, <2>4 DEF Remembered
<1>4. CASE ~(excess > 0)
  <2>1. k \in DOMAIN all
    BY <1>1, <1>2, LenProperties
  <2> QED
    BY <1>2, <1>4, <2>1 DEF Remembered
<1> QED
  BY <1>3, <1>4

\* A loop that revokes no more turns than a history holds leaves each of them in it.
LEMMA OrderIsRemembered ==
    ASSUME NEW history \in Seq(Token), NEW S \in SUBSET Token, NEW order \in Orders(S),
           Cardinality(S) <= MAX_RETIRED_TURN_HANDLES, NEW t \in S
    PROVE  \E j \in DOMAIN Remembered(history, order) : Remembered(history, order)[j] = t
<1>1. order \in Seq(Token)
  BY OrdersAreSequences
<1>2. Cardinality(S) \in Nat
  BY FiniteIds, FS_Subset, FS_CardinalityType
<1>3. Len(order) = Cardinality(S) /\ DOMAIN order = 1..Len(order)
  BY <1>1, <1>2, LenProperties DEF Orders
<1>4. PICK i \in DOMAIN order : order[i] = t
  BY DEF Orders
<1> QED
  BY <1>1, <1>3, <1>4, RememberedKeepsNewest

\* Only turns in the channels map run out.
ExpiredAreLive == expired \subseteq LiveTokens

\* The turns a step retires are those of its loop, and both histories keep them.
LEMMA RevokeAllRemembers ==
    ASSUME IInv, NEW S \in SUBSET LiveTokens, NEW failure, RevokeAll(S, failure),
           Cardinality(RetiringNow) <= MAX_RETIRED_TURN_HANDLES, NEW t \in RetiringNow
    PROVE  /\ \E i \in DOMAIN retiredTokens' : retiredTokens'[i] = t
           /\ t \in bindings => \E i \in DOMAIN retiredBindings' : retiredBindings'[i] = t
<1>1. RetiringNow = S /\ S \in SUBSET Token
  BY DEF RetiringNow, LiveTokens, Live, RevokeAll
<1>2. retiredTokens \in Seq(Token) /\ retiredBindings \in Seq(Token)
  BY DEF IInv, TypeOK
<1>3. \E i \in DOMAIN retiredTokens' : retiredTokens'[i] = t
  <2>1. PICK order \in Orders(S) : retiredTokens' = Remembered(retiredTokens, order)
    BY DEF RevokeAll
  <2> QED
    BY <1>1, <1>2, <2>1, OrderIsRemembered
<1>4. ASSUME t \in bindings PROVE \E i \in DOMAIN retiredBindings' : retiredBindings'[i] = t
  <2>1. PICK order \in Orders(S \cap bindings) : retiredBindings' = Remembered(retiredBindings, order)
    BY DEF RevokeAll
  <2>2. IsFiniteSet(S)
    BY <1>1, FiniteIds, FS_Subset
  <2>3. /\ IsFiniteSet(S \cap bindings)
        /\ Cardinality(S \cap bindings) <= Cardinality(S)
        /\ Cardinality(S \cap bindings) \in Nat /\ Cardinality(S) \in Nat
    BY <2>2, FS_Subset, FS_CardinalityType
  <2>4. Cardinality(S \cap bindings) <= MAX_RETIRED_TURN_HANDLES
    BY <1>1, <2>3, HistoryBound
  <2>5. S \cap bindings \in SUBSET Token /\ t \in S \cap bindings
    BY <1>1, <1>4
  <2> QED
    BY <1>2, <2>1, <2>4, <2>5, OrderIsRemembered
<1> QED
  BY <1>3, <1>4

\* Every action but the retirements leaves the live turns and what has expired.
LEMMA StepExpires ==
    ASSUME IInv, ExpiredAreLive, [Next]_vars
    PROVE  ExpiredAreLive'
<1>1. CASE UNCHANGED <<life, expired>>
  BY <1>1 DEF ExpiredAreLive, LiveTokens, Live
<1>2. ASSUME NEW S, NEW failure, RevokeAll(S, failure) PROVE ExpiredAreLive'
  BY <1>2 DEF RevokeAll, ExpiredAreLive, LiveTokens, Live
<1>3. CASE RegistryNext
  <2>1. ASSUME NEW t \in Token, Register(t) PROVE ExpiredAreLive'
    BY <2>1 DEF Register, Pruned, ExpiredAreLive
  <2>2. ASSUME NEW t \in Token, Expire(t) PROVE ExpiredAreLive'
    BY <2>2 DEF Expire, ExpiredAreLive, LiveTokens, Live
  <2> QED
    BY <1>1, <1>2, <1>3, <2>1, <2>2 DEF RegistryNext, WaitForRetirement, Revoke, RevokeTrace,
          SetExternalOwnersAccepted, RevokeExternalOwners, Close, Prune
<1>4. CASE McpNext
  BY <1>1, <1>2, <1>4 DEF McpNext, Claim, ActivityComplete, Invoke, Release, registryVars
<1>5. CASE OwnerNext
  BY <1>1, <1>5 DEF OwnerNext, NextImmediate, BatchTimer, RequestCompaction, NextWait,
        AbortWaiter, CompleteTool, CommitCompletionFence, registryVars
<1>6. CASE UNCHANGED vars
  BY <1>1, <1>6 DEF vars, registryVars
<1> QED
  BY <1>3, <1>4, <1>5, <1>6 DEF Next

\* Whichever operation retires turns, a caller that presents one of their handles
\* next finds it in the history (retire() is called by revoke alone, and by all
\* that loop over it: revokeTrace, revokeExternalOwners, close, prune, release).
THEOREM RetiredHandleCorrect == Spec => RetiredHandleIsRemembered
<1> DEFINE Kept == Cardinality(RetiringNow) <= MAX_RETIRED_TURN_HANDLES =>
               \A t \in RetiringNow :
                   /\ \E i \in DOMAIN retiredTokens' : retiredTokens'[i] = t
                   /\ t \in bindings => \E i \in DOMAIN retiredBindings' : retiredBindings'[i] = t
<1>1. IInv /\ ExpiredAreLive /\ [Next]_vars => Kept
  <2> SUFFICES ASSUME IInv, ExpiredAreLive, [Next]_vars PROVE Kept
    OBVIOUS
  <2>1. ASSUME NEW S \in SUBSET LiveTokens, NEW failure, RevokeAll(S, failure) PROVE Kept
    BY <2>1, RevokeAllRemembers
  <2>2. ASSUME \A t \in Token : Live(t) => Live(t)' PROVE Kept
    <3>1. RetiringNow = {}
      BY <2>2 DEF RetiringNow
    <3> QED
      BY <3>1
  <2>3. CASE UNCHANGED life
    BY <2>2, <2>3 DEF Live
  <2>4. CASE RegistryNext
    <3>1. ASSUME NEW t \in Token, Register(t) PROVE Kept
      BY <2>2, <3>1 DEF Register, Live, IInv, TypeOK
    <3>2. ASSUME NEW t \in Token, Revoke(t) PROVE Kept
      <4>1. {t} \in SUBSET LiveTokens
        BY <3>2 DEF Revoke, LiveTokens
      <4> QED
        BY <2>1, <3>2, <4>1 DEF Revoke
    <3>3. ASSUME NEW x \in Trace, RevokeTrace(x) PROVE Kept
      <4>1. {t \in LiveTokens : TraceOf[t] = x} \in SUBSET LiveTokens
        OBVIOUS
      <4> QED
        BY <2>1, <3>3, <4>1 DEF RevokeTrace
    <3>4. CASE RevokeExternalOwners
      <4>1. LiveTokens \cap External \in SUBSET LiveTokens
        OBVIOUS
      <4> QED
        BY <2>1, <3>4, <4>1 DEF RevokeExternalOwners
    <3>5. CASE Close
      <4>1. LiveTokens \in SUBSET LiveTokens
        OBVIOUS
      <4> QED
        BY <2>1, <3>5, <4>1 DEF Close
    <3>6. CASE Prune
      <4>1. expired \in SUBSET LiveTokens
        BY DEF ExpiredAreLive
      <4> QED
        BY <2>1, <3>6, <4>1 DEF Prune
    <3> QED
      BY <2>3, <2>4, <3>1, <3>2, <3>3, <3>4, <3>5, <3>6 DEF RegistryNext, WaitForRetirement,
            Expire, SetExternalOwnersAccepted
  <2>5. CASE McpNext
    <3>1. ASSUME NEW t \in Token, NEW failure \in BOOLEAN, Release(t, failure) PROVE Kept
      <4>1. {t} \in SUBSET LiveTokens
        BY <3>1 DEF Release, LiveTokens, IInv, RetiredTurnHoldsNothing
      <4> QED
        BY <2>1, <3>1, <4>1 DEF Release
    <3> QED
      BY <2>3, <2>5, <3>1 DEF McpNext, Claim, ActivityComplete, Invoke, registryVars
  <2>6. CASE OwnerNext
    BY <2>3, <2>6 DEF OwnerNext, NextImmediate, BatchTimer, RequestCompaction, NextWait,
          AbortWaiter, CompleteTool, CommitCompletionFence, registryVars
  <2>7. CASE UNCHANGED vars
    BY <2>3, <2>7 DEF vars, registryVars
  <2> QED
    BY <2>4, <2>5, <2>6, <2>7 DEF Next
<1>2. Init => ExpiredAreLive
  BY DEF Init, ExpiredAreLive
<1>3. IInv /\ ExpiredAreLive /\ [Next]_vars => ExpiredAreLive'
  BY StepExpires
<1> QED
  BY <1>1, <1>2, <1>3, Inductive, PTL DEF Spec, RetiredHandleIsRemembered

-----------------------------------------------------------------------------
(* How far a revision can go *)

\* An open activity has moved the revision once, a completed one at most twice.
RevisionBound ==
    \A t \in Token : activityRevision[t] <=
        Cardinality(activities[t]) + 2 * Cardinality(completedActivities[t])

LEMMA ActivitiesAreFinite ==
    ASSUME TypeOK, NEW t \in Token
    PROVE  /\ IsFiniteSet(activities[t]) /\ IsFiniteSet(completedActivities[t])
           /\ Cardinality(activities[t]) \in Nat /\ Cardinality(completedActivities[t]) \in Nat
           /\ activityRevision[t] \in Nat
BY FiniteIds, FS_Subset, FS_CardinalityType DEF TypeOK

LEMMA StepCounts ==
    ASSUME TypeOK, RevisionBound, [Next]_vars
    PROVE  RevisionBound'
<1>1. CASE UNCHANGED <<activities, completedActivities, activityRevision>>
  BY <1>1 DEF RevisionBound
<1>2. ASSUME NEW t \in Token, NEW a \in Activity, Claim(t, a) PROVE RevisionBound'
  <2>1. /\ activities' = [activities EXCEPT ![t] = @ \cup {a}] /\ UNCHANGED completedActivities
        /\ activityRevision' = [activityRevision EXCEPT ![t] = IF a \in activities[t] THEN @ ELSE @ + 1]
    BY <1>2 DEF Claim, AfterActivity
  <2>2. Cardinality(activities[t] \cup {a}) =
            IF a \in activities[t] THEN Cardinality(activities[t]) ELSE Cardinality(activities[t]) + 1
    BY ActivitiesAreFinite, FS_AddElement
  <2>3. activityRevision'[t] <= Cardinality(activities'[t]) + 2 * Cardinality(completedActivities'[t])
    BY <2>1, <2>2, ActivitiesAreFinite DEF TypeOK, RevisionBound
  <2>4. ASSUME NEW u \in Token, u # t
        PROVE  activityRevision'[u] <= Cardinality(activities'[u]) + 2 * Cardinality(completedActivities'[u])
    BY <2>1, <2>4 DEF TypeOK, RevisionBound
  <2> QED
    BY <2>3, <2>4 DEF RevisionBound
<1>3. ASSUME NEW t \in Token, NEW a \in Activity, ActivityComplete(t, a) PROVE RevisionBound'
  <2>1. /\ activities' = [activities EXCEPT ![t] = @ \ {a}]
        /\ completedActivities' = [completedActivities EXCEPT ![t] = @ \cup {a}]
        /\ activityRevision' = [activityRevision EXCEPT ![t] = @ + 1]
        /\ a \notin completedActivities[t]
    BY <1>3 DEF ActivityComplete, AfterActivity
  <2>2. /\ Cardinality(completedActivities[t] \cup {a}) = Cardinality(completedActivities[t]) + 1
        /\ Cardinality(activities[t] \ {a}) =
               IF a \in activities[t] THEN Cardinality(activities[t]) - 1 ELSE Cardinality(activities[t])
    BY <2>1, ActivitiesAreFinite, FS_AddElement, FS_RemoveElement
  <2>3. activityRevision'[t] <= Cardinality(activities'[t]) + 2 * Cardinality(completedActivities'[t])
    BY SMTT(40), <2>1, <2>2, ActivitiesAreFinite DEF TypeOK, RevisionBound
  <2>4. ASSUME NEW u \in Token, u # t
        PROVE  activityRevision'[u] <= Cardinality(activities'[u]) + 2 * Cardinality(completedActivities'[u])
    BY <2>1, <2>4 DEF TypeOK, RevisionBound
  <2> QED
    BY <2>3, <2>4 DEF RevisionBound
<1>4. ASSUME NEW S, NEW failure, RevokeAll(S, failure) PROVE RevisionBound'
  BY <1>1, <1>4 DEF RevokeAll, fenceVars
<1>5. CASE RegistryNext
  BY <1>1, <1>4, <1>5 DEF RegistryNext, Register, WaitForRetirement, Revoke, Expire, RevokeTrace,
        SetExternalOwnersAccepted, RevokeExternalOwners, Close, Prune, fenceVars
<1>6. CASE McpNext
  BY <1>1, <1>2, <1>3, <1>4, <1>6 DEF McpNext, Invoke, Release, fenceVars
<1>7. CASE OwnerNext
  BY <1>1, <1>7 DEF OwnerNext, NextImmediate, BatchTimer, RequestCompaction, NextWait,
        AbortWaiter, CompleteTool, CommitCompletionFence, fenceVars
<1>8. CASE UNCHANGED vars
  BY <1>1, <1>8 DEF vars, fenceVars
<1> QED
  BY <1>5, <1>6, <1>7, <1>8 DEF Next

\* Every revision of every turn is one a worker can hold.
LEMMA RevisionFits ==
    ASSUME IInv, RevisionBound, NEW t \in Token
    PROVE  activityRevision[t] \in Revisions
<1> DEFINE A == activities[t]
           C == completedActivities[t]
<1>1. A \cap C = {} /\ A \cup C \subseteq Activity
  BY DEF IInv, TypeOK, CommittedTurnIsQuiet
<1>2. Cardinality(A \cup C) = Cardinality(A) + Cardinality(C) - Cardinality(A \cap C)
  BY ActivitiesAreFinite, FS_Union DEF IInv
<1>3. Cardinality(A \cap C) = 0
  BY <1>1, FS_EmptySet
<1>4. Cardinality(A \cup C) <= Cardinality(Activity) /\ Cardinality(Activity) \in Nat
  BY <1>1, FiniteIds, FS_Subset, FS_CardinalityType
<1>5. /\ Cardinality(A) \in Nat /\ Cardinality(C) \in Nat /\ activityRevision[t] \in Nat
      /\ activityRevision[t] <= Cardinality(A) + 2 * Cardinality(C)
  BY ActivitiesAreFinite DEF IInv, RevisionBound
<1>6. activityRevision[t] <= 2 * Cardinality(Activity)
  BY <1>2, <1>3, <1>4, <1>5
<1> QED
  BY <1>4, <1>5, <1>6 DEF Revisions

\* A committed turn has the revision its worker held.
CommittedRevisionFits == \A t \in Token : completionRevision[t] \in Revisions \cup {NoRevision}

\* A step moves the activities' revision forward only, and the committed one to one
\* that fits.
LEMMA StepAdvances ==
    ASSUME TypeOK, CommittedRevisionFits, [Next]_vars
    PROVE  /\ \A t \in Token : activityRevision[t] <= activityRevision'[t]
           /\ CommittedRevisionFits'
<1> DEFINE Kept == (\A t \in Token : activityRevision[t] <= activityRevision'[t]) /\ CommittedRevisionFits'
<1> USE DEF CommittedRevisionFits
<1>1. CASE UNCHANGED <<activityRevision, completionRevision>>
  BY <1>1 DEF TypeOK
<1>2. ASSUME NEW t \in Token, NEW a \in Activity, Claim(t, a) \/ ActivityComplete(t, a) PROVE Kept
  <2>1. UNCHANGED completionRevision /\ \A u \in Token \ {t} : activityRevision'[u] = activityRevision[u]
    BY <1>2 DEF Claim, ActivityComplete, TypeOK
  <2>2. activityRevision'[t] \in {activityRevision[t], activityRevision[t] + 1}
    BY <1>2 DEF Claim, ActivityComplete, AfterActivity, TypeOK
  <2>3. \A u \in Token : activityRevision[u] \in Nat
    BY DEF TypeOK
  <2>4. \A u \in Token : activityRevision[u] <= activityRevision'[u]
    BY <2>1, <2>2, <2>3
  <2> QED
    BY <2>1, <2>4
<1>3. ASSUME NEW t \in Token, NEW revision \in Revisions, CommitCompletionFence(t, revision) PROVE Kept
  BY <1>3 DEF CommitCompletionFence, TypeOK
<1>4. ASSUME NEW S, NEW failure, RevokeAll(S, failure) PROVE Kept
  BY <1>1, <1>4 DEF RevokeAll, fenceVars
<1>5. CASE RegistryNext
  BY <1>1, <1>4, <1>5 DEF RegistryNext, Register, WaitForRetirement, Revoke, Expire, RevokeTrace,
        SetExternalOwnersAccepted, RevokeExternalOwners, Close, Prune, fenceVars
<1>6. CASE McpNext
  BY <1>1, <1>2, <1>4, <1>6 DEF McpNext, Invoke, Release, fenceVars
<1>7. CASE OwnerNext
  BY <1>1, <1>3, <1>7 DEF OwnerNext, NextImmediate, BatchTimer, RequestCompaction, NextWait,
        AbortWaiter, CompleteTool, fenceVars
<1>8. CASE UNCHANGED vars
  BY <1>1, <1>8 DEF vars, fenceVars
<1> QED
  BY <1>5, <1>6, <1>7, <1>8 DEF Next

\* All that is known of a broker, for the modules that build on it.
BrokerInv == IInv /\ ExpiredAreLive /\ RevisionBound /\ CommittedRevisionFits

LEMMA BrokerInit == Init => BrokerInv
<1> SUFFICES ASSUME Init PROVE BrokerInv
  OBVIOUS
<1>1. TypeOK
  BY DEF Init, TypeOK, NoRevision, Settled
<1>2. InvocationBooks
  BY DEF Init, InvocationBooks
<1>3. IInv
  BY <1>1, <1>2 DEF Init, IInv, NoLostWakeup, CommittedTurnIsQuiet, RetiredTurnHoldsNothing,
     CompactionStopsDelivery
<1> QED
  BY <1>3, FS_EmptySet DEF Init, BrokerInv, ExpiredAreLive, RevisionBound, CommittedRevisionFits

LEMMA BrokerStep ==
    ASSUME BrokerInv, [Next]_vars
    PROVE  BrokerInv'
<1>1. IInv'
  BY StepType, StepSafe DEF BrokerInv, IInv, Safe
<1> QED
  BY <1>1, StepExpires, StepCounts, StepAdvances DEF BrokerInv, IInv

-----------------------------------------------------------------------------
(* The broker implements ToolDelivery *)

\* A call whose outcome and whereabouts stay keeps its status.
LEMMA StatusFrame ==
    UNCHANGED <<outcome, deliveredCallIds>> => UNCHANGED CallStatus
BY DEF CallStatus

\* What a call's status says of the books.
LEMMA StatusOfCall ==
    ASSUME IInv, NEW c \in Call
    PROVE  /\ outcome[c] # "pending" => CallStatus[c] = outcome[c]
           /\ \A t \in Token : c \in queuedCallIds[t] => CallStatus[c] = "queued" /\ outcome[c] = "pending"
           /\ \A t \in Token : c \in deliveredCallIds[t] => CallStatus[c] = "offered" /\ outcome[c] = "pending"
<1> USE DEF IInv, TypeOK
<1>1. outcome[c] # "pending" => CallStatus[c] = outcome[c]
  BY DEF CallStatus
<1>2. ASSUME NEW t \in Token, c \in queuedCallIds[t]
      PROVE  CallStatus[c] = "queued" /\ outcome[c] = "pending"
  <2>1. outcome[c] = "pending" /\ c \in invocations[t] /\ c \notin deliveredCallIds[t]
    BY <1>2 DEF InvocationBooks
  <2>2. \A u \in Token : c \notin deliveredCallIds[u]
    BY <2>1 DEF InvocationBooks
  <2> QED
    BY <2>1, <2>2 DEF CallStatus
<1>3. ASSUME NEW t \in Token, c \in deliveredCallIds[t]
      PROVE  CallStatus[c] = "offered" /\ outcome[c] = "pending"
  BY <1>3 DEF InvocationBooks, CallStatus
<1> QED
  BY <1>1, <1>2, <1>3

\* Retiring turns drops exactly the calls on their books.
LEMMA RevokeAllDrops ==
    ASSUME IInv, NEW S \in SUBSET Token, NEW failure \in BOOLEAN, RevokeAll(S, failure)
    PROVE  [Delivery!Change]_CallStatus
<1> DEFINE dropped == {c \in Call : \E t \in S : c \in invocations[t]}
<1>1. \A c \in dropped : CallStatus[c] \in {"queued", "offered"}
  BY StatusOfCall DEF IInv, TypeOK, InvocationBooks
<1>2. \A c \in dropped : outcome'[c] = "rejected"
  BY DEF RevokeAll
<1>3. ASSUME NEW c \in Call, c \notin dropped PROVE CallStatus'[c] = CallStatus[c]
  <2>1. outcome'[c] = outcome[c]
    BY <1>3 DEF RevokeAll
  <2>2. \A t \in Token : c \in deliveredCallIds'[t] <=> c \in deliveredCallIds[t]
    BY <1>3 DEF RevokeAll, IInv, TypeOK, InvocationBooks
  <2> QED
    BY <2>1, <2>2 DEF CallStatus
<1>4. CallStatus' = [c \in Call |-> IF c \in dropped THEN "rejected" ELSE CallStatus[c]]
  BY <1>2, <1>3 DEF CallStatus
<1>5. CASE dropped = {}
  <2>1. CallStatus' = CallStatus
    BY <1>4, <1>5 DEF CallStatus
  <2> QED
    BY <2>1
<1>6. CASE dropped # {}
  BY <1>1, <1>4, <1>6 DEF Delivery!Change, Delivery!Drop, Delivery!Move
<1> QED
  BY <1>5, <1>6

LEMMA StepDelivers == IInv /\ [Next]_vars => [Delivery!Change]_CallStatus
<1> SUFFICES ASSUME IInv, [Next]_vars PROVE [Delivery!Change]_CallStatus
  OBVIOUS
<1>1. CASE UNCHANGED <<outcome, deliveredCallIds>>
  BY <1>1, StatusFrame
<1>2. ASSUME NEW S \in SUBSET Token, NEW failure \in BOOLEAN, RevokeAll(S, failure)
      PROVE  [Delivery!Change]_CallStatus
  BY <1>2, RevokeAllDrops
<1>3. CASE RegistryNext
  <2>1. /\ {t \in LiveTokens : TraceOf[t] \in Trace} \in SUBSET Token
        /\ LiveTokens \in SUBSET Token /\ LiveTokens \cap External \in SUBSET Token
        /\ expired \in SUBSET Token
        /\ \A x : {t \in LiveTokens : TraceOf[t] = x} \in SUBSET Token
        /\ \A t \in Token : {t} \in SUBSET Token
    BY DEF LiveTokens, IInv, TypeOK
  <2> QED
    BY <1>1, <1>2, <1>3, <2>1 DEF RegistryNext, Register, WaitForRetirement, Revoke, Expire,
          RevokeTrace, SetExternalOwnersAccepted, RevokeExternalOwners, Close, Prune, toolVars
<1>4. ASSUME NEW t \in Token, NEW c \in Call, Invoke(t, c) PROVE Delivery!Change
  <2>0. CallStatus[c] = "unsent" /\ \A u \in Token : c \notin deliveredCallIds[u]
    BY <1>4, StatusOfCall DEF Invoke, IInv, InvocationBooks
  <2>1. CASE Divert(t, c)
    <3>1. CallStatus' = [d \in Call |-> IF d \in {c} THEN "control" ELSE CallStatus[d]]
      BY <1>4, <2>1 DEF Invoke, Divert, CallStatus, IInv, TypeOK
    <3>2. Delivery!Divert({c})
      BY <2>0, <3>1 DEF Delivery!Divert, Delivery!Move
    <3> QED
      BY <3>2 DEF Delivery!Change
  <2>2. CASE Enqueue(t, c)
    <3>1. CallStatus' = [d \in Call |-> IF d \in {c} THEN "queued" ELSE CallStatus[d]]
      BY <1>4, <2>0, <2>2 DEF Invoke, Enqueue, CallStatus, IInv, TypeOK
    <3>2. Delivery!Ask(c)
      BY <2>0, <3>1 DEF Delivery!Ask, Delivery!Move
    <3> QED
      BY <3>2 DEF Delivery!Change
  <2> QED
    BY <1>4, <2>1, <2>2 DEF Invoke
<1>5. CASE McpNext
  <2>1. ASSUME NEW t \in Token, NEW failure \in BOOLEAN, Release(t, failure)
        PROVE  [Delivery!Change]_CallStatus
    BY <1>2, <2>1 DEF Release
  <2> QED
    BY <1>1, <1>4, <1>5, <2>1 DEF McpNext, Claim, ActivityComplete, toolVars
<1>6. ASSUME NEW t \in Token, TakeQueued(t), queuedCallIds[t] # {}, UNCHANGED outcome
      PROVE  Delivery!Change
  <2>1. queuedCallIds[t] \in SUBSET Call
    BY DEF IInv, TypeOK
  <2>2. \A c \in queuedCallIds[t] : CallStatus[c] = "queued" /\ CallStatus'[c] = "offered"
    BY <1>6, <2>1, StatusOfCall DEF TakeQueued, CallStatus, IInv, TypeOK
  <2>3. ASSUME NEW c \in Call, c \notin queuedCallIds[t] PROVE CallStatus'[c] = CallStatus[c]
    BY <1>6, <2>3 DEF TakeQueued, CallStatus, IInv, TypeOK
  <2>4. CallStatus' = [c \in Call |-> IF c \in queuedCallIds[t] THEN "offered" ELSE CallStatus[c]]
    BY <2>2, <2>3 DEF CallStatus
  <2>5. Delivery!Offer(queuedCallIds[t])
    BY <1>6, <2>2, <2>4 DEF Delivery!Offer, Delivery!Move
  <2> QED
    BY <2>1, <2>5 DEF Delivery!Change
<1>7. ASSUME NEW t \in Token, NEW c \in Call, CompleteTool(t, c) PROVE Delivery!Change
  <2>1. CallStatus[c] = "offered" /\ outcome'[c] = "result"
    BY <1>7, StatusOfCall DEF CompleteTool, DeliveredCall, IInv, TypeOK
  <2>2. ASSUME NEW d \in Call, d # c PROVE CallStatus'[d] = CallStatus[d]
    BY <1>7, <2>2 DEF CompleteTool, CallStatus, IInv, TypeOK
  <2>3. CallStatus' = [d \in Call |-> IF d \in {c} THEN "result" ELSE CallStatus[d]]
    BY <2>1, <2>2 DEF CallStatus
  <2>4. Delivery!Answer(c)
    BY <2>1, <2>3 DEF Delivery!Answer, Delivery!Move
  <2> QED
    BY <2>4 DEF Delivery!Change
<1>8. ASSUME NEW t \in Token, RequestCompaction(t) PROVE [Delivery!Change]_CallStatus
  <2>1. queuedCallIds[t] \in SUBSET Call
    BY DEF IInv, TypeOK
  <2>2. \A c \in queuedCallIds[t] : CallStatus[c] = "queued" /\ CallStatus'[c] = "control"
    BY <1>8, <2>1, StatusOfCall DEF RequestCompaction, CallStatus, IInv, TypeOK
  <2>3. ASSUME NEW c \in Call, c \notin queuedCallIds[t] PROVE CallStatus'[c] = CallStatus[c]
    BY <1>8, <2>3 DEF RequestCompaction, CallStatus
  <2>4. CallStatus' = [c \in Call |-> IF c \in queuedCallIds[t] THEN "control" ELSE CallStatus[c]]
    BY <2>2, <2>3 DEF CallStatus
  <2>5. CASE queuedCallIds[t] = {}
    <3>1. CallStatus' = CallStatus
      BY <2>4, <2>5 DEF CallStatus
    <3> QED
      BY <3>1
  <2>6. CASE queuedCallIds[t] # {}
    BY <2>1, <2>2, <2>4, <2>6 DEF Delivery!Change, Delivery!Divert, Delivery!Move
  <2> QED
    BY <2>5, <2>6
<1>9. CASE OwnerNext
  <2>1. ASSUME NEW t \in Token, BatchTimer(t) PROVE [Delivery!Change]_CallStatus
    BY <1>1, <1>6, <2>1 DEF BatchTimer
  <2>2. ASSUME NEW t \in Token, NextImmediate(t) PROVE [Delivery!Change]_CallStatus
    BY <1>6, <2>2 DEF NextImmediate
  <2> QED
    BY <1>1, <1>7, <1>8, <1>9, <2>1, <2>2 DEF OwnerNext, NextWait, AbortWaiter,
          CommitCompletionFence, toolVars
<1>10. CASE UNCHANGED vars
  BY <1>1, <1>10 DEF vars, toolVars
<1> QED
  BY <1>3, <1>5, <1>9, <1>10 DEF Next

\* The broker implements ToolDelivery: every step of a broker of any size is a
\* step of the abstract delivery protocol or leaves every call where it was.
THEOREM DeliveryCorrect == Spec => DeliversEachCallOnce
<1>1. Init => Delivery!Init
  BY DEF Init, Delivery!Init, CallStatus
<1>2. [Delivery!Change]_CallStatus => [Delivery!Next]_CallStatus
  BY DEF Delivery!Next
<1> QED
  BY <1>1, <1>2, Inductive, StepDelivers, PTL DEF Spec, DeliversEachCallOnce, Delivery!Spec
=============================================================================
