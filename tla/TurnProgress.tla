---------------------------- MODULE TurnProgress ----------------------------
(***************************************************************************)
(* Progress of the tool calls of one turn (turn-progress.ts), which tells  *)
(* the browser worker when it must not take ChatGPT's answer for finished. *)
(* The daemon records batches and results; a mirror in the browser helper  *)
(* process replays the recorder's snapshots; the worker acknowledges each  *)
(* batch once it has read the answer text in front of it; only then the    *)
(* adapter (index.ts, armNextTools) hands the batch to Codex.              *)
(*                                                                         *)
(* The broker is reduced to the calls it has queued or delivered (module   *)
(* TurnBroker has the rest); both pipes between the processes are FIFO.    *)
(***************************************************************************)
EXTENDS Integers, FiniteSets, Sequences

CONSTANTS
    Call,                 \* tool calls ChatGPT can make
    MAX_OBSERVER_LOSSES,  \* bound on lost HTTP observers
    MAX_CLOCK             \* bound on the daemon's wall clock

ASSUME FiniteCalls == IsFiniteSet(Call)
ASSUME ProgressBounds ==
    MAX_OBSERVER_LOSSES \in Nat /\ MAX_CLOCK \in Nat \ {0}

NoTime == 0   \* lastProgressAt is undefined

VARIABLES
    wallClock,                        \* Date.now() of the daemon
    revision,                   \* the recorder, ChatGptExternalTurnProgress
    lastToolBatchRevision,
    observedToolBatchRevision,
    activeToolCalls,
    lastProgressAt,
    retired,                    \* retirementError is set
    forwarded,                  \* revision forwardProgress() has sent
    frames,                     \* snapshots on their way to the helper
    mirror,                     \* ChatGptMirroredTurnProgress.current
    boundary,                   \* last batch whose boundary the worker captured
    acks,                       \* acknowledgements on their way back
    completed,                  \* the worker has accepted the answer
    call,                       \* each call at the broker
    adapter,
    batchRevision,              \* the batch the adapter waits for or has dispatched
    losses

recorderVars == <<revision, lastToolBatchRevision, activeToolCalls, lastProgressAt>>
mirrorVars == <<frames, mirror, boundary, acks, completed>>
batchVars == <<adapter, batchRevision, losses>>
progressVars == <<wallClock, recorderVars, observedToolBatchRevision, retired, forwarded, mirrorVars, call, batchVars>>

Snapshot == [revision |-> revision, lastToolBatchRevision |-> lastToolBatchRevision,
             activeToolCalls |-> activeToolCalls, lastProgressAt |-> lastProgressAt]

CallsThat(state) == {c \in Call : call[c] = state}

\* Each call is recorded, again after each loss, and answered; then retirement.
MAX_REVISION == 2 * Cardinality(Call) + MAX_OBSERVER_LOSSES + 1
MAX_ACTIVE == Cardinality(Call) * (1 + MAX_OBSERVER_LOSSES)

Snapshots == [revision : 0..MAX_REVISION, lastToolBatchRevision : 0..MAX_REVISION,
              activeToolCalls : 0..MAX_ACTIVE, lastProgressAt : NoTime..MAX_CLOCK]

ProgressTypeOK ==
    /\ wallClock \in 1..MAX_CLOCK
    /\ Snapshot \in Snapshots /\ mirror \in Snapshots
    /\ observedToolBatchRevision \in 0..MAX_REVISION
    /\ retired \in BOOLEAN /\ completed \in BOOLEAN
    /\ forwarded \in 0..MAX_REVISION
    /\ frames \in Seq(Snapshots) /\ acks \in Seq(1..MAX_REVISION)
    /\ boundary \in 0..MAX_REVISION
    /\ call \in [Call -> {"none", "queued", "delivered", "completed", "dropped"}]
    /\ adapter \in {"idle", "observing", "executing", "gone"}
    /\ batchRevision \in 0..MAX_REVISION
    /\ losses \in 0..MAX_OBSERVER_LOSSES

ProgressInit ==
    /\ wallClock = 1
    /\ revision = 0 /\ lastToolBatchRevision = 0 /\ observedToolBatchRevision = 0
    /\ activeToolCalls = 0 /\ lastProgressAt = NoTime /\ retired = FALSE
    /\ forwarded = 0 /\ frames = <<>>
    /\ mirror = Snapshot
    /\ boundary = 0 /\ acks = <<>> /\ completed = FALSE
    /\ call = [c \in Call |-> "none"]
    /\ adapter = "idle" /\ batchRevision = 0 /\ losses = 0

\* Date.now() moves on; a clock that is set back is not modelled.
ClockTicks ==
    /\ wallClock' \in wallClock + 1..MAX_CLOCK
    /\ UNCHANGED <<recorderVars, observedToolBatchRevision, retired, forwarded, mirrorVars,
                   call, batchVars>>

-----------------------------------------------------------------------------
(* The recorder *)

\* advance()
Advance == revision' = revision + 1 /\ lastProgressAt' = wallClock

CallsOf(batch) == Cardinality(batch)

\* recordToolBatch()
RecordToolBatch(batch) ==
    /\ ~retired
    /\ activeToolCalls' = activeToolCalls + CallsOf(batch)
    /\ Advance
    /\ lastToolBatchRevision' = revision + 1

\* recordToolResult()
RecordToolResult ==
    /\ ~retired /\ activeToolCalls > 0
    /\ activeToolCalls' = activeToolCalls - 1
    /\ Advance
    /\ UNCHANGED lastToolBatchRevision

RevisionOnRetirement == IF activeToolCalls = 0 THEN revision ELSE revision + 1

\* retire(): the time of the last progress stays.
RecordRetirement ==
    /\ ~retired
    /\ retired' = TRUE
    /\ activeToolCalls' = 0
    /\ revision' = RevisionOnRetirement
    /\ UNCHANGED <<lastToolBatchRevision, lastProgressAt>>

-----------------------------------------------------------------------------
(* ChatGPT, the broker and the adapter *)

CallTool(c) ==
    /\ call[c] = "none" /\ ~retired /\ ~completed
    /\ call' = [call EXCEPT ![c] = "queued"]
    /\ UNCHANGED <<wallClock, recorderVars, observedToolBatchRevision, retired, forwarded, mirrorVars, batchVars>>

\* What nextToolBatch() returns: the calls delivered before, or the queue.
NextBatch == IF CallsThat("delivered") # {} THEN CallsThat("delivered") ELSE CallsThat("queued")

\* armNextTools(): the batch, replayed or not, is recorded before it is observed.
ArmNextTools ==
    /\ adapter = "idle" /\ NextBatch # {}
    /\ RecordToolBatch(NextBatch)
    /\ call' = [c \in Call |-> IF c \in NextBatch THEN "delivered" ELSE call[c]]
    /\ adapter' = "observing" /\ batchRevision' = revision + 1
    /\ UNCHANGED <<wallClock, observedToolBatchRevision, retired, forwarded, mirrorVars, losses>>

\* Mutant: the acknowledgement of a later batch is awaited.
ObservedLater(batch) == observedToolBatchRevision > batch
Observed(batch) == observedToolBatchRevision >= batch

\* waitForToolBatchObservation() returns; the calls are emitted to Codex.
Dispatch ==
    /\ adapter = "observing" /\ Observed(batchRevision) /\ ~retired
    /\ adapter' = "executing"
    /\ UNCHANGED <<wallClock, recorderVars, observedToolBatchRevision, retired, forwarded, mirrorVars,
                   call, batchRevision, losses>>

\* Codex disconnects before the batch is journaled.
LoseObserver ==
    /\ adapter = "observing" /\ losses < MAX_OBSERVER_LOSSES
    /\ adapter' = "idle" /\ losses' = losses + 1
    /\ UNCHANGED <<wallClock, recorderVars, observedToolBatchRevision, retired, forwarded, mirrorVars,
                   call, batchRevision>>

\* One result of the batch: completeTool() and recordToolResult().
ReturnResult(c) ==
    /\ adapter = "executing" /\ call[c] = "delivered"
    /\ RecordToolResult
    /\ call' = [call EXCEPT ![c] = "completed"]
    /\ adapter' = IF CallsThat("delivered") = {c} THEN "idle" ELSE adapter
    /\ UNCHANGED <<wallClock, observedToolBatchRevision, retired, forwarded, mirrorVars, batchRevision, losses>>

\* The broker retires the turn's capability, and the recorder with it.
Retire ==
    /\ RecordRetirement
    /\ call' = [c \in Call |-> IF call[c] \in {"queued", "delivered"} THEN "dropped" ELSE call[c]]
    /\ adapter' = "gone"
    /\ UNCHANGED <<wallClock, observedToolBatchRevision, forwarded, mirrorVars, batchRevision, losses>>

-----------------------------------------------------------------------------
(* The pipes between daemon and helper *)

RememberForwarded == revision

\* forwardProgress(): the newest snapshot, whenever there is one to send.
Forward ==
    /\ revision > forwarded
    /\ frames' = Append(frames, Snapshot)
    /\ forwarded' = RememberForwarded
    /\ UNCHANGED <<wallClock, recorderVars, observedToolBatchRevision, retired, mirror, boundary, acks,
                   completed, call, batchVars>>

\* A frame that contradicts what the mirror has seen is refused.
Regresses(frame) ==
    \/ frame.lastToolBatchRevision < mirror.lastToolBatchRevision
    \/ frame.lastProgressAt < mirror.lastProgressAt
Stale(frame) == frame.revision <= mirror.revision

\* apply(): a stale frame is ignored, a contradictory one is logged and dropped.
Apply ==
    /\ frames # <<>>
    /\ frames' = Tail(frames)
    /\ mirror' = IF Stale(Head(frames)) \/ Regresses(Head(frames)) THEN mirror ELSE Head(frames)
    /\ UNCHANGED <<wallClock, recorderVars, observedToolBatchRevision, retired, forwarded, boundary, acks,
                   completed, call, batchVars>>

\* The recorder's acknowledgeToolBatch().  After retirement it throws, which
\* aborts the turn in the helper and records nothing.
ReceiveAck ==
    /\ acks # <<>>
    /\ acks' = Tail(acks)
    /\ observedToolBatchRevision' =
            IF retired \/ Head(acks) <= observedToolBatchRevision
            THEN observedToolBatchRevision ELSE Head(acks)
    /\ UNCHANGED <<wallClock, recorderVars, retired, forwarded, frames, mirror, boundary, completed,
                   call, batchVars>>

-----------------------------------------------------------------------------
(* The worker's observation loop *)

NeedsToolBatchObservation == mirror.lastToolBatchRevision > boundary

\* The boundary of a new batch is captured, then acknowledged.
ObserveToolBatch ==
    /\ ~completed /\ NeedsToolBatchObservation
    /\ boundary' = mirror.lastToolBatchRevision
    /\ acks' = Append(acks, mirror.lastToolBatchRevision)
    /\ UNCHANGED <<wallClock, recorderVars, observedToolBatchRevision, retired, forwarded, frames, mirror,
                   completed, call, batchVars>>

\* The answer looks complete, no call vetoes it, and the broker's fence agrees.
AcceptAnswer ==
    /\ ~completed /\ ~retired
    /\ ~NeedsToolBatchObservation /\ mirror.activeToolCalls = 0
    /\ CallsThat("queued") = {} /\ CallsThat("delivered") = {}
    /\ completed' = TRUE
    /\ UNCHANGED <<wallClock, recorderVars, observedToolBatchRevision, retired, forwarded, frames, mirror,
                   boundary, acks, call, batchVars>>

-----------------------------------------------------------------------------
ProgressNext ==
    \/ ClockTicks \/ ArmNextTools \/ Dispatch \/ LoseObserver \/ Retire
    \/ \E c \in Call : CallTool(c) \/ ReturnResult(c)
    \/ Forward \/ Apply \/ ReceiveAck \/ ObserveToolBatch \/ AcceptAnswer

ProgressSpec == ProgressInit /\ [][ProgressNext]_progressVars

\* The event loops of both processes run and Codex returns results.
BatchFairness ==
    /\ WF_progressVars(ArmNextTools) /\ WF_progressVars(Dispatch)
    /\ \A c \in Call : WF_progressVars(ReturnResult(c))
    /\ WF_progressVars(Forward) /\ WF_progressVars(Apply) /\ WF_progressVars(ReceiveAck)
    /\ WF_progressVars(ObserveToolBatch)

\* The worker looks at the page again and again, so that it meets a moment without a veto.
FairProgressSpec == ProgressSpec /\ BatchFairness /\ SF_progressVars(AcceptAnswer)

-----------------------------------------------------------------------------
(* Properties *)

\* While a call is with the adapter or Codex the recorder counts it, so that a
\* result never finds the counter at zero and the veto is never lifted early.
VetoCoversCalls == Cardinality(CallsThat("delivered")) <= activeToolCalls

\* "The outer Codex harness therefore cannot execute the tool until this exact
\* pre-tool answer boundary exists" (browser-worker.ts:1297): a batch is with
\* Codex only after the worker captured the text in front of it.
BoundaryBeforeDispatch == adapter = "executing" => boundary >= batchRevision

\* The helper never has to refuse what the recorder reports.
FramesAreAccepted ==
    \A i \in DOMAIN frames : ~Stale(frames[i]) /\ ~Regresses(frames[i])

\* The two processes agree: types, every call with Codex is counted, no batch is with
\* Codex before its boundary, and no frame is one that the mirror would refuse.
ProgressInv == ProgressTypeOK /\ VetoCoversCalls /\ BoundaryBeforeDispatch /\ FramesAreAccepted

\* A batch the adapter holds reaches Codex, unless the turn or Codex is gone.
BatchIsDispatched == adapter = "observing" ~> adapter # "observing"

\* Progress frames cannot keep a turn that called a tool open for ever, and a retired
\* turn stops vetoing the completion in the helper process as well.  (A batch replayed
\* after its observer was lost is counted twice, and the surplus is never taken back.)
TurnCompletes ==
    (\E c \in Call : call[c] # "none")
        ~> completed \/ (retired /\ mirror.activeToolCalls = 0) \/ losses > 0

\* The recorder and its mirror: their books agree at all times, and neither a batch nor
\* the turn waits for ever for the other process.
ProgressHolds == []ProgressInv /\ BatchIsDispatched /\ TurnCompletes
=============================================================================
