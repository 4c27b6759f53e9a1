--------------------------- MODULE Adapter_proofs ---------------------------
(***************************************************************************)
(* Proofs about TurnProgress for every set of tool calls, number of lost   *)
(* observers and length of the daemon's clock: recorder, mirror and worker *)
(* agree on the batches of the turn, however far the two pipes between the *)
(* processes lag behind.  About ZeroRiskTurn for every set of requests and *)
(* answers and any number of failed requests.  And about ManualControl for *)
(* any number of turns, of late or lost answers and of daemon processes.   *)
(***************************************************************************)
EXTENDS TurnProgress, ZeroRiskTurn, ManualControl, FiniteSetTheorems,
        SequenceTheorems, TLAPS

Delivered == CallsThat("delivered")
CompletedCalls == CallsThat("completed")

\* An observer was lost with a batch in its hands: the next one is given it again.
ReplayIsDue == adapter = "idle" /\ Delivered # {}

\* What the recorder has counted is earned: a revision by a call delivered, by a call
\* completed, or by a lost observer, with one in hand for the replay that is due.
RevisionsAreEarned ==
    ~retired =>
        /\ revision + (IF ReplayIsDue THEN 1 ELSE 0)
               <= Cardinality(Delivered) + 2 * Cardinality(CompletedCalls) + losses
        /\ activeToolCalls + (IF ReplayIsDue THEN Cardinality(Delivered) ELSE 0)
               <= Cardinality(Delivered) + Cardinality(CompletedCalls) + losses * Cardinality(Call)
        /\ lastToolBatchRevision <= revision

RetiredTurnHasNoCalls == retired => Delivered = {} /\ adapter = "gone"

Precedes(older, newer) ==
    /\ older.revision < newer.revision
    /\ older.lastToolBatchRevision <= newer.lastToolBatchRevision
    /\ older.lastProgressAt <= newer.lastProgressAt

SentBefore(snapshot) ==
    /\ snapshot.revision <= forwarded
    /\ snapshot.lastToolBatchRevision <= lastToolBatchRevision
    /\ snapshot.lastProgressAt <= lastProgressAt

\* The mirror, the frames on their way and the recorder, oldest first.
SnapshotsInOrder ==
    /\ \A i \in 1..Len(frames) : Precedes(mirror, frames[i]) /\ SentBefore(frames[i])
    /\ \A i, j \in 1..Len(frames) : i < j => Precedes(frames[i], frames[j])
    /\ SentBefore(mirror)
    /\ forwarded <= revision /\ lastProgressAt <= wallClock

\* An acknowledgement follows the boundary it acknowledges.
AcksFollowBoundary ==
    /\ observedToolBatchRevision <= boundary
    /\ \A i \in 1..Len(acks) : acks[i] <= boundary
    /\ adapter = "executing" => observedToolBatchRevision >= batchRevision

ProgressIInv ==
    /\ ProgressTypeOK
    /\ VetoCoversCalls
    /\ RevisionsAreEarned
    /\ RetiredTurnHasNoCalls
    /\ SnapshotsInOrder
    /\ AcksFollowBoundary

-----------------------------------------------------------------------------
(* Counting calls *)

LEMMA CountsOf ==
    ASSUME NEW f, NEW D, NEW C,
           D = {c \in Call : f[c] = "delivered"}, C = {c \in Call : f[c] = "completed"}
    PROVE  /\ Cardinality(D) \in Nat /\ Cardinality(C) \in Nat /\ Cardinality(Call) \in Nat
           /\ Cardinality(D) + Cardinality(C) <= Cardinality(Call)
           /\ IsFiniteSet(D) /\ IsFiniteSet(C)
<1>1. D \subseteq Call /\ C \subseteq Call /\ D \cap C = {} /\ D \cup C \subseteq Call
  OBVIOUS
<1>2. /\ IsFiniteSet(D) /\ IsFiniteSet(C)
      /\ Cardinality(D \cup C) <= Cardinality(Call) /\ Cardinality(Call) \in Nat
  BY <1>1, FiniteCalls, FS_Subset, FS_CardinalityType
<1>3. Cardinality(D \cup C) = Cardinality(D) + Cardinality(C) - Cardinality(D \cap C)
  BY <1>2, FS_Union
<1>4. Cardinality(D \cap C) = 0
  BY <1>1, FS_EmptySet
<1> QED
  BY <1>2, <1>3, <1>4, FS_CardinalityType

LEMMA CallCounts ==
    /\ Cardinality(Delivered) \in Nat /\ Cardinality(CompletedCalls) \in Nat /\ Cardinality(Call) \in Nat
    /\ Cardinality(Delivered) + Cardinality(CompletedCalls) <= Cardinality(Call)
    /\ IsFiniteSet(Delivered) /\ IsFiniteSet(CompletedCalls)
<1>1. /\ Delivered = {c \in Call : call[c] = "delivered"}
      /\ CompletedCalls = {c \in Call : call[c] = "completed"}
  BY DEF Delivered, CompletedCalls, CallsThat
<1> QED
  BY <1>1, CountsOf

LEMMA ProductGrows ==
    ASSUME NEW n \in Nat, NEW k \in Nat, NEW l \in Nat, k <= l
    PROVE  /\ n * (1 + l) \in Nat /\ n * (1 + k) <= n * (1 + l) /\ n * (1 + k) = n + k * n
           /\ k * n \in Nat /\ (k + 1) * n = k * n + n
<1>1. PICK d \in Nat : l = k + d
  BY DEF Nat
<1>2. n * (1 + l) = n * (1 + k) + n * d
  BY <1>1
<1>3. n * d \in Nat /\ n * (1 + k) \in Nat
  OBVIOUS
<1>4. n * (1 + k) = n + k * n /\ k * n \in Nat /\ (k + 1) * n = k * n + n
  OBVIOUS
<1> QED
  BY <1>2, <1>3, <1>4

LEMMA BoundsAreNumbers == MAX_REVISION \in Nat /\ MAX_ACTIVE \in Nat /\ MAX_OBSERVER_LOSSES \in Nat /\ MAX_CLOCK \in Nat
BY SMTT(40), FiniteCalls, FS_CardinalityType, ProgressBounds, ProductGrows DEF MAX_REVISION, MAX_ACTIVE

\* What is earned stays within the bounds that the types name.
LEMMA EarnedIsBounded ==
    ASSUME NEW d \in Nat, NEW c \in Nat, d + c <= Cardinality(Call),
           NEW k \in 0..MAX_OBSERVER_LOSSES, NEW r \in Nat, NEW a \in Nat, NEW due \in BOOLEAN,
           r + (IF due THEN 1 ELSE 0) <= d + 2 * c + k,
           a + (IF due THEN d ELSE 0) <= d + c + k * Cardinality(Call)
    PROVE  r + 1 <= MAX_REVISION /\ a <= MAX_ACTIVE
<1> DEFINE n == Cardinality(Call)
<1>1. n \in Nat /\ k \in Nat /\ k <= MAX_OBSERVER_LOSSES
  BY BoundsAreNumbers, FiniteCalls, FS_CardinalityType
<1>2. MAX_REVISION = 2 * n + MAX_OBSERVER_LOSSES + 1
  BY DEF MAX_REVISION
<1>3. n + k * n <= MAX_ACTIVE /\ k * n \in Nat
  BY SMTT(40), <1>1, BoundsAreNumbers, ProductGrows DEF MAX_ACTIVE
<1> DEFINE p == k * n
<1>4. p \in Nat /\ n + p <= MAX_ACTIVE /\ d + c <= n /\ a + (IF due THEN d ELSE 0) <= d + c + p
  BY <1>3
<1> HIDE DEF p, n
<1> QED
  BY <1>1, <1>2, <1>4, BoundsAreNumbers

LEMMA NumbersHaveTypes ==
    ASSUME ProgressTypeOK
    PROVE  /\ wallClock \in Nat /\ revision \in Nat /\ lastToolBatchRevision \in Nat
           /\ activeToolCalls \in Nat /\ lastProgressAt \in Nat /\ forwarded \in Nat
           /\ boundary \in Nat /\ observedToolBatchRevision \in Nat /\ batchRevision \in Nat
           /\ Snapshot \in Snapshots /\ mirror \in Snapshots
           /\ frames \in Seq(Snapshots) /\ acks \in Seq(1..MAX_REVISION)
           /\ \A i \in 1..Len(frames) : frames[i] \in Snapshots
           /\ \A i \in 1..Len(acks) : acks[i] \in 1..MAX_REVISION
<1>1. frames \in Seq(Snapshots) /\ acks \in Seq(1..MAX_REVISION)
  BY DEF ProgressTypeOK
<1>2. /\ \A i \in 1..Len(frames) : frames[i] \in Snapshots
      /\ \A i \in 1..Len(acks) : acks[i] \in 1..MAX_REVISION
  BY <1>1, ElementOfSeq
<1> QED
  BY <1>1, <1>2, BoundsAreNumbers DEF ProgressTypeOK, Snapshot, Snapshots, NoTime

LEMMA CountingStep ==
    ASSUME ProgressIInv, [ProgressNext]_progressVars
    PROVE  VetoCoversCalls' /\ RevisionsAreEarned' /\ RetiredTurnHasNoCalls'
<1> DEFINE Kept == VetoCoversCalls' /\ RevisionsAreEarned' /\ RetiredTurnHasNoCalls'
           d == Cardinality(Delivered)
           c == Cardinality(CompletedCalls)
           p == losses * Cardinality(Call)
<1>0. /\ ProgressTypeOK /\ d \in Nat /\ c \in Nat /\ p \in Nat /\ Cardinality(Call) \in Nat
      /\ losses \in Nat /\ revision \in Nat /\ activeToolCalls \in Nat /\ lastToolBatchRevision \in Nat
      /\ d <= activeToolCalls /\ call \in [Call -> {"none", "queued", "delivered", "completed", "dropped"}]
  <2>0. ProgressTypeOK
    BY DEF ProgressIInv
  <2>1. /\ losses \in Nat /\ revision \in Nat /\ activeToolCalls \in Nat
        /\ lastToolBatchRevision \in Nat
        /\ call \in [Call -> {"none", "queued", "delivered", "completed", "dropped"}]
    BY <2>0, NumbersHaveTypes, BoundsAreNumbers DEF ProgressTypeOK
  <2>2. d \in Nat /\ c \in Nat /\ Cardinality(Call) \in Nat
    BY CallCounts
  <2>3. p \in Nat
    BY SMTT(40), <2>1, <2>2, ProductGrows
  <2>4. d <= activeToolCalls
    BY DEF ProgressIInv, VetoCoversCalls, Delivered
  <2> QED
    BY <2>0, <2>1, <2>2, <2>3, <2>4
<1>00. /\ ~retired => /\ revision + (IF ReplayIsDue THEN 1 ELSE 0) <= d + 2 * c + losses
                      /\ activeToolCalls + (IF ReplayIsDue THEN d ELSE 0) <= d + c + p
                      /\ lastToolBatchRevision <= revision
       /\ retired => Delivered = {} /\ adapter = "gone"
  BY DEF ProgressIInv, RevisionsAreEarned, RetiredTurnHasNoCalls
<1>000. ASSUME Cardinality(Delivered') <= activeToolCalls', retired' => Delivered' = {} /\ adapter' = "gone",
               ~retired' => /\ revision' + (IF ReplayIsDue' THEN 1 ELSE 0)
                                   <= Cardinality(Delivered') + 2 * Cardinality(CompletedCalls') + losses'
                            /\ activeToolCalls' + (IF ReplayIsDue' THEN Cardinality(Delivered') ELSE 0)
                                   <= Cardinality(Delivered') + Cardinality(CompletedCalls') + losses' * Cardinality(Call)
                            /\ lastToolBatchRevision' <= revision'
        PROVE Kept
  BY <1>000 DEF VetoCoversCalls, RevisionsAreEarned, RetiredTurnHasNoCalls, Delivered
<1>1. CASE UNCHANGED <<revision, lastToolBatchRevision, activeToolCalls, retired, adapter, losses>>
           /\ Delivered' = Delivered /\ CompletedCalls' = CompletedCalls
  BY <1>0, <1>00, <1>000, <1>1 DEF ReplayIsDue
<1>2. ASSUME NEW x \in Call, CallTool(x) PROVE Kept
  <2>1. Delivered' = Delivered /\ CompletedCalls' = CompletedCalls
    BY <1>0, <1>2 DEF CallTool, Delivered, CompletedCalls, CallsThat
  <2> QED
    BY <1>1, <1>2, <2>1 DEF CallTool, recorderVars, batchVars
<1>3. CASE ArmNextTools
  <2>1. /\ adapter = "idle" /\ NextBatch # {} /\ ~retired /\ ~retired'
        /\ activeToolCalls' = activeToolCalls + Cardinality(NextBatch)
        /\ revision' = revision + 1 /\ lastToolBatchRevision' = revision + 1
        /\ adapter' = "observing" /\ losses' = losses
    BY <1>3 DEF ArmNextTools, RecordToolBatch, CallsOf, Advance
  <2>2. Delivered' = NextBatch /\ CompletedCalls' = CompletedCalls
    BY <1>0, <1>3 DEF ArmNextTools, NextBatch, Delivered, CompletedCalls, CallsThat
  <2>3. Cardinality(NextBatch) \in Nat /\ Cardinality(NextBatch) >= 1
    <3>1. NextBatch \subseteq Call
      BY DEF NextBatch, CallsThat
    <3>2. IsFiniteSet(NextBatch)
      BY <3>1, FiniteCalls, FS_Subset
    <3> QED
      BY <2>1, <3>2, FS_EmptySet, FS_CardinalityType
  <2>4. CASE Delivered # {}
    <3>1. NextBatch = Delivered /\ ReplayIsDue
      BY <2>1, <2>4 DEF NextBatch, Delivered, ReplayIsDue
    <3>2. ~ReplayIsDue'
      BY <2>1 DEF ReplayIsDue
    <3> QED
      BY <1>0, <1>00, <1>000, <2>1, <2>2, <3>1, <3>2
  <2>5. CASE Delivered = {}
    <3>1. d = 0 /\ ~ReplayIsDue /\ ~ReplayIsDue'
      BY <2>1, <2>5, FS_EmptySet DEF ReplayIsDue
    <3> QED
      BY <1>0, <1>00, <1>000, <2>1, <2>2, <2>3, <3>1
  <2> QED
    BY <2>4, <2>5
<1>4. CASE Dispatch
  <2>1. /\ UNCHANGED <<revision, lastToolBatchRevision, activeToolCalls, retired, losses, call>>
        /\ ~retired /\ adapter = "observing" /\ adapter' = "executing"
    BY <1>4 DEF Dispatch, recorderVars
  <2>2. Delivered' = Delivered /\ CompletedCalls' = CompletedCalls /\ ~ReplayIsDue /\ ~ReplayIsDue'
    BY <2>1 DEF Delivered, CompletedCalls, CallsThat, ReplayIsDue
  <2> QED
    BY <1>0, <1>00, <1>000, <2>1, <2>2
<1>5. CASE LoseObserver
  <2>1. /\ UNCHANGED <<revision, lastToolBatchRevision, activeToolCalls, retired, call>>
        /\ losses' = losses + 1 /\ adapter = "observing" /\ adapter' = "idle"
    BY <1>5 DEF LoseObserver, recorderVars
  <2>2. Delivered' = Delivered /\ CompletedCalls' = CompletedCalls /\ ~ReplayIsDue
    BY <2>1 DEF Delivered, CompletedCalls, CallsThat, ReplayIsDue
  <2>3. losses' * Cardinality(Call) = p + Cardinality(Call)
    BY <1>0, <2>1
  <2>4. d + c <= Cardinality(Call)
    BY <1>0, CallCounts
  <2> HIDE DEF p
  <2>5. CASE ~retired
    <3>1. revision <= d + 2 * c + losses /\ activeToolCalls <= d + c + p /\ lastToolBatchRevision <= revision
      BY <1>00, <2>2, <2>5, <1>0
    <3> HIDE DEF d, c
    <3>2. activeToolCalls + d <= d + c + (p + Cardinality(Call)) /\ revision + 1 <= d + 2 * c + losses'
          /\ activeToolCalls <= d + c + (p + Cardinality(Call)) /\ revision <= d + 2 * c + losses'
      BY <1>0, <2>1, <2>4, <3>1
    <3> QED
      BY <1>0, <1>000, <2>1, <2>2, <2>3, <2>5, <3>1, <3>2 DEF d, c
  <2>6. CASE retired
    BY <1>00, <2>1, <2>6
  <2> QED
    BY <2>5, <2>6
<1>6. ASSUME NEW x \in Call, ReturnResult(x) PROVE Kept
  <2>1. /\ adapter = "executing" /\ call[x] = "delivered" /\ ~retired /\ ~retired'
        /\ activeToolCalls' = activeToolCalls - 1 /\ revision' = revision + 1
        /\ UNCHANGED <<lastToolBatchRevision, losses>> /\ call' = [call EXCEPT ![x] = "completed"]
        /\ adapter' = IF CallsThat("delivered") = {x} THEN "idle" ELSE adapter
    BY <1>6 DEF ReturnResult, RecordToolResult, Advance
  <2>2. /\ x \in Delivered /\ x \notin CompletedCalls
        /\ Delivered' = Delivered \ {x} /\ CompletedCalls' = CompletedCalls \cup {x}
    BY <1>0, <2>1 DEF Delivered, CompletedCalls, CallsThat
  <2>3. Cardinality(Delivered') = d - 1 /\ Cardinality(CompletedCalls') = c + 1
    BY <1>0, <2>2, CallCounts, FS_RemoveElement, FS_AddElement
  <2>4. ~ReplayIsDue /\ ~ReplayIsDue'
    BY <2>1, <2>2 DEF ReplayIsDue, Delivered
  <2> HIDE DEF p
  <2>5. losses' * Cardinality(Call) = p
    BY <2>1 DEF p
  <2> QED
    BY <1>0, <1>00, <1>000, <2>1, <2>3, <2>4, <2>5
<1>7. CASE Retire
  <2>1. retired' /\ adapter' = "gone" /\ activeToolCalls' = 0 /\ Delivered' = {}
    BY <1>0, <1>7 DEF Retire, RecordRetirement, Delivered, CallsThat
  <2> QED
    BY <1>000, <2>1, FS_EmptySet
<1>8. CASE UNCHANGED <<recorderVars, retired, call, batchVars>>
  BY <1>1, <1>8 DEF recorderVars, batchVars, Delivered, CompletedCalls, CallsThat
<1> QED
  BY <1>2, <1>3, <1>4, <1>5, <1>6, <1>7, <1>8 DEF ProgressNext, ClockTicks, Forward, Apply, ReceiveAck,
     ObserveToolBatch, AcceptAnswer, progressVars

-----------------------------------------------------------------------------
(* The pipes *)

LEMMA SnapshotFields ==
    ASSUME NEW s \in Snapshots
    PROVE  s.revision \in Nat /\ s.lastToolBatchRevision \in Nat /\ s.lastProgressAt \in Nat
BY BoundsAreNumbers DEF Snapshots, NoTime

\* A recorder that moves on keeps the order, and so does time.
LEMMA RecorderMovesOn ==
    ASSUME ProgressTypeOK, SnapshotsInOrder, UNCHANGED <<frames, mirror, forwarded>>,
           wallClock' \in Nat, revision' \in Nat, lastToolBatchRevision' \in Nat, lastProgressAt' \in Nat,
           revision <= revision', lastToolBatchRevision <= lastToolBatchRevision',
           lastProgressAt <= lastProgressAt', lastProgressAt' <= wallClock'
    PROVE  SnapshotsInOrder'
<1>1. ASSUME NEW s \in Snapshots, SentBefore(s)
      PROVE  /\ s.revision <= forwarded /\ s.lastToolBatchRevision <= lastToolBatchRevision'
             /\ s.lastProgressAt <= lastProgressAt'
  <2>1. s.revision \in Nat /\ s.lastToolBatchRevision \in Nat /\ s.lastProgressAt \in Nat
    BY SnapshotFields
  <2>2. lastToolBatchRevision \in Nat /\ lastProgressAt \in Nat
    BY NumbersHaveTypes
  <2> QED
    BY <1>1, <2>1, <2>2 DEF SentBefore
<1>2. \A i \in 1..Len(frames) : frames[i] \in Snapshots /\ SentBefore(frames[i])
  BY NumbersHaveTypes DEF SnapshotsInOrder
<1>3. mirror \in Snapshots /\ SentBefore(mirror) /\ forwarded <= revision'
  BY NumbersHaveTypes DEF SnapshotsInOrder
<1> QED
  BY <1>1, <1>2, <1>3 DEF SnapshotsInOrder, SentBefore, Precedes

LEMMA ForwardKeepsOrder ==
    ASSUME ProgressTypeOK, SnapshotsInOrder, Forward
    PROVE  SnapshotsInOrder'
<1>1. /\ frames' = Append(frames, Snapshot) /\ forwarded' = revision /\ revision > forwarded
      /\ UNCHANGED <<revision, lastToolBatchRevision, lastProgressAt, wallClock, mirror>>
  BY DEF Forward, RememberForwarded, recorderVars
<1>2. /\ Len(frames') = Len(frames) + 1 /\ Len(frames) \in Nat /\ frames'[Len(frames) + 1] = Snapshot
      /\ \A i \in 1..Len(frames) : frames'[i] = frames[i]
  BY <1>1, NumbersHaveTypes, AppendProperties
<1>3. ASSUME NEW s \in Snapshots, SentBefore(s)
      PROVE  Precedes(s, Snapshot) /\ s.revision <= revision
  BY <1>1, <1>3, SnapshotFields, NumbersHaveTypes DEF SentBefore, Precedes, Snapshot
<1>4. /\ mirror \in Snapshots /\ SentBefore(mirror)
      /\ \A i \in 1..Len(frames) : frames[i] \in Snapshots /\ SentBefore(frames[i])
  BY NumbersHaveTypes DEF SnapshotsInOrder
<1>5. /\ SentBefore(mirror)' /\ forwarded' <= revision' /\ lastProgressAt' <= wallClock'
  BY <1>1, <1>3, <1>4, NumbersHaveTypes DEF SnapshotsInOrder, SentBefore
<1>6. ASSUME NEW i \in 1..Len(frames')
      PROVE  (Precedes(mirror, frames[i]) /\ SentBefore(frames[i]))'
  <2>1. CASE i \in 1..Len(frames)
    BY <1>1, <1>2, <1>3, <1>4, <2>1 DEF SnapshotsInOrder, SentBefore, Precedes
  <2>2. CASE i = Len(frames) + 1
    <3>1. /\ Snapshot.revision = revision /\ Snapshot.lastToolBatchRevision = lastToolBatchRevision
          /\ Snapshot.lastProgressAt = lastProgressAt
      BY DEF Snapshot
    <3>2. SentBefore(frames[i])'
      BY <1>1, <1>2, <2>2, <3>1, NumbersHaveTypes DEF SentBefore
    <3>3. Precedes(mirror, frames[i])'
      BY <1>1, <1>2, <1>3, <1>4, <2>2 DEF Precedes
    <3> QED
      BY <3>2, <3>3
  <2> QED
    BY <1>2, <2>1, <2>2
<1>7. ASSUME NEW i \in 1..Len(frames'), NEW j \in 1..Len(frames'), i < j
      PROVE  Precedes(frames'[i], frames'[j])
  <2>1. i \in 1..Len(frames)
    BY <1>2, <1>7
  <2>2. CASE j \in 1..Len(frames)
    BY <1>2, <1>7, <2>1, <2>2 DEF SnapshotsInOrder
  <2>3. CASE j = Len(frames) + 1
    BY <1>2, <1>3, <1>4, <2>1, <2>3
  <2> QED
    BY <1>2, <2>2, <2>3
<1> QED
  BY <1>5, <1>6, <1>7 DEF SnapshotsInOrder, Precedes, SentBefore

LEMMA ApplyKeepsOrder ==
    ASSUME ProgressTypeOK, SnapshotsInOrder, Apply
    PROVE  SnapshotsInOrder' /\ mirror' \in Snapshots
<1>1. /\ frames # <<>> /\ frames' = Tail(frames) /\ mirror' \in {mirror, Head(frames)}
      /\ UNCHANGED <<revision, lastToolBatchRevision, lastProgressAt, wallClock, forwarded>>
  BY DEF Apply, recorderVars
<1>2. /\ Len(frames) \in Nat /\ Len(frames) >= 1 /\ Len(frames') = Len(frames) - 1
      /\ Head(frames) = frames[1] /\ \A i \in 1..Len(frames') : frames'[i] = frames[i + 1]
  BY <1>1, NumbersHaveTypes, HeadTailProperties, EmptySeq
<1>3. \A i \in 1..Len(frames') : i + 1 \in 1..Len(frames) /\ 1 < i + 1
  BY <1>2
<1>4. mirror' \in Snapshots /\ SentBefore(mirror')
  BY <1>1, <1>2, NumbersHaveTypes DEF SnapshotsInOrder
<1>5. \A i \in 1..Len(frames') : Precedes(mirror', frames'[i]) /\ SentBefore(frames'[i])
  BY <1>1, <1>2, <1>3 DEF SnapshotsInOrder
<1>6. \A i, j \in 1..Len(frames') : i < j => Precedes(frames'[i], frames'[j])
  BY <1>2, <1>3 DEF SnapshotsInOrder
<1> QED
  BY <1>1, <1>4, <1>5, <1>6 DEF SnapshotsInOrder, SentBefore, Precedes

LEMMA OrderStep ==
    ASSUME ProgressIInv, [ProgressNext]_progressVars
    PROVE  SnapshotsInOrder'
<1>0. ProgressTypeOK /\ SnapshotsInOrder /\ forwarded <= revision /\ lastProgressAt <= wallClock
  BY DEF ProgressIInv, SnapshotsInOrder
<1>1. ~retired => lastToolBatchRevision <= revision
  BY DEF ProgressIInv, RevisionsAreEarned
<1>2. CASE UNCHANGED <<wallClock, recorderVars, forwarded, frames, mirror>>
  BY <1>0, <1>2, NumbersHaveTypes, RecorderMovesOn DEF recorderVars
<1>3. CASE ClockTicks
  <2>1. wallClock' \in Nat /\ wallClock <= wallClock'
    BY <1>0, <1>3, BoundsAreNumbers, NumbersHaveTypes DEF ClockTicks
  <2> QED
    BY <1>0, <1>3, <2>1, NumbersHaveTypes, RecorderMovesOn DEF ClockTicks, recorderVars, mirrorVars
<1>4. CASE ArmNextTools
  <2>1. /\ revision' = revision + 1 /\ lastProgressAt' = wallClock /\ lastToolBatchRevision' = revision + 1
        /\ ~retired /\ UNCHANGED <<wallClock, forwarded, frames, mirror>>
    BY <1>4 DEF ArmNextTools, RecordToolBatch, Advance, mirrorVars
  <2> QED
    BY <1>0, <1>1, <2>1, NumbersHaveTypes, RecorderMovesOn
<1>5. ASSUME NEW c \in Call, ReturnResult(c) PROVE SnapshotsInOrder'
  <2>1. /\ revision' = revision + 1 /\ lastProgressAt' = wallClock
        /\ UNCHANGED <<wallClock, forwarded, frames, mirror, lastToolBatchRevision>>
    BY <1>5 DEF ReturnResult, RecordToolResult, Advance, mirrorVars
  <2> QED
    BY <1>0, <2>1, NumbersHaveTypes, RecorderMovesOn
<1>6. CASE Retire
  <2>1. /\ revision' \in {revision, revision + 1}
        /\ UNCHANGED <<wallClock, forwarded, frames, mirror, lastToolBatchRevision, lastProgressAt>>
    BY <1>6 DEF Retire, RecordRetirement, RevisionOnRetirement, mirrorVars
  <2> QED
    BY <1>0, <2>1, NumbersHaveTypes, RecorderMovesOn
<1>7. CASE Forward \/ Apply
  BY <1>0, <1>7, ForwardKeepsOrder, ApplyKeepsOrder
<1>8. ASSUME NEW c \in Call, CallTool(c) PROVE SnapshotsInOrder'
  BY <1>2, <1>8 DEF CallTool, mirrorVars
<1>9. CASE Dispatch \/ LoseObserver \/ ReceiveAck \/ ObserveToolBatch \/ AcceptAnswer \/ UNCHANGED progressVars
  BY <1>2, <1>9 DEF Dispatch, LoseObserver, ReceiveAck, ObserveToolBatch, AcceptAnswer, mirrorVars, progressVars
<1> QED
  BY <1>3, <1>4, <1>5, <1>6, <1>7, <1>8, <1>9 DEF ProgressNext

LEMMA AcksStep ==
    ASSUME ProgressIInv, [ProgressNext]_progressVars
    PROVE  AcksFollowBoundary'
<1>0. ProgressTypeOK /\ AcksFollowBoundary
  BY DEF ProgressIInv
<1>1. CASE UNCHANGED <<observedToolBatchRevision, boundary, acks>>
           /\ (adapter' = "executing" => adapter = "executing" /\ batchRevision' = batchRevision)
  BY <1>0, <1>1 DEF AcksFollowBoundary
<1>2. CASE Dispatch
  BY <1>0, <1>2, NumbersHaveTypes DEF Dispatch, Observed, AcksFollowBoundary, mirrorVars
<1>3. CASE ReceiveAck
  <2>1. /\ acks # <<>> /\ acks' = Tail(acks)
        /\ UNCHANGED <<boundary, adapter, batchRevision>>
        /\ observedToolBatchRevision' \in {observedToolBatchRevision, Head(acks)}
        /\ observedToolBatchRevision' # observedToolBatchRevision => ~(Head(acks) <= observedToolBatchRevision)
    BY <1>3 DEF ReceiveAck, batchVars
  <2>2. /\ Len(acks) \in Nat /\ Len(acks) >= 1 /\ Len(acks') = Len(acks) - 1
        /\ Head(acks) = acks[1] /\ \A i \in 1..Len(acks') : acks'[i] = acks[i + 1]
    BY <1>0, <2>1, NumbersHaveTypes, HeadTailProperties, EmptySeq
  <2>3. \A i \in 1..Len(acks') : acks'[i] <= boundary'
    BY <1>0, <2>1, <2>2 DEF AcksFollowBoundary
  <2>4. /\ acks[1] \in Nat /\ acks[1] <= boundary /\ boundary \in Nat
        /\ observedToolBatchRevision \in Nat /\ batchRevision \in Nat
    BY <1>0, <2>2, NumbersHaveTypes, BoundsAreNumbers DEF AcksFollowBoundary
  <2>5. observedToolBatchRevision' \in Nat /\ observedToolBatchRevision <= observedToolBatchRevision'
        /\ observedToolBatchRevision' <= boundary
    BY <1>0, <2>1, <2>2, <2>4 DEF AcksFollowBoundary
  <2>6. adapter' = "executing" => observedToolBatchRevision' >= batchRevision'
    BY <1>0, <2>1, <2>4, <2>5 DEF AcksFollowBoundary
  <2> QED
    BY <2>1, <2>3, <2>5, <2>6 DEF AcksFollowBoundary
<1>4. CASE ObserveToolBatch
  <2>1. /\ boundary' = mirror.lastToolBatchRevision /\ boundary' > boundary
        /\ acks' = Append(acks, boundary')
        /\ UNCHANGED <<observedToolBatchRevision, adapter, batchRevision>>
    BY <1>4 DEF ObserveToolBatch, NeedsToolBatchObservation, batchVars
  <2>2. boundary' \in Nat /\ boundary \in Nat /\ observedToolBatchRevision \in Nat
    BY <1>0, <2>1, NumbersHaveTypes, SnapshotFields
  <2>3. /\ Len(acks') = Len(acks) + 1 /\ Len(acks) \in Nat /\ acks'[Len(acks) + 1] = boundary'
        /\ \A i \in 1..Len(acks) : acks'[i] = acks[i] /\ acks[i] \in Nat
    BY SMTT(40), <1>0, <2>1, NumbersHaveTypes, AppendProperties, BoundsAreNumbers
  <2>4. ASSUME NEW i \in 1..Len(acks') PROVE acks'[i] <= boundary'
    BY <1>0, <2>1, <2>2, <2>3 DEF AcksFollowBoundary
  <2> QED
    BY <1>0, <2>1, <2>2, <2>4 DEF AcksFollowBoundary
<1>5. ASSUME NEW c \in Call, CallTool(c) \/ ReturnResult(c) PROVE AcksFollowBoundary'
  BY <1>1, <1>5 DEF CallTool, ReturnResult, mirrorVars, batchVars
<1>6. CASE ClockTicks \/ ArmNextTools \/ LoseObserver \/ Retire \/ Forward \/ Apply \/ AcceptAnswer
           \/ UNCHANGED progressVars
  BY <1>1, <1>6 DEF ClockTicks, ArmNextTools, LoseObserver, Retire, Forward, Apply, AcceptAnswer,
     mirrorVars, batchVars, progressVars
<1> QED
  BY <1>2, <1>3, <1>4, <1>5, <1>6 DEF ProgressNext

LEMMA TypeStep ==
    ASSUME ProgressIInv, [ProgressNext]_progressVars
    PROVE  ProgressTypeOK'
<1> USE BoundsAreNumbers DEF ProgressTypeOK, NoTime
<1>0. ProgressTypeOK /\ Snapshot \in Snapshots /\ mirror \in Snapshots
  BY DEF ProgressIInv
<1>1. ~retired => revision + 1 <= MAX_REVISION
  <2> SUFFICES ASSUME ~retired PROVE revision + 1 <= MAX_REVISION
    OBVIOUS
  <2> DEFINE d == Cardinality(Delivered)
             c == Cardinality(CompletedCalls)
  <2>1. d \in Nat /\ c \in Nat /\ d + c <= Cardinality(Call)
    BY CallCounts
  <2>2. losses \in 0..MAX_OBSERVER_LOSSES /\ revision \in Nat /\ activeToolCalls \in Nat
    BY <1>0, NumbersHaveTypes
  <2>3. /\ revision + (IF ReplayIsDue THEN 1 ELSE 0) <= d + 2 * c + losses
        /\ activeToolCalls + (IF ReplayIsDue THEN d ELSE 0) <= d + c + losses * Cardinality(Call)
    BY DEF ProgressIInv, RevisionsAreEarned
  <2>4. ReplayIsDue \in BOOLEAN
    BY DEF ReplayIsDue
  <2> HIDE DEF d, c
  <2> QED
    BY <2>1, <2>2, <2>3, <2>4, EarnedIsBounded
<1>2. ASSUME activeToolCalls' \in Nat, revision' \in Nat, losses' \in 0..MAX_OBSERVER_LOSSES, ~retired'
      PROVE  activeToolCalls' <= MAX_ACTIVE
  <2> DEFINE d == Cardinality(Delivered')
             c == Cardinality(CompletedCalls')
  <2>1. d \in Nat /\ c \in Nat /\ Cardinality(Call) \in Nat /\ d + c <= Cardinality(Call)
    BY CountsOf DEF Delivered, CompletedCalls, CallsThat
  <2>2. /\ revision' + (IF ReplayIsDue' THEN 1 ELSE 0) <= d + 2 * c + losses'
        /\ activeToolCalls' + (IF ReplayIsDue' THEN d ELSE 0) <= d + c + losses' * Cardinality(Call)
    BY <1>2, CountingStep DEF RevisionsAreEarned
  <2>3. ReplayIsDue' \in BOOLEAN
    BY DEF ReplayIsDue
  <2> HIDE DEF d, c
  <2> QED
    BY <1>2, <2>1, <2>2, <2>3, EarnedIsBounded
<1>3. ASSUME revision' \in 0..MAX_REVISION, lastToolBatchRevision' \in 0..MAX_REVISION,
             activeToolCalls' \in 0..MAX_ACTIVE, lastProgressAt' \in 0..MAX_CLOCK
      PROVE  (Snapshot \in Snapshots)'
  BY <1>3 DEF Snapshot, Snapshots
<1>4. /\ revision \in 0..MAX_REVISION /\ lastToolBatchRevision \in 0..MAX_REVISION
      /\ activeToolCalls \in 0..MAX_ACTIVE /\ lastProgressAt \in 0..MAX_CLOCK
  BY <1>0 DEF Snapshot, Snapshots
<1>5. CASE ClockTicks
  BY <1>0, <1>3, <1>4, <1>5 DEF ClockTicks, recorderVars, mirrorVars, batchVars
<1>6. ASSUME NEW c \in Call, CallTool(c) PROVE ProgressTypeOK'
  BY <1>0, <1>3, <1>4, <1>6 DEF CallTool, recorderVars, mirrorVars, batchVars
<1>7. CASE ArmNextTools
  <2>1. /\ revision' = revision + 1 /\ lastProgressAt' = wallClock /\ lastToolBatchRevision' = revision + 1
        /\ activeToolCalls' = activeToolCalls + Cardinality(NextBatch) /\ ~retired /\ ~retired'
        /\ UNCHANGED <<wallClock, observedToolBatchRevision, retired, forwarded, mirrorVars, losses>>
        /\ adapter' = "observing" /\ batchRevision' = revision + 1
    BY <1>7 DEF ArmNextTools, RecordToolBatch, Advance, CallsOf
  <2>2. NextBatch \subseteq Call /\ Cardinality(NextBatch) \in Nat
    <3>1. NextBatch \subseteq Call
      BY DEF NextBatch, CallsThat
    <3> QED
      BY <3>1, FiniteCalls, FS_Subset, FS_CardinalityType
  <2>3. activeToolCalls' <= MAX_ACTIVE /\ activeToolCalls' \in Nat /\ revision' \in 0..MAX_REVISION
    BY <1>0, <1>1, <1>2, <1>4, <2>1, <2>2
  <2>4. (Snapshot \in Snapshots)'
    BY <1>0, <1>3, <1>4, <2>1, <2>3
  <2>5. call' \in [Call -> {"none", "queued", "delivered", "completed", "dropped"}]
    BY <1>0, <1>7 DEF ArmNextTools
  <2> QED
    BY <1>0, <2>1, <2>3, <2>4, <2>5 DEF mirrorVars
<1>8. ASSUME NEW c \in Call, ReturnResult(c) PROVE ProgressTypeOK'
  <2>1. /\ revision' = revision + 1 /\ lastProgressAt' = wallClock /\ activeToolCalls > 0
        /\ activeToolCalls' = activeToolCalls - 1 /\ ~retired
        /\ call' = [call EXCEPT ![c] = "completed"] /\ adapter' \in {"idle", adapter}
        /\ UNCHANGED <<wallClock, lastToolBatchRevision, observedToolBatchRevision, retired, forwarded,
                       mirrorVars, batchRevision, losses>>
    BY <1>8 DEF ReturnResult, RecordToolResult, Advance
  <2>2. (Snapshot \in Snapshots)'
    BY <1>0, <1>1, <1>3, <1>4, <2>1
  <2> QED
    BY <1>0, <2>1, <2>2 DEF mirrorVars
<1>9. CASE Retire
  <2>1. /\ revision' \in {revision, revision + 1} /\ activeToolCalls' = 0 /\ ~retired /\ retired'
        /\ adapter' = "gone"
        /\ UNCHANGED <<wallClock, lastToolBatchRevision, lastProgressAt, observedToolBatchRevision, forwarded,
                       mirrorVars, batchRevision, losses>>
    BY <1>9 DEF Retire, RecordRetirement, RevisionOnRetirement
  <2>2. (Snapshot \in Snapshots)'
    BY <1>0, <1>1, <1>3, <1>4, <2>1
  <2>3. call' \in [Call -> {"none", "queued", "delivered", "completed", "dropped"}]
    BY <1>0, <1>9 DEF Retire
  <2> QED
    BY <1>0, <2>1, <2>2, <2>3 DEF mirrorVars
<1>10. ASSUME UNCHANGED <<wallClock, recorderVars, retired, call>> PROVE
          wallClock' \in 1..MAX_CLOCK /\ (Snapshot \in Snapshots)' /\ retired' \in BOOLEAN
          /\ call' \in [Call -> {"none", "queued", "delivered", "completed", "dropped"}]
  BY <1>0, <1>3, <1>4, <1>10 DEF recorderVars
<1>11. CASE Dispatch \/ LoseObserver
  BY SMTT(40), <1>0, <1>10, <1>11 DEF Dispatch, LoseObserver, mirrorVars
<1>12. CASE Forward
  <2>1. frames' \in Seq(Snapshots) /\ forwarded' = revision
    BY <1>0, <1>12, AppendProperties DEF Forward, RememberForwarded
  <2> QED
    BY <1>0, <1>4, <1>10, <1>12, <2>1 DEF Forward, batchVars
<1>13. CASE Apply
  <2>1. frames' \in Seq(Snapshots) /\ mirror' \in Snapshots
    BY <1>0, <1>13, ApplyKeepsOrder, HeadTailProperties DEF Apply, ProgressIInv
  <2> QED
    BY <1>0, <1>10, <1>13, <2>1 DEF Apply, batchVars
<1>14. CASE ReceiveAck
  <2>1. acks' \in Seq(1..MAX_REVISION) /\ observedToolBatchRevision' \in 0..MAX_REVISION
    <3>1. acks' \in Seq(1..MAX_REVISION) /\ Head(acks) \in 1..MAX_REVISION
      BY <1>0, <1>14, HeadTailProperties DEF ReceiveAck
    <3> QED
      BY <1>0, <1>14, <3>1 DEF ReceiveAck
  <2> QED
    BY <1>0, <1>10, <1>14, <2>1 DEF ReceiveAck, batchVars
<1>15. CASE ObserveToolBatch
  <2>1. boundary' = mirror.lastToolBatchRevision /\ boundary' \in 1..MAX_REVISION /\ acks' = Append(acks, boundary')
    BY <1>0, <1>15 DEF ObserveToolBatch, NeedsToolBatchObservation, Snapshots
  <2>2. acks' \in Seq(1..MAX_REVISION)
    BY <1>0, <2>1, AppendProperties
  <2> QED
    BY <1>0, <1>10, <1>15, <2>1, <2>2 DEF ObserveToolBatch, batchVars
<1>16. CASE AcceptAnswer
  BY <1>0, <1>10, <1>16 DEF AcceptAnswer, batchVars
<1>17. CASE UNCHANGED progressVars
  BY <1>0, <1>10, <1>17 DEF progressVars, mirrorVars, batchVars
<1> QED
  BY <1>5, <1>6, <1>7, <1>8, <1>9, <1>11, <1>12, <1>13, <1>14, <1>15, <1>16, <1>17 DEF ProgressNext

LEMMA ProgressStart == ProgressInit => ProgressIInv
<1> SUFFICES ASSUME ProgressInit PROVE ProgressIInv
  OBVIOUS
<1> USE BoundsAreNumbers DEF ProgressInit
<1>1. ProgressTypeOK
  <2>1. Snapshot \in Snapshots
    BY DEF Snapshot, Snapshots, NoTime
  <2>2. <<>> \in Seq(Snapshots) /\ <<>> \in Seq(1..MAX_REVISION)
    OBVIOUS
  <2>3. frames \in Seq(Snapshots) /\ acks \in Seq(1..MAX_REVISION) /\ mirror \in Snapshots
    BY <2>1, <2>2
  <2>4. wallClock \in 1..MAX_CLOCK /\ losses \in 0..MAX_OBSERVER_LOSSES
    BY ProgressBounds
  <2>5. 0 \in 0..MAX_REVISION
    OBVIOUS
  <2> QED
    BY <2>1, <2>3, <2>4, <2>5 DEF ProgressTypeOK
<1>2. Delivered = {} /\ CompletedCalls = {} /\ Cardinality({}) = 0
  BY FS_EmptySet DEF Delivered, CompletedCalls, CallsThat
<1>3. VetoCoversCalls /\ RetiredTurnHasNoCalls /\ AcksFollowBoundary
  <2>1. Cardinality(CallsThat("delivered")) = 0
    BY <1>2 DEF Delivered
  <2>2. Len(acks) = 0
    OBVIOUS
  <2> QED
    BY <1>2, <2>1, <2>2 DEF VetoCoversCalls, RetiredTurnHasNoCalls, AcksFollowBoundary
<1>4. RevisionsAreEarned
  <2>1. Cardinality(Call) \in Nat
    BY CallCounts
  <2> QED
    BY <1>2, <2>1 DEF RevisionsAreEarned, ReplayIsDue
<1>5. SnapshotsInOrder
  BY DEF SnapshotsInOrder, SentBefore, Snapshot, NoTime
<1> QED
  BY <1>1, <1>3, <1>4, <1>5 DEF ProgressIInv

\* Recorder, mirror and worker agree, whatever the number of calls and of lost
\* observers: every call with Codex is counted, no batch is with Codex before its
\* boundary, and no frame is one that the mirror would refuse.
THEOREM ProgressCorrect == ProgressSpec => []ProgressInv
<1>1. ProgressIInv /\ [ProgressNext]_progressVars => ProgressIInv'
  BY TypeStep, CountingStep, OrderStep, AcksStep DEF ProgressIInv
<1>2. ProgressIInv => ProgressInv
  <2> SUFFICES ASSUME ProgressIInv PROVE BoundaryBeforeDispatch /\ FramesAreAccepted
    BY DEF ProgressIInv, ProgressInv
  <2>1. ProgressTypeOK
    BY DEF ProgressIInv
  <2>2. BoundaryBeforeDispatch
    BY <2>1, NumbersHaveTypes DEF ProgressIInv, AcksFollowBoundary, BoundaryBeforeDispatch
  <2>3. ASSUME NEW i \in DOMAIN frames PROVE ~Stale(frames[i]) /\ ~Regresses(frames[i])
    <3>1. i \in 1..Len(frames) /\ frames[i] \in Snapshots /\ mirror \in Snapshots
      BY <2>1, NumbersHaveTypes, LenProperties
    <3>2. Precedes(mirror, frames[i])
      BY <3>1 DEF ProgressIInv, SnapshotsInOrder
    <3> QED
      BY <3>1, <3>2, SnapshotFields DEF Precedes, Stale, Regresses
  <2> QED
    BY <2>2, <2>3 DEF FramesAreAccepted
<1> QED
  BY <1>1, <1>2, ProgressStart, PTL DEF ProgressSpec

-----------------------------------------------------------------------------
(* ManualControl: what is kept of tabs, requests and endings *)

Statuses == {"timeout", "cancelled", "failed"}
TabStates == {"awaiting-user", "sent", "running", "completed", "timed-out"}
Finals == {"completed", "failed", "aborted"}
Acts == {"start", "wait-sent", "started"} \cup Finals
Alive == {"waiting", "sent", "marking", "running", "ending"}
OwnerPhases == {"idle", "starting", "over"} \cup Alive
Hows == {"none", "ok", "refused", "unanswered", "gone"}
Answers == {"none", "ok", "refused"}

\* A memory holds an entry of turn t, or one of turn t and process p.
Of(s, t) == \E i \in DOMAIN s : s[i].turn = t
In(s, t, p) == \E i \in DOMAIN s : s[i].turn = t /\ s[i].pid = p
Once(s) == \A i, j \in DOMAIN s : s[i].turn = s[j].turn => i = j

\* A memory into which e was put: e, and every entry of another turn.
Tried(s, e, new) ==
    /\ \E i \in DOMAIN new : new[i] = e
    /\ \A i \in DOMAIN new : \/ new[i] = e
                            \/ \E j \in DOMAIN s : s[j] = new[i] /\ s[j].turn # e.turn
    /\ \A j \in DOMAIN s : s[j].turn # e.turn => \E i \in DOMAIN new : new[i] = s[j]

\* What no later start of the turn passes.
Settled(t) == In(ends, t, pid) \/ Of(dones, t)

TabTypes ==
    \A b \in tabs : /\ DOMAIN b = {"turn", "pid", "state"}
                    /\ b.turn \in ManualTurn /\ b.pid \in 1..pid /\ b.state \in TabStates
WireTypes ==
    \A r \in wire : r.turn \in ManualTurn /\ r.act \in Acts /\ r.n \in 1..2 /\ r.pid = pid
OwnerFields == {"phase", "act", "n", "reply", "how"}
OwnerTypes ==
    /\ DOMAIN owner = ManualTurn
    /\ \A t \in ManualTurn :
          /\ DOMAIN owner[t] = OwnerFields
          /\ owner[t].phase \in OwnerPhases /\ owner[t].act \in Acts \cup {"none"}
          /\ owner[t].n \in 0..2 /\ owner[t].reply \in Answers /\ owner[t].how \in Hows
MemoryTypes ==
    /\ ends \in Seq([turn : ManualTurn, pid : 1..pid, status : Statuses])
    /\ dones \in Seq([turn : ManualTurn, pid : 1..pid])
    /\ Once(ends) /\ Once(dones)
CountTypes == pid \in 1..MAX_PIDS /\ late \in 0..MAX_LATE

ControlTypes == TabTypes /\ WireTypes /\ OwnerTypes /\ MemoryTypes /\ CountTypes

-----------------------------------------------------------------------------
\* The owner holds a tab, or was told that it has none.
Given(t) == owner[t].phase \in Alive \/ (owner[t].phase = "starting" /\ owner[t].reply = "ok")
Answered(t) == \/ owner[t].phase = "ending" /\ owner[t].reply = "ok"
               \/ owner[t].phase = "over" /\ owner[t].how = "ok"
Started(t) == \/ owner[t].phase = "running"
              \/ owner[t].phase = "marking" /\ owner[t].reply = "ok"
              \/ owner[t].phase = "ending" /\ owner[t].act = "completed"
Clean == \A t \in ManualTurn : owner[t].how \notin {"unanswered", "gone"}

\* The turns run one after another, and each place of an owner has its request.
OwnerBooks ==
    \A t \in ManualTurn :
        /\ owner[t].phase # "idle" => \A u \in ManualTurn : u < t => owner[u].phase = "over"
        /\ owner[t].phase = "ending" <=> owner[t].act \in Finals
        /\ owner[t].phase = "starting" <=> owner[t].act = "start"
        /\ owner[t].phase = "marking" <=> owner[t].act = "started"
        /\ owner[t].phase \in {"idle", "sent", "running", "over"} =>
              owner[t].act = "none" /\ owner[t].reply = "none"
        /\ owner[t].how # "none" => owner[t].phase = "over"
        /\ owner[t].act # "none" => owner[t].n # 0

\* A request is from a turn that came to it; a late start finds an answered turn settled.
WireBooks ==
    \A r \in wire :
        /\ owner[r.turn].phase # "idle"
        /\ r.act \in Finals => /\ owner[r.turn].phase \in {"ending", "over"}
                               /\ owner[r.turn].phase = "over" => owner[r.turn].how \in {"ok", "unanswered"}
        /\ r.act = "start" /\ Answered(r.turn) => Settled(r.turn)

\* A turn has one tab, which is completed exactly when its completion is remembered.
TabsInOrder ==
    /\ \A b, c \in tabs : b.turn = c.turn => b = c
    /\ \A b \in tabs : /\ b.pid = pid => owner[b.turn].phase # "idle"
                       /\ b.pid # pid => ~In(ends, b.turn, pid)
                       /\ b.state = "completed" <=> Of(dones, b.turn)

\* What a place of an owner knows of its tab.
GivenBooks ==
    \A t \in ManualTurn :
        /\ Given(t) => Settled(t) \/ \E b \in tabs : b.turn = t /\ b.pid = pid
        /\ Given(t) /\ owner[t].phase # "ending" => ~Of(dones, t)
        /\ owner[t].phase = "ending" => /\ owner[t].reply # "refused"
                                        /\ Of(dones, t) => In(dones, t, pid)
        /\ Started(t) => \A b \in tabs : b.turn = t => b.state \in {"running", "completed"}
        /\ Answered(t) => \A b \in tabs : b.turn = t => b.state = "completed"

\* While a turn works in a tab no other is retained, unless an end was never acknowledged.
RetainedBooks ==
    Clean => /\ \A b, c \in Reusable : b = c
             /\ \A b \in tabs : b.state # "completed" /\ b.pid = pid /\ owner[b.turn].phase # "over"
                                => Reusable = {}

ManualCtlIInv == /\ ControlTypes /\ OwnerBooks /\ WireBooks /\ TabsInOrder /\ GivenBooks
                 /\ RetainedBooks

\* What a sequence is without its n-th entry.
LEMMA Removal ==
    ASSUME NEW S, NEW s \in Seq(S), NEW n \in DOMAIN s
    PROVE  /\ RemoveAt(s, n) \in Seq(S) /\ Len(RemoveAt(s, n)) = Len(s) - 1
           /\ \A k \in 1..(Len(s) - 1) : RemoveAt(s, n)[k] = IF k < n THEN s[k] ELSE s[k + 1]
<1> DEFINE a == SubSeq(s, 1, n - 1)
           b == SubSeq(s, n + 1, Len(s))
<1>1. /\ n \in Nat \ {0} /\ Len(s) \in Nat /\ n <= Len(s) /\ n \in 1..Len(s)
  BY SMT
<1>2. \A j \in 1..Len(s) : s[j] \in S
  BY ElementOfSeq
<1>3. a \in Seq(S) /\ Len(a) = n - 1 /\ \A k \in 1..(n - 1) : a[k] = s[k]
  <2>1. \A j \in 1..(n - 1) : s[j] \in S
    BY <1>1, <1>2, SMT
  <2>2. n - 1 \in Int /\ 1 \in Int
    BY <1>1, SMT
  <2>3. /\ a \in Seq(S)
        /\ Len(a) = IF 1 <= n - 1 THEN n - 1 - 1 + 1 ELSE 0
        /\ \A j \in 1..(n - 1 - 1 + 1) : a[j] = s[1 + j - 1]
    BY <2>1, <2>2, SubSeqProperties
  <2> HIDE DEF a
  <2> QED
    BY <1>1, <2>3, SMT
<1>4. b \in Seq(S) /\ Len(b) = Len(s) - n /\ \A k \in 1..(Len(s) - n) : b[k] = s[n + k]
  <2>1. \A j \in (n + 1)..Len(s) : s[j] \in S
    BY <1>1, <1>2, SMT
  <2>2. n + 1 \in Int /\ Len(s) \in Int
    BY <1>1, SMT
  <2>3. /\ b \in Seq(S)
        /\ Len(b) = IF n + 1 <= Len(s) THEN Len(s) - (n + 1) + 1 ELSE 0
        /\ \A j \in 1..(Len(s) - (n + 1) + 1) : b[j] = s[n + 1 + j - 1]
    BY <2>1, <2>2, SubSeqProperties
  <2> HIDE DEF b
  <2> QED
    BY <1>1, <2>3, SMT
<1>5. RemoveAt(s, n) = a \o b
  BY Zenon DEF RemoveAt
<1> HIDE DEF a, b
<1>6. /\ a \o b \in Seq(S) /\ Len(a \o b) = Len(a) + Len(b)
      /\ \A k \in 1..(Len(a) + Len(b)) : (a \o b)[k] = IF k <= Len(a) THEN a[k] ELSE b[k - Len(a)]
  BY <1>3, <1>4, ConcatProperties
<1>7. Len(a) + Len(b) = Len(s) - 1
  BY <1>1, <1>3, <1>4, SMT
<1>8. ASSUME NEW k \in 1..(Len(s) - 1)
      PROVE  (a \o b)[k] = IF k < n THEN s[k] ELSE s[k + 1]
  <2>1. (a \o b)[k] = IF k <= Len(a) THEN a[k] ELSE b[k - Len(a)]
    BY <1>6, <1>7
  <2>2. CASE k < n
    <3>1. k \in 1..(n - 1) /\ k <= Len(a)
      BY <1>1, <1>3, <2>2, SMT
    <3>2. (a \o b)[k] = a[k]
      BY <2>1, <3>1
    <3> QED
      BY <1>3, <2>2, <3>1, <3>2
  <2>3. CASE ~(k < n)
    <3>1. ~(k <= Len(a)) /\ k - Len(a) \in 1..(Len(s) - n) /\ n + (k - Len(a)) = k + 1
      BY <1>1, <1>3, <2>3, SMT
    <3>2. (a \o b)[k] = b[k - Len(a)]
      BY <2>1, <3>1
    <3>3. b[k - Len(a)] = s[n + (k - Len(a))]
      BY <1>4, <3>1, Zenon
    <3> QED
      BY <2>3, <3>1, <3>2, <3>3
  <2> QED
    BY <2>2, <2>3
<1> QED
  BY <1>5, <1>6, <1>7, <1>8, Zenon

\* A memory that has room for every turn never forgets one.
LEMMA RoomForAll ==
    ASSUME Cardinality(ManualTurn) <= MAX_SIGNALS,
           NEW S, NEW s \in Seq(S), Once(s), NEW t \in ManualTurn,
           \A i \in DOMAIN s : s[i].turn \in ManualTurn \ {t}
    PROVE  Len(s) + 1 <= MAX_SIGNALS
<1>1. IsFiniteSet(ManualTurn) /\ MAX_SIGNALS \in Nat
  BY ManualBounds, Zenon
<1>2. /\ IsFiniteSet(ManualTurn \ {t})
      /\ Cardinality(ManualTurn \ {t}) = Cardinality(ManualTurn) - 1
  BY <1>1, FS_RemoveElement
<1>3. Len(s) \in Nat /\ DOMAIN s = 1..Len(s)
  BY SMT
<1>4. IsFiniteSet(1..Len(s)) /\ Cardinality(1..Len(s)) = Len(s)
  <2>1. /\ IsFiniteSet(1..Len(s))
        /\ Cardinality(1..Len(s)) = IF 1 > Len(s) THEN 0 ELSE Len(s) - 1 + 1
    BY <1>3, FS_Interval
  <2> QED
    BY <1>3, <2>1, SMT
<1> DEFINE f == [i \in 1..Len(s) |-> s[i].turn]
<1>5. f \in Injection(1..Len(s), ManualTurn \ {t})
  BY <1>3, SMT DEF Injection, IsInjective, Once
<1>6. Cardinality(1..Len(s)) <= Cardinality(ManualTurn \ {t})
  BY <1>2, <1>4, <1>5, FS_Injection
<1>7. Cardinality(ManualTurn) \in Nat
  BY <1>1, FS_CardinalityType
<1> QED
  BY <1>1, <1>2, <1>3, <1>4, <1>6, <1>7, SMT

\* The latest entry of a turn replaces an older one, and the entries of others stay.
LEMMA LatestIsKept ==
    ASSUME Cardinality(ManualTurn) <= MAX_SIGNALS,
           NEW S, NEW s \in Seq(S), Once(s), NEW e \in S,
           \A x \in S : x.turn \in ManualTurn
    PROVE  /\ LatestTry(s, e) \in Seq(S) /\ Once(LatestTry(s, e))
           /\ Tried(s, e, LatestTry(s, e))
<1> DEFINE older == {i \in DOMAIN s : s[i].turn = e.turn}
           at == CHOOSE i \in older : TRUE
           others == IF older = {} THEN s ELSE RemoveAt(s, at)
           kept == Append(others, e)
<1>1. LatestTry(s, e) = IF Len(kept) > MAX_SIGNALS THEN Tail(kept) ELSE kept
  BY Zenon DEF LatestTry
<1>2. DOMAIN s = 1..Len(s) /\ Len(s) \in Nat
  BY SMT
<1>3. /\ others \in Seq(S)
      /\ \A i \in DOMAIN others : \E j \in DOMAIN s : s[j] = others[i] /\ s[j].turn # e.turn
      /\ \A j \in DOMAIN s : s[j].turn # e.turn => \E i \in DOMAIN others : others[i] = s[j]
      /\ Once(others)
  <2>1. CASE older = {}
    <3>1. others = s
      BY <2>1
    <3>2. \A j \in DOMAIN s : s[j].turn # e.turn
      BY <2>1
    <3> HIDE DEF others
    <3> QED
      BY <3>1, <3>2, Zenon
  <2>2. CASE older # {}
    <3>1. PICK n \in older : n = at
      BY <2>2
    <3>2. n \in DOMAIN s /\ s[n].turn = e.turn /\ n \in 1..Len(s)
      BY <1>2, <3>1
    <3>3. others = RemoveAt(s, n)
      BY <2>2, <3>1
    <3> HIDE DEF others, at, older
    <3>4. /\ others \in Seq(S) /\ Len(others) = Len(s) - 1
          /\ \A k \in 1..(Len(s) - 1) : others[k] = IF k < n THEN s[k] ELSE s[k + 1]
      BY <3>2, <3>3, Removal
    <3>5. DOMAIN others = 1..(Len(s) - 1)
      BY <1>2, <3>2, <3>4, SMT
    <3>6. \A j \in 1..Len(s) : j # n => s[j].turn # e.turn
      BY <1>2, <3>2 DEF Once
    <3>7. \A i \in DOMAIN others : \E j \in DOMAIN s : s[j] = others[i] /\ s[j].turn # e.turn
      <4> TAKE i \in DOMAIN others
      <4>1. CASE i < n
        BY <1>2, <3>2, <3>4, <3>5, <3>6, <4>1, SMT
      <4>2. CASE ~(i < n)
        <5>1. i + 1 \in 1..Len(s) /\ i + 1 # n
          BY <1>2, <3>2, <3>5, <4>2, SMT
        <5>2. others[i] = s[i + 1]
          BY <3>4, <3>5, <4>2
        <5> QED
          BY <1>2, <3>6, <5>1, <5>2
      <4> QED
        BY <4>1, <4>2
    <3>8. \A j \in DOMAIN s : s[j].turn # e.turn => \E i \in DOMAIN others : others[i] = s[j]
      <4> TAKE j \in DOMAIN s
      <4> HAVE s[j].turn # e.turn
      <4>1. j # n /\ j \in 1..Len(s)
        BY <1>2, <3>2
      <4>2. CASE j < n
        <5>1. j \in 1..(Len(s) - 1)
          BY <1>2, <3>2, <4>1, <4>2, SMT
        <5> QED
          BY <3>4, <3>5, <4>2, <5>1
      <4>3. CASE ~(j < n)
        <5>1. j - 1 \in 1..(Len(s) - 1) /\ ~(j - 1 < n) /\ (j - 1) + 1 = j
          BY <1>2, <3>2, <4>1, <4>3, SMT
        <5>2. others[j - 1] = s[(j - 1) + 1]
          BY <3>4, <5>1
        <5> QED
          BY <3>5, <5>1, <5>2
      <4> QED
        BY <4>2, <4>3
    <3>9. Once(others)
      <4> SUFFICES ASSUME NEW i \in 1..(Len(s) - 1), NEW k \in 1..(Len(s) - 1),
                          others[i].turn = others[k].turn
                   PROVE  i = k
        BY <3>5 DEF Once
      <4> DEFINE from(m) == IF m < n THEN m ELSE m + 1
      <4>1. from(i) \in 1..Len(s) /\ from(k) \in 1..Len(s)
        BY <1>2, <3>2, SMT
      <4>2. others[i] = s[from(i)] /\ others[k] = s[from(k)]
        BY <3>4
      <4>3. from(i) = from(k)
        <5> HIDE DEF from
        <5> QED
          BY <1>2, <4>1, <4>2 DEF Once
      <4> QED
        BY <1>2, <3>2, <4>3, SMT
    <3> QED
      BY <3>4, <3>7, <3>8, <3>9
  <2> QED
    BY <2>1, <2>2
<1> HIDE DEF others
<1>4. e.turn \in ManualTurn /\ \A i \in DOMAIN s : s[i].turn \in ManualTurn
  BY ElementOfSeq
<1>5. \A i \in DOMAIN others : others[i].turn \in ManualTurn \ {e.turn}
  BY <1>3, <1>4
<1>6. Len(others) + 1 <= MAX_SIGNALS
  BY <1>3, <1>4, <1>5, RoomForAll
<1>7. /\ kept \in Seq(S) /\ Len(kept) = Len(others) + 1
      /\ \A i \in 1..Len(others) : kept[i] = others[i]
      /\ kept[Len(others) + 1] = e
  BY <1>3, AppendProperties
<1>8. LatestTry(s, e) = kept
  <2>1. MAX_SIGNALS \in Nat /\ Len(others) \in Nat
    BY <1>3, ManualBounds, SMT
  <2>2. ~(Len(kept) > MAX_SIGNALS)
    BY <1>6, <1>7, <2>1, SMT
  <2> QED
    BY <1>1, <2>2
<1> HIDE DEF kept
<1>9. /\ DOMAIN others = 1..Len(others) /\ DOMAIN kept = 1..(Len(others) + 1)
      /\ Len(others) \in Nat
  BY <1>3, <1>7, SMT
<1>10. \A i \in DOMAIN kept : i = Len(others) + 1 \/ i \in DOMAIN others
  BY <1>9, SMT
<1>11. \A i \in DOMAIN others : i \in DOMAIN kept /\ kept[i] = others[i] /\ i # Len(others) + 1
  BY <1>7, <1>9, SMT
<1>12. Len(others) + 1 \in DOMAIN kept
  BY <1>9, SMT
<1>13. Once(kept)
  <2> SUFFICES ASSUME NEW i \in DOMAIN kept, NEW k \in DOMAIN kept, kept[i].turn = kept[k].turn
               PROVE  i = k
    BY DEF Once
  <2>1. \A m \in DOMAIN others : kept[m].turn # e.turn
    BY <1>5, <1>11
  <2>2. CASE i \in DOMAIN others /\ k \in DOMAIN others
    BY <1>3, <1>11, <2>2 DEF Once
  <2> QED
    BY <1>7, <1>10, <2>1, <2>2
<1>14. \A i \in DOMAIN kept : \/ kept[i] = e
                              \/ \E j \in DOMAIN s : s[j] = kept[i] /\ s[j].turn # e.turn
  BY <1>3, <1>7, <1>10, <1>11
<1>15. \A j \in DOMAIN s : s[j].turn # e.turn => \E i \in DOMAIN kept : kept[i] = s[j]
  BY <1>3, <1>11
<1> QED
  BY <1>7, <1>8, <1>12, <1>13, <1>14, <1>15 DEF Tried

-----------------------------------------------------------------------------
(* What the host remembers *)

\* The names of the code for what the memories hold.
LEMMA MemoryNames ==
    ASSUME MemoryTypes, NEW t \in ManualTurn, NEW p \in 1..pid
    PROVE  /\ Ended(t, p) # {} <=> In(ends, t, p)
           /\ Done(t, p) <=> In(dones, t, p)
           /\ In(dones, t, p) => Of(dones, t)
<1>1. Ended(t, p) # {} <=> In(ends, t, p)
  BY DEF Ended, In
<1>2. \A i \in DOMAIN dones : dones[i] \in [turn : ManualTurn, pid : 1..pid]
  <2> DEFINE S == [turn : ManualTurn, pid : 1..pid]
  <2>1. dones \in Seq(S)
    BY DEF MemoryTypes
  <2> HIDE DEF S
  <2>2. DOMAIN dones = 1..Len(dones)
    BY <2>1, SMT
  <2>3. \A i \in DOMAIN dones : dones[i] \in S
    BY <2>1, <2>2, ElementOfSeq
  <2> QED
    BY <2>3 DEF S
<1>3. Done(t, p) <=> In(dones, t, p)
  BY <1>2, SMTT(10) DEF Done, In
<1>4. In(dones, t, p) => Of(dones, t)
  BY DEF In, Of
<1> QED
  BY <1>1, <1>3, <1>4

\* Signal and Completed: what is remembered afterwards.
LEMMA Signalled ==
    ASSUME Cardinality(ManualTurn) <= MAX_SIGNALS, MemoryTypes,
           NEW t \in ManualTurn, NEW p \in 1..pid, NEW st \in Statuses, Signal(t, p, st)
    PROVE  /\ ends' \in Seq([turn : ManualTurn, pid : 1..pid, status : Statuses])
           /\ Once(ends')
           /\ \A u \in ManualTurn, q \in 1..pid :
                 In(ends', u, q) <=> (u = t /\ q = p) \/ (u # t /\ In(ends, u, q))
<1> DEFINE S == [turn : ManualTurn, pid : 1..pid, status : Statuses]
           e == [turn |-> t, pid |-> p, status |-> st]
<1>1. ends \in Seq(S) /\ Once(ends)
  BY DEF MemoryTypes
<1>2. e \in S /\ e.turn = t /\ e.pid = p /\ \A x \in S : x.turn \in ManualTurn
  BY SMT
<1>3. ends' = LatestTry(ends, e)
  BY Zenon DEF Signal
<1> HIDE DEF S, e
<1>4. ends' \in Seq(S) /\ Once(ends') /\ Tried(ends, e, ends')
  BY <1>1, <1>2, <1>3, LatestIsKept
<1>5. \A u \in ManualTurn, q \in 1..pid :
         In(ends', u, q) <=> (u = t /\ q = p) \/ (u # t /\ In(ends, u, q))
  BY <1>2, <1>4, SMTT(10) DEF In, Tried
<1> QED
  BY <1>4, <1>5 DEF S

LEMMA CompletionNoted ==
    ASSUME Cardinality(ManualTurn) <= MAX_SIGNALS, MemoryTypes,
           NEW t \in ManualTurn, NEW p \in 1..pid, Completed(t, p)
    PROVE  /\ dones' \in Seq([turn : ManualTurn, pid : 1..pid])
           /\ Once(dones')
           /\ \A u \in ManualTurn : Of(dones', u) <=> u = t \/ Of(dones, u)
           /\ In(dones', t, p)
           /\ \A u \in ManualTurn, q \in 1..pid : u # t => (In(dones', u, q) <=> In(dones, u, q))
<1> DEFINE S == [turn : ManualTurn, pid : 1..pid]
           e == [turn |-> t, pid |-> p]
<1>1. dones \in Seq(S) /\ Once(dones)
  BY DEF MemoryTypes
<1>2. e \in S /\ e.turn = t /\ e.pid = p /\ \A x \in S : x.turn \in ManualTurn
  BY SMT
<1>3. dones' = LatestTry(dones, e)
  BY Zenon DEF Completed
<1> HIDE DEF S, e
<1>4. dones' \in Seq(S) /\ Once(dones') /\ Tried(dones, e, dones')
  BY <1>1, <1>2, <1>3, LatestIsKept
<1>5. \A u \in ManualTurn : Of(dones', u) <=> u = t \/ Of(dones, u)
  BY <1>2, <1>4, SMTT(10) DEF Of, Tried
<1>6. /\ In(dones', t, p)
      /\ \A u \in ManualTurn, q \in 1..pid : u # t => (In(dones', u, q) <=> In(dones, u, q))
  BY <1>2, <1>4, SMTT(10) DEF In, Tried
<1> QED
  BY <1>4, <1>5, <1>6 DEF S

-----------------------------------------------------------------------------
(* Steps of an owner *)

\* The owner of t moves to a new place.
OwnerMoves(t, ph, act, n, reply, how) ==
    /\ DOMAIN owner' = ManualTurn /\ \A u \in ManualTurn \ {t} : owner'[u] = owner[u]
    /\ DOMAIN owner'[t] = OwnerFields
    /\ owner'[t].phase = ph /\ owner'[t].act = act /\ owner'[t].n = n
    /\ owner'[t].reply = reply /\ owner'[t].how = how

\* It moves on: the turns before it are over, an end is followed by nothing but its answer,
\* and the new place knows no more of the tab than the old one did.
Onward(t, ph, act, reply, how) ==
    /\ owner[t].phase # "over" /\ ph # "idle"
    /\ owner[t].phase = "idle" => \A u \in ManualTurn : u < t => owner[u].phase = "over"
    /\ ph = "ending" <=> act \in Finals
    /\ ph = "starting" <=> act = "start"
    /\ ph = "marking" <=> act = "started"
    /\ ph \in {"sent", "running", "over"} => reply = "none" /\ act = "none"
    /\ how # "none" => ph = "over"
    /\ owner[t].phase = "ending" => /\ ph \in {"ending", "over"}
                                    /\ ph = "over" => how \in {"ok", "unanswered"}
    /\ ph = "ending" => reply # "refused"
    /\ ph \in Alive \/ (ph = "starting" /\ reply = "ok") => Given(t)
    /\ ph = "running" \/ (ph = "marking" /\ reply = "ok") \/ (ph = "ending" /\ act = "completed")
       => Started(t)
    /\ (ph = "ending" /\ reply = "ok") \/ (ph = "over" /\ how = "ok") => Answered(t)

\* A step of an owner, the launcher at rest, keeps the invariant.
LEMMA OwnerKeeps ==
    ASSUME ManualCtlIInv, NEW t \in ManualTurn,
           NEW ph \in OwnerPhases, NEW act \in Acts \cup {"none"}, NEW n \in 0..2,
           NEW reply \in Answers, NEW how \in Hows, act # "none" => n # 0,
           OwnerMoves(t, ph, act, n, reply, how), Onward(t, ph, act, reply, how),
           \A r \in wire' : r \in wire \/ /\ r.turn = t /\ r.act = act /\ r.n \in 1..2
                                          /\ r.pid = pid /\ act # "none",
           UNCHANGED <<tabs, ends, dones, pid>>, late' \in 0..MAX_LATE
    PROVE  ManualCtlIInv'
<1> USE DEF ManualCtlIInv
<1>1. TabTypes' /\ MemoryTypes' /\ CountTypes'
  BY SMT DEF ControlTypes, TabTypes, MemoryTypes, CountTypes
<1>2. OwnerTypes'
  BY SMT DEF ControlTypes, OwnerTypes, OwnerMoves
<1>3. WireTypes'
  BY SMT DEF ControlTypes, WireTypes
<1>4. OwnerBooks'
  BY SMTT(10) DEF OwnerBooks, OwnerMoves, Onward, ControlTypes, OwnerTypes
<1>5. /\ \A u \in ManualTurn : Given(u)' => Given(u)
      /\ \A u \in ManualTurn : Started(u)' => Started(u)
      /\ \A u \in ManualTurn : Answered(u)' => Answered(u)
      /\ \A u \in ManualTurn : Settled(u)' <=> Settled(u)
  <2>1. \A u \in ManualTurn : Given(u)' => Given(u)
    BY DEF Given, OwnerMoves, Onward
  <2>2. \A u \in ManualTurn : Started(u)' => Started(u)
    BY DEF Started, OwnerMoves, Onward
  <2>3. \A u \in ManualTurn : Answered(u)' => Answered(u)
    BY DEF Answered, OwnerMoves, Onward
  <2>4. \A u \in ManualTurn : Settled(u)' <=> Settled(u)
    BY DEF Settled
  <2> QED
    BY <2>1, <2>2, <2>3, <2>4
<1>6. WireBooks'
  <2> SUFFICES ASSUME NEW r \in wire'
               PROVE  /\ owner'[r.turn].phase # "idle"
                      /\ r.act \in Finals =>
                            /\ owner'[r.turn].phase \in {"ending", "over"}
                            /\ owner'[r.turn].phase = "over" => owner'[r.turn].how \in {"ok", "unanswered"}
                      /\ r.act = "start" /\ Answered(r.turn)' => Settled(r.turn)'
    BY DEF WireBooks
  <2>1. r.turn \in ManualTurn
    BY <1>3 DEF WireTypes
  <2>2. CASE r \in wire
    BY <1>5, <2>1, <2>2, SMTT(10) DEF WireBooks, OwnerMoves, Onward
  <2>3. CASE r \notin wire
    <3>1. /\ r.turn = t /\ r.act = act /\ act # "none"
      BY <2>3
    <3>2. ~(r.act = "start" /\ Answered(r.turn)')
      BY <3>1 DEF Answered, OwnerMoves, Onward
    <3> QED
      BY <3>1, <3>2 DEF OwnerMoves, Onward
  <2> QED
    BY <2>2, <2>3
<1>7. TabsInOrder'
  BY SMTT(10) DEF TabsInOrder, OwnerMoves, Onward, ControlTypes, TabTypes
<1>8. GivenBooks'
  <2> SUFFICES ASSUME NEW u \in ManualTurn
               PROVE  /\ Given(u)' => Settled(u)' \/ \E b \in tabs' : b.turn = u /\ b.pid = pid'
                      /\ Given(u)' /\ owner'[u].phase # "ending" => ~Of(dones', u)
                      /\ owner'[u].phase = "ending" => /\ owner'[u].reply # "refused"
                                                       /\ Of(dones', u) => In(dones', u, pid')
                      /\ Started(u)' => \A b \in tabs' : b.turn = u => b.state \in {"running", "completed"}
                      /\ Answered(u)' => \A b \in tabs' : b.turn = u => b.state = "completed"
    BY DEF GivenBooks
  <2>1. /\ Given(u) => Settled(u) \/ \E b \in tabs : b.turn = u /\ b.pid = pid
        /\ Given(u) /\ owner[u].phase # "ending" => ~Of(dones, u)
        /\ owner[u].phase = "ending" => /\ owner[u].reply # "refused"
                                        /\ Of(dones, u) => In(dones, u, pid)
        /\ Started(u) => \A b \in tabs : b.turn = u => b.state \in {"running", "completed"}
        /\ Answered(u) => \A b \in tabs : b.turn = u => b.state = "completed"
    BY DEF GivenBooks
  <2>2. owner'[u].phase = "ending" => Given(u)
    BY <1>5 DEF Given, Alive
  <2>3. Given(u)' /\ owner'[u].phase # "ending" => owner[u].phase # "ending"
    BY DEF OwnerMoves, Onward, Given, Alive
  <2>4. owner'[u].phase = "ending" => owner'[u].reply # "refused"
    BY <2>1 DEF OwnerMoves, Onward
  <2> QED
    BY <1>5, <2>1, <2>2, <2>3, <2>4
<1>9. RetainedBooks'
  <2>1. Clean' => Clean
    <3>1. \A u \in ManualTurn : owner[u].how # "none" => owner[u].phase = "over"
      BY DEF OwnerBooks
    <3> QED
      BY <3>1 DEF Clean, OwnerMoves, Onward
  <2>2. Reusable' = Reusable
    BY DEF Reusable
  <2>3. \A b \in tabs : owner'[b.turn].phase # "over" => owner[b.turn].phase # "over"
    BY DEF OwnerMoves, Onward, ControlTypes, TabTypes
  <2> QED
    BY <2>1, <2>2, <2>3 DEF RetainedBooks
<1> QED
  BY <1>1, <1>2, <1>3, <1>4, <1>6, <1>7, <1>8, <1>9 DEF ControlTypes


\* Asks, Moves and EndsWith move the owner.
LEMMA OwnerAsks ==
    ASSUME OwnerTypes, NEW t \in ManualTurn, NEW ph, NEW act, Asks(t, ph, act)
    PROVE  /\ OwnerMoves(t, ph, act, 1, "none", owner[t].how)
           /\ \A r \in wire' : r \in wire \/ /\ r.turn = t /\ r.act = act /\ r.n \in 1..2
                                             /\ r.pid = pid
<1> DEFINE at == [owner[t] EXCEPT !.phase = ph, !.act = act, !.n = 1, !.reply = "none"]
<1>1. /\ owner' = [owner EXCEPT ![t] = at] /\ wire' = wire \cup {Request(t, act, 1)}
  BY Zenon DEF Asks
<1>2. /\ DOMAIN owner = ManualTurn /\ DOMAIN owner[t] = OwnerFields
  BY DEF OwnerTypes
<1>3. /\ DOMAIN at = OwnerFields /\ at.phase = ph /\ at.act = act /\ at.n = 1
      /\ at.reply = "none" /\ at.how = owner[t].how
  BY <1>2 DEF OwnerFields
<1> HIDE DEF at
<1>4. /\ DOMAIN owner' = ManualTurn /\ owner'[t] = at
      /\ \A u \in ManualTurn \ {t} : owner'[u] = owner[u]
  BY <1>1, <1>2
<1>5. OwnerMoves(t, ph, act, 1, "none", owner[t].how)
  BY <1>3, <1>4 DEF OwnerMoves
<1>6. \A r \in wire' : r \in wire \/ /\ r.turn = t /\ r.act = act /\ r.n \in 1..2 /\ r.pid = pid
  BY <1>1 DEF Request
<1> QED
  BY <1>5, <1>6

LEMMA OwnerTurns ==
    ASSUME OwnerTypes, NEW t \in ManualTurn, NEW ph, Moves(t, ph)
    PROVE  OwnerMoves(t, ph, "none", owner[t].n, "none", owner[t].how) /\ wire' = wire
<1> DEFINE at == [owner[t] EXCEPT !.phase = ph, !.act = "none", !.reply = "none"]
<1>1. /\ owner' = [owner EXCEPT ![t] = at] /\ wire' = wire
  BY Zenon DEF Moves
<1>2. /\ DOMAIN owner = ManualTurn /\ DOMAIN owner[t] = OwnerFields
  BY DEF OwnerTypes
<1>3. /\ DOMAIN at = OwnerFields /\ at.phase = ph /\ at.act = "none" /\ at.n = owner[t].n
      /\ at.reply = "none" /\ at.how = owner[t].how
  BY <1>2 DEF OwnerFields
<1> HIDE DEF at
<1>4. /\ DOMAIN owner' = ManualTurn /\ owner'[t] = at
      /\ \A u \in ManualTurn \ {t} : owner'[u] = owner[u]
  BY <1>1, <1>2
<1> QED
  BY <1>1, <1>3, <1>4 DEF OwnerMoves

LEMMA OwnerStops ==
    ASSUME OwnerTypes, NEW t \in ManualTurn, NEW how, EndsWith(t, how)
    PROVE  OwnerMoves(t, "over", "none", 0, "none", how) /\ wire' = wire
<1> DEFINE at == [NotBegun EXCEPT !.phase = "over", !.how = how]
<1>1. /\ owner' = [owner EXCEPT ![t] = at] /\ wire' = wire
  BY Zenon DEF EndsWith
<1>2. DOMAIN owner = ManualTurn
  BY DEF OwnerTypes
<1>3. /\ DOMAIN at = OwnerFields /\ at.phase = "over" /\ at.act = "none" /\ at.n = 0
      /\ at.reply = "none" /\ at.how = how
  BY DEF OwnerFields, NotBegun
<1> HIDE DEF at
<1>4. /\ DOMAIN owner' = ManualTurn /\ owner'[t] = at
      /\ \A u \in ManualTurn \ {t} : owner'[u] = owner[u]
  BY <1>1, <1>2
<1> QED
  BY <1>1, <1>3, <1>4 DEF OwnerMoves

\* A turn that lives and ends: the end is asked for, whatever the reason.
LEMMA AsksForEnd ==
    ASSUME ManualCtlIInv, NEW t \in ManualTurn, NEW act \in Finals, Asks(t, "ending", act),
           owner[t].phase \in Alive \ {"ending"},
           act = "completed" => owner[t].phase = "running",
           HostIdle, late' \in 0..MAX_LATE
    PROVE  ManualCtlIInv'
<1>1. OwnerTypes /\ OwnerBooks
  BY DEF ManualCtlIInv, ControlTypes
<1>2. owner[t].how \in Hows /\ owner[t].how = "none"
  BY <1>1 DEF OwnerTypes, OwnerBooks, Alive
<1>3. /\ OwnerMoves(t, "ending", act, 1, "none", "none")
      /\ \A r \in wire' : r \in wire \/ /\ r.turn = t /\ r.act = act /\ r.n \in 1..2
                                        /\ r.pid = pid
  BY <1>1, <1>2, OwnerAsks
<1>4. Onward(t, "ending", act, "none", "none")
  BY <1>1 DEF Onward, Finals, Alive, Given, Started
<1>5. UNCHANGED <<tabs, ends, dones, pid>>
  BY DEF HostIdle
<1>6. /\ "ending" \in OwnerPhases /\ act \in Acts \cup {"none"} /\ act # "none" /\ 1 \in 0..2
      /\ "none" \in Answers /\ "none" \in Hows
  BY DEF OwnerPhases, Alive, Acts, Finals, Answers, Hows
<1> QED
  BY <1>3, <1>4, <1>5, <1>6, OwnerKeeps

\* The steps of a turn, one by one.
LEMMA StepTurnBegins ==
    ASSUME ManualCtlIInv, NEW t \in ManualTurn, TurnBegins(t) PROVE ManualCtlIInv'
<1>1. OwnerTypes /\ OwnerBooks /\ CountTypes
  BY DEF ManualCtlIInv, ControlTypes
<1>2. owner[t].how = "none"
  BY <1>1 DEF OwnerBooks, TurnBegins
<1>3. /\ OwnerMoves(t, "starting", "start", 1, "none", "none")
      /\ \A r \in wire' : r \in wire \/ /\ r.turn = t /\ r.act = "start" /\ r.n \in 1..2
                                        /\ r.pid = pid
  BY <1>1, <1>2, OwnerAsks DEF TurnBegins
<1>4. Onward(t, "starting", "start", "none", "none")
  <2>1. \A u \in ManualTurn : u < t => u \in 1..(t - 1)
    BY ManualBounds, FS_CardinalityType, SMT
  <2> QED
    BY <2>1, SMT DEF Onward, Finals, Alive, TurnBegins
<1>5. UNCHANGED <<tabs, ends, dones, pid>> /\ late' \in 0..MAX_LATE
  BY <1>1 DEF HostIdle, TurnBegins, CountTypes
<1>6. /\ "starting" \in OwnerPhases /\ "start" \in Acts \cup {"none"} /\ 1 \in 0..2
      /\ "none" \in Answers /\ "none" \in Hows /\ "start" # "none"
  BY DEF OwnerPhases, Alive, Acts, Finals, Answers, Hows
<1> QED
  BY <1>3, <1>4, <1>5, <1>6, OwnerKeeps

LEMMA StepMarks ==
    ASSUME ManualCtlIInv, NEW t \in ManualTurn, Marks(t) PROVE ManualCtlIInv'
<1>1. OwnerTypes /\ OwnerBooks /\ CountTypes
  BY DEF ManualCtlIInv, ControlTypes
<1>2. owner[t].how = "none"
  BY <1>1 DEF OwnerBooks, Marks
<1>3. /\ OwnerMoves(t, "marking", "started", 1, "none", "none")
      /\ \A r \in wire' : r \in wire \/ /\ r.turn = t /\ r.act = "started" /\ r.n \in 1..2
                                        /\ r.pid = pid
  BY <1>1, <1>2, OwnerAsks DEF Marks
<1>4. Onward(t, "marking", "started", "none", "none")
  BY DEF Onward, Finals, Alive, Marks, Given
<1>5. UNCHANGED <<tabs, ends, dones, pid>> /\ late' \in 0..MAX_LATE
  BY <1>1 DEF HostIdle, Marks, CountTypes
<1>6. /\ "marking" \in OwnerPhases /\ "started" \in Acts \cup {"none"} /\ 1 \in 0..2
      /\ "none" \in Answers /\ "none" \in Hows /\ "started" # "none"
  BY DEF OwnerPhases, Alive, Acts, Finals, Answers, Hows
<1> QED
  BY <1>3, <1>4, <1>5, <1>6, OwnerKeeps

LEMMA StepEndings ==
    ASSUME ManualCtlIInv, NEW t \in ManualTurn, Completes(t) \/ Aborts(t) \/ SeesTerminal(t)
    PROVE  ManualCtlIInv'
<1>1. CountTypes
  BY DEF ManualCtlIInv, ControlTypes
<1>2. CASE Completes(t)
  BY <1>1, <1>2, AsksForEnd DEF Completes, Finals, Alive, CountTypes
<1>3. CASE Aborts(t)
  BY <1>1, <1>3, AsksForEnd DEF Aborts, Finals, Alive, CountTypes
<1>4. CASE SeesTerminal(t)
  BY <1>1, <1>4, AsksForEnd DEF SeesTerminal, Finals, Alive, CountTypes
<1> QED
  BY <1>2, <1>3, <1>4

LEMMA StepTakesReply ==
    ASSUME ManualCtlIInv, NEW t \in ManualTurn, TakesReply(t) PROVE ManualCtlIInv'
<1>1. OwnerTypes /\ OwnerBooks /\ CountTypes
  BY DEF ManualCtlIInv, ControlTypes
<1>2. /\ owner[t].phase # "over" /\ owner[t].how = "none" /\ owner[t].n \in 0..2
      /\ owner[t].reply \in {"ok", "refused"}
      /\ owner[t].phase = "ending" => owner[t].reply = "ok"
  <2>1. owner[t].phase = "ending" => owner[t].reply # "refused"
    BY DEF ManualCtlIInv, GivenBooks
  <2> QED
    BY <1>1, <2>1 DEF OwnerTypes, OwnerBooks, Answers, TakesReply
<1>3. UNCHANGED <<tabs, ends, dones, pid>> /\ late' \in 0..MAX_LATE
  BY <1>1 DEF HostIdle, TakesReply, CountTypes
<1>4. /\ OwnerPhases = {"idle", "starting", "over"} \cup Alive
      /\ {"waiting", "sent", "marking", "running", "ending"} = Alive
      /\ {"wait-sent", "failed", "none"} \subseteq Acts \cup {"none"}
      /\ {"none", "ok", "refused"} = Answers /\ {"none", "ok", "refused"} \subseteq Hows
      /\ 0 \in 0..2 /\ 1 \in 0..2
  BY DEF OwnerPhases, Alive, Acts, Finals, Answers, Hows
<1>5. CASE owner[t].phase = "starting" /\ owner[t].reply = "ok"
  <2>1. Asks(t, "waiting", "wait-sent")
    BY <1>5 DEF TakesReply
  <2>2. /\ OwnerMoves(t, "waiting", "wait-sent", 1, "none", "none")
        /\ \A r \in wire' : r \in wire \/ /\ r.turn = t /\ r.act = "wait-sent" /\ r.n \in 1..2
                                          /\ r.pid = pid
    BY <1>1, <1>2, <2>1, OwnerAsks
  <2>3. Onward(t, "waiting", "wait-sent", "none", "none")
    BY <1>5 DEF Onward, Finals, Alive, Given
  <2> QED
    BY <1>3, <1>4, <2>2, <2>3, OwnerKeeps
<1>6. CASE owner[t].phase = "starting" /\ owner[t].reply # "ok"
  <2>1. EndsWith(t, "refused")
    BY <1>6 DEF TakesReply
  <2>2. OwnerMoves(t, "over", "none", 0, "none", "refused") /\ wire' = wire
    BY <1>1, <2>1, OwnerStops
  <2>3. Onward(t, "over", "none", "none", "refused")
    BY <1>6 DEF Onward, Finals, Alive
  <2> QED
    BY <1>3, <1>4, <2>2, <2>3, OwnerKeeps
<1>7. CASE owner[t].phase = "waiting" /\ owner[t].reply = "ok"
  <2>1. Moves(t, "sent")
    BY <1>7 DEF TakesReply
  <2>2. OwnerMoves(t, "sent", "none", owner[t].n, "none", "none") /\ wire' = wire
    BY <1>1, <1>2, <2>1, OwnerTurns
  <2>3. Onward(t, "sent", "none", "none", "none")
    BY <1>7 DEF Onward, Finals, Alive, Given
  <2> QED
    BY <1>2, <1>3, <1>4, <2>2, <2>3, OwnerKeeps
<1>8. CASE owner[t].phase = "marking" /\ owner[t].reply = "ok"
  <2>1. Moves(t, "running")
    BY <1>8 DEF TakesReply
  <2>2. OwnerMoves(t, "running", "none", owner[t].n, "none", "none") /\ wire' = wire
    BY <1>1, <1>2, <2>1, OwnerTurns
  <2>3. Onward(t, "running", "none", "none", "none")
    BY <1>8 DEF Onward, Finals, Alive, Given, Started
  <2> QED
    BY <1>2, <1>3, <1>4, <2>2, <2>3, OwnerKeeps
<1>9. CASE owner[t].phase \in {"waiting", "marking"} /\ owner[t].reply # "ok"
  <2>1. Asks(t, "ending", "failed")
    BY <1>9 DEF TakesReply
  <2> QED
    BY <1>3, <1>9, <2>1, AsksForEnd DEF Finals, Alive, HostIdle
<1>10. CASE owner[t].phase = "ending"
  <2>1. EndsWith(t, "ok")
    BY <1>2, <1>10 DEF TakesReply
  <2>2. OwnerMoves(t, "over", "none", 0, "none", "ok") /\ wire' = wire
    BY <1>1, <2>1, OwnerStops
  <2>3. Onward(t, "over", "none", "none", "ok")
    BY <1>2, <1>10 DEF Onward, Finals, Alive, Answered
  <2> QED
    BY <1>3, <1>4, <2>2, <2>3, OwnerKeeps
<1>11. owner[t].phase \in {"starting", "waiting", "marking", "ending"}
  BY <1>1, <1>2 DEF OwnerTypes, OwnerBooks, OwnerPhases, Alive
<1> QED
  BY <1>5, <1>6, <1>7, <1>8, <1>9, <1>10, <1>11

LEMMA StepTimesOut ==
    ASSUME ManualCtlIInv, NEW t \in ManualTurn, TimesOut(t) PROVE ManualCtlIInv'
<1>1. OwnerTypes /\ OwnerBooks /\ CountTypes
  BY DEF ManualCtlIInv, ControlTypes
<1>2. /\ owner[t].phase \in OwnerPhases \ {"idle", "over"} /\ owner[t].how = "none"
      /\ owner[t].n \in 0..2 /\ owner[t].reply = "none"
      /\ owner[t].act \in Acts
      /\ late' \in 0..MAX_LATE
  <2>1. late' \in 0..MAX_LATE
    BY <1>1, ManualBounds, SMT DEF TimesOut, CountTypes
  <2>2. owner[t].act # "none" /\ owner[t].reply = "none"
    BY DEF TimesOut
  <2> QED
    BY <1>1, <2>1, <2>2 DEF OwnerTypes, OwnerBooks, OwnerPhases
<1>3. UNCHANGED <<tabs, ends, dones, pid>> /\ HostIdle
  BY DEF HostIdle, TimesOut
<1>4. /\ {"none", "ok", "refused", "unanswered"} \subseteq Hows /\ Acts \subseteq Acts \cup {"none"}
      /\ {"none", "ok", "refused"} = Answers /\ "over" \in OwnerPhases /\ "none" \notin Acts
      /\ "none" \in Acts \cup {"none"} /\ 0 \in 0..2 /\ 2 \in 0..2
  BY DEF OwnerPhases, Alive, Acts, Finals, Answers, Hows
<1>5. CASE owner[t].phase \in Mutations /\ owner[t].n = 1
  <2> DEFINE ph == owner[t].phase
             act == owner[t].act
  <2>1. /\ owner' = [owner EXCEPT ![t].n = 2]
        /\ wire' = wire \cup {Request(t, act, 2)}
    BY <1>5, SMT DEF TimesOut
  <2>2. OwnerMoves(t, ph, act, 2, "none", "none")
    BY <1>1, <1>2, <2>1 DEF OwnerMoves, OwnerTypes, OwnerFields
  <2>3. \A r \in wire' : r \in wire \/ /\ r.turn = t /\ r.act = act /\ r.n \in 1..2 /\ r.pid = pid
    BY <2>1 DEF Request
  <2>4. Onward(t, ph, act, "none", "none")
    BY <1>1, <1>2, <1>5 DEF Onward, Given, Started, Mutations, OwnerBooks, Alive, Finals
  <2>5. ph \in OwnerPhases /\ act \in Acts
    BY <1>2
  <2> HIDE DEF ph, act
  <2> QED
    BY <1>2, <1>3, <1>4, <2>2, <2>3, <2>4, <2>5, OwnerKeeps
<1>6. CASE ~(owner[t].phase \in Mutations /\ owner[t].n = 1)
  <2>1. CASE EndsWith(t, "unanswered") /\ owner[t].phase \in {"starting", "ending"}
    <3>1. OwnerMoves(t, "over", "none", 0, "none", "unanswered") /\ wire' = wire
      BY <1>1, <2>1, OwnerStops
    <3>2. Onward(t, "over", "none", "none", "unanswered")
      BY <2>1 DEF Onward, Finals, Alive
    <3> QED
      BY <1>2, <1>3, <1>4, <3>1, <3>2, OwnerKeeps
  <2>2. CASE Asks(t, "ending", "failed") /\ owner[t].phase \notin {"starting", "ending"}
    BY <1>2, <1>3, <2>2, AsksForEnd DEF Finals, Alive, OwnerPhases
  <2>3. owner[t].phase \in Mutations => owner[t].n = 2
    <3>1. owner[t].n # 0 /\ (owner[t].phase \in Mutations => owner[t].n # 1)
      BY <1>1, <1>2, <1>4, <1>6 DEF OwnerBooks
    <3> QED
      BY <1>2, <3>1, SMT
  <2> QED
    BY <1>6, <2>1, <2>2, <2>3 DEF TimesOut, Mutations
<1> QED
  BY <1>5, <1>6

-----------------------------------------------------------------------------
(* Steps of the host *)

\* Nothing is forgotten of this process, and only the end of turn t notes a completion.
HostMemory(t, act) ==
    /\ \A u \in ManualTurn : In(ends, u, pid) => In(ends', u, pid)
    /\ \A u \in ManualTurn : In(dones, u, pid) => In(dones', u, pid)
    /\ \A u \in ManualTurn : Of(dones, u) => Of(dones', u)
    /\ \A u \in ManualTurn : Of(dones', u) =>
          Of(dones, u) \/ (u = t /\ act \in Finals /\ In(dones', t, pid))

\* A tab is what it was or further on; it is completed by the end of its turn t only.
Carried(b, t, act) ==
    \E c \in tabs :
        /\ c.turn = b.turn /\ c.pid = b.pid
        /\ c.state \in {"running", "completed"} => b.state \in {"running", "completed"}
        /\ c.state = "completed" => b.state = "completed"
        /\ b.state = "completed" => \/ c.state = "completed"
                                    \/ /\ b.turn = t /\ act \in Finals /\ c.pid = pid

\* Or it was opened for turn t, which had none, in the place of the retained one.
Opened(b, t, act) ==
    /\ b.turn = t /\ b.pid = pid /\ b.state = "awaiting-user" /\ act = "start"
    /\ ~Settled(t) /\ (\A c \in tabs : c.turn # t) /\ (\A c \in tabs' : c.state # "completed")

HostTabs(t, act) ==
    /\ \A b, c \in tabs' : b.turn = c.turn => b = c
    /\ \A b \in tabs' : /\ b.pid # pid => ~In(ends', b.turn, pid)
                        /\ b.state = "completed" <=> Of(dones', b.turn)
                        /\ Carried(b, t, act) \/ Opened(b, t, act)
    /\ \A c \in tabs : c.pid = pid =>
          Settled(c.turn)' \/ \E b \in tabs' : b.turn = c.turn /\ b.pid = pid

\* The answer, when the owner of t still waits for it, says what is so.
Truthful(t, act, reply) ==
    /\ act = "start" /\ reply = "ok" =>
          /\ Settled(t)' \/ \E b \in tabs' : b.turn = t /\ b.pid = pid
          /\ ~Of(dones', t)
    /\ act = "started" /\ reply = "ok" =>
          \A b \in tabs' : b.turn = t => b.state \in {"running", "completed"}
    /\ act \in Finals => /\ reply = "ok" /\ Settled(t)'
                         /\ \A b \in tabs' : b.turn = t => b.state = "completed"

HostReply(t, act, reply) ==
    \/ owner' = owner
    \/ /\ owner[t].act = act
       /\ OwnerMoves(t, owner[t].phase, act, owner[t].n, reply, owner[t].how)
       /\ Truthful(t, act, reply)

\* A step of the launcher that keeps its tabs and memories in order and answers truthfully
\* keeps the invariant.
LEMMA HostKeeps ==
    ASSUME ManualCtlIInv, NEW t \in ManualTurn, NEW act \in Acts, NEW reply \in {"ok", "refused"},
           act \in {"start"} \cup Finals => \E r \in wire : r.turn = t /\ r.act = act,
           TabTypes', MemoryTypes', HostMemory(t, act), HostTabs(t, act), HostReply(t, act, reply),
           UNCHANGED <<pid, late>>, wire' \subseteq wire
    PROVE  ManualCtlIInv'
<1>0. /\ ControlTypes /\ OwnerBooks /\ WireBooks /\ TabsInOrder /\ GivenBooks /\ RetainedBooks
      /\ OwnerTypes /\ TabTypes
  BY DEF ManualCtlIInv, ControlTypes
<1>1. /\ \A u \in ManualTurn : /\ owner'[u].phase = owner[u].phase /\ owner'[u].act = owner[u].act
                               /\ owner'[u].n = owner[u].n /\ owner'[u].how = owner[u].how
                               /\ DOMAIN owner'[u] = OwnerFields
      /\ DOMAIN owner' = ManualTurn
      /\ \A u \in ManualTurn : \/ owner'[u].reply = owner[u].reply
                               \/ /\ u = t /\ owner[t].act = act /\ owner'[t].reply = reply
                                  /\ Truthful(t, act, reply)
  <2>1. CASE owner' = owner
    BY <1>0, <2>1 DEF OwnerTypes
  <2>2. CASE owner' # owner
    BY <1>0, <2>2 DEF HostReply, OwnerMoves, OwnerTypes
  <2> QED
    BY <2>1, <2>2
<1>2. /\ act \in {"start"} \cup Finals => owner[t].phase # "idle"
      /\ act \in Finals => /\ owner[t].phase \in {"ending", "over"}
                           /\ owner[t].phase = "over" => owner[t].how \in {"ok", "unanswered"}
      /\ act = "start" /\ Answered(t) => Settled(t)
  BY <1>0 DEF WireBooks
<1>3. OwnerTypes' /\ CountTypes' /\ WireTypes'
  <2>1. OwnerTypes'
    BY <1>0, <1>1 DEF OwnerTypes, Answers
  <2>2. WireTypes'
    BY <1>0 DEF ControlTypes, WireTypes
  <2>3. CountTypes'
    BY <1>0 DEF ControlTypes, CountTypes
  <2> QED
    BY <2>1, <2>2, <2>3
<1>4. OwnerBooks'
  <2>1. act # "none"
    BY DEF Acts, Finals
  <2> QED
    BY <1>0, <1>1, <2>1 DEF OwnerBooks
<1>5. \A u \in ManualTurn : Settled(u) => Settled(u)'
  BY DEF Settled, HostMemory
<1>6. ASSUME NEW u \in ManualTurn
      PROVE  /\ Given(u)' => Given(u) \/ (u = t /\ act = "start" /\ reply = "ok" /\ Truthful(t, act, reply))
             /\ Started(u)' => Started(u) \/ (u = t /\ act = "started" /\ reply = "ok" /\ Truthful(t, act, reply))
             /\ Answered(u)' => Answered(u) \/ (u = t /\ act \in Finals /\ reply = "ok" /\ Truthful(t, act, reply))
  <2>1. /\ owner[u].phase = "ending" <=> owner[u].act \in Finals
        /\ owner[u].phase = "starting" <=> owner[u].act = "start"
        /\ owner[u].phase = "marking" <=> owner[u].act = "started"
    BY <1>0 DEF OwnerBooks
  <2>2. Given(u)' => Given(u) \/ (u = t /\ act = "start" /\ reply = "ok" /\ Truthful(t, act, reply))
    BY <1>1, <2>1 DEF Given
  <2>3. Started(u)' => Started(u) \/ (u = t /\ act = "started" /\ reply = "ok" /\ Truthful(t, act, reply))
    BY <1>1, <2>1 DEF Started
  <2>4. Answered(u)' => Answered(u) \/ (u = t /\ act \in Finals /\ reply = "ok" /\ Truthful(t, act, reply))
    BY <1>1, <2>1 DEF Answered
  <2> QED
    BY <2>2, <2>3, <2>4
<1>7. WireBooks'
  <2> SUFFICES ASSUME NEW r \in wire
               PROVE  /\ owner'[r.turn].phase # "idle"
                      /\ r.act \in Finals =>
                            /\ owner'[r.turn].phase \in {"ending", "over"}
                            /\ owner'[r.turn].phase = "over" => owner'[r.turn].how \in {"ok", "unanswered"}
                      /\ r.act = "start" /\ Answered(r.turn)' => Settled(r.turn)'
    BY DEF WireBooks
  <2>1. r.turn \in ManualTurn
    BY <1>0 DEF ControlTypes, WireTypes
  <2>2. r.act = "start" /\ Answered(r.turn)' => Settled(r.turn)'
    <3> DEFINE u == r.turn
    <3>1. u \in ManualTurn /\ (r.act = "start" /\ Answered(u) => Settled(u))
      BY <1>0, <2>1 DEF WireBooks
    <3> HIDE DEF u
    <3>2. r.act = "start" /\ Answered(u)' => Settled(u)'
      BY <1>5, <1>6, <3>1 DEF Truthful
    <3> QED
      BY <3>2 DEF u
  <2> QED
    BY <1>0, <1>1, <2>1, <2>2 DEF WireBooks
<1>8. \A b \in tabs' : Opened(b, t, act) => ~Given(t) /\ ~Started(t) /\ ~Answered(t) /\ owner[t].phase # "idle"
  <2> SUFFICES ASSUME NEW b \in tabs', Opened(b, t, act)
               PROVE  ~Given(t) /\ ~Started(t) /\ ~Answered(t) /\ owner[t].phase # "idle"
    OBVIOUS
  <2>1. act = "start" /\ ~Settled(t) /\ \A c \in tabs : c.turn # t
    BY DEF Opened
  <2>2. ~Given(t)
    BY <1>0, <2>1 DEF GivenBooks
  <2>3. Started(t) => Given(t)
    BY DEF Started, Given, Alive
  <2> QED
    BY <1>2, <2>1, <2>2, <2>3
<1>9. \A b \in tabs' : b.pid = pid => owner[b.turn].phase # "idle"
  BY <1>0, <1>8 DEF HostTabs, Carried, Opened, TabsInOrder
<1>10. TabsInOrder'
  BY <1>1, <1>9 DEF TabsInOrder, HostTabs, TabTypes
<1>11. GivenBooks'
  <2> SUFFICES ASSUME NEW u \in ManualTurn
               PROVE  /\ Given(u)' => Settled(u)' \/ \E b \in tabs' : b.turn = u /\ b.pid = pid'
                      /\ Given(u)' /\ owner'[u].phase # "ending" => ~Of(dones', u)
                      /\ owner'[u].phase = "ending" => /\ owner'[u].reply # "refused"
                                                       /\ Of(dones', u) => In(dones', u, pid')
                      /\ Started(u)' => \A b \in tabs' : b.turn = u => b.state \in {"running", "completed"}
                      /\ Answered(u)' => \A b \in tabs' : b.turn = u => b.state = "completed"
    BY DEF GivenBooks
  <2>1. /\ Given(u) => Settled(u) \/ \E b \in tabs : b.turn = u /\ b.pid = pid
        /\ Given(u) /\ owner[u].phase # "ending" => ~Of(dones, u)
        /\ owner[u].phase = "ending" => /\ owner[u].reply # "refused"
                                        /\ Of(dones, u) => In(dones, u, pid)
        /\ Started(u) => \A b \in tabs : b.turn = u => b.state \in {"running", "completed"}
        /\ Answered(u) => \A b \in tabs : b.turn = u => b.state = "completed"
    BY <1>0 DEF GivenBooks
  <2>2. Given(u)' => Settled(u)' \/ \E b \in tabs' : b.turn = u /\ b.pid = pid
    <3>1. CASE Given(u)
      <4>1. CASE Settled(u)
        BY <1>5, <4>1
      <4>2. CASE \E b \in tabs : b.turn = u /\ b.pid = pid
        BY <4>2 DEF HostTabs
      <4> QED
        BY <2>1, <3>1, <4>1, <4>2
    <3>2. CASE u = t /\ act = "start" /\ reply = "ok" /\ Truthful(t, act, reply)
      BY <3>2 DEF Truthful
    <3> QED
      BY <1>6, <3>1, <3>2
  <2>3. Given(u)' /\ owner'[u].phase # "ending" => ~Of(dones', u)
    <3>1. CASE Given(u) /\ owner[u].phase # "ending"
      <4>1. ~(u = t /\ act \in Finals)
        BY <1>2, <3>1 DEF Given, Alive
      <4> QED
        BY <2>1, <3>1, <4>1 DEF HostMemory
    <3>2. CASE u = t /\ act = "start" /\ reply = "ok" /\ Truthful(t, act, reply)
      BY <3>2 DEF Truthful
    <3> QED
      BY <1>1, <1>6, <3>1, <3>2
  <2>4. owner'[u].phase = "ending" => owner'[u].reply # "refused"
    <3>1. owner'[u].phase = "ending" => owner[u].phase = "ending" /\ owner[u].act \in Finals
      BY <1>0, <1>1 DEF OwnerBooks
    <3> QED
      BY <1>1, <2>1, <3>1 DEF Truthful
  <2>5. owner'[u].phase = "ending" /\ Of(dones', u) => In(dones', u, pid)
    BY <1>1, <2>1 DEF HostMemory
  <2>6. Started(u)' => \A b \in tabs' : b.turn = u => b.state \in {"running", "completed"}
    <3>1. CASE Started(u)
      BY <1>8, <2>1, <3>1 DEF HostTabs, Carried, Opened
    <3>2. CASE u = t /\ act = "started" /\ reply = "ok" /\ Truthful(t, act, reply)
      BY <3>2 DEF Truthful
    <3> QED
      BY <1>6, <3>1, <3>2
  <2>7. Answered(u)' => \A b \in tabs' : b.turn = u => b.state = "completed"
    <3>1. CASE Answered(u)
      BY <1>8, <2>1, <3>1 DEF HostTabs, Carried, Opened
    <3>2. CASE u = t /\ act \in Finals /\ reply = "ok" /\ Truthful(t, act, reply)
      BY <3>2 DEF Truthful
    <3> QED
      BY <1>6, <3>1, <3>2
  <2> QED
    BY <2>2, <2>3, <2>4, <2>5, <2>6, <2>7
<1>12. RetainedBooks'
  <2> SUFFICES ASSUME Clean
               PROVE  /\ \A b, c \in tabs' : b.state = "completed" /\ c.state = "completed" => b = c
                      /\ \A b \in tabs' : b.state # "completed" /\ b.pid = pid' /\ owner'[b.turn].phase # "over"
                                           => \A c \in tabs' : c.state # "completed"
    <3>1. Clean' => Clean
      BY <1>1 DEF Clean
    <3> QED
      BY <3>1 DEF RetainedBooks, Reusable
  <2>1. /\ \A b, c \in tabs : b.state = "completed" /\ c.state = "completed" => b = c
        /\ \A b \in tabs : b.state # "completed" /\ b.pid = pid /\ owner[b.turn].phase # "over"
                             => \A c \in tabs : c.state # "completed"
    BY <1>0 DEF RetainedBooks, Reusable
  <2>2. \A b, c \in tabs' : b.turn = c.turn => b = c
    BY DEF HostTabs
  <2>3. CASE \E b \in tabs' : Opened(b, t, act)
    BY <2>3 DEF Opened
  <2>4. CASE /\ \A b \in tabs' : Carried(b, t, act)
             /\ \A b \in tabs' : b.state = "completed" =>
                   \E c \in tabs : c.turn = b.turn /\ c.state = "completed"
    <3>1. \A b, c \in tabs' : b.state = "completed" /\ c.state = "completed" => b = c
      BY <2>1, <2>2, <2>4
    <3>2. ASSUME NEW b \in tabs', b.state # "completed", b.pid = pid, owner'[b.turn].phase # "over",
                 NEW c \in tabs'
          PROVE  c.state # "completed"
      <4>1. PICK d \in tabs : d.turn = b.turn /\ d.pid = b.pid /\ d.state # "completed"
        BY <2>4, <3>2 DEF Carried
      <4>2. owner[d.turn].phase # "over"
        BY <1>0, <1>1, <3>2, <4>1 DEF TabTypes
      <4> QED
        BY <2>1, <2>4, <3>2, <4>1, <4>2
    <3> QED
      BY <3>1, <3>2
  <2>5. CASE /\ \A b \in tabs' : Carried(b, t, act)
             /\ \E b \in tabs' : /\ b.state = "completed"
                                 /\ ~\E c \in tabs : c.turn = b.turn /\ c.state = "completed"
    <3>1. PICK a \in tabs' : /\ a.state = "completed"
                             /\ ~\E c \in tabs : c.turn = a.turn /\ c.state = "completed"
      BY <2>5
    <3>2. PICK d \in tabs : /\ d.turn = a.turn /\ d.state # "completed"
                            /\ a.turn = t /\ act \in Finals /\ d.pid = pid
      BY <2>5, <3>1 DEF Carried
    <3>3. owner[t].phase = "ending"
      <4>1. owner[t].phase = "over" => Answered(t)
        BY <1>2, <3>2 DEF Clean, Answered
      <4>2. ~Answered(t)
        BY <1>0, <3>2 DEF GivenBooks
      <4> QED
        BY <1>2, <3>2, <4>1, <4>2
    <3>4. \A c \in tabs : c.state # "completed"
      BY <2>1, <3>2, <3>3
    <3>5. \A b \in tabs' : b.state = "completed" => b.turn = t
      BY <2>5, <3>4 DEF Carried
    <3>6. ASSUME NEW b \in tabs', b.state # "completed", b.pid = pid, owner'[b.turn].phase # "over"
          PROVE  FALSE
      <4>1. b.turn \in ManualTurn /\ owner[b.turn].phase \notin {"idle", "over"}
        BY <1>1, <1>9, <3>6 DEF TabTypes
      <4>2. b.turn # t
        BY <2>2, <3>1, <3>2, <3>6
      <4>3. b.turn < t \/ t < b.turn
        <5>1. \A u \in ManualTurn : u \in Nat
          BY ManualBounds, FS_CardinalityType, SMT
        <5> QED
          BY <4>1, <4>2, <5>1, SMT
      <4> QED
        BY <1>0, <3>3, <4>1, <4>3 DEF OwnerBooks
    <3> QED
      BY <2>2, <3>5, <3>6
  <2> QED
    BY <2>3, <2>4, <2>5 DEF HostTabs
<1> QED
  BY <1>3, <1>4, <1>7, <1>10, <1>11, <1>12 DEF ManualCtlIInv, ControlTypes

\* The answer goes to the owner that still waits for it.
LEMMA Replied ==
    ASSUME OwnerTypes, WireTypes, NEW r \in wire, NEW reply, Replies(r, reply),
           owner[r.turn].act = r.act => Truthful(r.turn, r.act, reply)
    PROVE  HostReply(r.turn, r.act, reply) /\ wire' \subseteq wire /\ UNCHANGED <<pid, late>>
<1> DEFINE t == r.turn
           at == [owner[t] EXCEPT !.reply = reply]
<1>1. wire' \subseteq wire /\ UNCHANGED <<pid, late>>
  BY DEF Replies
<1>2. \/ owner' = owner
      \/ owner[t].act = r.act /\ owner' = [owner EXCEPT ![t] = at]
  BY SMT DEF Replies
<1>3. /\ t \in ManualTurn /\ DOMAIN owner = ManualTurn /\ DOMAIN owner[t] = OwnerFields
  BY DEF OwnerTypes, WireTypes
<1>4. /\ DOMAIN at = OwnerFields /\ at.phase = owner[t].phase /\ at.act = owner[t].act
      /\ at.n = owner[t].n /\ at.reply = reply /\ at.how = owner[t].how
  BY <1>3 DEF OwnerFields
<1> HIDE DEF at
<1>5. CASE owner[t].act = r.act /\ owner' = [owner EXCEPT ![t] = at]
  BY <1>1, <1>3, <1>4, <1>5 DEF HostReply, OwnerMoves
<1>6. CASE owner' = owner
  BY <1>1, <1>6 DEF HostReply
<1> QED
  BY <1>1, <1>2, <1>5, <1>6

\* What a step does to the memories.
LEMMA NothingNoted ==
    ASSUME MemoryTypes, NEW t, NEW act, UNCHANGED <<ends, dones, pid>>
    PROVE  MemoryTypes' /\ HostMemory(t, act)
  BY DEF MemoryTypes, HostMemory

LEMMA EndNoted ==
    ASSUME Cardinality(ManualTurn) <= MAX_SIGNALS, MemoryTypes, NEW t, NEW act,
           NEW u \in ManualTurn, NEW p \in 1..pid, NEW st \in Statuses, Signal(u, p, st),
           p # pid => ~In(ends, u, pid), UNCHANGED <<dones, pid>>, CountTypes
    PROVE  /\ MemoryTypes' /\ HostMemory(t, act)
           /\ \A v \in ManualTurn, q \in 1..pid :
                 In(ends', v, q) <=> (v = u /\ q = p) \/ (v # u /\ In(ends, v, q))
<1>1. /\ ends' \in Seq([turn : ManualTurn, pid : 1..pid, status : Statuses]) /\ Once(ends')
      /\ \A v \in ManualTurn, q \in 1..pid :
            In(ends', v, q) <=> (v = u /\ q = p) \/ (v # u /\ In(ends, v, q))
  BY Signalled
<1>2. MemoryTypes'
  BY <1>1 DEF MemoryTypes
<1>3. pid \in 1..pid
  BY SMT DEF CountTypes
<1>4. HostMemory(t, act)
  BY <1>1, <1>3 DEF HostMemory
<1> QED
  BY <1>1, <1>2, <1>4

LEMMA CompletionKept ==
    ASSUME Cardinality(ManualTurn) <= MAX_SIGNALS, MemoryTypes, NEW t \in ManualTurn,
           NEW act \in Finals, Completed(t, pid), UNCHANGED <<ends, pid>>, CountTypes
    PROVE  /\ MemoryTypes' /\ HostMemory(t, act)
           /\ \A u \in ManualTurn : Of(dones', u) <=> u = t \/ Of(dones, u)
<1>1. pid \in 1..pid
  BY SMT DEF CountTypes
<1>2. /\ dones' \in Seq([turn : ManualTurn, pid : 1..pid]) /\ Once(dones')
      /\ \A u \in ManualTurn : Of(dones', u) <=> u = t \/ Of(dones, u)
      /\ In(dones', t, pid)
      /\ \A u \in ManualTurn, q \in 1..pid : u # t => (In(dones', u, q) <=> In(dones, u, q))
  BY <1>1, CompletionNoted
<1>3. MemoryTypes'
  BY <1>2 DEF MemoryTypes
<1>4. HostMemory(t, act)
  BY <1>1, <1>2 DEF HostMemory
<1> QED
  BY <1>2, <1>3, <1>4

\* What the memories may do to the tabs of other turns than d.
TabsAgree(others) ==
    \A u \in others : (In(ends', u, pid) => In(ends, u, pid)) /\ (Of(dones', u) <=> Of(dones, u))

\* The tab d comes into state st, the other tabs and what is remembered of them stay.
MovesOn(d, st, t, act) ==
    /\ tabs' = (tabs \ {d}) \cup {[d EXCEPT !.state = st]} /\ pid' = pid
    /\ TabsAgree(ManualTurn \ {d.turn}) /\ (d.pid # pid => ~In(ends', d.turn, pid))
    /\ st = "completed" <=> Of(dones', d.turn)
    /\ d.state \in {"running", "completed"} => st \in {"running", "completed"}
    /\ d.state = "completed" => st = "completed"
    /\ st = "completed" => d.state = "completed" \/ (d.turn = t /\ act \in Finals /\ d.pid = pid)

\* What a step does to the tabs: none changes, one moves on, one goes.
LEMMA TabsStay ==
    ASSUME TabTypes, TabsInOrder, NEW t, NEW act, UNCHANGED <<tabs, pid>>, TabsAgree(ManualTurn)
    PROVE  TabTypes' /\ HostTabs(t, act)
<1>1. TabTypes'
  BY DEF TabTypes
<1>2. \A b \in tabs : Carried(b, t, act)
  BY DEF Carried
<1> QED
  BY <1>1, <1>2 DEF TabTypes, TabsInOrder, HostTabs, TabsAgree

LEMMA TabMovesOn ==
    ASSUME TabTypes, TabsInOrder, NEW t, NEW act, NEW d \in tabs, NEW st \in TabStates,
           MovesOn(d, st, t, act)
    PROVE  /\ TabTypes' /\ HostTabs(t, act)
           /\ \A b \in tabs' : b.turn = d.turn => b.state = st
           /\ \E b \in tabs' : b.turn = d.turn /\ b.pid = d.pid
<1> DEFINE n == [d EXCEPT !.state = st]
<1>0. /\ pid' = pid /\ TabsAgree(ManualTurn \ {d.turn}) /\ (d.pid # pid => ~In(ends', d.turn, pid))
      /\ st = "completed" <=> Of(dones', d.turn)
      /\ d.state \in {"running", "completed"} => st \in {"running", "completed"}
      /\ d.state = "completed" => st = "completed"
      /\ st = "completed" => d.state = "completed" \/ (d.turn = t /\ act \in Finals /\ d.pid = pid)
  BY DEF MovesOn
<1>1. DOMAIN n = {"turn", "pid", "state"} /\ n.turn = d.turn /\ n.pid = d.pid /\ n.state = st
  BY DEF TabTypes
<1>2. tabs' = (tabs \ {d}) \cup {n}
  BY DEF MovesOn
<1> HIDE DEF n
<1>3. TabTypes'
  BY <1>0, <1>1, <1>2 DEF TabTypes
<1>4. \A b \in tabs : b.turn \in ManualTurn /\ (b # d => b.turn # d.turn)
  BY DEF TabTypes, TabsInOrder
<1>5. \A b, c \in tabs' : b.turn = c.turn => b = c
  BY <1>1, <1>2, <1>4 DEF TabsInOrder
<1>6. \A b \in tabs' : /\ b.pid # pid => ~In(ends', b.turn, pid)
                       /\ b.state = "completed" <=> Of(dones', b.turn)
  BY <1>0, <1>1, <1>2, <1>4 DEF TabsInOrder, TabsAgree
<1>7. \A b \in tabs' : Carried(b, t, act)
  BY <1>0, <1>1, <1>2 DEF Carried
<1>8. \A c \in tabs : c.pid = pid => \E b \in tabs' : b.turn = c.turn /\ b.pid = pid
  BY <1>1, <1>2
<1>9. \A b \in tabs' : b.turn = d.turn => b.state = st
  BY <1>1, <1>2, <1>4
<1> QED
  BY <1>1, <1>2, <1>3, <1>5, <1>6, <1>7, <1>8, <1>9 DEF HostTabs

LEMMA TabGoes ==
    ASSUME TabTypes, TabsInOrder, NEW t, NEW act, NEW d \in tabs, tabs' = tabs \ {d}, pid' = pid,
           TabsAgree(ManualTurn \ {d.turn}), d.pid = pid => Settled(d.turn)'
    PROVE  /\ TabTypes' /\ HostTabs(t, act)
           /\ \A b \in tabs' : b.turn # d.turn
<1>1. TabTypes'
  BY DEF TabTypes
<1>2. \A b \in tabs : b.turn \in ManualTurn /\ (b # d => b.turn # d.turn)
  BY DEF TabTypes, TabsInOrder
<1>3. \A b \in tabs' : /\ b.pid # pid => ~In(ends', b.turn, pid)
                       /\ b.state = "completed" <=> Of(dones', b.turn)
  BY <1>2 DEF TabsInOrder, TabsAgree
<1>4. \A b \in tabs' : Carried(b, t, act)
  BY DEF Carried
<1>5. \A c \in tabs : c.pid = pid => Settled(c.turn)' \/ \E b \in tabs' : b.turn = c.turn /\ b.pid = pid
  OBVIOUS
<1> QED
  BY <1>1, <1>2, <1>3, <1>4, <1>5 DEF HostTabs, TabsInOrder

\* A request that changes nothing but its owner's wait.
LEMMA LeavesKeep ==
    ASSUME ManualCtlIInv, NEW r \in wire, NEW reply \in {"ok", "refused"}, Leaves(r, reply),
           owner[r.turn].act = r.act => Truthful(r.turn, r.act, reply)
    PROVE  ManualCtlIInv'
<1>1. /\ OwnerTypes /\ WireTypes /\ TabTypes /\ MemoryTypes /\ TabsInOrder
      /\ r.turn \in ManualTurn /\ r.act \in Acts
  BY DEF ManualCtlIInv, ControlTypes, WireTypes
<1>2. Replies(r, reply) /\ UNCHANGED <<tabs, ends, dones>>
  BY DEF Leaves
<1>3. HostReply(r.turn, r.act, reply) /\ wire' \subseteq wire /\ UNCHANGED <<pid, late>>
  BY <1>1, <1>2, Replied
<1>4. MemoryTypes' /\ HostMemory(r.turn, r.act)
  BY <1>1, <1>2, <1>3, NothingNoted
<1>5. TabTypes' /\ HostTabs(r.turn, r.act)
  <2>1. TabsAgree(ManualTurn)
    BY <1>2 DEF TabsAgree
  <2> QED
    BY <1>1, <1>2, <1>3, <2>1, TabsStay
<1> QED
  BY <1>1, <1>3, <1>4, <1>5, HostKeeps

\* A request that is handled: its owner has come to it.
LEMMA ActKeeps ==
    ASSUME ManualCtlIInv, NEW r \in wire, NEW reply \in {"ok", "refused"}, Replies(r, reply),
           owner[r.turn].act = r.act => Truthful(r.turn, r.act, reply),
           TabTypes', MemoryTypes', HostMemory(r.turn, r.act), HostTabs(r.turn, r.act)
    PROVE  ManualCtlIInv'
<1>1. /\ OwnerTypes /\ WireTypes /\ r.turn \in ManualTurn /\ r.act \in Acts
  BY DEF ManualCtlIInv, ControlTypes, WireTypes
<1>2. HostReply(r.turn, r.act, reply) /\ wire' \subseteq wire /\ UNCHANGED <<pid, late>>
  BY <1>1, Replied
<1> QED
  BY <1>1, <1>2, HostKeeps

\* What the code asks of a request, in terms of what is kept.
LEMMA RequestFacts ==
    ASSUME ManualCtlIInv, NEW r \in wire
    PROVE  /\ r.turn \in ManualTurn /\ r.pid = pid /\ pid \in 1..pid
           /\ TabTypes /\ MemoryTypes /\ TabsInOrder /\ OwnerTypes /\ WireTypes /\ CountTypes
           /\ Ended(r.turn, r.pid) # {} <=> In(ends, r.turn, pid)
           /\ Done(r.turn, r.pid) <=> In(dones, r.turn, pid)
           /\ HasSettled(r) <=> Settled(r.turn)
           /\ \A b \in Owned(r) : /\ b \in tabs /\ b.turn = r.turn /\ b.pid = pid
                                  /\ Owned(r) = {b} /\ TabOf(r.turn) = {b}
           /\ \A b \in tabs : b.turn = r.turn /\ b.pid = pid => b \in Owned(r)
<1>1. /\ r.turn \in ManualTurn /\ r.pid = pid
      /\ TabTypes /\ MemoryTypes /\ TabsInOrder /\ OwnerTypes /\ WireTypes /\ CountTypes
  BY DEF ManualCtlIInv, ControlTypes, WireTypes
<1>2. pid \in 1..pid
  BY <1>1, SMT DEF CountTypes
<1>3. /\ Ended(r.turn, r.pid) # {} <=> In(ends, r.turn, pid)
      /\ Done(r.turn, r.pid) <=> In(dones, r.turn, pid)
      /\ In(dones, r.turn, pid) => Of(dones, r.turn)
  BY <1>1, <1>2, MemoryNames
<1>4. HasSettled(r) <=> Settled(r.turn)
  <2>1. Of(dones, r.turn) <=> \E i \in DOMAIN dones : dones[i].turn = r.turn
    BY DEF Of
  <2> QED
    BY <1>3, <2>1 DEF HasSettled, Settled
<1>5. \A b \in Owned(r) : /\ b \in tabs /\ b.turn = r.turn /\ b.pid = pid
                          /\ Owned(r) = {b} /\ TabOf(r.turn) = {b}
  BY <1>1 DEF Owned, TabOf, TabsInOrder
<1>6. \A b \in tabs : b.turn = r.turn /\ b.pid = pid => b \in Owned(r)
  BY <1>1 DEF Owned, TabOf
<1> QED
  BY <1>1, <1>2, <1>3, <1>4, <1>5, <1>6

\* The requests, one by one.
LEMMA StepWaitSent ==
    ASSUME ManualCtlIInv, NEW r \in wire, HandleWaitSent(r) PROVE ManualCtlIInv'
<1>1. r.act = "wait-sent" /\ (Leaves(r, "ok") \/ Leaves(r, "refused"))
  BY DEF HandleWaitSent
<1>2. Truthful(r.turn, r.act, "ok") /\ Truthful(r.turn, r.act, "refused")
  BY <1>1 DEF Truthful, Finals
<1> QED
  BY <1>1, <1>2, LeavesKeep

LEMMA StepStarted ==
    ASSUME ManualCtlIInv, NEW r \in wire, HandleStarted(r) PROVE ManualCtlIInv'
<1>1. r.act = "started"
  BY DEF HandleStarted
<1>2. CASE \E b \in Owned(r) : b.state \in {"sent", "running"}
  <2>1. PICK d \in Owned(r) : d.state \in {"sent", "running"}
    BY <1>2
  <2>2. /\ d \in tabs /\ d.turn = r.turn /\ d.pid = pid /\ Owned(r) = {d}
        /\ TabTypes /\ TabsInOrder /\ MemoryTypes
    BY RequestFacts
  <2>3. /\ tabs' = (tabs \ Owned(r)) \cup {[b EXCEPT !.state = "running"] : b \in Owned(r)}
        /\ Replies(r, "ok") /\ UNCHANGED <<ends, dones>>
    BY <1>2, Zenon DEF HandleStarted
  <2>4. tabs' = (tabs \ {d}) \cup {[d EXCEPT !.state = "running"]}
    BY <2>2, <2>3, SMT
  <2>5. pid' = pid
    BY <2>3 DEF Replies
  <2>6. MemoryTypes' /\ HostMemory(r.turn, r.act)
    BY <2>2, <2>3, <2>5, NothingNoted
  <2>7. ~Of(dones, d.turn)
    BY <2>1, <2>2 DEF TabsInOrder
  <2>8. /\ TabTypes' /\ HostTabs(r.turn, r.act)
        /\ \A b \in tabs' : b.turn = d.turn => b.state = "running"
    <3>1. TabsAgree(ManualTurn \ {d.turn}) /\ ~Of(dones', d.turn) /\ "running" \in TabStates
      BY <2>3, <2>7 DEF TabsAgree, TabStates
    <3>2. MovesOn(d, "running", r.turn, r.act)
      BY <2>1, <2>2, <2>4, <2>5, <3>1 DEF MovesOn
    <3> QED
      BY <2>2, <3>1, <3>2, TabMovesOn
  <2>9. Truthful(r.turn, r.act, "ok")
    BY <1>1, <2>2, <2>8 DEF Truthful, Finals
  <2> QED
    BY <2>3, <2>6, <2>8, <2>9, ActKeeps
<1>3. CASE ~\E b \in Owned(r) : b.state \in {"sent", "running"}
  <2>1. Leaves(r, "refused")
    BY <1>3 DEF HandleStarted
  <2>2. Truthful(r.turn, r.act, "refused")
    BY <1>1 DEF Truthful, Finals
  <2> QED
    BY <2>1, <2>2, LeavesKeep
<1> QED
  BY <1>2, <1>3

LEMMA StepStart ==
    ASSUME Cardinality(ManualTurn) <= MAX_SIGNALS, ManualCtlIInv, NEW r \in wire, HandleStart(r)
    PROVE  ManualCtlIInv'
<1> DEFINE t == r.turn
<1>1. r.act = "start"
  BY DEF HandleStart
<1>2. /\ t \in ManualTurn /\ r.pid = pid /\ pid \in 1..pid
      /\ TabTypes /\ MemoryTypes /\ TabsInOrder /\ CountTypes
      /\ HasSettled(r) <=> Settled(t)
      /\ \A b \in Owned(r) : b \in tabs /\ b.turn = t /\ b.pid = pid
      /\ \A b \in tabs : b.turn = t /\ b.pid = pid => b \in Owned(r)
  BY RequestFacts
<1>3. Truthful(t, r.act, "refused")
  BY <1>1 DEF Truthful, Finals
<1>4. CASE Leaves(r, "refused")
  BY <1>3, <1>4, LeavesKeep
<1>5. CASE ~HasSettled(r) /\ Owned(r) # {} /\ Leaves(r, "ok")
  <2>1. \E b \in tabs : b.turn = t /\ b.pid = pid
    BY <1>2, <1>5
  <2>2. ~Of(dones, t)
    BY <1>2, <1>5 DEF Settled
  <2>3. UNCHANGED <<tabs, ends, dones, pid>>
    BY <1>5 DEF Leaves, Replies
  <2>4. Truthful(t, r.act, "ok")
    BY <1>1, <2>1, <2>2, <2>3 DEF Truthful, Finals
  <2> QED
    BY <1>5, <2>4, LeavesKeep
<1>6. CASE /\ ~HasSettled(r) /\ TabOf(t) # {} /\ Owned(r) = {}
           /\ tabs' = tabs \ TabOf(t) /\ Signal(t, r.pid, "failed")
           /\ Replies(r, "refused") /\ UNCHANGED dones
  <2>1. PICK d \in TabOf(t) : TRUE
    BY <1>6
  <2>2. d \in tabs /\ d.turn = t /\ tabs' = tabs \ {d} /\ d.pid # pid
    BY <1>2, <1>6, <2>1 DEF TabOf, TabsInOrder
  <2>3. pid' = pid /\ "failed" \in Statuses
    BY <1>6 DEF Replies, Statuses
  <2>4. /\ MemoryTypes' /\ HostMemory(t, r.act)
        /\ \A v \in ManualTurn, q \in 1..pid :
              In(ends', v, q) <=> (v = t /\ q = pid) \/ (v # t /\ In(ends, v, q))
    BY <1>2, <1>6, <2>3, EndNoted
  <2>5. TabsAgree(ManualTurn \ {d.turn})
    BY <1>2, <1>6, <2>2, <2>4 DEF TabsAgree
  <2>6. TabTypes' /\ HostTabs(t, r.act)
    BY <1>2, <2>2, <2>3, <2>5, TabGoes
  <2> QED
    BY <1>3, <1>6, <2>4, <2>6, ActKeeps
<1>7. CASE /\ ~HasSettled(r) /\ TabOf(t) = {}
           /\ tabs' = (tabs \ Reusable) \cup {Fresh(r)}
           /\ Replies(r, "ok") /\ UNCHANGED <<ends, dones>>
  <2> DEFINE n == Fresh(r)
  <2>1. /\ DOMAIN n = {"turn", "pid", "state"} /\ n.turn = t /\ n.pid = pid
        /\ n.state = "awaiting-user" /\ n.state \in TabStates
    BY <1>2 DEF Fresh, TabStates
  <2>2. tabs' = (tabs \ Reusable) \cup {n} /\ UNCHANGED <<ends, dones, pid>>
    BY <1>7 DEF Replies
  <2> HIDE DEF n
  <2>3. ~Settled(t) /\ ~Of(dones, t) /\ \A c \in tabs : c.turn # t
    BY <1>2, <1>7 DEF Settled, TabOf
  <2>4. \A b \in tabs' : b = n \/ (b \in tabs /\ b.state # "completed")
    BY <2>2 DEF Reusable
  <2>5. \A b \in tabs : b.state # "completed" => b \in tabs'
    BY <2>2 DEF Reusable
  <2>6. n \in tabs'
    BY <2>2
  <2>7. MemoryTypes' /\ HostMemory(t, r.act)
    BY <1>2, <2>2, NothingNoted
  <2>8. TabTypes'
    BY <1>2, <2>1, <2>2, <2>4, SMT DEF TabTypes
  <2>9. HostTabs(t, r.act)
    <3>1. \A b, c \in tabs' : b.turn = c.turn => b = c
      BY <1>2, <2>1, <2>3, <2>4 DEF TabsInOrder
    <3>2. ASSUME NEW b \in tabs'
          PROVE  /\ b.pid # pid => ~In(ends', b.turn, pid)
                 /\ b.state = "completed" <=> Of(dones', b.turn)
                 /\ Carried(b, t, r.act) \/ Opened(b, t, r.act)
      <4>1. CASE b = n
        <5>1. Opened(b, t, r.act)
          BY <1>1, <2>1, <2>3, <2>4, <4>1 DEF Opened
        <5>2. ~Of(dones', b.turn)
          BY <2>1, <2>2, <2>3, <4>1
        <5> QED
          BY <2>1, <4>1, <5>1, <5>2
      <4>2. CASE b \in tabs
        <5>1. Carried(b, t, r.act)
          BY <4>2 DEF Carried
        <5> QED
          BY <1>2, <2>2, <4>2, <5>1 DEF TabsInOrder
      <4> QED
        BY <2>4, <4>1, <4>2
    <3>3. ASSUME NEW c \in tabs, c.pid = pid
          PROVE  Settled(c.turn)' \/ \E b \in tabs' : b.turn = c.turn /\ b.pid = pid
      <4>1. CASE c.state = "completed"
        BY <1>2, <2>2, <4>1 DEF TabsInOrder, Settled
      <4>2. CASE c.state # "completed"
        BY <2>5, <3>3, <4>2
      <4> QED
        BY <4>1, <4>2
    <3> QED
      BY <3>1, <3>2, <3>3 DEF HostTabs
  <2>10. Truthful(t, r.act, "ok")
    <3>1. ~Of(dones', t)
      BY <2>2, <2>3
    <3> QED
      BY <1>1, <2>1, <2>6, <3>1 DEF Truthful, Finals
  <2> QED
    BY <1>7, <2>7, <2>8, <2>9, <2>10, ActKeeps
<1> QED
  <2>1. \/ Leaves(r, "refused")
        \/ ~HasSettled(r) /\ Owned(r) # {} /\ Leaves(r, "ok")
        \/ /\ ~HasSettled(r) /\ TabOf(t) # {} /\ Owned(r) = {}
           /\ tabs' = tabs \ TabOf(t) /\ Signal(t, r.pid, "failed")
           /\ Replies(r, "refused") /\ UNCHANGED dones
        \/ /\ ~HasSettled(r) /\ TabOf(t) = {}
           /\ tabs' = (tabs \ Reusable) \cup {Fresh(r)}
           /\ Replies(r, "ok") /\ UNCHANGED <<ends, dones>>
    BY Zenon DEF HandleStart
  <2> QED
    BY <1>4, <1>5, <1>6, <1>7, <2>1

LEMMA StepEnd ==
    ASSUME Cardinality(ManualTurn) <= MAX_SIGNALS, ManualCtlIInv, NEW r \in wire, HandleEnd(r)
    PROVE  ManualCtlIInv'
<1> DEFINE t == r.turn
<1>1. r.act \in Finals
  BY DEF HandleEnd, Finals
<1>2. /\ t \in ManualTurn /\ r.pid = pid /\ pid \in 1..pid
      /\ TabTypes /\ MemoryTypes /\ TabsInOrder /\ CountTypes
      /\ Ended(t, r.pid) # {} <=> In(ends, t, pid)
      /\ Done(t, r.pid) <=> In(dones, t, pid)
      /\ \A b \in Owned(r) : b \in tabs /\ b.turn = t /\ b.pid = pid /\ Owned(r) = {b}
      /\ \A b \in tabs : b.turn = t /\ b.pid = pid => b \in Owned(r)
  BY RequestFacts
<1>3. owner[t].act = r.act =>
         /\ Settled(t) \/ \E b \in tabs : b.turn = t /\ b.pid = pid
         /\ Of(dones, t) => In(dones, t, pid)
         /\ r.act = "completed" => \A b \in tabs : b.turn = t => b.state \in {"running", "completed"}
  <2>1. owner[t].act = r.act => owner[t].phase = "ending"
    BY <1>1, <1>2 DEF ManualCtlIInv, OwnerBooks
  <2>2. owner[t].act = r.act => Given(t) /\ (r.act = "completed" => Started(t))
    BY <2>1 DEF Given, Started, Alive
  <2> QED
    BY <1>2, <2>1, <2>2 DEF ManualCtlIInv, GivenBooks
<1>4. \A b \in tabs : b.turn = t => (b.state = "completed" <=> Of(dones, t))
  BY <1>2 DEF TabsInOrder
<1>5. In(dones, t, pid) => Of(dones, t)
  BY DEF In, Of
<1>6. CASE Done(t, r.pid) /\ Leaves(r, "ok")
  <2>1. UNCHANGED <<tabs, ends, dones, pid>>
    BY <1>6 DEF Leaves, Replies
  <2>2. Settled(t) /\ \A b \in tabs : b.turn = t => b.state = "completed"
    BY <1>2, <1>4, <1>5, <1>6 DEF Settled
  <2>3. Settled(t)'
    BY <2>1, <2>2 DEF Settled
  <2>4. Truthful(t, r.act, "ok")
    BY <1>1, <2>1, <2>2, <2>3 DEF Truthful, Finals
  <2> QED
    BY <1>6, <2>4, LeavesKeep
<1>7. CASE ~Done(t, r.pid) /\ Owned(r) = {} /\ Ended(t, r.pid) # {} /\ Leaves(r, "ok")
  <2>1. UNCHANGED <<tabs, ends, dones, pid>>
    BY <1>7 DEF Leaves, Replies
  <2>2. \A b \in tabs : b.turn # t
    BY <1>2, <1>7 DEF TabsInOrder
  <2>3. Settled(t)'
    BY <1>2, <1>7, <2>1 DEF Settled
  <2>4. Truthful(t, r.act, "ok")
    BY <1>1, <2>1, <2>2, <2>3 DEF Truthful, Finals
  <2> QED
    BY <1>7, <2>4, LeavesKeep
<1>8. CASE ~Done(t, r.pid) /\ Owned(r) = {} /\ Ended(t, r.pid) = {} /\ Leaves(r, "refused")
  <2>1. owner[t].act # r.act
    BY <1>2, <1>3, <1>8 DEF Settled
  <2> QED
    BY <1>8, <2>1, LeavesKeep
<1>9. CASE /\ r.act = "completed" /\ Leaves(r, "refused")
           /\ \E b \in Owned(r) : b.state \notin {"sent", "running", "completed"}
  <2>1. owner[t].act # r.act
    BY <1>2, <1>3, <1>9
  <2> QED
    BY <1>9, <2>1, LeavesKeep
<1>10. CASE /\ \E b \in Owned(r) : b.state = "completed"
            /\ Completed(t, r.pid) /\ Replies(r, "ok") /\ UNCHANGED <<tabs, ends>>
  <2>1. pid' = pid
    BY <1>10 DEF Replies
  <2>2. /\ MemoryTypes' /\ HostMemory(t, r.act)
        /\ \A u \in ManualTurn : Of(dones', u) <=> u = t \/ Of(dones, u)
    BY <1>1, <1>2, <1>10, <2>1, CompletionKept
  <2>3. Of(dones, t)
    BY <1>2, <1>4, <1>10
  <2>4. TabsAgree(ManualTurn)
    BY <1>10, <2>2, <2>3 DEF TabsAgree
  <2>5. TabTypes' /\ HostTabs(t, r.act)
    BY <1>2, <1>10, <2>1, <2>4, TabsStay
  <2>6. Settled(t)'
    BY <1>2, <2>2 DEF Settled
  <2>7. Truthful(t, r.act, "ok")
    BY <1>1, <1>4, <1>10, <2>3, <2>6 DEF Truthful, Finals
  <2> QED
    BY <1>10, <2>2, <2>5, <2>7, ActKeeps
<1>11. CASE /\ r.act = "completed" /\ \E b \in Owned(r) : b.state \in {"sent", "running"}
            /\ tabs' = (tabs \ Owned(r)) \cup
                         (IF KeepsTab THEN {[b EXCEPT !.state = "completed"] : b \in Owned(r)} ELSE {})
            /\ Completed(t, r.pid) /\ Replies(r, "ok") /\ UNCHANGED ends
  <2>1. pid' = pid
    BY <1>11 DEF Replies
  <2>2. /\ MemoryTypes' /\ HostMemory(t, r.act)
        /\ \A u \in ManualTurn : Of(dones', u) <=> u = t \/ Of(dones, u)
    BY <1>1, <1>2, <1>11, <2>1, CompletionKept
  <2>3. PICK d \in Owned(r) : d.state \in {"sent", "running"}
    BY <1>11
  <2>4. d \in tabs /\ d.turn = t /\ d.pid = pid /\ Owned(r) = {d}
    BY <1>2
  <2>5. TabsAgree(ManualTurn \ {d.turn})
    BY <1>11, <2>2, <2>4 DEF TabsAgree
  <2>6. Settled(t)' /\ Of(dones', t)
    BY <1>2, <2>2 DEF Settled
  <2>7. TabTypes' /\ HostTabs(t, r.act) /\ \A b \in tabs' : b.turn = t => b.state = "completed"
    <3>1. CASE KeepsTab
      <4>1. tabs' = (tabs \ {d}) \cup {[d EXCEPT !.state = "completed"]}
        BY <1>11, <2>4, <3>1, SMT
      <4>2. "completed" \in TabStates
        BY DEF TabStates
      <4>3. MovesOn(d, "completed", t, r.act)
        BY <1>1, <2>1, <2>4, <2>5, <2>6, <4>1 DEF MovesOn
      <4>4. TabTypes' /\ HostTabs(t, r.act) /\ \A b \in tabs' : b.turn = d.turn => b.state = "completed"
        BY <1>2, <2>4, <4>2, <4>3, TabMovesOn
      <4> QED
        BY <2>4, <4>4
    <3>2. CASE ~KeepsTab
      <4>1. tabs' = tabs \ {d}
        BY <1>11, <2>4, <3>2, SMT
      <4> QED
        BY <1>2, <2>1, <2>4, <2>5, <2>6, <4>1, TabGoes
    <3> QED
      BY <3>1, <3>2
  <2>8. Truthful(t, r.act, "ok")
    BY <1>1, <2>6, <2>7 DEF Truthful, Finals
  <2> QED
    BY <1>11, <2>2, <2>7, <2>8, ActKeeps
<1>12. CASE /\ \E b \in Owned(r) : b.state # "completed"
            /\ tabs' = tabs \ Owned(r)
            /\ \E st \in Statuses : Signal(t, r.pid, st)
            /\ Replies(r, "ok") /\ UNCHANGED dones
  <2>1. pid' = pid
    BY <1>12 DEF Replies
  <2>2. PICK d \in Owned(r) : d.state # "completed"
    BY <1>12
  <2>3. d \in tabs /\ d.turn = t /\ d.pid = pid /\ Owned(r) = {d}
    BY <1>2
  <2>4. PICK st \in Statuses : Signal(t, pid, st)
    BY <1>2, <1>12
  <2>5. /\ MemoryTypes' /\ HostMemory(t, r.act)
        /\ \A v \in ManualTurn, q \in 1..pid :
              In(ends', v, q) <=> (v = t /\ q = pid) \/ (v # t /\ In(ends, v, q))
    BY <1>2, <1>12, <2>1, <2>4, EndNoted
  <2>6. TabsAgree(ManualTurn \ {d.turn})
    BY <1>2, <1>12, <2>3, <2>5 DEF TabsAgree
  <2>7. Settled(t)'
    BY <1>2, <2>1, <2>5 DEF Settled
  <2>8. tabs' = tabs \ {d}
    BY <1>12, <2>3
  <2>9. TabTypes' /\ HostTabs(t, r.act) /\ \A b \in tabs' : b.turn # t
    BY <1>2, <2>1, <2>3, <2>6, <2>7, <2>8, TabGoes
  <2>10. Truthful(t, r.act, "ok")
    BY <1>1, <2>7, <2>9 DEF Truthful, Finals
  <2> QED
    BY <1>12, <2>5, <2>9, <2>10, ActKeeps
<1> QED
  <2>1. /\ (IF Ended(t, r.pid) # {} THEN "ok" ELSE "refused") = "ok" <=> Ended(t, r.pid) # {}
        /\ (IF Ended(t, r.pid) # {} THEN "ok" ELSE "refused") = "refused" <=> Ended(t, r.pid) = {}
    OBVIOUS
  <2>2. CASE ~Done(t, r.pid) /\ Owned(r) = {} /\ Leaves(r, IF Ended(t, r.pid) # {} THEN "ok" ELSE "refused")
    BY <1>7, <1>8, <2>1, <2>2
  <2>3. CASE /\ r.act # "completed"
             /\ \E b \in Owned(r) : b.state # "completed"
             /\ tabs' = tabs \ Owned(r)
             /\ Signal(t, r.pid, IF r.act = "aborted" THEN "cancelled" ELSE "failed")
             /\ Replies(r, "ok") /\ UNCHANGED dones
    <3>1. (IF r.act = "aborted" THEN "cancelled" ELSE "failed") \in Statuses
      BY DEF Statuses
    <3> QED
      BY <1>12, <2>3, <3>1
  <2> QED
    BY <1>6, <1>9, <1>10, <1>11, <2>2, <2>3, Zenon DEF HandleEnd

-----------------------------------------------------------------------------
(* Steps of the user and of the daemon *)

\* A tab changes under the user's hands, with or without a signal.
LEMMA TabSignals ==
    ASSUME Cardinality(ManualTurn) <= MAX_SIGNALS, ManualCtlIInv, NEW b \in tabs,
           NEW st \in Statuses, Signal(b.turn, b.pid, st), UNCHANGED <<dones, pid>>
    PROVE  /\ MemoryTypes' /\ HostMemory(b.turn, "wait-sent") /\ TabsAgree(ManualTurn \ {b.turn})
           /\ b.pid # pid => ~In(ends', b.turn, pid)
           /\ b.pid = pid => Settled(b.turn)'
<1>1. /\ b.turn \in ManualTurn /\ b.pid \in 1..pid /\ (b.pid # pid => ~In(ends, b.turn, pid))
      /\ MemoryTypes /\ CountTypes
  BY DEF ManualCtlIInv, ControlTypes, TabTypes, TabsInOrder
<1>2. pid \in 1..pid
  BY <1>1, SMT DEF CountTypes
<1>3. /\ MemoryTypes' /\ HostMemory(b.turn, "wait-sent")
      /\ \A v \in ManualTurn, q \in 1..pid :
            In(ends', v, q) <=> (v = b.turn /\ q = b.pid) \/ (v # b.turn /\ In(ends, v, q))
  BY <1>1, EndNoted
<1>4. TabsAgree(ManualTurn \ {b.turn})
  BY <1>2, <1>3 DEF TabsAgree
<1> QED
  BY <1>1, <1>2, <1>3, <1>4 DEF Settled

\* A step that no request asked for.
LEMMA UserActs ==
    ASSUME ManualCtlIInv, NEW t \in ManualTurn, TabTypes', MemoryTypes',
           HostMemory(t, "wait-sent"), HostTabs(t, "wait-sent"),
           UNCHANGED <<owner, wire, pid, late>>
    PROVE  ManualCtlIInv'
<1>1. HostReply(t, "wait-sent", "ok")
  BY DEF HostReply
<1>2. "wait-sent" \in Acts /\ "wait-sent" \notin {"start"} \cup Finals
  BY DEF Acts, Finals
<1> QED
  BY <1>1, <1>2, HostKeeps

LEMMA StepUserSent == ASSUME ManualCtlIInv, UserSent PROVE ManualCtlIInv'
<1>1. PICK b \in tabs : /\ b.state = "awaiting-user"
                        /\ tabs' = (tabs \ {b}) \cup {[b EXCEPT !.state = "sent"]}
  BY Zenon DEF UserSent
<1>2. UNCHANGED <<ends, dones, owner, wire, pid, late>>
  BY DEF UserSent
<1>3. TabTypes /\ TabsInOrder /\ MemoryTypes /\ b.turn \in ManualTurn
  BY DEF ManualCtlIInv, ControlTypes, TabTypes
<1>4. MemoryTypes' /\ HostMemory(b.turn, "wait-sent")
  BY <1>2, <1>3, NothingNoted
<1>5. /\ TabsAgree(ManualTurn \ {b.turn}) /\ (b.pid # pid => ~In(ends', b.turn, pid))
      /\ ~Of(dones', b.turn) /\ "sent" \in TabStates
  BY <1>1, <1>2, <1>3 DEF TabsAgree, TabsInOrder, TabStates
<1>6. MovesOn(b, "sent", b.turn, "wait-sent")
  BY <1>1, <1>2, <1>5 DEF MovesOn
<1>7. TabTypes' /\ HostTabs(b.turn, "wait-sent")
  BY <1>3, <1>5, <1>6, TabMovesOn
<1> QED
  BY <1>2, <1>3, <1>4, <1>7, UserActs

LEMMA StepSubmitDeadline ==
    ASSUME Cardinality(ManualTurn) <= MAX_SIGNALS, ManualCtlIInv, SubmitDeadline PROVE ManualCtlIInv'
<1>1. PICK b \in tabs : /\ b.state = "awaiting-user"
                        /\ tabs' = (tabs \ {b}) \cup {[b EXCEPT !.state = "timed-out"]}
                        /\ Signal(b.turn, b.pid, "timeout")
  BY Zenon DEF SubmitDeadline
<1>2. UNCHANGED <<dones, owner, wire, pid, late>>
  BY DEF SubmitDeadline
<1>3. TabTypes /\ TabsInOrder /\ b.turn \in ManualTurn /\ "timeout" \in Statuses
  BY DEF ManualCtlIInv, ControlTypes, TabTypes, Statuses
<1>4. /\ MemoryTypes' /\ HostMemory(b.turn, "wait-sent") /\ TabsAgree(ManualTurn \ {b.turn})
      /\ b.pid # pid => ~In(ends', b.turn, pid)
  BY <1>1, <1>2, <1>3, TabSignals
<1>5. ~Of(dones', b.turn) /\ "timed-out" \in TabStates
  BY <1>1, <1>2, <1>3 DEF TabsInOrder, TabStates
<1>6. MovesOn(b, "timed-out", b.turn, "wait-sent")
  BY <1>1, <1>2, <1>4, <1>5 DEF MovesOn
<1>7. TabTypes' /\ HostTabs(b.turn, "wait-sent")
  BY <1>3, <1>5, <1>6, TabMovesOn
<1> QED
  BY <1>2, <1>3, <1>4, <1>7, UserActs

LEMMA StepTabCloses ==
    ASSUME Cardinality(ManualTurn) <= MAX_SIGNALS, ManualCtlIInv, TabCloses PROVE ManualCtlIInv'
<1>1. PICK b \in tabs : /\ tabs' = tabs \ {b}
                        /\ \/ b.state = "completed" /\ UNCHANGED ends
                           \/ \E s \in {"cancelled", "failed"} : Signal(b.turn, b.pid, s)
  BY Zenon DEF TabCloses
<1>2. UNCHANGED <<dones, owner, wire, pid, late>>
  BY DEF TabCloses
<1>3. TabTypes /\ TabsInOrder /\ MemoryTypes /\ b.turn \in ManualTurn
  BY DEF ManualCtlIInv, ControlTypes, TabTypes
<1>4. /\ MemoryTypes' /\ HostMemory(b.turn, "wait-sent") /\ TabsAgree(ManualTurn \ {b.turn})
      /\ b.pid = pid => Settled(b.turn)'
  <2>1. CASE b.state = "completed" /\ UNCHANGED ends
    <3>1. Settled(b.turn)'
      BY <1>2, <1>3, <2>1 DEF Settled, TabsInOrder
    <3>2. MemoryTypes' /\ HostMemory(b.turn, "wait-sent")
      BY <1>2, <1>3, <2>1, NothingNoted
    <3> QED
      BY <1>2, <2>1, <3>1, <3>2 DEF TabsAgree
  <2>2. CASE \E s \in {"cancelled", "failed"} : Signal(b.turn, b.pid, s)
    <3>1. PICK s \in Statuses : Signal(b.turn, b.pid, s)
      BY <2>2 DEF Statuses
    <3> QED
      BY <1>2, <3>1, TabSignals
  <2> QED
    BY <1>1, <2>1, <2>2
<1>5. TabTypes' /\ HostTabs(b.turn, "wait-sent")
  BY <1>1, <1>2, <1>3, <1>4, TabGoes
<1> QED
  BY <1>2, <1>3, <1>4, <1>5, UserActs

\* The next daemon knows no turn, and no tab or memory names its process.
LEMMA StepDaemonReplaced == ASSUME ManualCtlIInv, DaemonReplaced PROVE ManualCtlIInv'
<1>0. /\ OwnerTypes /\ TabTypes /\ MemoryTypes /\ CountTypes
      /\ OwnerBooks /\ TabsInOrder /\ GivenBooks /\ RetainedBooks
  BY DEF ManualCtlIInv, ControlTypes
<1>1. /\ pid < MAX_PIDS /\ pid' = pid + 1 /\ wire' = {} /\ UNCHANGED <<tabs, ends, dones, late>>
  BY DEF DaemonReplaced
<1>2. PICK again \in BOOLEAN :
          owner' = [t \in ManualTurn |->
                      IF owner[t].phase \in {"idle", "over"} THEN owner[t]
                      ELSE IF again THEN NotBegun ELSE [NotBegun EXCEPT !.phase = "over", !.how = "gone"]]
  BY Zenon DEF DaemonReplaced
<1> DEFINE gone == [NotBegun EXCEPT !.phase = "over", !.how = "gone"]
<1>3. /\ DOMAIN gone = OwnerFields /\ gone.phase = "over" /\ gone.act = "none" /\ gone.n = 0
      /\ gone.reply = "none" /\ gone.how = "gone"
      /\ DOMAIN NotBegun = OwnerFields /\ NotBegun.phase = "idle" /\ NotBegun.act = "none"
      /\ NotBegun.n = 0 /\ NotBegun.reply = "none" /\ NotBegun.how = "none"
  BY DEF NotBegun, OwnerFields
<1>4. owner' = [t \in ManualTurn |-> IF owner[t].phase \in {"idle", "over"} THEN owner[t]
                                     ELSE IF again THEN NotBegun ELSE gone]
  BY <1>2
<1> HIDE DEF gone
<1>5. /\ DOMAIN owner' = ManualTurn
      /\ \A t \in ManualTurn :
            owner'[t] = IF owner[t].phase \in {"idle", "over"} THEN owner[t]
                        ELSE IF again THEN NotBegun ELSE gone
  BY <1>4
<1>6. pid \in Nat /\ pid \in 1..pid' /\ pid' \in 1..MAX_PIDS /\ 1..pid \subseteq 1..pid' /\ pid' \notin 1..pid
  BY <1>0, <1>1, ManualBounds, SMT DEF CountTypes
<1>7. OwnerTypes'
  BY <1>0, <1>3, <1>5 DEF OwnerTypes, OwnerPhases, Answers, Hows
<1>8. TabTypes' /\ WireTypes' /\ CountTypes'
  BY <1>0, <1>1, <1>6 DEF TabTypes, WireTypes, CountTypes
<1>9. MemoryTypes'
  <2> DEFINE E == [turn : ManualTurn, pid : 1..pid, status : Statuses]
             D == [turn : ManualTurn, pid : 1..pid]
             E2 == [turn : ManualTurn, pid : 1..pid', status : Statuses]
             D2 == [turn : ManualTurn, pid : 1..pid']
  <2>1. E \subseteq E2 /\ D \subseteq D2
    BY <1>6
  <2>2. ends \in Seq(E) /\ dones \in Seq(D) /\ Once(ends) /\ Once(dones)
    BY <1>0 DEF MemoryTypes
  <2> HIDE DEF E, D
  <2>3. ends \in Seq(E2) /\ dones \in Seq(D2)
    BY <2>1, <2>2, SeqMonotonic
  <2> QED
    BY <1>1, <2>2, <2>3 DEF MemoryTypes
<1>10. OwnerBooks'
  BY <1>0, <1>3, <1>5 DEF OwnerBooks, Finals
<1>11. WireBooks'
  BY <1>1 DEF WireBooks
<1>12. TabsInOrder'
  <2>1. \A b \in tabs : b.pid # pid'
    BY <1>0, <1>6 DEF TabTypes
  <2>2. \A u \in ManualTurn : ~In(ends, u, pid')
    <3> DEFINE S == [turn : ManualTurn, pid : 1..pid, status : Statuses]
    <3>1. ends \in Seq(S) /\ \A x \in S : x.pid \in 1..pid
      BY <1>0 DEF MemoryTypes
    <3> HIDE DEF S
    <3>2. DOMAIN ends = 1..Len(ends)
      BY <3>1, SMT
    <3>3. \A i \in DOMAIN ends : ends[i].pid \in 1..pid
      BY <3>1, <3>2, ElementOfSeq
    <3> QED
      BY <1>6, <3>3 DEF In
  <2>3. /\ \A b, c \in tabs : b.turn = c.turn => b = c
        /\ \A b \in tabs : (b.state = "completed" <=> Of(dones, b.turn)) /\ b.turn \in ManualTurn
    BY <1>0 DEF TabsInOrder, TabTypes
  <2> QED
    BY <1>1, <2>1, <2>2, <2>3 DEF TabsInOrder
<1>13. \A t \in ManualTurn : owner'[t].phase \in {"idle", "over"}
  BY <1>3, <1>5
<1>14. GivenBooks'
  <2>1. \A t \in ManualTurn : ~Given(t)' /\ ~Started(t)' /\ owner'[t].phase # "ending"
    BY <1>13 DEF Given, Started, Alive
  <2>2. \A t \in ManualTurn : Answered(t)' => Answered(t)
    BY <1>3, <1>5 DEF Answered
  <2>3. \A t \in ManualTurn : Answered(t) => \A b \in tabs : b.turn = t => b.state = "completed"
    BY <1>0 DEF GivenBooks
  <2> QED
    BY <1>1, <2>1, <2>2, <2>3 DEF GivenBooks
<1>15. RetainedBooks'
  <2>1. Clean' => Clean
    <3>1. \A t \in ManualTurn : owner[t].how # "none" => owner[t].phase = "over"
      BY <1>0 DEF OwnerBooks
    <3> QED
      BY <1>3, <1>5, <3>1 DEF Clean
  <2>2. \A b \in tabs : b.pid # pid'
    BY <1>0, <1>6 DEF TabTypes
  <2> QED
    BY <1>0, <1>1, <2>1, <2>2 DEF RetainedBooks, Reusable
<1> QED
  BY <1>7, <1>8, <1>9, <1>10, <1>11, <1>12, <1>14, <1>15 DEF ManualCtlIInv, ControlTypes

-----------------------------------------------------------------------------
\* The invariant holds at first, and every step keeps it.
LEMMA ManualCtlInit == MCInit => ManualCtlIInv
<1> SUFFICES ASSUME MCInit PROVE ManualCtlIInv
  OBVIOUS
<1>1. /\ tabs = {} /\ ends = <<>> /\ dones = <<>> /\ wire = {} /\ pid = 1 /\ late = 0
      /\ owner = [t \in ManualTurn |-> NotBegun]
  BY DEF MCInit
<1>2. /\ DOMAIN NotBegun = OwnerFields /\ NotBegun.phase = "idle" /\ NotBegun.act = "none"
      /\ NotBegun.n = 0 /\ NotBegun.reply = "none" /\ NotBegun.how = "none"
  BY DEF NotBegun, OwnerFields
<1>3. TabTypes /\ WireTypes
  BY <1>1 DEF TabTypes, WireTypes
<1>4. OwnerTypes
  BY <1>1, <1>2 DEF OwnerTypes, OwnerPhases, Answers, Hows
<1>5. MemoryTypes
  <2>1. DOMAIN ends = {} /\ DOMAIN dones = {}
    BY <1>1, SMT
  <2>2. ends \in Seq([turn : ManualTurn, pid : 1..pid, status : Statuses])
    BY <1>1, EmptySeq
  <2>3. dones \in Seq([turn : ManualTurn, pid : 1..pid])
    BY <1>1, EmptySeq
  <2> QED
    BY <2>1, <2>2, <2>3 DEF MemoryTypes, Once
<1>6. CountTypes
  BY <1>1, ManualBounds, SMT DEF CountTypes
<1>7. OwnerBooks
  BY <1>1, <1>2 DEF OwnerBooks, Finals
<1>8. WireBooks /\ TabsInOrder
  BY <1>1 DEF WireBooks, TabsInOrder
<1>9. GivenBooks
  BY <1>1, <1>2 DEF GivenBooks, Given, Started, Answered, Alive
<1>10. RetainedBooks
  BY <1>1 DEF RetainedBooks, Reusable
<1> QED
  BY <1>3, <1>4, <1>5, <1>6, <1>7, <1>8, <1>9, <1>10 DEF ManualCtlIInv, ControlTypes

LEMMA ManualCtlStep ==
    ASSUME Cardinality(ManualTurn) <= MAX_SIGNALS, ManualCtlIInv, [MCtlNext]_manualVars
    PROVE  ManualCtlIInv'
<1>1. ASSUME NEW t \in ManualTurn,
             TurnBegins(t) \/ TakesReply(t) \/ Marks(t) \/ Completes(t) \/ Aborts(t)
                \/ SeesTerminal(t) \/ TimesOut(t)
      PROVE  ManualCtlIInv'
  BY <1>1, StepTurnBegins, StepTakesReply, StepMarks, StepEndings, StepTimesOut
<1>2. ASSUME NEW r \in wire, HandleStart(r) \/ HandleWaitSent(r) \/ HandleStarted(r) \/ HandleEnd(r)
      PROVE  ManualCtlIInv'
  BY <1>2, StepStart, StepWaitSent, StepStarted, StepEnd
<1>3. CASE UserSent \/ SubmitDeadline \/ TabCloses \/ DaemonReplaced
  BY <1>3, StepUserSent, StepSubmitDeadline, StepTabCloses, StepDaemonReplaced
<1>4. CASE UNCHANGED manualVars
  BY <1>4 DEF manualVars, ManualCtlIInv, ControlTypes, TabTypes, WireTypes, OwnerTypes, MemoryTypes,
     CountTypes, OwnerBooks, WireBooks, TabsInOrder, GivenBooks, RetainedBooks, Given, Started,
     Answered, Settled, Clean, Reusable
<1> QED
  BY <1>1, <1>2, <1>3, <1>4, Zenon DEF MCtlNext, HandleRequest

\* A set without two different members has at most one.
LEMMA AtMostOne ==
    ASSUME NEW S, \A x, y \in S : x = y PROVE Cardinality(S) <= 1
<1>1. CASE S = {}
  BY <1>1, FS_EmptySet, SMT
<1>2. CASE S # {}
  <2>1. PICK x \in S : TRUE
    BY <1>2
  <2>2. S = {x}
    BY <2>1
  <2> QED
    BY <2>2, FS_Singleton, SMT
<1> QED
  BY <1>1, <1>2

\* It says what the run checks.
LEMMA ManualCtlImplies == ManualCtlIInv => ManualControlInv
<1> SUFFICES ASSUME ManualCtlIInv PROVE ManualControlInv
  OBVIOUS
<1>1. ManualTypeOK
  BY ManualBounds, SMT DEF ManualCtlIInv, ControlTypes, TabTypes, WireTypes, CountTypes, ManualTypeOK
<1>2. OneTabEach
  <2>1. \A t \in ManualTurn : Cardinality(TabOf(t)) <= 1
    <3> TAKE t \in ManualTurn
    <3>1. \A x, y \in TabOf(t) : x = y
      BY DEF ManualCtlIInv, TabsInOrder, TabOf
    <3> QED
      BY <3>1, AtMostOne
  <2>2. Clean => Cardinality(Reusable) <= 1
    <3> HAVE Clean
    <3>1. \A x, y \in Reusable : x = y
      BY DEF ManualCtlIInv, RetainedBooks
    <3> QED
      BY <3>1, AtMostOne
  <2> QED
    BY <2>1, <2>2 DEF OneTabEach, Clean
<1>3. LeaseHolds
  <2> SUFFICES ASSUME NEW t \in ManualTurn,
                      owner[t].phase \in {"waiting", "sent", "marking", "running"}
               PROVE  Ended(t, pid) # {} \/ \E b \in TabOf(t) : b.pid = pid
    BY DEF LeaseHolds
  <2>1. Given(t) /\ owner[t].phase # "ending"
    BY DEF Given, Alive
  <2>2. In(ends, t, pid) \/ \E b \in tabs : b.turn = t /\ b.pid = pid
    BY <2>1 DEF ManualCtlIInv, GivenBooks, Settled
  <2>3. In(ends, t, pid) => Ended(t, pid) # {}
    BY DEF In, Ended
  <2> QED
    BY <2>2, <2>3 DEF TabOf
<1>4. NoGhostTab
  BY DEF ManualCtlIInv, GivenBooks, Answered, NoGhostTab, TabOf
<1> QED
  BY <1>1, <1>2, <1>3, <1>4 DEF ManualControlInv

\* launcherManualRequest and the manual half of browser-host.cjs: whatever is lost, late,
\* repeated or handled after a new daemon has come, each Zero Risk turn has one tab, keeps it
\* or is told, and leaves none at work; for any number of turns that the memory of endings
\* holds (MAX_MANUAL_TERMINAL_SIGNALS), of late answers and of daemons.
THEOREM ManualControlCorrect ==
    Cardinality(ManualTurn) <= MAX_SIGNALS => (MCtlSpec => []ManualControlInv)
<1> SUFFICES ASSUME Cardinality(ManualTurn) <= MAX_SIGNALS PROVE MCtlSpec => []ManualControlInv
  OBVIOUS
<1>1. ManualCtlIInv /\ [MCtlNext]_manualVars => ManualCtlIInv'
  BY ManualCtlStep
<1> QED
  BY <1>1, ManualCtlInit, ManualCtlImplies, PTL DEF MCtlSpec

-----------------------------------------------------------------------------
(* ZeroRiskTurn *)


WaiterState == Registered \cup {"none", "resolved", "rejected"}
CallState == {"idle", "claiming", "claimed", "pending", "delivered", "answered", "done"}

FieldTypes ==
    /\ tab \in {"none", "awaiting-user", "sent", "running", "completed", "timed-out", "cancelled", "closed"}
    /\ terminal \in {"none", "timeout", "cancelled", "failed"}
    /\ runner \in {"register", "open", "waitSent", "confirm", "waitStart", "mark",
                   "waitCompletion", "end", "failing", "answered", "failed"}
    /\ outcome \in SafeAnswer \cup {"none", "error"}
    /\ observer \in {"arm", "waitStart", "waitTools", "tools", "finish", "closed"}
    /\ channel \in {"none", "active", "retired"}
    /\ state \in {"awaiting_start", "running", "completed", "revoked"}
    /\ finalAnswer \in SafeAnswer \cup {"none"}
    /\ completion \in [Completion -> {"idle", "completing", "accepted", "refused"}]
    /\ faults \in 0..FAULTS
FlagTypes ==
    /\ confirmed \in BOOLEAN /\ asked \in BOOLEAN /\ launcherStarted \in BOOLEAN
    /\ aborted \in BOOLEAN /\ externallyAborted \in BOOLEAN
    /\ launcherSent \in BOOLEAN /\ connectorStarted \in BOOLEAN

ManualTypes ==
    /\ FieldTypes /\ FlagTypes
    /\ waiter \in [Waiter -> WaiterState] /\ safeCall \in [SafeCall -> CallState]

\* The block and the channel move together, and the run opens both.
ChannelBooks ==
    /\ channel = "none" <=> runner = "register"
    /\ channel = "none" => observer \in {"arm", "closed"}
    /\ channel = "retired" <=> state = "revoked"
    /\ channel = "none" => state = "awaiting_start"
    /\ runner \in {"register", "open", "waitSent", "confirm"} => ~launcherSent
    /\ state \in {"running", "completed"} => launcherSent
    /\ Active /\ launcherSent /\ connectorStarted => state # "awaiting_start"

\* What could only happen after Sent shows that Sent was pressed.
SentBooks ==
    ~confirmed => /\ ~launcherSent /\ Activities = {} /\ finalAnswer = "none"
                  /\ tab \notin {"sent", "running"} /\ runner # "confirm"

\* An answer is fixed by the completion and by nothing else.
AnswerBooks ==
    /\ state \in {"awaiting_start", "running"} => finalAnswer = "none"
    /\ OneAnswer

\* A run whose start has been confirmed has a turn that runs.
StartBooks ==
    Active => /\ runner \in {"mark", "waitCompletion", "end"} => state \in {"running", "completed"}
              /\ runner = "waitStart" /\ waiter["adapter"] = "resolved" => state \in {"running", "completed"}

\* Whoever ends a turn that still runs was asked to.
Failing == runner \in {"failing", "answered", "failed"}
EndBooks ==
    /\ aborted \/ channel = "retired" => asked \/ Failing
    /\ externallyAborted \/ terminal = "cancelled" \/ tab = "cancelled" => asked
    /\ outcome # "none" => asked \/ RunEnded

\* A run that has seen Sent holds a tab that was sent.
TabBooks ==
    /\ runner \in {"confirm", "waitStart", "mark", "waitCompletion", "end"} =>
           launcherStarted /\ tab \in {"sent", "running", "cancelled", "closed"}
    /\ runner = "waitSent" => launcherStarted
    /\ Failing /\ runner # "answered" /\ ~launcherStarted => faults > 0
    /\ TabIsReleased

ManualIInv ==
    /\ ManualTypes /\ ChannelBooks /\ SentBooks /\ AnswerBooks /\ QuietCompletion
    /\ NoLostWaiter /\ StartBooks /\ EndBooks /\ TabBooks

LEMMA TypesAre == ManualTypes <=> ZeroRiskTypeOK
BY ZenonT(30) DEF ZeroRiskTypeOK, ManualTypes, FieldTypes, FlagTypes, WaiterState, CallState

LEMMA SettledIsTyped ==
    ASSUME NEW ws \in [Waiter -> WaiterState], NEW sets, NEW result \in WaiterState
    PROVE  Settle(ws, sets, result) \in [Waiter -> WaiterState]
BY DEF Settle

USE AnswerKinds, FaultBound DEF ManualIInv, ManualTypes, ChannelBooks, SentBooks, AnswerBooks,
        QuietCompletion, NoLostWaiter, StartBooks, EndBooks, TabBooks, Waiter, WaiterState, Settle,
        FieldTypes, FlagTypes, CallState, Active, Activities, OneAnswer, MustWaitForSent,
        Invocations, Failing, RunEnded, TabIsReleased, Registered

-----------------------------------------------------------------------------
(* The requests of ChatGPT *)

LEMMA StartSafeTurnKeeps ==
    ASSUME ManualIInv, StartSafeTurn
    PROVE  ManualIInv'
<1> USE DEF StartSafeTurn, Knows, Activate, launcherVars, runnerVars, StartsTurn
<1>1. ManualTypes'
  BY SMTT(30)
<1>2. ChannelBooks' /\ SentBooks'
  BY SMTT(30)
<1>3. AnswerBooks' /\ QuietCompletion'
  BY SMTT(30)
<1>4. NoLostWaiter' /\ StartBooks'
  BY SMTT(30)
<1>5. EndBooks' /\ TabBooks'
  BY SMTT(30)
<1> QED
  BY <1>1, <1>2, <1>3, <1>4, <1>5

LEMMA ClaimKeeps ==
    ASSUME NEW c \in SafeCall, ManualIInv, Claim(c)
    PROVE  ManualIInv'
<1> USE DEF Claim, Knows, ClaimResult, launcherVars, runnerVars, safeVars, HarnessRunning
<1>1. ManualTypes'
  BY SMTT(30)
<1>2. ChannelBooks' /\ SentBooks'
  BY SMTT(30)
<1>3. AnswerBooks' /\ QuietCompletion'
  BY SMTT(30)
<1>4. NoLostWaiter' /\ StartBooks'
  BY SMTT(30)
<1>5. EndBooks' /\ TabBooks'
  BY SMTT(30)
<1> QED
  BY <1>1, <1>2, <1>3, <1>4, <1>5

LEMMA RequestCompletionKeeps ==
    ASSUME NEW k \in Completion, ManualIInv, RequestCompletion(k)
    PROVE  ManualIInv'
<1> USE DEF RequestCompletion, Knows, safeVars, CompleteSafeTurn, launcherVars, runnerVars, Repeats,
        MayComplete, ResolvesCompletion
<1>1. ManualTypes'
  BY SMTT(30)
<1>2. ChannelBooks' /\ SentBooks'
  BY SMTT(30)
<1>3. AnswerBooks' /\ QuietCompletion'
  BY SMTT(30)
<1>4. NoLostWaiter' /\ StartBooks'
  BY SMTT(30)
<1>5. EndBooks' /\ TabBooks'
  BY SMTT(30)
<1> QED
  BY <1>1, <1>2, <1>3, <1>4, <1>5

-----------------------------------------------------------------------------
(* The handlers of the daemon *)

LEMMA ResumeClaimKeeps ==
    ASSUME NEW c \in SafeCall, ManualIInv, ResumeClaim(c)
    PROVE  ManualIInv'
<1> USE DEF ResumeClaim, Held, ClaimResult, launcherVars, runnerVars, safeVars, HarnessRunning
<1>1. ManualTypes'
  BY SMTT(30)
<1>2. ChannelBooks' /\ SentBooks'
  BY SMTT(30)
<1>3. AnswerBooks' /\ QuietCompletion'
  BY SMTT(30)
<1>4. NoLostWaiter' /\ StartBooks'
  BY SMTT(30)
<1>5. EndBooks' /\ TabBooks'
  BY SMTT(30)
<1> QED
  BY <1>1, <1>2, <1>3, <1>4, <1>5

LEMMA InvokeKeeps ==
    ASSUME NEW c \in SafeCall, ManualIInv, Invoke(c)
    PROVE  ManualIInv'
<1> USE DEF Invoke, HarnessRunning, launcherVars, runnerVars, safeVars
<1>1. ManualTypes'
  BY SMTT(30)
<1>2. ChannelBooks' /\ SentBooks'
  BY SMTT(30)
<1>3. AnswerBooks' /\ QuietCompletion'
  BY SMTT(30)
<1>4. NoLostWaiter' /\ StartBooks'
  BY SMTT(30)
<1>5. EndBooks' /\ TabBooks'
  BY SMTT(30)
<1> QED
  BY <1>1, <1>2, <1>3, <1>4, <1>5

LEMMA EndActivityKeeps ==
    ASSUME NEW c \in SafeCall, ManualIInv, EndActivity(c)
    PROVE  ManualIInv'
<1> USE DEF EndActivity, launcherVars, runnerVars, safeVars
<1>1. ManualTypes'
  BY SMTT(30)
<1>2. ChannelBooks' /\ SentBooks'
  BY SMTT(30)
<1>3. AnswerBooks' /\ QuietCompletion'
  BY SMTT(30)
<1>4. NoLostWaiter' /\ StartBooks'
  BY SMTT(30)
<1>5. EndBooks' /\ TabBooks'
  BY SMTT(30)
<1> QED
  BY <1>1, <1>2, <1>3, <1>4, <1>5

LEMMA ResumeCompletionKeeps ==
    ASSUME NEW k \in Completion, ManualIInv, ResumeCompletion(k)
    PROVE  ManualIInv'
<1> USE DEF ResumeCompletion, Held, CompleteSafeTurn, safeVars, launcherVars, runnerVars, Repeats,
        MayComplete, ResolvesCompletion
<1>1. ManualTypes'
  BY SMTT(30)
<1>2. ChannelBooks' /\ SentBooks'
  BY SMTT(30)
<1>3. AnswerBooks' /\ QuietCompletion'
  BY SMTT(30)
<1>4. NoLostWaiter' /\ StartBooks'
  BY SMTT(30)
<1>5. EndBooks' /\ TabBooks'
  BY SMTT(30)
<1> QED
  BY <1>1, <1>2, <1>3, <1>4, <1>5

-----------------------------------------------------------------------------
(* Requests given up *)

LEMMA ReleaseKeeps ==
    ASSUME NEW c \in SafeCall, ManualIInv, Release(c)
    PROVE  ManualIInv'
<1> USE DEF Release, RevokeChannel, runnerVars, Rejected, DropInvocations, safeVars
<1>1. ManualTypes'
  BY SMTT(30)
<1>2. ChannelBooks' /\ SentBooks'
  BY SMTT(30)
<1>3. AnswerBooks' /\ QuietCompletion'
  BY SMTT(30)
<1>4. NoLostWaiter' /\ StartBooks'
  BY SMTT(30)
<1>5. EndBooks' /\ TabBooks'
  BY SMTT(30)
<1> QED
  BY <1>1, <1>2, <1>3, <1>4, <1>5

LEMMA AbandonHeldKeeps ==
    ASSUME NEW r \in SafeCall \cup Completion, ManualIInv, AbandonHeld(r)
    PROVE  ManualIInv'
<1> USE DEF AbandonHeld, Held, launcherVars, runnerVars, safeVars
<1>1. ManualTypes'
  BY SMTT(30)
<1>2. ChannelBooks' /\ SentBooks'
  BY SMTT(30)
<1>3. AnswerBooks' /\ QuietCompletion'
  BY SMTT(30)
<1>4. NoLostWaiter' /\ StartBooks'
  BY SMTT(30)
<1>5. EndBooks' /\ TabBooks'
  BY SMTT(30)
<1> QED
  BY <1>1, <1>2, <1>3, <1>4, <1>5

-----------------------------------------------------------------------------
(* The user *)

LEMMA ConfirmManualSentKeeps ==
    ASSUME ManualIInv, ConfirmManualSent
    PROVE  ManualIInv'
<1> USE DEF ConfirmManualSent, runnerVars, safeVars
<1>1. ManualTypes'
  BY SMTT(30)
<1>2. ChannelBooks' /\ SentBooks'
  BY SMTT(30)
<1>3. AnswerBooks' /\ QuietCompletion'
  BY SMTT(30)
<1>4. NoLostWaiter' /\ StartBooks'
  BY SMTT(30)
<1>5. EndBooks' /\ TabBooks'
  BY SMTT(30)
<1> QED
  BY <1>1, <1>2, <1>3, <1>4, <1>5

LEMMA UserClosesTabKeeps ==
    ASSUME ManualIInv, UserClosesTab
    PROVE  ManualIInv'
<1> USE DEF UserClosesTab, Open, runnerVars, safeVars
<1>1. ManualTypes'
  BY SMTT(30)
<1>2. ChannelBooks' /\ SentBooks'
  BY SMTT(30)
<1>3. AnswerBooks' /\ QuietCompletion'
  BY SMTT(30)
<1>4. NoLostWaiter' /\ StartBooks'
  BY SMTT(30)
<1>5. EndBooks' /\ TabBooks'
  BY SMTT(30)
<1> QED
  BY <1>1, <1>2, <1>3, <1>4, <1>5

-----------------------------------------------------------------------------
(* The Launcher *)

LEMMA DeadlinePassesKeeps ==
    ASSUME ManualIInv, DeadlinePasses
    PROVE  ManualIInv'
<1> USE DEF DeadlinePasses, runnerVars, safeVars
<1>1. ManualTypes'
  BY SMTT(30)
<1>2. ChannelBooks' /\ SentBooks'
  BY SMTT(30)
<1>3. AnswerBooks' /\ QuietCompletion'
  BY SMTT(30)
<1>4. NoLostWaiter' /\ StartBooks'
  BY SMTT(30)
<1>5. EndBooks' /\ TabBooks'
  BY SMTT(30)
<1> QED
  BY <1>1, <1>2, <1>3, <1>4, <1>5

LEMMA RuntimeIsToldKeeps ==
    ASSUME ManualIInv, RuntimeIsTold
    PROVE  ManualIInv'
<1> USE DEF RuntimeIsTold, CancelSession, Fault, safeVars, AbortWaits, RevokeChannel, Rejected,
        DropInvocations
<1>1. ManualTypes'
  <2>1. waiter' \in [Waiter -> WaiterState]
    BY SMTT(30)
  <2>2. safeCall' \in [SafeCall -> CallState]
    BY SMTT(30)
  <2>3. FieldTypes'
    BY SMTT(30)
  <2>4. FlagTypes'
    BY ZenonT(40)
  <2> QED
    BY <2>1, <2>2, <2>3, <2>4
<1>2. ChannelBooks' /\ SentBooks'
  BY SMTT(30)
<1>3. AnswerBooks' /\ QuietCompletion'
  BY SMTT(30)
<1>4. NoLostWaiter' /\ StartBooks'
  BY SMTT(30)
<1>5. EndBooks' /\ TabBooks'
  BY SMTT(30)
<1> QED
  BY <1>1, <1>2, <1>3, <1>4, <1>5

LEMMA PageFailsKeeps ==
    ASSUME ManualIInv, PageFails
    PROVE  ManualIInv'
<1> USE DEF PageFails, Open, runnerVars, safeVars
<1>1. ManualTypes'
  BY SMTT(30)
<1>2. ChannelBooks' /\ SentBooks'
  BY SMTT(30)
<1>3. AnswerBooks' /\ QuietCompletion'
  BY SMTT(30)
<1>4. NoLostWaiter' /\ StartBooks'
  BY SMTT(30)
<1>5. EndBooks' /\ TabBooks'
  BY SMTT(30)
<1> QED
  BY <1>1, <1>2, <1>3, <1>4, <1>5

-----------------------------------------------------------------------------
(* runManual *)

LEMMA RegisterSafeKeeps ==
    ASSUME ManualIInv, RegisterSafe
    PROVE  ManualIInv'
<1> USE DEF RegisterSafe, Goto, launcherVars
<1>1. ManualTypes'
  BY SMTT(30)
<1>2. ChannelBooks' /\ SentBooks'
  BY SMTT(30)
<1>3. AnswerBooks' /\ QuietCompletion'
  BY SMTT(30)
<1>4. NoLostWaiter' /\ StartBooks'
  BY SMTT(30)
<1>5. EndBooks' /\ TabBooks'
  BY SMTT(30)
<1> QED
  BY <1>1, <1>2, <1>3, <1>4, <1>5

LEMMA OpenTabKeeps ==
    ASSUME ManualIInv, OpenTab
    PROVE  ManualIInv'
<1> USE DEF OpenTab, Goto, safeVars, RunFails, Fault, RevokeChannel, Rejected, DropInvocations
<1>1. ManualTypes'
  <2>1. waiter' \in [Waiter -> WaiterState]
    BY SMTT(30)
  <2>2. safeCall' \in [SafeCall -> CallState]
    BY SMTT(30)
  <2>3. FieldTypes'
    BY SMTT(30)
  <2>4. FlagTypes'
    BY ZenonT(40)
  <2> QED
    BY <2>1, <2>2, <2>3, <2>4
<1>2. ChannelBooks' /\ SentBooks'
  BY SMTT(30)
<1>3. AnswerBooks' /\ QuietCompletion'
  BY SMTT(30)
<1>4. NoLostWaiter' /\ StartBooks'
  BY SMTT(30)
<1>5. EndBooks' /\ TabBooks'
  BY SMTT(30)
<1> QED
  BY <1>1, <1>2, <1>3, <1>4, <1>5

LEMMA WaitSentKeeps ==
    ASSUME ManualIInv, WaitSent
    PROVE  ManualIInv'
<1> USE DEF WaitSent, Goto, safeVars, RunFails, Fault, launcherVars, RevokeChannel, Rejected,
        DropInvocations
<1>1. ManualTypes'
  BY SMTT(30)
<1>2. ChannelBooks' /\ SentBooks'
  BY SMTT(30)
<1>3. AnswerBooks' /\ QuietCompletion'
  BY SMTT(30)
<1>4. NoLostWaiter' /\ StartBooks'
  BY SMTT(30)
<1>5. EndBooks' /\ TabBooks'
  BY SMTT(30)
<1> QED
  BY <1>1, <1>2, <1>3, <1>4, <1>5

LEMMA ConfirmSafeTurnSentKeeps ==
    ASSUME ManualIInv, ConfirmSafeTurnSent
    PROVE  ManualIInv'
<1> USE DEF ConfirmSafeTurnSent, RunFails, Goto, Activate, StartWait, launcherVars, RevokeChannel,
        StartsTurn, Rejected, DropInvocations, safeVars
<1>1. ~Active => ManualTypes' /\ NoLostWaiter' /\ StartBooks'
  <2> SUFFICES ASSUME ~Active PROVE ManualTypes' /\ NoLostWaiter' /\ StartBooks'
    OBVIOUS
  <2>1. FieldTypes' /\ FlagTypes' /\ waiter' \in [Waiter -> WaiterState] /\ safeCall' \in [SafeCall -> CallState]
    BY SMTT(30)
  <2>2. NoLostWaiter' /\ StartBooks'
    BY SMTT(30)
  <2> QED
    BY <2>1, <2>2
<1> DEFINE woken == Settle(waiter, {"sent"}, "resolved")
<1> DEFINE waiting == [woken EXCEPT !["adapter"] = StartWait]
<1>a. woken \in [Waiter -> WaiterState] /\ waiting \in [Waiter -> WaiterState]
  BY SMTT(30)
<1>b. \A w \in Waiter \ {"adapter"} : waiting[w] = IF waiter[w] = "sent" THEN "resolved" ELSE waiter[w]
  BY SMTT(30)
<1>c. waiting["adapter"] = StartWait
  BY SMTT(30), <1>a
<1>d. Active => IF StartsTurn(TRUE, connectorStarted)
                THEN waiter' = Settle(waiting, {"start"}, "resolved") ELSE waiter' = waiting
  BY SMTT(30)
<1>2. Active => ManualTypes' /\ NoLostWaiter' /\ StartBooks'
  <2> SUFFICES ASSUME Active PROVE ManualTypes' /\ NoLostWaiter' /\ StartBooks'
    OBVIOUS
  <2>2. /\ safeCall' = safeCall /\ completion' = completion /\ channel' = channel /\ launcherSent' = TRUE
        /\ state' = IF connectorStarted THEN "running" ELSE state
        /\ runner' = "waitStart" /\ connectorStarted' = connectorStarted /\ state = "awaiting_start"
    BY SMTT(30)
  <2>4. FieldTypes' /\ FlagTypes'
    BY SMTT(30)
  <2>5. ~connectorStarted => waiter'["adapter"] # "resolved"
    BY <1>c, <1>d, SMTT(30)
  <2> HIDE DEF ConfirmSafeTurnSent, woken, waiting, Settle
  <2>0. Settle(waiting, {"start"}, "resolved") \in [Waiter -> WaiterState]
    BY <1>a, SettledIsTyped
  <2>9. \A w \in Waiter : Settle(waiting, {"start"}, "resolved")[w]
                           = IF waiting[w] = "start" THEN "resolved" ELSE waiting[w]
    BY DEF Settle
  <2>1. waiter' \in [Waiter -> WaiterState]
    BY <1>a, <1>d, <2>0
  <2>a. \A w \in Waiter : waiting[w] \notin {"sent", "completion"}
    BY <1>b, <1>c, <2>2, SMTT(30) DEF StartWait
  <2>3. \A w \in Waiter : waiter'[w] \notin {"sent", "completion"} /\ (connectorStarted => waiter'[w] # "start")
    BY <1>d, <2>2, <2>9, <2>a, SMTT(30) DEF StartsTurn
  <2>6. NoLostWaiter'
    BY <2>1, <2>2, <2>3, SMTT(30)
  <2>7. StartBooks'
    BY <2>2, <2>5, SMTT(30)
  <2>8. safeCall' \in [SafeCall -> CallState]
    BY <2>2, SMTT(30)
  <2> QED
    BY <2>1, <2>8, <2>4, <2>6, <2>7
<1>3. ChannelBooks' /\ SentBooks'
  BY SMTT(30)
<1>4. AnswerBooks' /\ QuietCompletion'
  BY SMTT(30)
<1>5. EndBooks' /\ TabBooks'
  BY SMTT(30)
<1> QED
  BY <1>1, <1>2, <1>3, <1>4, <1>5

LEMMA LosesRaceKeeps ==
    ASSUME ManualIInv, LosesRace
    PROVE  ManualIInv'
<1> USE DEF LosesRace, RaceLost, Fault, RunFails, launcherVars, TerminalSeen, RevokeChannel,
        Rejected, DropInvocations, safeVars
<1>1. ManualTypes'
  BY SMTT(30)
<1>2. ChannelBooks' /\ SentBooks'
  BY SMTT(30)
<1>3. AnswerBooks' /\ QuietCompletion'
  BY SMTT(30)
<1>4. NoLostWaiter' /\ StartBooks'
  BY SMTT(30)
<1>5. EndBooks' /\ TabBooks'
  BY SMTT(30)
<1> QED
  BY <1>1, <1>2, <1>3, <1>4, <1>5

LEMMA SafeStartedKeeps ==
    ASSUME ManualIInv, SafeStarted
    PROVE  ManualIInv'
<1> USE DEF SafeStarted, Goto, launcherVars, safeVars
<1>1. ManualTypes'
  BY SMTT(30)
<1>2. ChannelBooks' /\ SentBooks'
  BY SMTT(30)
<1>3. AnswerBooks' /\ QuietCompletion'
  BY SMTT(30)
<1>4. NoLostWaiter' /\ StartBooks'
  BY SMTT(30)
<1>5. EndBooks' /\ TabBooks'
  BY SMTT(30)
<1> QED
  BY <1>1, <1>2, <1>3, <1>4, <1>5

LEMMA MarkStartedKeeps ==
    ASSUME ManualIInv, MarkStarted
    PROVE  ManualIInv'
<1> USE DEF MarkStarted, Goto, CompletionWait, safeVars, RunFails, Fault, RevokeChannel, Rejected,
        DropInvocations
<1>1. ManualTypes'
  BY SMTT(30)
<1>2. ChannelBooks' /\ SentBooks'
  BY SMTT(30)
<1>3. AnswerBooks' /\ QuietCompletion'
  BY SMTT(30)
<1>4. NoLostWaiter' /\ StartBooks'
  BY SMTT(30)
<1>5. EndBooks' /\ TabBooks'
  BY SMTT(30)
<1> QED
  BY <1>1, <1>2, <1>3, <1>4, <1>5

LEMMA TakeAnswerKeeps ==
    ASSUME ManualIInv, TakeAnswer
    PROVE  ManualIInv'
<1> USE DEF TakeAnswer, Goto, launcherVars, safeVars
<1>1. ManualTypes'
  BY SMTT(30)
<1>2. ChannelBooks' /\ SentBooks'
  BY SMTT(30)
<1>3. AnswerBooks' /\ QuietCompletion'
  BY SMTT(30)
<1>4. NoLostWaiter' /\ StartBooks'
  BY SMTT(30)
<1>5. EndBooks' /\ TabBooks'
  BY SMTT(30)
<1> QED
  BY <1>1, <1>2, <1>3, <1>4, <1>5

LEMMA EndCompletedKeeps ==
    ASSUME ManualIInv, EndCompleted
    PROVE  ManualIInv'
<1> USE DEF EndCompleted, Goto, Fault, safeVars
<1>1. ManualTypes'
  BY SMTT(30)
<1>2. ChannelBooks' /\ SentBooks'
  BY SMTT(30)
<1>3. AnswerBooks' /\ QuietCompletion'
  BY SMTT(30)
<1>4. NoLostWaiter' /\ StartBooks'
  BY SMTT(30)
<1>5. EndBooks' /\ TabBooks'
  BY SMTT(30)
<1> QED
  BY <1>1, <1>2, <1>3, <1>4, <1>5

LEMMA EndFailedKeeps ==
    ASSUME ManualIInv, EndFailed
    PROVE  ManualIInv'
<1> USE DEF EndFailed, Goto, EndsTab, EndStatus, Fault, safeVars
<1>1. ManualTypes'
  BY SMTT(30)
<1>2. ChannelBooks' /\ SentBooks'
  BY SMTT(30)
<1>3. AnswerBooks' /\ QuietCompletion'
  BY SMTT(30)
<1>4. NoLostWaiter' /\ StartBooks'
  BY SMTT(30)
<1>5. EndBooks' /\ TabBooks'
  BY SMTT(30)
<1> QED
  BY <1>1, <1>2, <1>3, <1>4, <1>5

-----------------------------------------------------------------------------
(* The Responses request that observes the turn *)

LEMMA ArmKeeps ==
    ASSUME ManualIInv, Arm
    PROVE  ManualIInv'
<1> USE DEF Arm, Observe, safeVars, NextToolBatch, RunVars, ObserverFails, Queued, DeliverQueued,
        launcherVars, CancelSession, AbortWaits, RevokeChannel, Rejected, DropInvocations
<1>1. ManualTypes'
  <2>1. waiter' \in [Waiter -> WaiterState]
    BY SMTT(30)
  <2>2. safeCall' \in [SafeCall -> CallState]
    BY SMTT(30)
  <2>3. FieldTypes'
    BY SMTT(30)
  <2>4. FlagTypes'
    BY ZenonT(40)
  <2> QED
    BY <2>1, <2>2, <2>3, <2>4
<1>2. ChannelBooks' /\ SentBooks'
  BY SMTT(30)
<1>3. AnswerBooks' /\ QuietCompletion'
  BY SMTT(30)
<1>4. NoLostWaiter' /\ StartBooks'
  BY SMTT(30)
<1>5. EndBooks' /\ TabBooks'
  BY SMTT(30)
<1> QED
  BY <1>1, <1>2, <1>3, <1>4, <1>5

LEMMA ObserverStartedKeeps ==
    ASSUME ManualIInv, ObserverStarted
    PROVE  ManualIInv'
<1> USE DEF ObserverStarted, NextToolBatch, RunVars, ObserverFails, Observe, Queued, DeliverQueued,
        safeVars, launcherVars, CancelSession, AbortWaits, RevokeChannel, Rejected, DropInvocations
<1>1. ManualTypes'
  <2>1. waiter' \in [Waiter -> WaiterState]
    BY SMTT(30)
  <2>2. safeCall' \in [SafeCall -> CallState]
    BY SMTT(30)
  <2>3. FieldTypes'
    BY SMTT(30)
  <2>4. FlagTypes'
    BY ZenonT(40)
  <2> QED
    BY <2>1, <2>2, <2>3, <2>4
<1>2. ChannelBooks' /\ SentBooks'
  BY SMTT(30)
<1>3. AnswerBooks' /\ QuietCompletion'
  BY SMTT(30)
<1>4. NoLostWaiter' /\ StartBooks'
  BY SMTT(30)
<1>5. EndBooks' /\ TabBooks'
  BY SMTT(30)
<1> QED
  BY <1>1, <1>2, <1>3, <1>4, <1>5

LEMMA BatchArrivesKeeps ==
    ASSUME ManualIInv, BatchArrives
    PROVE  ManualIInv'
<1> USE DEF BatchArrives, Queued, NextToolBatch, RunVars, ObserverFails, Observe, DeliverQueued,
        safeVars, launcherVars, CancelSession, AbortWaits, RevokeChannel, Rejected, DropInvocations
<1>1. ManualTypes'
  <2>1. waiter' \in [Waiter -> WaiterState]
    BY SMTT(30)
  <2>2. safeCall' \in [SafeCall -> CallState]
    BY SMTT(30)
  <2>3. FieldTypes'
    BY SMTT(30)
  <2>4. FlagTypes'
    BY ZenonT(40)
  <2> QED
    BY <2>1, <2>2, <2>3, <2>4
<1>2. ChannelBooks' /\ SentBooks'
  BY SMTT(30)
<1>3. AnswerBooks' /\ QuietCompletion'
  BY SMTT(30)
<1>4. NoLostWaiter' /\ StartBooks'
  BY SMTT(30)
<1>5. EndBooks' /\ TabBooks'
  BY SMTT(30)
<1> QED
  BY <1>1, <1>2, <1>3, <1>4, <1>5

LEMMA ReturnResultsKeeps ==
    ASSUME ManualIInv, ReturnResults
    PROVE  ManualIInv'
<1> USE DEF ReturnResults, Observe, safeVars, ObserverFails, RunVars, CancelSession, launcherVars,
        AbortWaits, RevokeChannel, Rejected, DropInvocations
<1>1. ManualTypes'
  <2>1. waiter' \in [Waiter -> WaiterState]
    BY SMTT(30)
  <2>2. safeCall' \in [SafeCall -> CallState]
    BY SMTT(30)
  <2>3. FieldTypes'
    BY SMTT(30)
  <2>4. FlagTypes'
    BY ZenonT(40)
  <2> QED
    BY <2>1, <2>2, <2>3, <2>4
<1>2. ChannelBooks' /\ SentBooks'
  BY SMTT(30)
<1>3. AnswerBooks' /\ QuietCompletion'
  BY SMTT(30)
<1>4. NoLostWaiter' /\ StartBooks'
  BY SMTT(30)
<1>5. EndBooks' /\ TabBooks'
  BY SMTT(30)
<1> QED
  BY <1>1, <1>2, <1>3, <1>4, <1>5

LEMMA FinishOutcomeKeeps ==
    ASSUME ManualIInv, FinishOutcome
    PROVE  ManualIInv'
<1> USE DEF FinishOutcome, Waiting, Observe, RevokeChannel, RunVars, Rejected, DropInvocations,
        safeVars, launcherVars
<1>1. ManualTypes'
  BY SMTT(30)
<1>2. ChannelBooks' /\ SentBooks'
  BY SMTT(30)
<1>3. AnswerBooks' /\ QuietCompletion'
  BY SMTT(30)
<1>4. NoLostWaiter' /\ StartBooks'
  BY SMTT(30)
<1>5. EndBooks' /\ TabBooks'
  BY SMTT(30)
<1> QED
  BY <1>1, <1>2, <1>3, <1>4, <1>5

LEMMA CapabilityRetiredKeeps ==
    ASSUME ManualIInv, CapabilityRetired
    PROVE  ManualIInv'
<1> USE DEF CapabilityRetired, AbortWaits, launcherVars, safeVars
<1>1. ManualTypes'
  BY SMTT(30)
<1>2. ChannelBooks' /\ SentBooks'
  BY SMTT(30)
<1>3. AnswerBooks' /\ QuietCompletion'
  BY SMTT(30)
<1>4. NoLostWaiter' /\ StartBooks'
  BY SMTT(30)
<1>5. EndBooks' /\ TabBooks'
  BY SMTT(30)
<1> QED
  BY <1>1, <1>2, <1>3, <1>4, <1>5

LEMMA ObserverDisconnectsKeeps ==
    ASSUME ManualIInv, ObserverDisconnects
    PROVE  ManualIInv'
<1> USE DEF ObserverDisconnects, Waiting, Observe, CancelSession, AbortWaits, safeVars,
        RevokeChannel, Rejected, DropInvocations
<1>1. ManualTypes'
  BY SMTT(30)
<1>2. ChannelBooks' /\ SentBooks'
  BY SMTT(30)
<1>3. AnswerBooks' /\ QuietCompletion'
  BY SMTT(30)
<1>4. NoLostWaiter' /\ StartBooks'
  BY SMTT(30)
<1>5. EndBooks' /\ TabBooks'
  BY SMTT(30)
<1> QED
  BY <1>1, <1>2, <1>3, <1>4, <1>5

LEMMA InterruptKeeps ==
    ASSUME ManualIInv, Interrupt
    PROVE  ManualIInv'
<1> USE DEF Interrupt, CancelSession, Observe, AbortWaits, safeVars, RevokeChannel, Rejected,
        DropInvocations
<1>1. ManualTypes'
  BY SMTT(30)
<1>2. ChannelBooks' /\ SentBooks'
  BY SMTT(30)
<1>3. AnswerBooks' /\ QuietCompletion'
  BY SMTT(30)
<1>4. NoLostWaiter' /\ StartBooks'
  BY SMTT(30)
<1>5. EndBooks' /\ TabBooks'
  BY SMTT(30)
<1> QED
  BY <1>1, <1>2, <1>3, <1>4, <1>5

LEMMA ManualInit == ZeroRiskInit => ManualIInv
<1> SUFFICES ASSUME ZeroRiskInit PROVE ManualIInv
  OBVIOUS
<1> USE DEF ZeroRiskInit
<1>1. ManualTypes
  <2>1. FieldTypes /\ waiter \in [Waiter -> WaiterState] /\ safeCall \in [SafeCall -> CallState]
    BY SMTT(30)
  <2>2. FlagTypes
    BY ZenonT(30)
  <2> QED
    BY <2>1, <2>2
<1>2. ChannelBooks /\ SentBooks /\ AnswerBooks /\ QuietCompletion
  BY SMTT(30)
<1>3. NoLostWaiter /\ StartBooks /\ EndBooks /\ TabBooks
  BY SMTT(30)
<1> QED
  BY <1>1, <1>2, <1>3

LEMMA ManualStutters == ManualIInv /\ UNCHANGED zeroRiskVars => ManualIInv'
BY SMTT(30) DEF zeroRiskVars, launcherVars, runnerVars, safeVars

LEMMA ManualIsSound == ManualIInv => ManualInv
BY TypesAre, SMTT(30) DEF ManualInv, NothingBeforeSent, NoFalseCancellation

HIDE DEF ManualIInv, ManualTypes, ChannelBooks, SentBooks, AnswerBooks, QuietCompletion,
        NoLostWaiter, StartBooks, EndBooks, TabBooks, Waiter, WaiterState, Settle, FieldTypes,
        FlagTypes, CallState, Active, Activities, OneAnswer, MustWaitForSent, Invocations, Failing,
        RunEnded, TabIsReleased, Registered
-----------------------------------------------------------------------------

LEMMA ManualStep == ManualIInv /\ [ZeroRiskNext]_zeroRiskVars => ManualIInv'
<1> SUFFICES ASSUME ManualIInv, [ZeroRiskNext]_zeroRiskVars
             PROVE  ManualIInv'
  OBVIOUS
<1>1. CASE ChatGPT
  BY <1>1, StartSafeTurnKeeps, ClaimKeeps, RequestCompletionKeeps DEF ChatGPT
<1>2. CASE Handlers
  BY <1>2, ResumeClaimKeeps, InvokeKeeps, EndActivityKeeps, ResumeCompletionKeeps DEF Handlers
<1>3. CASE GiveUp
  BY <1>3, ReleaseKeeps, AbandonHeldKeeps DEF GiveUp
<1>4. CASE User
  BY <1>4, ConfirmManualSentKeeps, UserClosesTabKeeps DEF User
<1>5. CASE Launcher
  BY <1>5, DeadlinePassesKeeps, RuntimeIsToldKeeps DEF Launcher
<1>6. CASE RunManual
  BY <1>6, RegisterSafeKeeps, OpenTabKeeps, WaitSentKeeps, ConfirmSafeTurnSentKeeps, LosesRaceKeeps,
     SafeStartedKeeps, MarkStartedKeeps, TakeAnswerKeeps, EndCompletedKeeps, EndFailedKeeps DEF RunManual
<1>7. CASE Codex
  BY <1>7, ArmKeeps, ObserverStartedKeeps, BatchArrivesKeeps, ReturnResultsKeeps, FinishOutcomeKeeps DEF Codex
<1>8. CASE PageFails \/ CapabilityRetired \/ ObserverDisconnects \/ Interrupt
  BY <1>8, PageFailsKeeps, CapabilityRetiredKeeps, ObserverDisconnectsKeeps, InterruptKeeps
<1>9. CASE UNCHANGED zeroRiskVars
  BY <1>9, ManualStutters
<1> QED
  BY <1>1, <1>2, <1>3, <1>4, <1>5, <1>6, <1>7, <1>8, <1>9 DEF ZeroRiskNext, NothingLeft

\* A Zero Risk turn is sound whatever the user, ChatGPT, Codex and the Launcher do, in any order
\* and with any number of requests and failures: nothing is let in before Sent, there is one
\* answer, its end is quiet, nobody waits in vain, no failure is taken for a cancellation, and
\* the tab is given back.
THEOREM ManualCorrect == ZeroRiskSpec => []ManualInv
BY ManualIsSound, ManualInit, ManualStep, PTL DEF ZeroRiskSpec

=============================================================================
