------------------------ MODULE BrowserWorker_proofs ------------------------
(***************************************************************************)
(* Proofs about the browser worker: the time budget of a stage on a        *)
(* machine that sleeps (StageClock), the answer a turn reads from the page *)
(* (TurnBinding), and the turn in its tab (BrowserTurn).                   *)
(***************************************************************************)
EXTENDS StageClock, TurnBinding, BrowserTurn, TLAPS

-----------------------------------------------------------------------------
(* StageClock *)

StageTypeOK ==
    /\ now \in Nat
    /\ ticker \in [last : Nat, slept : Nat]
    /\ stage \in [timer : Nat, end : {"running", "timed_out", "settled"}]
    /\ truth \in [awake : Nat, sleeps : Nat, charged : Nat]

\* At most one interval of awake time lies behind the last tick, so that no gap is refunded
\* for more than was slept in it.
AwakeBeforeTick ==
    /\ ticker.last <= now
    /\ ticker.slept + truth.awake <= now
    /\ ticker.slept + truth.awake <= ticker.last + 1

\* The slept time the clock would find now is short of the real one by at most what a sleep
\* may be charged, and never beyond it.
SleptIsMeasured ==
    /\ Ticked.slept + truth.awake <= now
    /\ now <= Ticked.slept + truth.awake + truth.charged

\* The timer was set with slept time the clock had found by then.
TimerWithinBudget == stage.timer <= Budget + ticker.slept

StageInv ==
    /\ StageTypeOK
    /\ AwakeBeforeTick
    /\ SleptIsMeasured
    /\ TimerWithinBudget
    /\ BudgetIsAwakeTime

LEMMA StageStep == StageInv /\ [StageNext]_stageVars => StageInv'
<1> SUFFICES ASSUME StageInv, [StageNext]_stageVars PROVE StageInv'
  OBVIOUS
<1> USE StageClockAssumption
    DEF StageInv, StageTypeOK, AwakeBeforeTick, SleptIsMeasured, TimerWithinBudget,
        BudgetIsAwakeTime, Ticked, Running, TickDue, TimerDue
<1>1. CASE Pass
  BY <1>1 DEF Pass
<1>2. ASSUME NEW d \in Nap, Sleeps(d) PROVE StageInv'
  <2>1. d \in Nat /\ now' = now + d /\ UNCHANGED <<ticker, stage>>
    BY <1>2 DEF Sleeps
  <2>2. \/ d >= Gap /\ truth'.charged = truth.charged + 1
        \/ d < Gap /\ truth'.charged = truth.charged + d
    BY <1>2, <2>1 DEF Sleeps
  <2>3. truth' \in [awake : Nat, sleeps : Nat, charged : Nat] /\ truth'.awake = truth.awake
    BY <1>2, <2>1 DEF Sleeps
  <2>4. SleptIsMeasured'
    BY <2>1, <2>2, <2>3
  <2> QED
    BY <1>2, <2>1, <2>2, <2>3, <2>4 DEF Sleeps
<1>3. CASE Tick
  BY <1>3 DEF Tick
<1>4. CASE TimerFires
  BY <1>4 DEF TimerFires, Remaining
<1>5. CASE StageDone
  BY <1>5 DEF StageDone
<1>6. CASE UNCHANGED stageVars
  BY <1>6 DEF stageVars
<1> QED
  BY <1>1, <1>2, <1>3, <1>4, <1>5, <1>6 DEF StageNext

\* For every budget, threshold and pattern of sleeps, short ones included: a stage that timed
\* out had its budget awake, less a tick for each sleep the clock can tell and less the naps it
\* cannot, and none runs past its budget.
THEOREM BudgetCorrect == StageSpec => []BudgetIsAwakeTime
<1>1. StageInit => StageInv
  BY StageClockAssumption DEF StageInit, StageInv, StageTypeOK, AwakeBeforeTick,
     SleptIsMeasured, TimerWithinBudget, BudgetIsAwakeTime, Ticked, Running
<1>2. StageInv => BudgetIsAwakeTime
  BY DEF StageInv
<1> QED
  BY <1>1, <1>2, StageStep, PTL DEF StageSpec

-----------------------------------------------------------------------------
(* TurnBinding *)

Stage == Exchange["stage"]
Mine == Exchange["mine"]
Foreign == Exchange["foreign"]
Old == Exchange["old"]

Snapshot == [keys : SUBSET Keys, users : SUBSET Keys, answers : SUBSET Keys, done : SUBSET Keys]
BindTypeOK ==
    /\ dom \in Snapshot
    /\ snap \in Snapshot
    /\ turn \in [phase : {"baseline", "sent", "bound", "failed"}, known : SUBSET Keys,
                stage : SUBSET Keys, accepted : Keys \cup {0}, bound : Keys \cup {0},
                seen : SUBSET Keys]

\* The stage lives under one key.  Its contents come and go together, and it has
\* always finished.
StageUnderOneKey ==
    \E key \in Stage :
        /\ dom.done \cap Stage = {key}
        /\ dom.keys \cap Stage \subseteq {key}
        /\ dom.answers \cap Stage = dom.users \cap Stage
        /\ dom.answers \cap Stage \subseteq dom.keys
        /\ \A k \in (snap.keys \cup snap.answers) \cap Stage : k <= key

\* The history keeps its place on the page and in the baseline.
HistoryIsKnown ==
    /\ Old \subseteq dom.keys
    /\ snap.keys # {} => Old \subseteq snap.keys
    /\ turn.phase \in {"sent", "bound"} => Old \subseteq turn.known

\* A message somebody types comes after the binding and keeps its bubble.
ForeignComesLater ==
    /\ (turn.known \cup turn.stage \cup turn.seen \cup {turn.accepted}) \cap Foreign = {}
    /\ dom.done \cap Foreign = {} /\ dom.keys \cap Foreign \subseteq dom.users
    /\ snap.keys \cap Foreign \subseteq snap.users
    /\ turn.phase \in {"baseline", "sent"} => (dom.keys \cup snap.keys) \cap Foreign = {}

\* While a reading is used, the stage does not lose its answer under the key it was
\* read with.
ReadingStillShows ==
    snap.keys # {} => \A k \in snap.answers \cap dom.keys \cap Stage : k \in dom.answers

BindInv ==
    /\ BindTypeOK
    /\ StageUnderOneKey
    /\ HistoryIsKnown
    /\ ForeignComesLater
    /\ ReadingStillShows
    /\ ReadsItsOwnAnswer

\* The exchanges share no key, so a key tells whose exchange it is.
LEMMA OwnerIs ==
    ASSUME NEW e \in DOMAIN Exchange, NEW k \in Exchange[e]
    PROVE  Owner(k) = e /\ k \in Keys
BY TurnBindingAssumption DEF Owner, Keys

LEMMA KeysAreFour ==
    /\ \A k \in Keys : k \in Nat \ {0} /\ k \in Stage \cup Mine \cup Foreign \cup Old
    /\ Stage \cup Mine \cup Foreign \cup Old \subseteq Keys
    /\ Stage \cap Mine = {} /\ Stage \cap Foreign = {} /\ Stage \cap Old = {}
    /\ Mine \cap Foreign = {} /\ Mine \cap Old = {} /\ Foreign \cap Old = {}
BY TurnBindingAssumption DEF Keys, Stage, Mine, Foreign, Old

LEMMA OwnersAre ==
    ASSUME NEW k \in Keys
    PROVE  /\ Owner(k) = "stage" <=> k \in Stage
           /\ Owner(k) = "mine" <=> k \in Mine
BY SMTT(40), OwnerIs, KeysAreFour, TurnBindingAssumption DEF Stage, Mine, Foreign, Old, Keys

\* reconcileMultipartHistory changes what is known of the stage, and nothing else.
LEMMA ReconciledTurn ==
    ASSUME BindInv
    PROVE  /\ Reconciled \in [phase : {turn.phase, "failed"}, known : SUBSET Keys,
                              stage : SUBSET Keys, accepted : {turn.accepted},
                              bound : {turn.bound}, seen : {turn.seen}]
           /\ turn.known \subseteq Reconciled.known
           /\ (Reconciled.known \cup Reconciled.stage) \cap Foreign = {}
<1> DEFINE again == {k \in Candidates : Verified(k)}
<1>1. snap.keys \in SUBSET Keys /\ turn.stage \in SUBSET Keys /\ turn.known \in SUBSET Keys
  BY DEF BindInv, BindTypeOK, Snapshot
<1>2. again \subseteq Stage
  BY <1>1, OwnersAre DEF Candidates, Verified
<1>3. again \subseteq Keys /\ again \cap Foreign = {}
  BY <1>2, KeysAreFour
<1>4. (turn.known \cup turn.stage) \cap Foreign = {}
  BY DEF BindInv, ForeignComesLater
<1>5. CASE Reconciled = Failed
  BY <1>1, <1>4, <1>5 DEF Failed, BindInv, BindTypeOK
<1>6. CASE Reconciled = [turn EXCEPT !.stage = @ \union again,
                                    !.known = @ \union again \union (snap.keys \cap turn.stage)]
  BY <1>1, <1>3, <1>4, <1>6 DEF BindInv, BindTypeOK
<1> QED
  BY <1>5, <1>6 DEF Reconciled

\* An answer that was not there before Send is neither the stage's nor the history's:
\* a stage whose key is new has been verified, or the reading is refused.
LEMMA NewAnswer ==
    ASSUME BindInv, turn.phase \in {"sent", "bound"}, snap.keys # {},
           Reconciled.phase # "failed", NEW k \in New(snap.answers \cap snap.keys, Reconciled.known)
    PROVE  k \in Mine \cup Foreign
<1> DEFINE again == {c \in Candidates : Verified(c)}
<1>1. k \in snap.answers /\ k \in snap.keys /\ k \in Keys /\ k \notin Reconciled.known
  BY DEF New, BindInv, BindTypeOK, Snapshot
<1>2. k \notin Old
  BY <1>1, ReconciledTurn DEF BindInv, HistoryIsKnown
<1>3. ASSUME k \in Stage PROVE FALSE
  <2>1. Reconciled # Failed
    BY DEF Failed, BindInv, BindTypeOK
  <2>2. Reconciled = [turn EXCEPT !.stage = @ \union again,
                                  !.known = @ \union again \union (snap.keys \cap turn.stage)]
    BY <2>1 DEF Reconciled
  <2>3. \A c \in Candidates : ~Gone(c)
    BY <2>1 DEF Reconciled
  <2>4. k \in Candidates
    BY <1>1, <2>2 DEF Candidates, BindInv, BindTypeOK
  <2>5. k \in dom.keys
    BY <2>3, <2>4 DEF Gone
  <2>6. k \in dom.answers
    BY <1>1, <1>3, <2>5 DEF BindInv, ReadingStillShows
  <2>7. k \in dom.done \cap dom.users
    BY <1>3, <2>5, <2>6 DEF BindInv, StageUnderOneKey
  <2>8. k \in again
    BY <1>1, <1>3, <2>4, <2>5, <2>7, OwnersAre DEF Verified
  <2> QED
    BY <1>1, <2>2, <2>8 DEF BindInv, BindTypeOK
<1> QED
  BY <1>1, <1>2, <1>3, KeysAreFour

\* The worker's steps: they leave the page alone and give the reading up.
LEMMA WorkerStep ==
    ASSUME BindInv, UNCHANGED dom, snap' = NoReading,
           BindTypeOK', HistoryIsKnown', ReadsItsOwnAnswer',
           (turn'.known \cup turn'.stage \cup turn'.seen \cup {turn'.accepted}) \cap Foreign = {},
           turn'.phase \in {"baseline", "sent"} => turn.phase \in {"baseline", "sent"}
    PROVE  BindInv'
<1>1. StageUnderOneKey'
  BY DEF BindInv, StageUnderOneKey, NoReading
<1>2. ForeignComesLater'
  BY DEF BindInv, ForeignComesLater, NoReading
<1>3. ReadingStillShows'
  BY DEF ReadingStillShows, NoReading
<1> QED
  BY <1>1, <1>2, <1>3 DEF BindInv

\* The page's steps: they leave the worker and its reading alone.
LEMMA PageStep ==
    ASSUME BindInv, UNCHANGED <<snap, turn>>, dom' \in Snapshot,
           StageUnderOneKey', Old \subseteq dom'.keys,
           dom'.done \cap Foreign = {}, dom'.keys \cap Foreign \subseteq dom'.users,
           turn.phase \in {"baseline", "sent"} => dom'.keys \cap Foreign = {},
           ReadingStillShows'
    PROVE  BindInv'
<1>1. BindTypeOK' /\ HistoryIsKnown' /\ ForeignComesLater' /\ ReadsItsOwnAnswer'
  BY DEF BindInv, BindTypeOK, HistoryIsKnown, ForeignComesLater, ReadsItsOwnAnswer
<1> QED
  BY <1>1 DEF BindInv

LEMMA BindStep ==
    ASSUME ~Scrolls, BindInv, [BindNext]_bindVars
    PROVE  BindInv'
<1>0. NoReading \in Snapshot
  BY DEF NoReading, Snapshot
<1>1. CASE Read
  <2>1. StageUnderOneKey'
    BY <1>1, KeysAreFour DEF Read, BindInv, BindTypeOK, Snapshot, StageUnderOneKey
  <2>2. BindTypeOK' /\ HistoryIsKnown' /\ ReadingStillShows' /\ ReadsItsOwnAnswer'
    BY <1>1 DEF Read, BindInv, BindTypeOK, HistoryIsKnown, ReadingStillShows, ReadsItsOwnAnswer
  <2>3. ForeignComesLater'
    BY <1>1 DEF Read, BindInv, ForeignComesLater
  <2> QED
    BY <2>1, <2>2, <2>3 DEF BindInv
<1>2. CASE Baseline
  <2>1. CASE Reconciled.phase = "failed"
    <3>1. turn' = Reconciled
      BY <1>2, <2>1 DEF Baseline
    <3> QED
      BY <1>0, <1>2, <2>1, <3>1, ReconciledTurn, WorkerStep
      DEF Baseline, BindInv, BindTypeOK, HistoryIsKnown, ForeignComesLater, ReadsItsOwnAnswer, NoReading
  <2>2. CASE Reconciled.phase # "failed"
    <3>1. turn' = [Reconciled EXCEPT !.phase = "sent", !.known = snap.keys \union Reconciled.stage]
      BY <1>2, <2>2 DEF Baseline
    <3>2. snap.keys \in SUBSET Keys /\ snap.keys \cap Foreign = {} /\ Old \subseteq snap.keys
      BY <1>2 DEF Baseline, BindInv, BindTypeOK, Snapshot, ForeignComesLater, HistoryIsKnown
    <3> QED
      BY ZenonT(60), <1>0, <1>2, <3>1, <3>2, ReconciledTurn, WorkerStep
      DEF Baseline, BindInv, BindTypeOK, HistoryIsKnown, ForeignComesLater, ReadsItsOwnAnswer, NoReading
  <2> QED
    BY <2>1, <2>2
<1>3. CASE Acknowledged
  <2> DEFINE users == New(snap.users \cap snap.keys, Reconciled.known)
  <2>1. users # {} /\ users \subseteq Keys /\ users \cap Foreign = {}
    BY <1>3 DEF Acknowledged, New, BindInv, BindTypeOK, Snapshot, ForeignComesLater
  <2>2. CASE turn' = Failed
    BY <1>0, <1>3, <2>2, WorkerStep
    DEF Acknowledged, Failed, BindInv, BindTypeOK, HistoryIsKnown, ForeignComesLater, ReadsItsOwnAnswer, NoReading
  <2>3. CASE turn' = [Reconciled EXCEPT !.accepted = CHOOSE k \in users : TRUE]
    <3>1. PICK k \in users : turn' = [Reconciled EXCEPT !.accepted = k]
      BY <2>1, <2>3
    <3>2. k \in Keys /\ k \notin Foreign
      BY <2>1
    <3>3. BindTypeOK'
      BY <1>0, <1>3, <3>1, <3>2, ReconciledTurn DEF Acknowledged, BindInv, BindTypeOK
    <3>4. /\ turn'.phase \in {turn.phase, "failed"} /\ turn'.seen = turn.seen /\ turn'.bound = turn.bound
          /\ turn'.accepted = k /\ turn.known \subseteq turn'.known
          /\ (turn'.known \cup turn'.stage) \cap Foreign = {}
      BY <3>1, ReconciledTurn
    <3>5. UNCHANGED dom /\ snap' = NoReading /\ turn.phase = "sent"
      BY <1>3 DEF Acknowledged
    <3>6. /\ HistoryIsKnown' /\ ReadsItsOwnAnswer'
          /\ (turn'.known \cup turn'.stage \cup turn'.seen \cup {turn'.accepted}) \cap Foreign = {}
      BY <3>2, <3>4, <3>5 DEF BindInv, HistoryIsKnown, ForeignComesLater, ReadsItsOwnAnswer, NoReading
    <3> QED
      BY <1>3, <3>2, <3>3, <3>4, <3>5, <3>6, WorkerStep
  <2> QED
    BY <1>3, <2>2, <2>3 DEF Acknowledged
<1>4. CASE Bind
  <2> DEFINE answers == New(snap.answers \cap snap.keys, Reconciled.known)
  <2>1. CASE turn' = Failed
    BY <1>0, <1>4, <2>1, WorkerStep
    DEF Bind, Failed, BindInv, BindTypeOK, HistoryIsKnown, ForeignComesLater, ReadsItsOwnAnswer, NoReading
  <2>2. CASE /\ Reconciled.phase # "failed"
             /\ turn' = [Reconciled EXCEPT !.phase = "bound", !.seen = snap.keys,
                                           !.bound = CHOOSE k \in answers : TRUE]
    <3>1. (CHOOSE k \in answers : TRUE) \in answers
      BY <1>4 DEF Bind
    <3>2. PICK k \in answers : k = CHOOSE c \in answers : TRUE
      BY <3>1
    <3>3. k \in snap.keys /\ snap.keys \cap Foreign = {} /\ snap.keys \in SUBSET Keys
      BY <1>4 DEF Bind, New, BindInv, BindTypeOK, Snapshot, ForeignComesLater
    <3>4. k \in Mine \cup Foreign
      BY <1>4, <2>2, NewAnswer DEF Bind
    <3>5. Owner(k) = "mine" /\ k \in Keys
      BY <3>3, <3>4, OwnersAre
    <3> QED
      BY <1>0, <1>4, <2>2, <3>2, <3>3, <3>5, ReconciledTurn, WorkerStep
      DEF Bind, BindInv, BindTypeOK, HistoryIsKnown, ForeignComesLater, ReadsItsOwnAnswer, NoReading
  <2> QED
    BY <1>4, <2>1, <2>2 DEF Bind
<1>5. CASE Rebind
  <2> DEFINE answers == New(snap.answers \cap snap.keys, Reconciled.known)
             users == (snap.users \cap snap.keys) \ (turn.seen \union Reconciled.known)
             rebound == [Reconciled EXCEPT !.bound = CHOOSE k \in answers : TRUE, !.seen = snap.keys]
  <2>1. CASE turn' = Failed \/ turn' = Reconciled
    <3>1. turn' \in [phase : {turn.phase, "failed"}, known : SUBSET Keys, stage : SUBSET Keys,
                     accepted : {turn.accepted}, bound : {turn.bound}, seen : {turn.seen}]
          /\ turn.known \subseteq turn'.known /\ (turn'.known \cup turn'.stage) \cap Foreign = {}
      BY <2>1, ReconciledTurn DEF Failed, BindInv, BindTypeOK, ForeignComesLater
    <3> QED
      BY <1>0, <1>5, <3>1, WorkerStep
      DEF Rebind, BindInv, BindTypeOK, HistoryIsKnown, ForeignComesLater, ReadsItsOwnAnswer, NoReading
  <2>2. CASE /\ Reconciled.phase # "failed" /\ answers # {} /\ turn' = rebound
             /\ users # {} => \E k \in users : users = {k} /\ answers = {k} /\ Replaces(k, Reconciled)
    <3>1. PICK k \in answers : k = CHOOSE c \in answers : TRUE
      BY <2>2
    <3>2. k \in snap.keys /\ snap.keys \in SUBSET Keys
      BY <3>1 DEF New, BindInv, BindTypeOK, Snapshot
    <3>3. k \in Mine \cup Foreign
      BY <1>5, <2>2, NewAnswer DEF Rebind
    <3>4. snap.keys \cap Foreign \subseteq {k} /\ k \notin Foreign
      <4>1. snap.keys \cap Foreign \subseteq users
        BY ReconciledTurn DEF BindInv, ForeignComesLater
      <4>2. CASE users = {}
        BY <3>2, <4>1, <4>2
      <4>3. CASE users # {}
        <5>1. users = {k} /\ Replaces(k, Reconciled)
          BY <2>2, <3>1, <4>3
        <5>2. k \notin Foreign
          BY <3>2, <3>3, <5>1, OwnersAre, KeysAreFour DEF Replaces, BindInv, ForeignComesLater
        <5> QED
          BY <4>1, <5>1, <5>2
      <4> QED
        BY <4>2, <4>3
    <3>5. Owner(k) = "mine" /\ k \in Keys /\ snap.keys \cap Foreign = {}
      BY <3>2, <3>3, <3>4, OwnersAre
    <3> QED
      BY <1>0, <1>5, <2>2, <3>1, <3>2, <3>5, ReconciledTurn, WorkerStep
      DEF Rebind, BindInv, BindTypeOK, HistoryIsKnown, ForeignComesLater, ReadsItsOwnAnswer, NoReading
  <2> QED
    BY <1>5, <2>1, <2>2 DEF Rebind, Rebound
<1>6. CASE Sent
  <2>1. PICK k \in Mine : dom' = [dom EXCEPT !.keys = @ \union {k}, !.users = @ \union {k}]
    BY <1>6 DEF Sent, Mine
  <2>2. /\ dom' \in Snapshot /\ dom'.keys = dom.keys \cup {k} /\ dom'.users = dom.users \cup {k}
        /\ dom'.answers = dom.answers /\ dom'.done = dom.done
    BY <2>1, KeysAreFour DEF BindInv, BindTypeOK, Snapshot
  <2>3. k \notin Stage /\ k \notin Foreign
    BY KeysAreFour
  <2> QED
    BY <1>6, <2>2, <2>3, PageStep
    DEF Sent, BindInv, StageUnderOneKey, HistoryIsKnown, ForeignComesLater, ReadingStillShows
<1>7. ASSUME NEW k \in Mine, k \in dom.keys, UNCHANGED <<snap, turn>>,
             dom' \in Snapshot, dom'.keys = dom.keys,
             dom'.users \in {dom.users, dom.users \cup {k}, dom.users \ {k}},
             dom'.answers \in {dom.answers, dom.answers \cup {k}},
             dom'.done \in {dom.done, dom.done \cup {k}}
      PROVE  BindInv'
  <2>1. k \notin Stage /\ k \notin Foreign
    BY KeysAreFour
  <2>2. /\ dom'.done \cap Stage = dom.done \cap Stage
        /\ dom'.answers \cap Stage = dom.answers \cap Stage
        /\ dom'.users \cap Stage = dom.users \cap Stage
    BY <1>7, <2>1
  <2>3. StageUnderOneKey' /\ ReadingStillShows'
    BY <1>7, <2>2 DEF BindInv, StageUnderOneKey, ReadingStillShows
  <2> QED
    BY <1>7, <2>1, <2>3, PageStep DEF BindInv, HistoryIsKnown, ForeignComesLater
<1>8. CASE AnswerShown
  <2>1. PICK k \in Lives("mine"), hidden \in BOOLEAN :
             dom' = [dom EXCEPT !.answers = @ \union {k}, !.users = IF hidden THEN @ \ {k} ELSE @]
    BY <1>8 DEF AnswerShown
  <2>2. k \in Mine /\ k \in dom.keys /\ k \in Keys
    BY KeysAreFour DEF Lives, Mine
  <2>3. /\ dom' \in Snapshot /\ dom'.keys = dom.keys /\ dom'.users \in {dom.users, dom.users \ {k}}
        /\ dom'.answers = dom.answers \cup {k} /\ dom'.done = dom.done
    BY <2>1, <2>2 DEF BindInv, BindTypeOK, Snapshot
  <2>4. UNCHANGED <<snap, turn>>
    BY <1>8 DEF AnswerShown
  <2> QED
    BY <1>7, <2>2, <2>3, <2>4
<1>9. CASE AnswerFinished
  <2>1. PICK k \in Lives("mine") : dom' = [dom EXCEPT !.done = @ \union {k}, !.users = @ \union {k}]
    BY <1>9 DEF AnswerFinished
  <2>2. k \in Mine /\ k \in dom.keys /\ k \in Keys
    BY KeysAreFour DEF Lives, Mine
  <2>3. /\ dom' \in Snapshot /\ dom'.keys = dom.keys /\ dom'.users = dom.users \cup {k}
        /\ dom'.answers = dom.answers /\ dom'.done = dom.done \cup {k}
    BY <2>1, <2>2 DEF BindInv, BindTypeOK, Snapshot
  <2>4. UNCHANGED <<snap, turn>>
    BY <1>9 DEF AnswerFinished
  <2> QED
    BY <1>7, <2>2, <2>3, <2>4
<1>10. CASE Typed
  <2>1. PICK k \in Foreign, shown \in BOOLEAN :
             dom' = [dom EXCEPT !.keys = @ \union {k}, !.users = @ \union {k},
                                !.answers = IF shown THEN @ \union {k} ELSE @]
    BY <1>10 DEF Typed, Foreign
  <2>2. /\ dom' \in Snapshot /\ dom'.keys = dom.keys \cup {k} /\ dom'.users = dom.users \cup {k}
        /\ dom'.answers \in {dom.answers, dom.answers \cup {k}} /\ dom'.done = dom.done
    BY <2>1, KeysAreFour DEF BindInv, BindTypeOK, Snapshot
  <2>3. k \notin Stage
    BY KeysAreFour
  <2>4. StageUnderOneKey'
    BY <1>10, <2>2, <2>3 DEF Typed, BindInv, StageUnderOneKey
  <2> QED
    BY <1>10, <2>2, <2>3, <2>4, PageStep
    DEF Typed, BindInv, HistoryIsKnown, ForeignComesLater, ReadingStillShows
<1>11. ASSUME NEW e \in {"stage", "mine"}, Saved(e) PROVE BindInv'
  <2>1. PICK k \in Lives(e), n \in Exchange[e] :
             /\ n > k /\ n \notin dom.keys
             /\ dom' = [keys |-> (dom.keys \ {k}) \union {n},
                        users |-> IF k \in dom.users THEN (dom.users \ {k}) \union {n} ELSE dom.users,
                        answers |-> IF k \in dom.answers THEN (dom.answers \ {k}) \union {n} ELSE dom.answers,
                        done |-> IF k \in dom.done THEN (dom.done \ {k}) \union {n} ELSE dom.done]
    BY <1>11 DEF Saved
  <2>2. k \in Keys /\ n \in Keys /\ k \in Exchange[e] /\ k \in dom.keys /\ k \in Nat /\ n \in Nat
    BY KeysAreFour DEF Lives, Stage, Mine
  <2>3. k \notin Old /\ n \notin Old /\ k \notin Foreign /\ n \notin Foreign
    BY <2>2, KeysAreFour DEF Stage, Mine
  <2>4. dom' \in Snapshot
    BY <2>1, <2>2 DEF BindInv, BindTypeOK, Snapshot
  <2>5. StageUnderOneKey' /\ ReadingStillShows'
    <3>1. CASE e = "stage"
      <4>1. PICK key \in Stage :
                 /\ dom.done \cap Stage = {key}
                 /\ dom.keys \cap Stage \subseteq {key}
                 /\ dom.answers \cap Stage = dom.users \cap Stage
                 /\ dom.answers \cap Stage \subseteq dom.keys
                 /\ \A c \in (snap.keys \cup snap.answers) \cap Stage : c <= key
        BY DEF BindInv, StageUnderOneKey
      <4>2. k = key /\ n \in Stage
        BY <2>2, <3>1, <4>1 DEF Stage
      <4>3. \A c \in (snap.keys \cup snap.answers) \cap Stage : c <= n /\ c # n
        BY <2>1, <2>2, <4>1, <4>2, KeysAreFour DEF BindInv, BindTypeOK, Snapshot
      <4>4. /\ dom'.done \cap Stage = {n}
            /\ dom'.keys \cap Stage \subseteq {n}
            /\ dom'.answers \cap Stage = dom'.users \cap Stage
            /\ dom'.answers \cap Stage \subseteq dom'.keys
        BY <2>1, <4>1, <4>2
      <4>5. UNCHANGED snap
        BY <1>11 DEF Saved
      <4> QED
        BY <4>2, <4>3, <4>4, <4>5 DEF StageUnderOneKey, ReadingStillShows
    <3>2. CASE e = "mine"
      <4>1. k \notin Stage /\ n \notin Stage
        BY <2>2, <3>2, KeysAreFour DEF Mine
      <4>2. UNCHANGED snap
        BY <1>11 DEF Saved
      <4>3. /\ dom'.done \cap Stage = dom.done \cap Stage
            /\ dom'.keys \cap Stage = dom.keys \cap Stage
            /\ dom'.answers \cap Stage = dom.answers \cap Stage
            /\ dom'.users \cap Stage = dom.users \cap Stage
        BY <2>1, <4>1
      <4> QED
        BY <4>2, <4>3 DEF BindInv, StageUnderOneKey, ReadingStillShows
    <3> QED
      BY <3>1, <3>2
  <2>6. UNCHANGED <<snap, turn>>
    BY <1>11 DEF Saved
  <2>7. /\ Old \subseteq dom'.keys /\ dom'.done \cap Foreign = {}
        /\ dom'.keys \cap Foreign \subseteq dom'.users
        /\ dom'.keys \cap Foreign = dom.keys \cap Foreign
    BY <2>1, <2>3 DEF BindInv, HistoryIsKnown, ForeignComesLater
  <2>8. turn.phase \in {"baseline", "sent"} => dom'.keys \cap Foreign = {}
    BY <2>7 DEF BindInv, ForeignComesLater
  <2> QED
    BY <2>4, <2>5, <2>6, <2>7, <2>8, PageStep
<1>12. CASE Hidden
  <2>1. PICK k \in dom.keys, gone \in BOOLEAN :
             /\ k \in dom.answers \cap dom.done
             /\ dom' = [dom EXCEPT !.keys = IF gone /\ Owner(k) = "stage" THEN @ \ {k} ELSE @,
                                   !.users = @ \ {k}, !.answers = @ \ {k}]
    BY <1>12 DEF Hidden
  <2>2. snap.keys = {} /\ UNCHANGED <<snap, turn>>
    BY <1>12 DEF Hidden
  <2>3. k \in Keys /\ (Owner(k) = "stage" => k \notin Old) /\ k \notin Foreign
    BY <2>1, OwnersAre, KeysAreFour DEF BindInv, BindTypeOK, Snapshot, ForeignComesLater
  <2>4. /\ dom' \in Snapshot /\ dom'.done = dom.done
        /\ dom'.keys \in {dom.keys, dom.keys \ {k}} /\ (k \in Old => dom'.keys = dom.keys)
        /\ dom'.users = dom.users \ {k} /\ dom'.answers = dom.answers \ {k}
    BY <2>1, <2>3 DEF BindInv, BindTypeOK, Snapshot
  <2>5. StageUnderOneKey'
    <3>1. k \in Stage \/ k \notin Stage
      OBVIOUS
    <3> QED
      BY <2>1, <2>2, <2>4, <3>1 DEF BindInv, StageUnderOneKey
  <2>6. ReadingStillShows'
    BY <2>2 DEF ReadingStillShows
  <2> QED
    BY <2>2, <2>3, <2>4, <2>5, <2>6, PageStep DEF BindInv, HistoryIsKnown, ForeignComesLater
<1>13. CASE Shown
  <2>1. PICK k \in dom.done \ dom.answers :
             dom' = [dom EXCEPT !.keys = @ \union {k}, !.users = @ \union {k}, !.answers = @ \union {k}]
    BY <1>13 DEF Shown
  <2>2. k \in Keys /\ k \notin Foreign
    BY DEF BindInv, BindTypeOK, Snapshot, ForeignComesLater
  <2>3. /\ dom' \in Snapshot /\ dom'.keys = dom.keys \cup {k} /\ dom'.users = dom.users \cup {k}
        /\ dom'.answers = dom.answers \cup {k} /\ dom'.done = dom.done
    BY <2>1, <2>2 DEF BindInv, BindTypeOK, Snapshot
  <2>4. UNCHANGED <<snap, turn>>
    BY <1>13 DEF Shown
  <2>5. StageUnderOneKey' /\ ReadingStillShows'
    BY <2>1, <2>3, <2>4 DEF BindInv, StageUnderOneKey, ReadingStillShows
  <2> QED
    BY <2>2, <2>3, <2>4, <2>5, PageStep DEF BindInv, HistoryIsKnown, ForeignComesLater
<1>14. CASE UNCHANGED bindVars
  BY <1>14 DEF bindVars, BindInv, BindTypeOK, StageUnderOneKey, HistoryIsKnown, ForeignComesLater,
     ReadingStillShows, ReadsItsOwnAnswer
<1> QED
  BY <1>1, <1>2, <1>3, <1>4, <1>5, <1>6, <1>8, <1>9, <1>10, <1>11, <1>12, <1>13, <1>14 DEF BindNext

\* Whatever keys the exchanges have, and however often they are renamed, hidden, shown
\* again and typed between: the answer a turn is bound to answers its own message, if
\* nothing leaves the view between the two readings of one probe.
THEOREM BindingCorrect ==
    ASSUME ~Scrolls
    PROVE  BindSpec => []ReadsItsOwnAnswer
<1>1. BindInit => BindInv
  <2> SUFFICES ASSUME BindInit PROVE BindInv
    OBVIOUS
  <2>1. PICK k \in Stage :
             /\ dom = [keys |-> {k} \union Old, users |-> {k}, answers |-> {k}, done |-> {k} \union Old]
             /\ snap = NoReading
             /\ turn = [phase |-> "baseline", known |-> {}, stage |-> {k}, accepted |-> 0,
                        bound |-> 0, seen |-> {}]
    BY DEF BindInit, Stage, Old
  <2>2. k \in Keys /\ Old \subseteq Keys /\ k \notin Foreign /\ k \notin Old /\ Old \cap Foreign = {}
        /\ Old \cap Stage = {} /\ 0 \notin Foreign
    BY KeysAreFour
  <2>3. BindTypeOK
    BY <2>1, <2>2 DEF BindTypeOK, Snapshot, NoReading
  <2>4. StageUnderOneKey
    BY <2>1, <2>2 DEF StageUnderOneKey, NoReading
  <2> QED
    BY <2>1, <2>2, <2>3, <2>4
    DEF BindInv, HistoryIsKnown, ForeignComesLater, ReadingStillShows, ReadsItsOwnAnswer, NoReading
<1>2. BindInv => ReadsItsOwnAnswer
  BY DEF BindInv
<1>3. BindInv /\ [BindNext]_bindVars => BindInv'
  BY BindStep
<1> QED
  BY <1>1, <1>2, <1>3, PTL DEF BindSpec

-----------------------------------------------------------------------------
(* BrowserTurn *)

RunPhases == {"start", "limits", "acquire", "rebind", "chat", "effort", "attach", "unattached", "files",
              "send", "accept", "bind", "ack", "observe", "approve", "catch", "finally", "ended"}
RunErrors == {"none", "abort", "limits", "failed", "integrity", "too_long", "tab_closed"}
RunOutcomes == (RunErrors \ {"abort"}) \cup {"aborted", "handoff", "completed"}

Backs == {"none", "accept", "bind", "observe"}
RunFields == {"phase", "part", "parts", "reuse", "compact", "error", "outcome", "held", "rebinds",
              "faults", "retry", "missed", "refresh", "back", "asking"}
PageFields == {"sent", "reply", "refused", "alert"}
WatchFields == {"gen", "on", "owned", "stream", "base", "checks", "found", "stop"}
ConnFields == {"open", "own", "dial"}

\* The fields of the run, in the order of the record.
RunTypes ==
    /\ DOMAIN run = RunFields
    /\ run.phase \in RunPhases /\ run.part \in Part /\ run.parts \in Part
    /\ run.error \in RunErrors /\ run.outcome \in RunOutcomes /\ run.back \in Backs
PageTypes ==
    /\ DOMAIN page = Part
    /\ \A p \in Part : /\ DOMAIN page[p] = PageFields
                       /\ page[p].sent \in Nat /\ page[p].reply \in {"none", "streaming", "done", "wrong"}
WatchTypes ==
    /\ DOMAIN watch = WatchFields
    /\ watch.gen \in Nat /\ watch.found \in {"no", "rejected", "unread"}
    /\ watch.checks \subseteq [gen : 0..watch.gen, bad : BOOLEAN]
ConnTypes ==
    DOMAIN conn = ConnFields /\ conn.open \in 0..1 /\ conn.dial \in {"none", "live", "late"}
TurnTypes ==
    /\ RunTypes /\ PageTypes /\ WatchTypes /\ ConnTypes
    /\ press \in {"none", "pending", "landed"} /\ usage \in [Part -> Receipt]
    /\ abort \in {"no", "user", "handoff"}

Before == {"start", "limits", "acquire", "chat", "effort", "attach", "files", "send"}
After == {"bind", "ack", "observe", "approve"}

\* What ChatGPT has: the parts before the current one are answered, those after it untouched.
PageBooks ==
    /\ \A p \in Part : /\ ~run.missed => page[p].sent <= 1
                       /\ ~Received(p) => page[p].reply = "none" /\ ~page[p].refused
                       /\ p < run.part => Received(p) /\ page[p].reply = "done"
                       /\ p > run.part => ~Received(p)
    /\ run.phase \in Before /\ ~run.missed => ~Received(run.part)

\* Enter is pressed once, for a part ChatGPT does not have.
PressBooks ==
    /\ press # "none" => run.phase \in {"accept", "catch", "finally"}
    /\ press = "pending" /\ ~run.missed => ~Received(run.part)

\* Where the run stands among its parts.
PlaceBooks ==
    /\ run.part <= run.parts
    /\ run.phase = "ack" => ~Final
    /\ run.phase \in {"observe", "approve"} => Final
    /\ run.phase = "rebind" => run.back # "none"
    /\ run.phase = "rebind" /\ run.back = "observe" => Final
    /\ run.outcome # "none" => run.phase \in {"finally", "ended"}
    /\ run.outcome = "completed" => Final
    /\ run.asking => run.phase = "approve"
    /\ run.phase = "start" => ~run.held

\* A receipt is for a part ChatGPT has, and an accepted part has one.
ReceiptBooks ==
    /\ \A p \in Part : /\ usage[p] # "none" => Received(p)
                       /\ p < run.part => usage[p] # "none"
    /\ \/ run.phase \in After \/ run.outcome = "completed"
       \/ run.phase = "rebind" /\ run.back # "accept"
       => usage[run.part] # "none"
    /\ run.phase = "start" => \A p \in Part : usage[p] = "none"

\* A connection is owned exactly while it is open; none is open while one is dialled.
ConnBooks ==
    /\ conn.own <=> conn.open = 1
    /\ conn.dial = "live" <=> run.phase \in {"acquire", "rebind"}
    /\ run.phase \in {"start", "limits", "acquire", "rebind", "ended"} => ~conn.own
    /\ run.phase = "start" => ~watch.on

\* A message that lands while the observer listens is followed to its end, and a refusal
\* leaves a check behind, or what came of it.
WatchBooks ==
    /\ watch.on /\ Received(run.part) /\ ~run.missed =>
         /\ watch.owned
         /\ page[run.part].reply \in {"none", "streaming"} /\ ~page[run.part].refused => watch.stream
         /\ page[run.part].refused => \/ watch.found # "no"
                                      \/ \E c \in watch.checks : c.bad /\ c.gen = watch.gen
    /\ run.phase = "finally" /\ run.outcome \in {"completed", "failed"} => watch.checks = {}

\* What every step keeps, and more than the run's invariant says.
TurnIInv ==
    /\ TurnTypes /\ PageBooks /\ PressBooks /\ PlaceBooks /\ ReceiptBooks /\ ConnBooks /\ WatchBooks
    /\ ReceiptsAreDrained /\ EndedHoldsNothing /\ RefusalIsNamed

\* What a step does to the records, field by field: S are the fields it may change.
RunKeeps(S) ==
    /\ DOMAIN run' = RunFields /\ run'.parts = run.parts
    /\ "phase" \notin S => run'.phase = run.phase
    /\ "part" \notin S => run'.part = run.part
    /\ "error" \notin S => run'.error = run.error
    /\ "outcome" \notin S => run'.outcome = run.outcome
    /\ "held" \notin S => run'.held = run.held
    /\ "back" \notin S => run'.back = run.back
    /\ "asking" \notin S => run'.asking = run.asking
    /\ "missed" \notin S => run'.missed = run.missed
WatchKeeps(S) ==
    /\ DOMAIN watch' = WatchFields
    /\ "gen" \notin S => watch'.gen = watch.gen
    /\ "on" \notin S => watch'.on = watch.on
    /\ "owned" \notin S => watch'.owned = watch.owned
    /\ "stream" \notin S => watch'.stream = watch.stream
    /\ "checks" \notin S => watch'.checks = watch.checks
    /\ "found" \notin S => watch'.found = watch.found
ConnBecomes(open, own, dial) ==
    DOMAIN conn' = ConnFields /\ conn'.open = open /\ conn'.own = own /\ conn'.dial = dial
Moves(ph) == run'.phase = ph /\ RunKeeps({"phase"})
Fails == run'.phase = "catch" /\ run'.error \in RunErrors /\ RunKeeps({"phase", "error"})

LEMMA StepMoves == ASSUME RunTypes, NEW ph, run' = Step(ph) PROVE Moves(ph)
BY SMTT(20) DEF RunTypes, RunFields, Step, Moves, RunKeeps

LEMMA FailureFails == ASSUME RunTypes, NEW err \in RunErrors, run' = FailsWith(err) PROVE Fails
BY SMTT(20) DEF RunTypes, RunFields, FailsWith, Fails, RunKeeps

LEMMA MessageIsHeard ==
    ASSUME WatchTypes, watch' = [watch EXCEPT !.owned = @ \/ Heard, !.stream = @ \/ Heard]
    PROVE  WatchKeeps({"owned", "stream"}) /\ (watch.on => watch'.owned /\ watch'.stream)
<1>1. WatchKeeps({"owned", "stream"})
  BY SMTT(20) DEF WatchTypes, WatchFields, WatchKeeps
<1>2. watch'.owned = (watch.owned \/ watch.on) /\ watch'.stream = (watch.stream \/ watch.on)
  BY SMTT(20) DEF WatchTypes, WatchFields, Heard
<1> QED
  BY <1>1, <1>2, Zenon

LEMMA RequestIsOwned ==
    ASSUME WatchTypes, watch' = [watch EXCEPT !.owned = TRUE, !.stream = TRUE]
    PROVE  WatchKeeps({"owned", "stream"}) /\ watch'.owned /\ watch'.stream
<1>1. WatchKeeps({"owned", "stream"})
  BY SMTT(20) DEF WatchTypes, WatchFields, WatchKeeps
<1>2. watch'.owned
  BY SMTT(20) DEF WatchTypes, WatchFields
<1>3. watch'.stream
  BY SMTT(20) DEF WatchTypes, WatchFields
<1> QED
  BY <1>1, <1>2, <1>3

LEMMA RequestIsHeard ==
    ASSUME WatchTypes, watch' = IF Heard THEN [watch EXCEPT !.owned = TRUE, !.stream = TRUE] ELSE watch
    PROVE  WatchKeeps({"owned", "stream"}) /\ (watch.on => watch'.owned /\ watch'.stream)
<1>1. CASE Heard
  BY <1>1, RequestIsOwned
<1>2. CASE ~Heard
  BY <1>2, SMTT(20) DEF WatchTypes, WatchFields, WatchKeeps, Heard
<1> QED
  BY <1>1, <1>2

\* The body of a request that ended is read only by an observer that still listens.
StreamEnded(bad) ==
    \/ ~(watch.on /\ watch.stream) /\ watch' = watch
    \/ /\ watch'.stream = FALSE /\ WatchKeeps({"stream", "checks"})
       /\ watch'.checks = watch.checks \cup {[gen |-> watch.gen, bad |-> bad]}

LEMMA StreamEndIsRead ==
    ASSUME WatchTypes, NEW bad \in BOOLEAN, watch' = StreamEnds(bad)
    PROVE  WatchTypes' /\ StreamEnded(bad)
<1>1. CASE Heard /\ watch.stream
  <2>1. watch' = [watch EXCEPT !.stream = FALSE,
                               !.checks = watch.checks \cup {[gen |-> watch.gen, bad |-> bad]}]
    BY <1>1 DEF StreamEnds
  <2>2. /\ watch'.stream = FALSE /\ WatchKeeps({"stream", "checks"})
        /\ watch'.checks = watch.checks \cup {[gen |-> watch.gen, bad |-> bad]}
    BY <2>1, SMTT(20) DEF WatchTypes, WatchFields, WatchKeeps
  <2>3. [gen |-> watch.gen, bad |-> bad] \in [gen : 0..watch.gen, bad : BOOLEAN]
    BY SMTT(20) DEF WatchTypes
  <2>4. watch'.checks \subseteq [gen : 0..watch.gen, bad : BOOLEAN]
    BY <2>2, <2>3 DEF WatchTypes
  <2>5. watch'.gen = watch.gen /\ watch'.found = watch.found /\ DOMAIN watch' = WatchFields
    BY <2>2 DEF WatchKeeps
  <2>6. WatchTypes'
    BY <2>4, <2>5 DEF WatchTypes, WatchFields
  <2> QED
    BY <2>2, <2>6 DEF StreamEnded
<1>2. CASE ~(Heard /\ watch.stream)
  BY <1>2 DEF StreamEnds, StreamEnded, WatchTypes, WatchFields, Heard
<1> QED
  BY <1>1, <1>2

\* One lemma per action: what the action does, then what is left of the books after it.
LEMMA PrepareKeeps ==
    ASSUME TurnIInv, Prepare
    PROVE  TurnIInv'
<1>1. /\ run.phase = "start"
      /\ UNCHANGED <<page, conn, press, watch, usage, abort>>
      /\ \/ run'.phase = "ended" /\ run'.outcome = "aborted" /\ RunKeeps({"phase", "outcome"})
         \/ run'.phase = "limits" /\ run'.held = TRUE /\ RunKeeps({"phase", "held"})
  <2>1. RunTypes /\ WatchTypes /\ ConnTypes
    BY DEF TurnIInv, TurnTypes
  <2>2. CASE run' = [run EXCEPT !.phase = "ended", !.outcome = "aborted"]
    BY <2>1, <2>2, SMTT(20) DEF Prepare, RunTypes, WatchTypes, ConnTypes, RunFields, WatchFields,
       ConnFields, RunErrors, RunKeeps
  <2>3. CASE run' = [run EXCEPT !.phase = "limits", !.held = TRUE]
    BY <2>1, <2>3, SMTT(20) DEF Prepare, RunTypes, WatchTypes, ConnTypes, RunFields, WatchFields,
       ConnFields, RunErrors, RunKeeps
  <2> QED
    BY <2>2, <2>3 DEF Prepare
<1> USE BrowserTurnAssumption DEF TurnIInv, TurnTypes, PageBooks, PressBooks, PlaceBooks, ReceiptBooks, ConnBooks, WatchBooks, ReceiptsAreDrained, EndedHoldsNothing, RefusalIsNamed, RunTypes, PageTypes, WatchTypes, ConnTypes, Part, Receipt, Received, Before, Final, After, Drained, RunFields, RunPhases, RunErrors, RunOutcomes, Backs, PageFields, WatchFields, ConnFields, RunKeeps, WatchKeeps, ConnBecomes, Moves, Fails, StreamEnded
<1>2. TurnTypes'
  BY <1>1, SMTT(20)
<1>3. PageBooks' /\ PressBooks'
  BY <1>1, SMTT(20)
<1>4. PlaceBooks' /\ ConnBooks'
  BY <1>1, SMTT(20)
<1>5. ReceiptBooks' /\ ReceiptsAreDrained'
  BY <1>1, SMTT(20)
<1>6. WatchBooks' /\ RefusalIsNamed' /\ EndedHoldsNothing'
  BY <1>1, SMTT(20)
<1> QED
  BY <1>2, <1>3, <1>4, <1>5, <1>6

LEMMA CheckLimitsKeeps ==
    ASSUME TurnIInv, CheckLimits
    PROVE  TurnIInv'
<1>1. /\ run.phase = "limits"
      /\ UNCHANGED <<page, press, watch, usage, abort>>
      /\ \/ Fails /\ UNCHANGED conn
         \/ Moves("acquire") /\ ConnBecomes(conn.open, conn.own, "live")
  <2>1. RunTypes /\ WatchTypes /\ ConnTypes
    BY DEF TurnIInv, TurnTypes
  <2> QED
    BY <2>1, FailureFails, StepMoves, SMTT(20) DEF CheckLimits, Aborted, RunTypes, WatchTypes,
       ConnTypes, RunFields, WatchFields, ConnFields, RunErrors, ConnBecomes
<1> USE BrowserTurnAssumption DEF TurnIInv, TurnTypes, PageBooks, PressBooks, PlaceBooks, ReceiptBooks, ConnBooks, WatchBooks, ReceiptsAreDrained, EndedHoldsNothing, RefusalIsNamed, RunTypes, PageTypes, WatchTypes, ConnTypes, Part, Receipt, Received, Before, Final, After, Drained, RunFields, RunPhases, RunErrors, RunOutcomes, Backs, PageFields, WatchFields, ConnFields, RunKeeps, WatchKeeps, ConnBecomes, Moves, Fails, StreamEnded
<1>2. TurnTypes'
  BY <1>1, SMTT(20)
<1>3. PageBooks' /\ PressBooks'
  BY <1>1, SMTT(20)
<1>4. PlaceBooks' /\ ConnBooks'
  BY <1>1, SMTT(20)
<1>5. ReceiptBooks' /\ ReceiptsAreDrained'
  BY <1>1, SMTT(20)
<1>6. WatchBooks' /\ RefusalIsNamed' /\ EndedHoldsNothing'
  BY <1>1, SMTT(20)
<1> QED
  BY <1>2, <1>3, <1>4, <1>5, <1>6

LEMMA DialAnswersKeeps ==
    ASSUME TurnIInv, DialAnswers
    PROVE  TurnIInv'
<1>1. /\ conn.dial # "none"
      /\ UNCHANGED <<page, press, watch, usage, abort>>
      /\ \/ /\ conn.dial = "live" /\ ConnBecomes(conn.open + 1, TRUE, "none")
            /\ \/ run.phase = "acquire" /\ (Moves("effort") \/ Moves("chat"))
               \/ run.phase # "acquire" /\ Moves(run.back)
         \/ conn.dial = "late" /\ ConnBecomes(conn.open, conn.own, "none") /\ UNCHANGED run
  <2>1. RunTypes /\ WatchTypes /\ ConnTypes
    BY DEF TurnIInv, TurnTypes
  <2> QED
    BY <2>1, StepMoves, SMTT(20) DEF DialAnswers, RunTypes, WatchTypes, ConnTypes, RunFields,
       WatchFields, ConnFields, RunErrors, ConnBecomes
<1> USE BrowserTurnAssumption DEF TurnIInv, TurnTypes, PageBooks, PressBooks, PlaceBooks, ReceiptBooks, ConnBooks, WatchBooks, ReceiptsAreDrained, EndedHoldsNothing, RefusalIsNamed, RunTypes, PageTypes, WatchTypes, ConnTypes, Part, Receipt, Received, Before, Final, After, Drained, RunFields, RunPhases, RunErrors, RunOutcomes, Backs, PageFields, WatchFields, ConnFields, RunKeeps, WatchKeeps, ConnBecomes, Moves, Fails, StreamEnded
<1>2. TurnTypes'
  BY <1>1, SMTT(20)
<1>3. PageBooks' /\ PressBooks'
  BY <1>1, SMTT(20)
<1>4. PlaceBooks' /\ ConnBooks'
  BY <1>1, SMTT(20)
<1>5. ReceiptBooks' /\ ReceiptsAreDrained'
  BY <1>1, SMTT(20)
<1>6. WatchBooks' /\ RefusalIsNamed' /\ EndedHoldsNothing'
  BY <1>1, SMTT(20)
<1> QED
  BY <1>2, <1>3, <1>4, <1>5, <1>6

LEMMA DialFailsKeeps ==
    ASSUME TurnIInv, DialFails
    PROVE  TurnIInv'
<1>1. /\ conn.dial # "none"
      /\ UNCHANGED <<page, press, watch, usage, abort>>
      /\ \/ conn.dial = "live" /\ Fails /\ (ConnBecomes(conn.open, conn.own, "none") \/ ConnBecomes(conn.open + 1, TRUE, "none"))
         \/ conn.dial # "live" /\ UNCHANGED run /\ ConnBecomes(conn.open, conn.own, "none")
  <2>1. RunTypes /\ WatchTypes /\ ConnTypes
    BY DEF TurnIInv, TurnTypes
  <2> QED
    BY <2>1, FailureFails, SMTT(20) DEF DialFails, RunTypes, WatchTypes, ConnTypes, RunFields,
       WatchFields, ConnFields, RunErrors, ConnBecomes
<1> USE BrowserTurnAssumption DEF TurnIInv, TurnTypes, PageBooks, PressBooks, PlaceBooks, ReceiptBooks, ConnBooks, WatchBooks, ReceiptsAreDrained, EndedHoldsNothing, RefusalIsNamed, RunTypes, PageTypes, WatchTypes, ConnTypes, Part, Receipt, Received, Before, Final, After, Drained, RunFields, RunPhases, RunErrors, RunOutcomes, Backs, PageFields, WatchFields, ConnFields, RunKeeps, WatchKeeps, ConnBecomes, Moves, Fails, StreamEnded
<1>2. TurnTypes'
  BY <1>1, SMTT(20)
<1>3. PageBooks' /\ PressBooks'
  BY <1>1, SMTT(20)
<1>4. PlaceBooks' /\ ConnBooks'
  BY <1>1, SMTT(20)
<1>5. ReceiptBooks' /\ ReceiptsAreDrained'
  BY <1>1, SMTT(20)
<1>6. WatchBooks' /\ RefusalIsNamed' /\ EndedHoldsNothing'
  BY <1>1, SMTT(20)
<1> QED
  BY <1>2, <1>3, <1>4, <1>5, <1>6

LEMMA GiveUpDialKeeps ==
    ASSUME TurnIInv, GiveUpDial
    PROVE  TurnIInv'
<1>1. /\ run.phase \in {"acquire", "rebind"}
      /\ UNCHANGED <<page, press, watch, usage, abort>>
      /\ Fails
      /\ ConnBecomes(conn.open, conn.own, "late")
  <2>1. RunTypes /\ WatchTypes /\ ConnTypes
    BY DEF TurnIInv, TurnTypes
  <2> QED
    BY <2>1, FailureFails, SMTT(20) DEF GiveUpDial, Aborted, RunTypes, WatchTypes, ConnTypes,
       RunFields, WatchFields, ConnFields, RunErrors, ConnBecomes
<1> USE BrowserTurnAssumption DEF TurnIInv, TurnTypes, PageBooks, PressBooks, PlaceBooks, ReceiptBooks, ConnBooks, WatchBooks, ReceiptsAreDrained, EndedHoldsNothing, RefusalIsNamed, RunTypes, PageTypes, WatchTypes, ConnTypes, Part, Receipt, Received, Before, Final, After, Drained, RunFields, RunPhases, RunErrors, RunOutcomes, Backs, PageFields, WatchFields, ConnFields, RunKeeps, WatchKeeps, ConnBecomes, Moves, Fails, StreamEnded
<1>2. TurnTypes'
  BY <1>1, SMTT(20)
<1>3. PageBooks' /\ PressBooks'
  BY <1>1, SMTT(20)
<1>4. PlaceBooks' /\ ConnBooks'
  BY <1>1, SMTT(20)
<1>5. ReceiptBooks' /\ ReceiptsAreDrained'
  BY <1>1, SMTT(20)
<1>6. WatchBooks' /\ RefusalIsNamed' /\ EndedHoldsNothing'
  BY <1>1, SMTT(20)
<1> QED
  BY <1>2, <1>3, <1>4, <1>5, <1>6

LEMMA NewChatKeeps ==
    ASSUME TurnIInv, NewChat
    PROVE  TurnIInv'
<1>1. /\ run.phase = "chat"
      /\ UNCHANGED <<page, conn, press, watch, usage, abort>>
      /\ Moves("effort")
  <2>1. RunTypes /\ WatchTypes /\ ConnTypes
    BY DEF TurnIInv, TurnTypes
  <2> QED
    BY <2>1, StepMoves, SMTT(20) DEF NewChat, RunTypes, WatchTypes, ConnTypes, RunFields,
       WatchFields, ConnFields, RunErrors
<1> USE BrowserTurnAssumption DEF TurnIInv, TurnTypes, PageBooks, PressBooks, PlaceBooks, ReceiptBooks, ConnBooks, WatchBooks, ReceiptsAreDrained, EndedHoldsNothing, RefusalIsNamed, RunTypes, PageTypes, WatchTypes, ConnTypes, Part, Receipt, Received, Before, Final, After, Drained, RunFields, RunPhases, RunErrors, RunOutcomes, Backs, PageFields, WatchFields, ConnFields, RunKeeps, WatchKeeps, ConnBecomes, Moves, Fails, StreamEnded
<1>2. TurnTypes'
  BY <1>1, SMTT(20)
<1>3. PageBooks' /\ PressBooks'
  BY <1>1, SMTT(20)
<1>4. PlaceBooks' /\ ConnBooks'
  BY <1>1, SMTT(20)
<1>5. ReceiptBooks' /\ ReceiptsAreDrained'
  BY <1>1, SMTT(20)
<1>6. WatchBooks' /\ RefusalIsNamed' /\ EndedHoldsNothing'
  BY <1>1, SMTT(20)
<1> QED
  BY <1>2, <1>3, <1>4, <1>5, <1>6

LEMMA SelectEffortKeeps ==
    ASSUME TurnIInv, SelectEffort
    PROVE  TurnIInv'
<1>1. /\ run.phase = "effort"
      /\ UNCHANGED <<page, conn, press, watch, usage, abort>>
      /\ Moves("attach")
  <2>1. RunTypes /\ WatchTypes /\ ConnTypes
    BY DEF TurnIInv, TurnTypes
  <2> QED
    BY <2>1, SMTT(20) DEF SelectEffort, RunTypes, WatchTypes, ConnTypes, RunFields, WatchFields,
       ConnFields, RunErrors, Moves, RunKeeps
<1> USE BrowserTurnAssumption DEF TurnIInv, TurnTypes, PageBooks, PressBooks, PlaceBooks, ReceiptBooks, ConnBooks, WatchBooks, ReceiptsAreDrained, EndedHoldsNothing, RefusalIsNamed, RunTypes, PageTypes, WatchTypes, ConnTypes, Part, Receipt, Received, Before, Final, After, Drained, RunFields, RunPhases, RunErrors, RunOutcomes, Backs, PageFields, WatchFields, ConnFields, RunKeeps, WatchKeeps, ConnBecomes, Moves, Fails, StreamEnded
<1>2. TurnTypes'
  BY <1>1, SMTT(20)
<1>3. PageBooks' /\ PressBooks'
  BY <1>1, SMTT(20)
<1>4. PlaceBooks' /\ ConnBooks'
  BY <1>1, SMTT(20)
<1>5. ReceiptBooks' /\ ReceiptsAreDrained'
  BY <1>1, SMTT(20)
<1>6. WatchBooks' /\ RefusalIsNamed' /\ EndedHoldsNothing'
  BY <1>1, SMTT(20)
<1> QED
  BY <1>2, <1>3, <1>4, <1>5, <1>6

LEMMA AttachPromptKeeps ==
    ASSUME TurnIInv, AttachPrompt
    PROVE  TurnIInv'
<1>1. /\ run.phase = "attach"
      /\ UNCHANGED <<page, conn, press, watch, usage, abort>>
      /\ Moves("files")
  <2>1. RunTypes /\ WatchTypes /\ ConnTypes
    BY DEF TurnIInv, TurnTypes
  <2> QED
    BY <2>1, SMTT(20) DEF AttachPrompt, RunTypes, WatchTypes, ConnTypes, RunFields, WatchFields,
       ConnFields, RunErrors, Moves, RunKeeps
<1> USE BrowserTurnAssumption DEF TurnIInv, TurnTypes, PageBooks, PressBooks, PlaceBooks, ReceiptBooks, ConnBooks, WatchBooks, ReceiptsAreDrained, EndedHoldsNothing, RefusalIsNamed, RunTypes, PageTypes, WatchTypes, ConnTypes, Part, Receipt, Received, Before, Final, After, Drained, RunFields, RunPhases, RunErrors, RunOutcomes, Backs, PageFields, WatchFields, ConnFields, RunKeeps, WatchKeeps, ConnBecomes, Moves, Fails, StreamEnded
<1>2. TurnTypes'
  BY <1>1, SMTT(20)
<1>3. PageBooks' /\ PressBooks'
  BY <1>1, SMTT(20)
<1>4. PlaceBooks' /\ ConnBooks'
  BY <1>1, SMTT(20)
<1>5. ReceiptBooks' /\ ReceiptsAreDrained'
  BY <1>1, SMTT(20)
<1>6. WatchBooks' /\ RefusalIsNamed' /\ EndedHoldsNothing'
  BY <1>1, SMTT(20)
<1> QED
  BY <1>2, <1>3, <1>4, <1>5, <1>6

LEMMA AttachSlipsKeeps ==
    ASSUME TurnIInv, AttachSlips
    PROVE  TurnIInv'
<1>1. /\ run.phase = "attach"
      /\ UNCHANGED <<conn, press, usage, abort>>
      /\ Moves("unattached")
      /\ \/ UNCHANGED <<page, watch>>
         \/ /\ page' = [page EXCEPT ![run.part].sent = @ + 1]
            /\ (watch.on => watch'.owned /\ watch'.stream)
            /\ WatchKeeps({"owned", "stream"})
  <2>1. RunTypes /\ WatchTypes /\ ConnTypes
    BY DEF TurnIInv, TurnTypes
  <2>2. CASE UNCHANGED <<page, watch>>
    BY <2>1, StepMoves, MessageIsHeard, <2>2, SMTT(20) DEF AttachSlips, Received, ConnTypes,
       ConnFields
  <2>3. CASE /\ page' = [page EXCEPT ![run.part].sent = @ + 1]
             /\ watch' = [watch EXCEPT !.owned = @ \/ Heard, !.stream = @ \/ Heard]
    BY <2>1, StepMoves, MessageIsHeard, <2>3, SMTT(20) DEF AttachSlips, Received, ConnTypes,
       ConnFields
  <2> QED
    BY <2>2, <2>3 DEF AttachSlips
<1> USE BrowserTurnAssumption DEF TurnIInv, TurnTypes, PageBooks, PressBooks, PlaceBooks, ReceiptBooks, ConnBooks, WatchBooks, ReceiptsAreDrained, EndedHoldsNothing, RefusalIsNamed, RunTypes, PageTypes, WatchTypes, ConnTypes, Part, Receipt, Received, Before, Final, After, Drained, RunFields, RunPhases, RunErrors, RunOutcomes, Backs, PageFields, WatchFields, ConnFields, RunKeeps, WatchKeeps, ConnBecomes, Moves, Fails, StreamEnded
<1>2. TurnTypes'
  BY <1>1, SMTT(20)
<1>3. PageBooks' /\ PressBooks'
  BY <1>1, SMTT(20)
<1>4. PlaceBooks' /\ ConnBooks'
  BY <1>1, SMTT(20)
<1>5. ReceiptBooks' /\ ReceiptsAreDrained'
  BY <1>1, SMTT(20)
<1>6. WatchBooks' /\ RefusalIsNamed' /\ EndedHoldsNothing'
  BY <1>1, SMTT(20)
<1> QED
  BY <1>2, <1>3, <1>4, <1>5, <1>6

LEMMA RetryAttachmentKeeps ==
    ASSUME TurnIInv, RetryAttachment
    PROVE  TurnIInv'
<1>1. /\ run.phase = "unattached"
      /\ UNCHANGED <<page, conn, press, watch, usage, abort>>
      /\ \/ Fails
         \/ /\ run'.phase = "attach" /\ RunKeeps({"phase", "missed"})
            /\ ~run'.missed => ~run.missed /\ ~Received(run.part)
  <2>1. RunTypes /\ WatchTypes /\ ConnTypes
    BY DEF TurnIInv, TurnTypes
  <2>2. CASE run' = [run EXCEPT !.phase = "attach", !.retry = FALSE, !.missed = @ \/ Received(run.part)]
    <3>1. run'.phase = "attach" /\ RunKeeps({"phase", "missed"})
      BY <2>1, <2>2, SMTT(20) DEF RunTypes, RunFields, RunKeeps
    <3>2. run'.missed = (run.missed \/ Received(run.part))
      BY <2>1, <2>2, SMTT(20) DEF RunTypes, RunFields, Received
    <3> QED
      BY <3>1, <3>2, Zenon DEF RetryAttachment
  <2>3. CASE run' = FailsWith("integrity")
    <3>1. Fails
      BY <2>1, <2>3, FailureFails, Zenon DEF RunErrors
    <3> QED
      BY <3>1, Zenon DEF RetryAttachment
  <2> QED
    BY <2>2, <2>3, Zenon DEF RetryAttachment
<1> USE BrowserTurnAssumption DEF TurnIInv, TurnTypes, PageBooks, PressBooks, PlaceBooks, ReceiptBooks, ConnBooks, WatchBooks, ReceiptsAreDrained, EndedHoldsNothing, RefusalIsNamed, RunTypes, PageTypes, WatchTypes, ConnTypes, Part, Receipt, Received, Before, Final, After, Drained, RunFields, RunPhases, RunErrors, RunOutcomes, Backs, PageFields, WatchFields, ConnFields, RunKeeps, WatchKeeps, ConnBecomes, Moves, Fails, StreamEnded
<1>2. TurnTypes'
  BY <1>1, SMTT(20)
<1>3. PageBooks' /\ PressBooks'
  BY <1>1, SMTT(20)
<1>4. PlaceBooks' /\ ConnBooks'
  BY <1>1, SMTT(20)
<1>5. ReceiptBooks' /\ ReceiptsAreDrained'
  BY <1>1, SMTT(20)
<1>6. WatchBooks' /\ RefusalIsNamed' /\ EndedHoldsNothing'
  BY <1>1, SMTT(20)
<1> QED
  BY <1>2, <1>3, <1>4, <1>5, <1>6

LEMMA RefreshCatalogKeeps ==
    ASSUME TurnIInv, RefreshCatalog
    PROVE  TurnIInv'
<1>1. /\ run.phase = "attach"
      /\ UNCHANGED <<page, conn, press, watch, usage, abort>>
      /\ Moves("chat")
  <2>1. RunTypes /\ WatchTypes /\ ConnTypes
    BY DEF TurnIInv, TurnTypes
  <2> QED
    BY <2>1, SMTT(20) DEF RefreshCatalog, RunTypes, WatchTypes, ConnTypes, RunFields, WatchFields,
       ConnFields, RunErrors, Moves, RunKeeps
<1> USE BrowserTurnAssumption DEF TurnIInv, TurnTypes, PageBooks, PressBooks, PlaceBooks, ReceiptBooks, ConnBooks, WatchBooks, ReceiptsAreDrained, EndedHoldsNothing, RefusalIsNamed, RunTypes, PageTypes, WatchTypes, ConnTypes, Part, Receipt, Received, Before, Final, After, Drained, RunFields, RunPhases, RunErrors, RunOutcomes, Backs, PageFields, WatchFields, ConnFields, RunKeeps, WatchKeeps, ConnBecomes, Moves, Fails, StreamEnded
<1>2. TurnTypes'
  BY <1>1, SMTT(20)
<1>3. PageBooks' /\ PressBooks'
  BY <1>1, SMTT(20)
<1>4. PlaceBooks' /\ ConnBooks'
  BY <1>1, SMTT(20)
<1>5. ReceiptBooks' /\ ReceiptsAreDrained'
  BY <1>1, SMTT(20)
<1>6. WatchBooks' /\ RefusalIsNamed' /\ EndedHoldsNothing'
  BY <1>1, SMTT(20)
<1> QED
  BY <1>2, <1>3, <1>4, <1>5, <1>6

LEMMA SendButtonReadyKeeps ==
    ASSUME TurnIInv, SendButtonReady
    PROVE  TurnIInv'
<1>1. /\ run.phase = "files"
      /\ UNCHANGED <<page, conn, press, usage, abort>>
      /\ Moves("send")
      /\ DOMAIN watch' = WatchFields /\ watch'.gen = watch.gen + 1
      /\ watch'.checks = {} /\ watch'.found = "no"
  <2>1. RunTypes /\ WatchTypes /\ ConnTypes
    BY DEF TurnIInv, TurnTypes
  <2> QED
    BY <2>1, StepMoves, SMTT(20) DEF SendButtonReady, Part, RunTypes, WatchTypes, ConnTypes,
       RunFields, WatchFields, ConnFields, RunErrors
<1> USE BrowserTurnAssumption DEF TurnIInv, TurnTypes, PageBooks, PressBooks, PlaceBooks, ReceiptBooks, ConnBooks, WatchBooks, ReceiptsAreDrained, EndedHoldsNothing, RefusalIsNamed, RunTypes, PageTypes, WatchTypes, ConnTypes, Part, Receipt, Received, Before, Final, After, Drained, RunFields, RunPhases, RunErrors, RunOutcomes, Backs, PageFields, WatchFields, ConnFields, RunKeeps, WatchKeeps, ConnBecomes, Moves, Fails, StreamEnded
<1>2. TurnTypes'
  BY <1>1, SMTT(20)
<1>3. PageBooks' /\ PressBooks'
  BY <1>1, SMTT(20)
<1>4. PlaceBooks' /\ ConnBooks'
  BY <1>1, SMTT(20)
<1>5. ReceiptBooks' /\ ReceiptsAreDrained'
  BY <1>1, SMTT(20)
<1>6. WatchBooks' /\ RefusalIsNamed' /\ EndedHoldsNothing'
  BY <1>1, SMTT(20)
<1> QED
  BY <1>2, <1>3, <1>4, <1>5, <1>6

LEMMA PressKeeps ==
    ASSUME TurnIInv, Press
    PROVE  TurnIInv'
<1>1. /\ run.phase = "send"
      /\ UNCHANGED <<page, conn, watch, usage, abort>>
      /\ press' = "pending"
      /\ Moves("accept")
  <2>1. RunTypes /\ WatchTypes /\ ConnTypes
    BY DEF TurnIInv, TurnTypes
  <2> QED
    BY <2>1, StepMoves, SMTT(20) DEF Press, Aborted, RunTypes, WatchTypes, ConnTypes, RunFields,
       WatchFields, ConnFields, RunErrors
<1> USE BrowserTurnAssumption DEF TurnIInv, TurnTypes, PageBooks, PressBooks, PlaceBooks, ReceiptBooks, ConnBooks, WatchBooks, ReceiptsAreDrained, EndedHoldsNothing, RefusalIsNamed, RunTypes, PageTypes, WatchTypes, ConnTypes, Part, Receipt, Received, Before, Final, After, Drained, RunFields, RunPhases, RunErrors, RunOutcomes, Backs, PageFields, WatchFields, ConnFields, RunKeeps, WatchKeeps, ConnBecomes, Moves, Fails, StreamEnded
<1>2. TurnTypes'
  BY <1>1, SMTT(20)
<1>3. PageBooks' /\ PressBooks'
  BY <1>1, SMTT(20)
<1>4. PlaceBooks' /\ ConnBooks'
  BY <1>1, SMTT(20)
<1>5. ReceiptBooks' /\ ReceiptsAreDrained'
  BY <1>1, SMTT(20)
<1>6. WatchBooks' /\ RefusalIsNamed' /\ EndedHoldsNothing'
  BY <1>1, SMTT(20)
<1> QED
  BY <1>2, <1>3, <1>4, <1>5, <1>6

LEMMA AcceptKeeps ==
    ASSUME TurnIInv, Accept
    PROVE  TurnIInv'
<1>1. /\ run.phase = "accept"
      /\ Received(run.part)
      /\ UNCHANGED <<page, conn, watch, abort>>
      /\ press' = "none"
      /\ usage' = [usage EXCEPT ![run.part] = "pending"]
      /\ Moves("bind")
  <2>1. RunTypes /\ WatchTypes /\ ConnTypes
    BY DEF TurnIInv, TurnTypes
  <2> QED
    BY <2>1, SMTT(20) DEF Accept, Attached, Aborted, Received, RunTypes, WatchTypes, ConnTypes,
       RunFields, WatchFields, ConnFields, RunErrors, Moves, RunKeeps
<1> USE BrowserTurnAssumption DEF TurnIInv, TurnTypes, PageBooks, PressBooks, PlaceBooks, ReceiptBooks, ConnBooks, WatchBooks, ReceiptsAreDrained, EndedHoldsNothing, RefusalIsNamed, RunTypes, PageTypes, WatchTypes, ConnTypes, Part, Receipt, Received, Before, Final, After, Drained, RunFields, RunPhases, RunErrors, RunOutcomes, Backs, PageFields, WatchFields, ConnFields, RunKeeps, WatchKeeps, ConnBecomes, Moves, Fails, StreamEnded
<1>2. TurnTypes'
  BY <1>1, SMTT(20)
<1>3. PageBooks' /\ PressBooks'
  BY <1>1, SMTT(20)
<1>4. PlaceBooks' /\ ConnBooks'
  BY <1>1, SMTT(20)
<1>5. ReceiptBooks' /\ ReceiptsAreDrained'
  BY <1>1, SMTT(20)
<1>6. WatchBooks' /\ RefusalIsNamed' /\ EndedHoldsNothing'
  BY <1>1, SMTT(20)
<1> QED
  BY <1>2, <1>3, <1>4, <1>5, <1>6

LEMMA BindAnswerKeeps ==
    ASSUME TurnIInv, BindAnswer
    PROVE  TurnIInv'
<1>1. /\ run.phase = "bind"
      /\ UNCHANGED <<page, conn, press, watch, usage, abort>>
      /\ page[run.part].reply # "none"
      /\ Moves(IF Final THEN "observe" ELSE "ack")
  <2>1. RunTypes /\ WatchTypes /\ ConnTypes
    BY DEF TurnIInv, TurnTypes
  <2> QED
    BY <2>1, SMTT(20) DEF BindAnswer, Attached, Aborted, RunTypes, WatchTypes, ConnTypes, RunFields,
       WatchFields, ConnFields, RunErrors, Moves, RunKeeps
<1> USE BrowserTurnAssumption DEF TurnIInv, TurnTypes, PageBooks, PressBooks, PlaceBooks, ReceiptBooks, ConnBooks, WatchBooks, ReceiptsAreDrained, EndedHoldsNothing, RefusalIsNamed, RunTypes, PageTypes, WatchTypes, ConnTypes, Part, Receipt, Received, Before, Final, After, Drained, RunFields, RunPhases, RunErrors, RunOutcomes, Backs, PageFields, WatchFields, ConnFields, RunKeeps, WatchKeeps, ConnBecomes, Moves, Fails, StreamEnded
<1>2. TurnTypes'
  BY <1>1, SMTT(20)
<1>3. PageBooks' /\ PressBooks'
  BY <1>1, SMTT(20)
<1>4. PlaceBooks' /\ ConnBooks'
  BY <1>1, SMTT(20)
<1>5. ReceiptBooks' /\ ReceiptsAreDrained'
  BY <1>1, SMTT(20)
<1>6. WatchBooks' /\ RefusalIsNamed' /\ EndedHoldsNothing'
  BY <1>1, SMTT(20)
<1> QED
  BY <1>2, <1>3, <1>4, <1>5, <1>6

LEMMA StartRebindKeeps ==
    ASSUME TurnIInv, StartRebind
    PROVE  TurnIInv'
<1>1. /\ run.phase \in {"accept", "bind", "observe"}
      /\ conn.own
      /\ UNCHANGED <<page, usage, abort>>
      /\ \/ Fails /\ UNCHANGED <<conn, press, watch>>
         \/ /\ run'.phase = "rebind" /\ run'.back = run.phase /\ RunKeeps({"phase", "back"})
            /\ ConnBecomes(conn.open - 1, FALSE, "live") /\ press' = "none"
            /\ watch'.on = FALSE /\ watch'.stream = FALSE /\ WatchKeeps({"on", "stream"})
  <2>1. RunTypes /\ WatchTypes /\ ConnTypes
    BY DEF TurnIInv, TurnTypes
  <2>2. CASE run' = FailsWith("failed") /\ UNCHANGED <<conn, press, watch>>
    BY <2>1, FailureFails, <2>2, SMTT(20) DEF StartRebind, Attached, Aborted, RunTypes, WatchTypes,
       ConnTypes, RunFields, WatchFields, ConnFields, RunErrors, RunKeeps, WatchKeeps, ConnBecomes
  <2>3. CASE /\ run' = [run EXCEPT !.phase = "rebind", !.back = run.phase, !.rebinds = @ + 1] /\ press' = "none"
              /\ conn' = [open |-> conn.open - 1, own |-> FALSE, dial |-> "live"]
              /\ watch' = [watch EXCEPT !.on = FALSE, !.stream = FALSE]
    BY <2>1, FailureFails, <2>3, SMTT(20) DEF StartRebind, Attached, Aborted, RunTypes, WatchTypes,
       ConnTypes, RunFields, WatchFields, ConnFields, RunErrors, RunKeeps, WatchKeeps, ConnBecomes
  <2> QED
    BY <2>2, <2>3 DEF StartRebind
<1> USE BrowserTurnAssumption DEF TurnIInv, TurnTypes, PageBooks, PressBooks, PlaceBooks, ReceiptBooks, ConnBooks, WatchBooks, ReceiptsAreDrained, EndedHoldsNothing, RefusalIsNamed, RunTypes, PageTypes, WatchTypes, ConnTypes, Part, Receipt, Received, Before, Final, After, Drained, RunFields, RunPhases, RunErrors, RunOutcomes, Backs, PageFields, WatchFields, ConnFields, RunKeeps, WatchKeeps, ConnBecomes, Moves, Fails, StreamEnded
<1>2. TurnTypes'
  BY <1>1, SMTT(20)
<1>3. PageBooks' /\ PressBooks'
  BY <1>1, SMTT(20)
<1>4. PlaceBooks' /\ ConnBooks'
  BY <1>1, SMTT(20)
<1>5. ReceiptBooks' /\ ReceiptsAreDrained'
  BY <1>1, SMTT(20)
<1>6. WatchBooks' /\ RefusalIsNamed' /\ EndedHoldsNothing'
  BY <1>1, SMTT(20)
<1> QED
  BY <1>2, <1>3, <1>4, <1>5, <1>6

LEMMA AcknowledgeKeeps ==
    ASSUME TurnIInv, Acknowledge
    PROVE  TurnIInv'
<1>1. /\ run.phase = "ack"
      /\ UNCHANGED <<page, conn, press, watch, usage, abort>>
      /\ \/ Fails
         \/ /\ page[run.part].reply = "done"
            /\ run'.phase = "effort" /\ run'.part = run.part + 1 /\ RunKeeps({"phase", "part"})
  <2>1. RunTypes /\ WatchTypes /\ ConnTypes
    BY DEF TurnIInv, TurnTypes
  <2>2. CASE run' = FailsWith("too_long") \/ run' = FailsWith("failed")
    BY <2>1, FailureFails, <2>2, SMTT(20) DEF Acknowledge, Attached, Aborted, ChecksSettled,
       Rejection, NewAlert, Part, RunTypes, WatchTypes, ConnTypes, RunFields, WatchFields,
       ConnFields, RunErrors, RunKeeps
  <2>3. CASE page[run.part].reply = "done" /\ run' = [run EXCEPT !.phase = "effort", !.part = @ + 1]
    BY <2>1, FailureFails, <2>3, SMTT(20) DEF Acknowledge, Attached, Aborted, ChecksSettled,
       Rejection, NewAlert, Part, RunTypes, WatchTypes, ConnTypes, RunFields, WatchFields,
       ConnFields, RunErrors, RunKeeps
  <2> QED
    BY <2>2, <2>3 DEF Acknowledge
<1> USE BrowserTurnAssumption DEF TurnIInv, TurnTypes, PageBooks, PressBooks, PlaceBooks, ReceiptBooks, ConnBooks, WatchBooks, ReceiptsAreDrained, EndedHoldsNothing, RefusalIsNamed, RunTypes, PageTypes, WatchTypes, ConnTypes, Part, Receipt, Received, Before, Final, After, Drained, RunFields, RunPhases, RunErrors, RunOutcomes, Backs, PageFields, WatchFields, ConnFields, RunKeeps, WatchKeeps, ConnBecomes, Moves, Fails, StreamEnded
<1>2. TurnTypes'
  BY <1>1, SMTT(20)
<1>3. PageBooks' /\ PressBooks'
  BY <1>1, SMTT(20)
<1>4. PlaceBooks' /\ ConnBooks'
  BY <1>1, SMTT(20)
<1>5. ReceiptBooks' /\ ReceiptsAreDrained'
  BY <1>1, SMTT(20)
<1>6. WatchBooks' /\ RefusalIsNamed' /\ EndedHoldsNothing'
  BY <1>1, SMTT(20)
<1> QED
  BY <1>2, <1>3, <1>4, <1>5, <1>6

LEMMA AskApprovalKeeps ==
    ASSUME TurnIInv, AskApproval
    PROVE  TurnIInv'
<1>1. /\ run.phase = "observe"
      /\ UNCHANGED <<page, conn, press, watch, usage, abort>>
      /\ run'.phase = "approve" /\ run'.asking = TRUE /\ RunKeeps({"phase", "asking"})
  <2>1. RunTypes /\ WatchTypes /\ ConnTypes
    BY DEF TurnIInv, TurnTypes
  <2> QED
    BY <2>1, SMTT(20) DEF AskApproval, Attached, Aborted, RunTypes, WatchTypes, ConnTypes,
       RunFields, WatchFields, ConnFields, RunErrors, RunKeeps
<1> USE BrowserTurnAssumption DEF TurnIInv, TurnTypes, PageBooks, PressBooks, PlaceBooks, ReceiptBooks, ConnBooks, WatchBooks, ReceiptsAreDrained, EndedHoldsNothing, RefusalIsNamed, RunTypes, PageTypes, WatchTypes, ConnTypes, Part, Receipt, Received, Before, Final, After, Drained, RunFields, RunPhases, RunErrors, RunOutcomes, Backs, PageFields, WatchFields, ConnFields, RunKeeps, WatchKeeps, ConnBecomes, Moves, Fails, StreamEnded
<1>2. TurnTypes'
  BY <1>1, SMTT(20)
<1>3. PageBooks' /\ PressBooks'
  BY <1>1, SMTT(20)
<1>4. PlaceBooks' /\ ConnBooks'
  BY <1>1, SMTT(20)
<1>5. ReceiptBooks' /\ ReceiptsAreDrained'
  BY <1>1, SMTT(20)
<1>6. WatchBooks' /\ RefusalIsNamed' /\ EndedHoldsNothing'
  BY <1>1, SMTT(20)
<1> QED
  BY <1>2, <1>3, <1>4, <1>5, <1>6

LEMMA CloseApprovalKeeps ==
    ASSUME TurnIInv, CloseApproval
    PROVE  TurnIInv'
<1>1. /\ run.phase = "approve"
      /\ UNCHANGED <<page, conn, press, watch, usage, abort>>
      /\ run'.asking = FALSE
      /\ \/ run'.phase = "observe" /\ RunKeeps({"phase", "asking"})
         \/ run'.phase = "catch" /\ run'.error \in RunErrors /\ RunKeeps({"phase", "error", "asking"})
  <2>1. RunTypes /\ WatchTypes /\ ConnTypes
    BY DEF TurnIInv, TurnTypes
  <2>2. CASE run' = [run EXCEPT !.phase = "observe", !.asking = FALSE]
    BY <2>1, <2>2, SMTT(20) DEF CloseApproval, Aborted, RunTypes, WatchTypes, ConnTypes, RunFields,
       WatchFields, ConnFields, RunErrors, RunKeeps, FailsWith
  <2>3. CASE run' = [FailsWith("abort") EXCEPT !.asking = FALSE]
    BY <2>1, <2>3, SMTT(20) DEF CloseApproval, Aborted, RunTypes, WatchTypes, ConnTypes, RunFields,
       WatchFields, ConnFields, RunErrors, RunKeeps, FailsWith
  <2>4. CASE run' = [FailsWith("failed") EXCEPT !.asking = FALSE]
    BY <2>1, <2>4, SMTT(20) DEF CloseApproval, Aborted, RunTypes, WatchTypes, ConnTypes, RunFields,
       WatchFields, ConnFields, RunErrors, RunKeeps, FailsWith
  <2> QED
    BY <2>2, <2>3, <2>4 DEF CloseApproval
<1> USE BrowserTurnAssumption DEF TurnIInv, TurnTypes, PageBooks, PressBooks, PlaceBooks, ReceiptBooks, ConnBooks, WatchBooks, ReceiptsAreDrained, EndedHoldsNothing, RefusalIsNamed, RunTypes, PageTypes, WatchTypes, ConnTypes, Part, Receipt, Received, Before, Final, After, Drained, RunFields, RunPhases, RunErrors, RunOutcomes, Backs, PageFields, WatchFields, ConnFields, RunKeeps, WatchKeeps, ConnBecomes, Moves, Fails, StreamEnded
<1>2. TurnTypes'
  BY <1>1, SMTT(20)
<1>3. PageBooks' /\ PressBooks'
  BY <1>1, SMTT(20)
<1>4. PlaceBooks' /\ ConnBooks'
  BY <1>1, SMTT(20)
<1>5. ReceiptBooks' /\ ReceiptsAreDrained'
  BY <1>1, SMTT(20)
<1>6. WatchBooks' /\ RefusalIsNamed' /\ EndedHoldsNothing'
  BY <1>1, SMTT(20)
<1> QED
  BY <1>2, <1>3, <1>4, <1>5, <1>6

LEMMA ToleratesFaultKeeps ==
    ASSUME TurnIInv, ToleratesFault
    PROVE  TurnIInv'
<1>1. /\ run.phase = "observe"
      /\ UNCHANGED <<page, conn, press, watch, usage, abort>>
      /\ Fails \/ RunKeeps({})
  <2>1. RunTypes /\ WatchTypes /\ ConnTypes
    BY DEF TurnIInv, TurnTypes
  <2>2. CASE run' = FailsWith("failed")
    BY <2>1, FailureFails, <2>2, SMTT(20) DEF ToleratesFault, Attached, Aborted, RunTypes,
       WatchTypes, ConnTypes, RunFields, WatchFields, ConnFields, RunErrors, RunKeeps
  <2>3. CASE run' = [run EXCEPT !.faults = @ + 1]
    BY <2>1, FailureFails, <2>3, SMTT(20) DEF ToleratesFault, Attached, Aborted, RunTypes,
       WatchTypes, ConnTypes, RunFields, WatchFields, ConnFields, RunErrors, RunKeeps
  <2> QED
    BY <2>2, <2>3 DEF ToleratesFault
<1> USE BrowserTurnAssumption DEF TurnIInv, TurnTypes, PageBooks, PressBooks, PlaceBooks, ReceiptBooks, ConnBooks, WatchBooks, ReceiptsAreDrained, EndedHoldsNothing, RefusalIsNamed, RunTypes, PageTypes, WatchTypes, ConnTypes, Part, Receipt, Received, Before, Final, After, Drained, RunFields, RunPhases, RunErrors, RunOutcomes, Backs, PageFields, WatchFields, ConnFields, RunKeeps, WatchKeeps, ConnBecomes, Moves, Fails, StreamEnded
<1>2. TurnTypes'
  BY <1>1, SMTT(20)
<1>3. PageBooks' /\ PressBooks'
  BY <1>1, SMTT(20)
<1>4. PlaceBooks' /\ ConnBooks'
  BY <1>1, SMTT(20)
<1>5. ReceiptBooks' /\ ReceiptsAreDrained'
  BY <1>1, SMTT(20)
<1>6. WatchBooks' /\ RefusalIsNamed' /\ EndedHoldsNothing'
  BY <1>1, SMTT(20)
<1> QED
  BY <1>2, <1>3, <1>4, <1>5, <1>6

LEMMA CompleteKeeps ==
    ASSUME TurnIInv, Complete
    PROVE  TurnIInv'
<1>1. /\ run.phase = "observe"
      /\ UNCHANGED <<page, conn, press, watch, usage, abort>>
      /\ \/ Fails
         \/ /\ run'.phase = "finally" /\ run'.outcome = "completed" /\ RunKeeps({"phase", "outcome"})
            /\ watch.checks = {} /\ watch.found # "rejected"
  <2>1. RunTypes /\ WatchTypes /\ ConnTypes
    BY DEF TurnIInv, TurnTypes
  <2>2. CASE run' = FailsWith("too_long")
    BY <2>1, FailureFails, <2>2, SMTT(20) DEF Complete, Attached, Aborted, ChecksSettled, Rejection,
       NewAlert, Part, RunTypes, WatchTypes, ConnTypes, RunFields, WatchFields, ConnFields,
       RunErrors, RunKeeps
  <2>3. CASE ~Rejection /\ run' = [run EXCEPT !.phase = "finally", !.outcome = "completed"]
    BY <2>1, FailureFails, <2>3, SMTT(20) DEF Complete, Attached, Aborted, ChecksSettled, Rejection,
       NewAlert, Part, RunTypes, WatchTypes, ConnTypes, RunFields, WatchFields, ConnFields,
       RunErrors, RunKeeps
  <2> QED
    BY <2>2, <2>3 DEF Complete
<1> USE BrowserTurnAssumption DEF TurnIInv, TurnTypes, PageBooks, PressBooks, PlaceBooks, ReceiptBooks, ConnBooks, WatchBooks, ReceiptsAreDrained, EndedHoldsNothing, RefusalIsNamed, RunTypes, PageTypes, WatchTypes, ConnTypes, Part, Receipt, Received, Before, Final, After, Drained, RunFields, RunPhases, RunErrors, RunOutcomes, Backs, PageFields, WatchFields, ConnFields, RunKeeps, WatchKeeps, ConnBecomes, Moves, Fails, StreamEnded
<1>2. TurnTypes'
  BY <1>1, SMTT(20)
<1>3. PageBooks' /\ PressBooks'
  BY <1>1, SMTT(20)
<1>4. PlaceBooks' /\ ConnBooks'
  BY <1>1, SMTT(20)
<1>5. ReceiptBooks' /\ ReceiptsAreDrained'
  BY <1>1, SMTT(20)
<1>6. WatchBooks' /\ RefusalIsNamed' /\ EndedHoldsNothing'
  BY <1>1, SMTT(20)
<1> QED
  BY <1>2, <1>3, <1>4, <1>5, <1>6

LEMMA GivesUpKeeps ==
    ASSUME TurnIInv, GivesUp
    PROVE  TurnIInv'
<1>1. /\ run.phase \in {"chat", "effort", "attach", "files", "send", "accept", "bind", "ack", "observe"}
      /\ UNCHANGED <<page, conn, press, watch, usage, abort>>
      /\ Fails
  <2>1. RunTypes /\ WatchTypes /\ ConnTypes
    BY DEF TurnIInv, TurnTypes
  <2> QED
    BY <2>1, FailureFails, SMTT(20) DEF GivesUp, RunTypes, WatchTypes, ConnTypes, RunFields,
       WatchFields, ConnFields, RunErrors
<1> USE BrowserTurnAssumption DEF TurnIInv, TurnTypes, PageBooks, PressBooks, PlaceBooks, ReceiptBooks, ConnBooks, WatchBooks, ReceiptsAreDrained, EndedHoldsNothing, RefusalIsNamed, RunTypes, PageTypes, WatchTypes, ConnTypes, Part, Receipt, Received, Before, Final, After, Drained, RunFields, RunPhases, RunErrors, RunOutcomes, Backs, PageFields, WatchFields, ConnFields, RunKeeps, WatchKeeps, ConnBecomes, Moves, Fails, StreamEnded
<1>2. TurnTypes'
  BY <1>1, SMTT(20)
<1>3. PageBooks' /\ PressBooks'
  BY <1>1, SMTT(20)
<1>4. PlaceBooks' /\ ConnBooks'
  BY <1>1, SMTT(20)
<1>5. ReceiptBooks' /\ ReceiptsAreDrained'
  BY <1>1, SMTT(20)
<1>6. WatchBooks' /\ RefusalIsNamed' /\ EndedHoldsNothing'
  BY <1>1, SMTT(20)
<1> QED
  BY <1>2, <1>3, <1>4, <1>5, <1>6

LEMMA InterruptedKeeps ==
    ASSUME TurnIInv, Interrupted
    PROVE  TurnIInv'
<1>1. /\ run.phase \in {"chat", "effort", "attach", "files", "send", "accept", "bind", "ack", "observe"}
      /\ UNCHANGED <<page, conn, press, watch, usage, abort>>
      /\ Fails
  <2>1. RunTypes /\ WatchTypes /\ ConnTypes
    BY DEF TurnIInv, TurnTypes
  <2> QED
    BY <2>1, FailureFails, SMTT(20) DEF Interrupted, Aborted, RunTypes, WatchTypes, ConnTypes,
       RunFields, WatchFields, ConnFields, RunErrors
<1> USE BrowserTurnAssumption DEF TurnIInv, TurnTypes, PageBooks, PressBooks, PlaceBooks, ReceiptBooks, ConnBooks, WatchBooks, ReceiptsAreDrained, EndedHoldsNothing, RefusalIsNamed, RunTypes, PageTypes, WatchTypes, ConnTypes, Part, Receipt, Received, Before, Final, After, Drained, RunFields, RunPhases, RunErrors, RunOutcomes, Backs, PageFields, WatchFields, ConnFields, RunKeeps, WatchKeeps, ConnBecomes, Moves, Fails, StreamEnded
<1>2. TurnTypes'
  BY <1>1, SMTT(20)
<1>3. PageBooks' /\ PressBooks'
  BY <1>1, SMTT(20)
<1>4. PlaceBooks' /\ ConnBooks'
  BY <1>1, SMTT(20)
<1>5. ReceiptBooks' /\ ReceiptsAreDrained'
  BY <1>1, SMTT(20)
<1>6. WatchBooks' /\ RefusalIsNamed' /\ EndedHoldsNothing'
  BY <1>1, SMTT(20)
<1> QED
  BY <1>2, <1>3, <1>4, <1>5, <1>6

LEMMA CatchKeeps ==
    ASSUME TurnIInv, Catch
    PROVE  TurnIInv'
<1>1. /\ run.phase = "catch"
      /\ UNCHANGED <<page, conn, press, watch, usage, abort>>
      /\ run'.phase = "finally" /\ RunKeeps({"phase", "outcome"})
      /\ run'.outcome \in RunOutcomes \ {"completed"}
      /\ run'.outcome = "failed" => watch.checks = {} /\ watch.found # "rejected"
  <2>1. RunTypes /\ WatchTypes /\ ConnTypes
    BY DEF TurnIInv, TurnTypes
  <2> QED
    BY <2>1, SMTT(20) DEF Catch, ChecksSettled, Rejection, NewAlert, Part, RunTypes, WatchTypes,
       ConnTypes, RunFields, WatchFields, ConnFields, RunErrors, RunKeeps, RunOutcomes
<1> USE BrowserTurnAssumption DEF TurnIInv, TurnTypes, PageBooks, PressBooks, PlaceBooks, ReceiptBooks, ConnBooks, WatchBooks, ReceiptsAreDrained, EndedHoldsNothing, RefusalIsNamed, RunTypes, PageTypes, WatchTypes, ConnTypes, Part, Receipt, Received, Before, Final, After, Drained, RunFields, RunPhases, RunErrors, RunOutcomes, Backs, PageFields, WatchFields, ConnFields, RunKeeps, WatchKeeps, ConnBecomes, Moves, Fails, StreamEnded
<1>2. TurnTypes'
  BY <1>1, SMTT(20)
<1>3. PageBooks' /\ PressBooks'
  BY <1>1, SMTT(20)
<1>4. PlaceBooks' /\ ConnBooks'
  BY <1>1, SMTT(20)
<1>5. ReceiptBooks' /\ ReceiptsAreDrained'
  BY <1>1, SMTT(20)
<1>6. WatchBooks' /\ RefusalIsNamed' /\ EndedHoldsNothing'
  BY <1>1, SMTT(20)
<1> QED
  BY <1>2, <1>3, <1>4, <1>5, <1>6

LEMMA FinallyKeeps ==
    ASSUME TurnIInv, Finally
    PROVE  TurnIInv'
<1>1. /\ run.phase = "finally" /\ Drained
      /\ UNCHANGED <<page, usage, abort>>
      /\ run'.phase = "ended" /\ run'.held = FALSE
      /\ run'.error = "none" /\ run'.back = "none"
      /\ RunKeeps({"phase", "held", "error", "back"})
      /\ press' = "none"
      /\ ConnBecomes(IF conn.own THEN conn.open - 1 ELSE conn.open, FALSE, conn.dial)
      /\ DOMAIN watch' = WatchFields /\ watch'.gen = watch.gen + 1 /\ watch'.on = FALSE
      /\ watch'.checks = {} /\ watch'.found = watch.found
  <2>1. RunTypes /\ WatchTypes /\ ConnTypes
    BY DEF TurnIInv, TurnTypes
  <2> QED
    BY <2>1, SMTT(20) DEF Finally, Drained, Part, RunTypes, WatchTypes, ConnTypes, RunFields,
       WatchFields, ConnFields, RunErrors, RunKeeps, ConnBecomes
<1> USE BrowserTurnAssumption DEF TurnIInv, TurnTypes, PageBooks, PressBooks, PlaceBooks, ReceiptBooks, ConnBooks, WatchBooks, ReceiptsAreDrained, EndedHoldsNothing, RefusalIsNamed, RunTypes, PageTypes, WatchTypes, ConnTypes, Part, Receipt, Received, Before, Final, After, Drained, RunFields, RunPhases, RunErrors, RunOutcomes, Backs, PageFields, WatchFields, ConnFields, RunKeeps, WatchKeeps, ConnBecomes, Moves, Fails, StreamEnded
<1>2. TurnTypes'
  BY <1>1, SMTT(20)
<1>3. PageBooks' /\ PressBooks'
  BY <1>1, SMTT(20)
<1>4. PlaceBooks' /\ ConnBooks'
  BY <1>1, SMTT(20)
<1>5. ReceiptBooks' /\ ReceiptsAreDrained'
  BY <1>1, SMTT(20)
<1>6. WatchBooks' /\ RefusalIsNamed' /\ EndedHoldsNothing'
  BY <1>1, SMTT(20)
<1> QED
  BY <1>2, <1>3, <1>4, <1>5, <1>6

LEMMA ReceiptSettlesKeeps ==
    ASSUME NEW p \in Part, TurnIInv, ReceiptSettles(p)
    PROVE  TurnIInv'
<1>1. /\ usage[p] = "pending" /\ usage' = [usage EXCEPT ![p] = "written"]
      /\ UNCHANGED run
      /\ UNCHANGED <<page, conn, press, watch, abort>>
  <2>1. RunTypes /\ WatchTypes /\ ConnTypes
    BY DEF TurnIInv, TurnTypes
  <2> QED
    BY <2>1, SMTT(20) DEF ReceiptSettles, RunTypes, WatchTypes, ConnTypes, RunFields, WatchFields,
       ConnFields, RunErrors
<1> USE BrowserTurnAssumption DEF TurnIInv, TurnTypes, PageBooks, PressBooks, PlaceBooks, ReceiptBooks, ConnBooks, WatchBooks, ReceiptsAreDrained, EndedHoldsNothing, RefusalIsNamed, RunTypes, PageTypes, WatchTypes, ConnTypes, Part, Receipt, Received, Before, Final, After, Drained, RunFields, RunPhases, RunErrors, RunOutcomes, Backs, PageFields, WatchFields, ConnFields, RunKeeps, WatchKeeps, ConnBecomes, Moves, Fails, StreamEnded
<1>2. TurnTypes'
  BY <1>1, SMTT(20)
<1>3. PageBooks' /\ PressBooks'
  BY <1>1, SMTT(20)
<1>4. PlaceBooks' /\ ConnBooks'
  BY <1>1, SMTT(20)
<1>5. ReceiptBooks' /\ ReceiptsAreDrained'
  BY <1>1, SMTT(20)
<1>6. WatchBooks' /\ RefusalIsNamed' /\ EndedHoldsNothing'
  BY <1>1, SMTT(20)
<1> QED
  BY <1>2, <1>3, <1>4, <1>5, <1>6

LEMMA SettleCheckKeeps ==
    ASSUME NEW c \in watch.checks, TurnIInv, SettleCheck(c)
    PROVE  TurnIInv'
<1>1. /\ UNCHANGED run
      /\ UNCHANGED <<page, conn, press, usage, abort>>
      /\ WatchKeeps({"checks", "found"}) /\ watch'.checks = watch.checks \ {c}
      /\ watch'.found \in {watch.found, "rejected", "unread"}
      /\ watch'.found = "no" => ~c.bad
      /\ watch.found # "no" => watch'.found # "no"
      /\ (c.bad => watch'.found # "no")
  <2>1. RunTypes /\ WatchTypes /\ ConnTypes
    BY DEF TurnIInv, TurnTypes
  <2> QED
    BY <2>1, SMTT(20) DEF SettleCheck, RunTypes, WatchTypes, ConnTypes, RunFields, WatchFields,
       ConnFields, RunErrors, WatchKeeps
<1> USE BrowserTurnAssumption DEF TurnIInv, TurnTypes, PageBooks, PressBooks, PlaceBooks, ReceiptBooks, ConnBooks, WatchBooks, ReceiptsAreDrained, EndedHoldsNothing, RefusalIsNamed, RunTypes, PageTypes, WatchTypes, ConnTypes, Part, Receipt, Received, Before, Final, After, Drained, RunFields, RunPhases, RunErrors, RunOutcomes, Backs, PageFields, WatchFields, ConnFields, RunKeeps, WatchKeeps, ConnBecomes, Moves, Fails, StreamEnded
<1>2. TurnTypes'
  BY <1>1, SMTT(20)
<1>3. PageBooks' /\ PressBooks'
  BY <1>1, SMTT(20)
<1>4. PlaceBooks' /\ ConnBooks'
  BY <1>1, SMTT(20)
<1>5. ReceiptBooks' /\ ReceiptsAreDrained'
  BY <1>1, SMTT(20)
<1>6. WatchBooks' /\ RefusalIsNamed' /\ EndedHoldsNothing'
  BY <1>1, SMTT(20)
<1> QED
  BY <1>2, <1>3, <1>4, <1>5, <1>6

LEMMA LandsKeeps ==
    ASSUME TurnIInv, run.phase \notin {"finally", "ended"}, Lands
    PROVE  TurnIInv'
<1>1. /\ run.phase \notin {"finally", "ended"}
      /\ press = "pending" /\ press' = "landed"
      /\ UNCHANGED run
      /\ UNCHANGED <<conn, usage, abort>>
      /\ page' = [page EXCEPT ![run.part].sent = @ + 1]
      /\ watch.on => watch'.owned /\ watch'.stream
      /\ WatchKeeps({"owned", "stream"})
  <2>1. RunTypes /\ WatchTypes /\ ConnTypes
    BY DEF TurnIInv, TurnTypes
  <2> QED
    BY <2>1, RequestIsHeard, SMTT(20) DEF Lands, Attached, ConnTypes, ConnFields
<1> USE BrowserTurnAssumption DEF TurnIInv, TurnTypes, PageBooks, PressBooks, PlaceBooks, ReceiptBooks, ConnBooks, WatchBooks, ReceiptsAreDrained, EndedHoldsNothing, RefusalIsNamed, RunTypes, PageTypes, WatchTypes, ConnTypes, Part, Receipt, Received, Before, Final, After, Drained, RunFields, RunPhases, RunErrors, RunOutcomes, Backs, PageFields, WatchFields, ConnFields, RunKeeps, WatchKeeps, ConnBecomes, Moves, Fails, StreamEnded
<1>2. TurnTypes'
  BY <1>1, SMTT(20)
<1>3. PageBooks' /\ PressBooks'
  BY <1>1, SMTT(20)
<1>4. PlaceBooks' /\ ConnBooks'
  BY <1>1, SMTT(20)
<1>5. ReceiptBooks' /\ ReceiptsAreDrained'
  BY <1>1, SMTT(20)
<1>6. WatchBooks' /\ RefusalIsNamed' /\ EndedHoldsNothing'
  BY <1>1, SMTT(20)
<1> QED
  BY <1>2, <1>3, <1>4, <1>5, <1>6

LEMMA PageAnswersKeeps ==
    ASSUME TurnIInv, run.phase \notin {"finally", "ended"}, PageAnswers
    PROVE  TurnIInv'
<1>1. /\ run.phase \notin {"finally", "ended"}
      /\ Received(run.part) /\ ~page[run.part].refused /\ page[run.part].reply = "none"
      /\ UNCHANGED run
      /\ UNCHANGED <<conn, press, watch, usage, abort>>
      /\ page' = [page EXCEPT ![run.part].reply = "streaming"]
  <2>1. RunTypes /\ WatchTypes /\ ConnTypes
    BY DEF TurnIInv, TurnTypes
  <2> QED
    BY <2>1, SMTT(20) DEF PageAnswers, Received, RunTypes, WatchTypes, ConnTypes, RunFields,
       WatchFields, ConnFields, RunErrors
<1> USE BrowserTurnAssumption DEF TurnIInv, TurnTypes, PageBooks, PressBooks, PlaceBooks, ReceiptBooks, ConnBooks, WatchBooks, ReceiptsAreDrained, EndedHoldsNothing, RefusalIsNamed, RunTypes, PageTypes, WatchTypes, ConnTypes, Part, Receipt, Received, Before, Final, After, Drained, RunFields, RunPhases, RunErrors, RunOutcomes, Backs, PageFields, WatchFields, ConnFields, RunKeeps, WatchKeeps, ConnBecomes, Moves, Fails, StreamEnded
<1>2. TurnTypes'
  BY <1>1, SMTT(20)
<1>3. PageBooks' /\ PressBooks'
  BY <1>1, SMTT(20)
<1>4. PlaceBooks' /\ ConnBooks'
  BY <1>1, SMTT(20)
<1>5. ReceiptBooks' /\ ReceiptsAreDrained'
  BY <1>1, SMTT(20)
<1>6. WatchBooks' /\ RefusalIsNamed' /\ EndedHoldsNothing'
  BY <1>1, SMTT(20)
<1> QED
  BY <1>2, <1>3, <1>4, <1>5, <1>6

LEMMA AnswerEndsKeeps ==
    ASSUME TurnIInv, run.phase \notin {"finally", "ended"}, AnswerEnds
    PROVE  TurnIInv'
<1>1. /\ run.phase \notin {"finally", "ended"}
      /\ page[run.part].reply = "streaming"
      /\ UNCHANGED run
      /\ UNCHANGED <<conn, press, usage, abort>>
      /\ \E r \in {"done", "wrong"} : page' = [page EXCEPT ![run.part].reply = r]
      /\ StreamEnded(FALSE) /\ WatchTypes'
  <2>1. RunTypes /\ WatchTypes /\ ConnTypes
    BY DEF TurnIInv, TurnTypes
  <2>2. watch' = StreamEnds(FALSE)
    BY DEF AnswerEnds
  <2>3. StreamEnded(FALSE) /\ WatchTypes'
    BY <2>1, <2>2, StreamEndIsRead, Zenon
  <2> QED
    BY <2>3 DEF AnswerEnds
<1> USE BrowserTurnAssumption DEF TurnIInv, TurnTypes, PageBooks, PressBooks, PlaceBooks, ReceiptBooks, ConnBooks, WatchBooks, ReceiptsAreDrained, EndedHoldsNothing, RefusalIsNamed, RunTypes, PageTypes, WatchTypes, ConnTypes, Part, Receipt, Received, Before, Final, After, Drained, RunFields, RunPhases, RunErrors, RunOutcomes, Backs, PageFields, WatchFields, ConnFields, RunKeeps, WatchKeeps, ConnBecomes, Moves, Fails, StreamEnded
<1>2. TurnTypes'
  BY <1>1, SMTT(20)
<1>3. PageBooks' /\ PressBooks'
  BY <1>1, SMTT(20)
<1>4. PlaceBooks' /\ ConnBooks'
  BY <1>1, SMTT(20)
<1>5. ReceiptBooks' /\ ReceiptsAreDrained'
  BY <1>1, SMTT(20)
<1>6. WatchBooks' /\ RefusalIsNamed' /\ EndedHoldsNothing'
  BY <1>1, SMTT(20)
<1> QED
  BY <1>2, <1>3, <1>4, <1>5, <1>6

LEMMA RefusesKeeps ==
    ASSUME TurnIInv, run.phase \notin {"finally", "ended"}, Refuses
    PROVE  TurnIInv'
<1>1. /\ run.phase \notin {"finally", "ended"}
      /\ Received(run.part) /\ ~page[run.part].refused
      /\ UNCHANGED run
      /\ UNCHANGED <<conn, press, usage, abort>>
      /\ \E alert \in BOOLEAN : page' = [page EXCEPT ![run.part].refused = TRUE, ![run.part].alert = alert]
      /\ page[run.part].reply \in {"none", "streaming"}
      /\ StreamEnded(TRUE) /\ WatchTypes'
  <2>1. RunTypes /\ WatchTypes /\ ConnTypes
    BY DEF TurnIInv, TurnTypes
  <2>2. watch' = StreamEnds(TRUE)
    BY DEF Refuses
  <2>3. StreamEnded(TRUE) /\ WatchTypes'
    BY <2>1, <2>2, StreamEndIsRead, Zenon
  <2> QED
    BY <2>3 DEF Refuses
<1> USE BrowserTurnAssumption DEF TurnIInv, TurnTypes, PageBooks, PressBooks, PlaceBooks, ReceiptBooks, ConnBooks, WatchBooks, ReceiptsAreDrained, EndedHoldsNothing, RefusalIsNamed, RunTypes, PageTypes, WatchTypes, ConnTypes, Part, Receipt, Received, Before, Final, After, Drained, RunFields, RunPhases, RunErrors, RunOutcomes, Backs, PageFields, WatchFields, ConnFields, RunKeeps, WatchKeeps, ConnBecomes, Moves, Fails, StreamEnded
<1>2. TurnTypes'
  BY <1>1, SMTT(20)
<1>3. PageBooks' /\ PressBooks'
  BY <1>1, SMTT(20)
<1>4. PlaceBooks' /\ ConnBooks'
  BY <1>1, SMTT(20)
<1>5. ReceiptBooks' /\ ReceiptsAreDrained'
  BY <1>1, SMTT(20)
<1>6. watch.on /\ ~run.missed => \E c \in watch'.checks : c.bad /\ c.gen = watch'.gen
  <2> SUFFICES ASSUME watch.on, ~run.missed PROVE \E c \in watch'.checks : c.bad /\ c.gen = watch'.gen
    OBVIOUS
  <2>1. watch.stream
    BY <1>1, SMTT(20)
  <2>2. [gen |-> watch.gen, bad |-> TRUE] \in watch'.checks /\ watch'.gen = watch.gen
    BY <1>1, <2>1, SMTT(20)
  <2> QED
    BY <2>2, SMTT(20)
<1>7. watch'.on = watch.on /\ watch'.owned = watch.owned
  BY <1>1, SMTT(20)
<1>8. WatchBooks' /\ RefusalIsNamed' /\ EndedHoldsNothing'
  BY <1>1, <1>6, <1>7, SMTT(20)
<1> QED
  BY <1>2, <1>3, <1>4, <1>5, <1>8

LEMMA CallerAbortsKeeps ==
    ASSUME NEW why \in {"user", "handoff"}, TurnIInv, CallerAborts(why)
    PROVE  TurnIInv'
<1>1. /\ UNCHANGED run
      /\ UNCHANGED <<page, conn, press, watch, usage>>
      /\ abort' \in {"user", "handoff"}
  <2>1. RunTypes /\ WatchTypes /\ ConnTypes
    BY DEF TurnIInv, TurnTypes
  <2> QED
    BY <2>1, SMTT(20) DEF CallerAborts, RunTypes, WatchTypes, ConnTypes, RunFields, WatchFields,
       ConnFields, RunErrors
<1> USE BrowserTurnAssumption DEF TurnIInv, TurnTypes, PageBooks, PressBooks, PlaceBooks, ReceiptBooks, ConnBooks, WatchBooks, ReceiptsAreDrained, EndedHoldsNothing, RefusalIsNamed, RunTypes, PageTypes, WatchTypes, ConnTypes, Part, Receipt, Received, Before, Final, After, Drained, RunFields, RunPhases, RunErrors, RunOutcomes, Backs, PageFields, WatchFields, ConnFields, RunKeeps, WatchKeeps, ConnBecomes, Moves, Fails, StreamEnded
<1>2. TurnTypes'
  BY <1>1, SMTT(20)
<1>3. PageBooks' /\ PressBooks'
  BY <1>1, SMTT(20)
<1>4. PlaceBooks' /\ ConnBooks'
  BY <1>1, SMTT(20)
<1>5. ReceiptBooks' /\ ReceiptsAreDrained'
  BY <1>1, SMTT(20)
<1>6. WatchBooks' /\ RefusalIsNamed' /\ EndedHoldsNothing'
  BY <1>1, SMTT(20)
<1> QED
  BY <1>2, <1>3, <1>4, <1>5, <1>6

\* At the start nothing has been sent, nothing is open and nothing is listened to.
LEMMA TurnStarts == BTInit => TurnIInv
<1> SUFFICES ASSUME BTInit PROVE TurnIInv
  OBVIOUS
<1> USE BrowserTurnAssumption DEF BTInit, Part, Receipt
<1>1. PICK n \in Part, reuse, compact \in BOOLEAN :
          run = [phase |-> "start", part |-> 1, parts |-> n, reuse |-> reuse,
                 compact |-> compact, error |-> "none", outcome |-> "none",
                 held |-> FALSE, rebinds |-> 0, faults |-> 0, retry |-> FALSE, missed |-> FALSE,
                 refresh |-> ~reuse /\ n = 1, back |-> "none", asking |-> FALSE]
  BY Zenon
<1>2. /\ DOMAIN run = RunFields /\ run.phase = "start" /\ run.part = 1 /\ run.parts = n
      /\ run.error = "none" /\ run.outcome = "none" /\ run.back = "none"
  BY <1>1, SMTT(20) DEF RunFields
<1>3. ~run.held /\ ~run.asking
  BY <1>1, SMTT(20)
<1>4. RunTypes
  BY <1>2, SMTT(20) DEF RunTypes, RunPhases, RunErrors, RunOutcomes, Backs
<1>5. TurnTypes
  BY <1>4, SMTT(20) DEF TurnTypes, PageTypes, PageFields, WatchTypes, WatchFields, ConnTypes, ConnFields
<1>6. ~conn.own /\ ~watch.on /\ conn.open = 0 /\ conn.dial = "none"
  BY SMTT(20)
<1>7. \A p \in Part : page[p].sent = 0 /\ page[p].reply = "none" /\ ~page[p].refused /\ usage[p] = "none"
  BY SMTT(20)
<1>8. PageBooks /\ PressBooks /\ PlaceBooks /\ ReceiptBooks
  BY <1>2, <1>3, <1>7, SMTT(20) DEF PageBooks, PressBooks, PlaceBooks, ReceiptBooks, Received, Before, After, Final
<1>9. ConnBooks /\ WatchBooks
  BY <1>2, <1>6, SMTT(20) DEF ConnBooks, WatchBooks
<1>10. ReceiptsAreDrained /\ EndedHoldsNothing /\ RefusalIsNamed
  BY <1>2, <1>7, SMTT(20) DEF ReceiptsAreDrained, EndedHoldsNothing, RefusalIsNamed
<1> QED
  BY <1>5, <1>8, <1>9, <1>10 DEF TurnIInv

\* Every step of the worker, of ChatGPT or of the caller keeps the turn's books.
LEMMA TurnSteps == TurnIInv /\ [BTNext]_bturnVars => TurnIInv'
<1> SUFFICES ASSUME TurnIInv, [BTNext]_bturnVars PROVE TurnIInv'
  OBVIOUS
<1>1. CASE Worker
  BY <1>1, PrepareKeeps, CheckLimitsKeeps, DialAnswersKeeps, DialFailsKeeps, GiveUpDialKeeps,
     NewChatKeeps, SelectEffortKeeps, AttachPromptKeeps, AttachSlipsKeeps, RetryAttachmentKeeps,
     RefreshCatalogKeeps, SendButtonReadyKeeps, PressKeeps, AcceptKeeps, BindAnswerKeeps,
     StartRebindKeeps, AcknowledgeKeeps, AskApprovalKeeps, CloseApprovalKeeps, ToleratesFaultKeeps,
     CompleteKeeps, GivesUpKeeps, InterruptedKeeps, CatchKeeps, FinallyKeeps, ReceiptSettlesKeeps,
     SettleCheckKeeps DEF Worker
<1>2. CASE ChatGpt
  BY <1>2, LandsKeeps, PageAnswersKeeps, AnswerEndsKeeps, RefusesKeeps DEF ChatGpt
<1>3. CASE \E why \in {"user", "handoff"} : CallerAborts(why)
  BY <1>3, CallerAbortsKeeps
<1>4. CASE UNCHANGED bturnVars
  BY <1>4 DEF bturnVars, TurnIInv, TurnTypes, PageBooks, PressBooks, PlaceBooks, ReceiptBooks,
     ConnBooks, WatchBooks, ReceiptsAreDrained, EndedHoldsNothing, RefusalIsNamed, RunTypes,
     PageTypes, WatchTypes, ConnTypes, Received, Final, Drained
<1> QED
  BY <1>1, <1>2, <1>3, <1>4 DEF BTNext

\* What the books say is more than the run's invariant says.
LEMMA BooksAreEnough == TurnIInv => BrowserTurnInv
<1> SUFFICES ASSUME TurnIInv PROVE BrowserTurnInv
  OBVIOUS
<1>1. BTTypeOK
  BY BrowserTurnAssumption, SMTT(20)
     DEF TurnIInv, TurnTypes, RunTypes, PageTypes, WatchTypes, ConnTypes, ConnBooks, BTTypeOK
<1>2. SentOnceInOrder
  <2> SUFFICES ASSUME NEW p \in Part
               PROVE  (~run.missed => page[p].sent <= 1) /\ (p > 1 /\ Received(p) => page[p - 1].reply = "done")
    BY DEF SentOnceInOrder
  <2>1. (~run.missed => page[p].sent <= 1) /\ (Received(p) => p <= run.part)
    BY BrowserTurnAssumption, SMTT(20) DEF TurnIInv, TurnTypes, RunTypes, PageBooks, Part
  <2>2. ASSUME p > 1, Received(p) PROVE page[p - 1].reply = "done"
    <3>1. p - 1 \in Part /\ p - 1 < run.part
      BY <2>1, <2>2, BrowserTurnAssumption, SMTT(20) DEF TurnIInv, TurnTypes, RunTypes, Part
    <3> QED
      BY <3>1 DEF TurnIInv, PageBooks
  <2> QED
    BY <2>1, <2>2
<1> QED
  BY <1>1, <1>2 DEF TurnIInv, BrowserTurnInv

\* The turn in its tab is sound, for every number of parts, reconnections and faults: a
\* part reaches ChatGPT once and in order, a receipt is for a message that was received
\* and is drained before the end, a turn that is over holds nothing, and a refusal that
\* was heard is reported as one (runBrowserTurn 5060-5806).
THEOREM BrowserTurnCorrect == BTSpec => []BrowserTurnInv
<1>1. BTInit => TurnIInv
  BY TurnStarts
<1>2. TurnIInv /\ [BTNext]_bturnVars => TurnIInv'
  BY TurnSteps
<1>3. TurnIInv => BrowserTurnInv
  BY BooksAreEnough
<1> QED
  BY <1>1, <1>2, <1>3, PTL DEF BTSpec
=============================================================================
