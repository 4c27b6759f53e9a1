--------------------------- MODULE Daemon_proofs ---------------------------
(***************************************************************************)
(* Proofs about the requests of the daemon (ServerTurns), for any number   *)
(* of requests, turns and tombstones.                                      *)
(***************************************************************************)
EXTENDS ServerTurns, ModelCatalog, SequenceTheorems, FiniteSetTheorems, TLAPS

-----------------------------------------------------------------------------
(* The tombstones                                                          *)

LEMMA Bounded ==
    ASSUME NEW s
    PROVE  s \in BoundedSeq(Turn, MaxInterrupted) <=> s \in Seq(Turn) /\ Len(s) <= MaxInterrupted
<1>1. MaxInterrupted \in Nat
  BY ServerTurnsAssumption
<1>2. ASSUME s \in BoundedSeq(Turn, MaxInterrupted) PROVE s \in Seq(Turn) /\ Len(s) <= MaxInterrupted
  <2>1. PICK n \in 0..MaxInterrupted : s \in [1..n -> Turn]
    BY <1>2 DEF BoundedSeq, SeqOf
  <2>2. s \in Seq(Turn) /\ n \in Nat
    BY <1>1, <2>1, SeqDef
  <2>3. Len(s) = n
    BY <2>1, <2>2, LenProperties
  <2> QED
    BY <1>1, <2>1, <2>2, <2>3
<1>3. ASSUME s \in Seq(Turn), Len(s) <= MaxInterrupted PROVE s \in BoundedSeq(Turn, MaxInterrupted)
  <2>1. s \in [1..Len(s) -> Turn] /\ Len(s) \in Nat
    BY <1>3, LenProperties
  <2>2. Len(s) \in 0..MaxInterrupted
    BY <1>1, <1>3, <2>1
  <2> QED
    BY <2>1, <2>2 DEF BoundedSeq, SeqOf
<1> QED
  BY <1>2, <1>3

\* A turn taken out of the tombstones leaves the others, and nothing new.
LEMMA OthersKept ==
    ASSUME interrupted \in Seq(Turn), NEW t
    PROVE  /\ Others(t) \in Seq(Turn) /\ Len(Others(t)) <= Len(interrupted)
           /\ \A i \in 1..Len(Others(t)) : \E j \in 1..Len(interrupted) : Others(t)[i] = interrupted[j]
<1> DEFINE n == Len(interrupted)
<1>1. n \in Nat /\ DOMAIN interrupted = 1..n
  BY LenProperties
<1>2. CASE ~Contains(interrupted, t)
  BY <1>1, <1>2 DEF Others
<1>3. CASE Contains(interrupted, t)
  <2> DEFINE k == CHOOSE i \in DOMAIN interrupted : interrupted[i] = t
             left == SubSeq(interrupted, 1, k - 1)
             right == SubSeq(interrupted, k + 1, n)
  <2>1. k \in 1..n
    BY <1>1, <1>3 DEF Contains
  <2>2. Others(t) = left \o right
    BY <1>3 DEF Others, RemoveAt
  <2> HIDE DEF k
  <2>3. /\ left \in Seq(Turn) /\ Len(left) = k - 1
        /\ \A i \in 1..(k - 1) : left[i] = interrupted[i]
    <3>1. \A i \in 1..(k - 1) : interrupted[i] \in Turn
      BY <1>1, <2>1
    <3>2. 1 \in Int /\ k - 1 \in Int /\ (1 <= k - 1 => 1 \in 1..n /\ k - 1 \in 1..n)
      BY <1>1, <2>1
    <3> QED
      BY <1>1, <2>1, <3>1, <3>2
  <2>4. /\ right \in Seq(Turn) /\ Len(right) = n - k
        /\ \A i \in 1..(n - k) : right[i] = interrupted[i + k]
    <3>1. \A i \in (k + 1)..n : interrupted[i] \in Turn
      BY <1>1, <2>1
    <3>2. k + 1 \in Int /\ n \in Int
      BY <1>1, <2>1
    <3>3. /\ right \in Seq(Turn) /\ Len(right) = IF k + 1 <= n THEN n - (k + 1) + 1 ELSE 0
          /\ \A i \in 1..(n - (k + 1) + 1) : right[i] = interrupted[(k + 1) + i - 1]
      BY <3>1, <3>2, SubSeqProperties
    <3>4. Len(right) = n - k
      <4>1. Len(right) = IF k + 1 <= n THEN n - (k + 1) + 1 ELSE 0
        BY <3>3
      <4>2. k \in Nat /\ k <= n
        BY <1>1, <2>1
      <4> HIDE DEF n, right
      <4> QED
        BY <1>1, <4>1, <4>2
    <3>5. ASSUME NEW i \in 1..(n - k) PROVE right[i] = interrupted[i + k]
      <4>1. i \in 1..(n - (k + 1) + 1) /\ (k + 1) + i - 1 = i + k
        BY <1>1, <2>1
      <4> QED
        BY <3>3, <4>1
    <3> QED
      BY <3>3, <3>4, <3>5
  <2> HIDE DEF left, right
  <2>5. /\ left \o right \in Seq(Turn) /\ Len(left \o right) = n - 1
        /\ \A i \in 1..(n - 1) : (left \o right)[i] = IF i <= k - 1 THEN left[i] ELSE right[i - (k - 1)]
    <3>1. /\ left \o right \in Seq(Turn) /\ Len(left \o right) = Len(left) + Len(right)
          /\ \A i \in 1..(Len(left) + Len(right)) :
                (left \o right)[i] = IF i <= Len(left) THEN left[i] ELSE right[i - Len(left)]
      BY <2>3, <2>4, ConcatProperties
    <3>2. Len(left) = k - 1 /\ Len(left) + Len(right) = n - 1
      BY <1>1, <2>1, <2>3, <2>4
    <3> QED
      BY <3>1, <3>2
  <2>6. ASSUME NEW i \in 1..(n - 1) PROVE \E j \in 1..n : (left \o right)[i] = interrupted[j]
    <3>1. CASE i <= k - 1
      <4>1. i \in 1..(k - 1) /\ i \in 1..n
        BY <1>1, <2>1, <3>1
      <4> QED
        BY <2>3, <2>5, <3>1, <4>1
    <3>2. CASE ~(i <= k - 1)
      <4>1. i - (k - 1) \in 1..(n - k) /\ i + 1 \in 1..n /\ i - (k - 1) + k = i + 1
        BY <1>1, <2>1, <3>2
      <4>2. right[i - (k - 1)] = interrupted[i + 1]
        BY <2>4, <4>1
      <4> QED
        BY <2>5, <3>2, <4>1, <4>2
    <3> QED
      BY <3>1, <3>2
  <2>7. Len(Others(t)) = n - 1 /\ n - 1 <= n /\ Others(t) \in Seq(Turn)
    BY <1>1, <2>2, <2>5
  <2> QED
    BY <2>2, <2>6, <2>7
<1> QED
  BY <1>2, <1>3

\* The tombstones after an interrupt are those before it and the new one.
LEMMA TombstoneKept ==
    ASSUME interrupted \in BoundedSeq(Turn, MaxInterrupted), NEW t \in Turn
    PROVE  /\ Tombstone(t) \in BoundedSeq(Turn, MaxInterrupted)
           /\ \A u : Contains(Tombstone(t), u) => u = t \/ Contains(interrupted, u)
<1> DEFINE others == Others(t)
           kept == Append(others, t)
           m == Len(others)
<1>1. interrupted \in Seq(Turn) /\ Len(interrupted) <= MaxInterrupted /\ MaxInterrupted \in Nat
  BY Bounded, ServerTurnsAssumption
<1>2. /\ others \in Seq(Turn) /\ m \in Nat /\ m <= MaxInterrupted
      /\ \A i \in 1..m : \E j \in 1..Len(interrupted) : others[i] = interrupted[j]
  <2>1. /\ others \in Seq(Turn) /\ m <= Len(interrupted)
        /\ \A i \in 1..m : \E j \in 1..Len(interrupted) : others[i] = interrupted[j]
    BY <1>1, OthersKept
  <2> QED
    BY <1>1, <2>1, LenProperties
<1> HIDE DEF others
<1>3. /\ kept \in Seq(Turn) /\ Len(kept) = m + 1
      /\ \A i \in 1..m : kept[i] = others[i]
      /\ kept[m + 1] = t
  BY <1>2, AppendProperties
<1>4. \A i \in 1..(m + 1) : kept[i] = t \/ \E j \in 1..Len(interrupted) : kept[i] = interrupted[j]
  <2>1. \A i \in 1..(m + 1) : i \in 1..m \/ i = m + 1
    BY <1>2
  <2> QED
    BY <1>2, <1>3, <2>1
<1>5. Tombstone(t) = IF Len(kept) > MaxInterrupted THEN Tail(kept) ELSE kept
  BY DEF Tombstone, others
<1> HIDE DEF kept
<1>6. CASE Len(kept) > MaxInterrupted
  <2>1. kept # <<>> /\ Len(kept) \in Nat
    BY <1>2, <1>3, <1>6
  <2>2. /\ Tail(kept) \in Seq(Turn) /\ Len(Tail(kept)) = Len(kept) - 1
        /\ \A i \in 1..(Len(kept) - 1) : Tail(kept)[i] = kept[i + 1]
    BY <1>3, <2>1
  <2>3. Len(kept) - 1 = m /\ \A i \in 1..m : i + 1 \in 1..(m + 1)
    BY <1>2, <1>3
  <2>4. \A i \in 1..Len(Tail(kept)) : Tail(kept)[i] = t
           \/ \E j \in 1..Len(interrupted) : Tail(kept)[i] = interrupted[j]
    BY <1>4, <2>2, <2>3
  <2>5. Tail(kept) \in BoundedSeq(Turn, MaxInterrupted)
    BY <1>2, <2>2, <2>3, Bounded
  <2> QED
    BY <1>5, <1>6, <2>4, <2>5 DEF Contains
<1>7. CASE ~(Len(kept) > MaxInterrupted)
  <2>1. kept \in BoundedSeq(Turn, MaxInterrupted)
    BY <1>1, <1>2, <1>3, <1>7, Bounded
  <2>2. \A i \in 1..Len(kept) : kept[i] = t \/ \E j \in 1..Len(interrupted) : kept[i] = interrupted[j]
    BY <1>3, <1>4
  <2> QED
    BY <1>5, <1>7, <2>1, <2>2 DEF Contains
<1> QED
  BY <1>6, <1>7

-----------------------------------------------------------------------------
(* The invariant                                                           *)

TrackedPhases == {"reading", "ready", "running", "answer", "streaming"}

\* A run is tracked; a request whose turn is interrupted is aborted from the
\* moment its body has been read.
Sound(q) ==
    /\ q.adapter = "run" => q.phase \in TrackedPhases
    /\ q.phase = "ready" \/ q.adapter = "run" => (Contains(interrupted, q.turn) => q.aborted)
RequestsSound == \A r \in Request : Sound(requests[r])

\* A shutdown that nobody disturbed finds nothing to cut, and stays so.
NothingCut == ~disturbed => \A r \in Request : requests[r].phase # "cut"
ShutdownIsIdle == ~disturbed /\ closing # "open" => draining /\ Tracked = {} /\ ActiveSessions = {}

ServerIInv == ServerTypeOK /\ RequestsSound /\ NothingCut /\ ShutdownIsIdle

\* A step of one request keeps it, if the request stays sound and none begins
\* while the daemon drains.
LEMMA OneRequest ==
    ASSUME ServerIInv, NEW r \in Request,
           requests' = [requests EXCEPT ![r] = requests'[r]], requests'[r] \in RequestRecord,
           Sound(requests'[r]), requests'[r].phase # "cut",
           requests'[r].phase \in TrackedPhases => r \in Tracked \/ ~draining,
           UNCHANGED <<interrupted, sessions, external, draining, closing, leases, disturbed>>
    PROVE  ServerIInv'
<1>1. ServerTypeOK'
  BY DEF ServerIInv, ServerTypeOK
<1>2. \A q \in Request : q # r => requests'[q] = requests[q]
  BY DEF ServerIInv, ServerTypeOK
<1>3. RequestsSound'
  <2>1. ASSUME NEW q \in Request PROVE Sound(requests'[q])
    BY <1>2 DEF ServerIInv, RequestsSound
  <2> QED
    BY <2>1 DEF RequestsSound, Sound
<1>4. NothingCut'
  BY <1>2 DEF ServerIInv, NothingCut
<1>5. ShutdownIsIdle'
  <2>1. Tracked' \subseteq Tracked \/ ~draining
    BY <1>2 DEF Tracked, TrackedPhases
  <2>2. ActiveSessions' = ActiveSessions
    BY DEF ActiveSessions
  <2> QED
    BY <2>1, <2>2 DEF ServerIInv, ShutdownIsIdle
<1> QED
  BY <1>1, <1>3, <1>4, <1>5 DEF ServerIInv

LEMMA MovesOne ==
    ASSUME ServerTypeOK, NEW r \in Request, NEW p, NEW a, Moves(r, p, a),
           [requests[r] EXCEPT !.phase = p, !.adapter = a] \in RequestRecord
    PROVE  /\ requests' = [requests EXCEPT ![r] = requests'[r]]
           /\ requests'[r] = [requests[r] EXCEPT !.phase = p, !.adapter = a]
           /\ requests'[r] \in RequestRecord
           /\ requests'[r].phase = p /\ requests'[r].adapter = a
           /\ requests'[r].turn = requests[r].turn /\ requests'[r].aborted = requests[r].aborted
<1>1. requests \in [Request -> RequestRecord] /\ requests[r] \in RequestRecord
  BY DEF ServerTypeOK
<1>2. requests'[r] = [requests[r] EXCEPT !.phase = p, !.adapter = a]
  BY <1>1 DEF Moves
<1>3. requests' = [requests EXCEPT ![r] = requests'[r]]
  BY <1>1, <1>2 DEF Moves
<1> QED
  BY <1>1, <1>2, <1>3 DEF RequestRecord

\* A request that moves on does so soundly, as a tracked one.
LEMMA MovesSound ==
    ASSUME ServerIInv, NEW r \in Request, NEW p \in TrackedPhases, NEW a \in {"idle", "run", "over"},
           Moves(r, p, a), r \in Tracked, p = "ready" => requests[r].phase = "ready",
           a = "run" => requests[r].phase = "ready" \/ requests[r].adapter = "run",
           UNCHANGED <<interrupted, sessions, external, draining, closing, leases, disturbed>>
    PROVE  ServerIInv'
<1>1. ServerTypeOK /\ requests[r] \in RequestRecord /\ Sound(requests[r])
  BY DEF ServerIInv, ServerTypeOK, RequestsSound
<1>2. [requests[r] EXCEPT !.phase = p, !.adapter = a] \in RequestRecord
  BY <1>1 DEF RequestRecord, TrackedPhases
<1>3. /\ requests' = [requests EXCEPT ![r] = requests'[r]] /\ requests'[r] \in RequestRecord
      /\ requests'[r].phase = p /\ requests'[r].adapter = a
      /\ requests'[r].turn = requests[r].turn /\ requests'[r].aborted = requests[r].aborted
  BY ZenonT(60), <1>1, <1>2, MovesOne
<1>4. Sound(requests'[r])
  BY <1>1, <1>3 DEF Sound
<1>5. p # "cut"
  BY DEF TrackedPhases
<1> QED
  BY <1>3, <1>4, <1>5, OneRequest

LEMMA ReleaseSound ==
    ASSUME ServerIInv, NEW r \in Request, Release(r),
           UNCHANGED <<interrupted, sessions, external, draining, closing, leases, disturbed>>
    PROVE  ServerIInv'
<1>1. requests \in [Request -> RequestRecord]
  BY DEF ServerIInv, ServerTypeOK
<1>2. requests'[r] = [Blank EXCEPT !.phase = "released"]
      /\ requests' = [requests EXCEPT ![r] = requests'[r]]
  BY <1>1 DEF Release
<1>3. /\ requests'[r] \in RequestRecord
      /\ requests'[r].phase = "released" /\ requests'[r].adapter = "idle"
  BY <1>2 DEF Blank, RequestRecord, Kinds
<1>4. Sound(requests'[r]) /\ requests'[r].phase # "cut" /\ requests'[r].phase \notin TrackedPhases
  BY <1>3 DEF Sound, TrackedPhases
<1> QED
  BY <1>2, <1>3, <1>4, OneRequest

\* What neither touches a request nor a tombstone keeps it, as long as the
\* shutdown of an idle daemon stays idle.
LEMMA RequestsApart ==
    ASSUME ServerIInv, UNCHANGED <<requests, interrupted>>, disturbed => disturbed',
           ServerTypeOK', ShutdownIsIdle'
    PROVE  ServerIInv'
<1>1. RequestsSound' /\ NothingCut'
  BY DEF ServerIInv, RequestsSound, Sound, NothingCut
<1> QED
  BY <1>1 DEF ServerIInv

LEMMA AbortsKept ==
    ASSUME ServerTypeOK, NEW R, requests' = AbortAll(R)
    PROVE  /\ requests' \in [Request -> RequestRecord] /\ Tracked' = Tracked
           /\ \A r \in Request :
                 /\ requests'[r].phase = requests[r].phase /\ requests'[r].turn = requests[r].turn
                 /\ requests'[r].adapter = requests[r].adapter
                 /\ (r \in R /\ r \in Tracked) \/ requests[r].aborted => requests'[r].aborted
<1>1. requests \in [Request -> RequestRecord]
  BY DEF ServerTypeOK
<1>2. ASSUME NEW r \in Request
      PROVE  /\ requests'[r] \in RequestRecord
             /\ requests'[r].phase = requests[r].phase /\ requests'[r].turn = requests[r].turn
             /\ requests'[r].adapter = requests[r].adapter
             /\ (r \in R /\ r \in Tracked) \/ requests[r].aborted => requests'[r].aborted
  <2>1. requests[r] \in RequestRecord
    BY <1>1
  <2>2. CASE r \in R /\ r \in Tracked
    <3>1. requests'[r] = [requests[r] EXCEPT !.aborted = TRUE]
      BY <2>2 DEF AbortAll
    <3> QED
      BY <2>1, <3>1 DEF RequestRecord
  <2>3. CASE ~(r \in R /\ r \in Tracked)
    BY <2>1, <2>3 DEF AbortAll
  <2> QED
    BY <2>2, <2>3
<1>3. requests' \in [Request -> RequestRecord]
  BY <1>2 DEF AbortAll
<1>4. Tracked' = Tracked
  BY <1>2 DEF Tracked
<1> QED
  BY <1>2, <1>3, <1>4

\* Requests that are aborted where they stand, with a tombstone or without.
LEMMA AbortsSound ==
    ASSUME ServerIInv, NEW R, requests' = AbortAll(R), UNCHANGED disturbed,
           interrupted' \in BoundedSeq(Turn, MaxInterrupted),
           \A u : Contains(interrupted', u) =>
                     Contains(interrupted, u) \/ \A r \in Request : requests[r].turn = u => r \in R,
           ServerTypeOK', ShutdownIsIdle'
    PROVE  ServerIInv'
<1>1. ServerTypeOK
  BY DEF ServerIInv
<1>2. \A r \in Request :
         /\ requests'[r].phase = requests[r].phase /\ requests'[r].turn = requests[r].turn
         /\ requests'[r].adapter = requests[r].adapter
         /\ (r \in R /\ r \in Tracked) \/ requests[r].aborted => requests'[r].aborted
  BY <1>1, AbortsKept
<1>3. ASSUME NEW r \in Request PROVE Sound(requests[r])'
  <2>1. Sound(requests[r])
    BY DEF ServerIInv, RequestsSound
  <2>2. requests[r].phase = "ready" \/ requests[r].adapter = "run" => r \in Tracked
    BY <2>1 DEF Sound, Tracked, TrackedPhases
  <2>3. ASSUME requests[r].phase = "ready" \/ requests[r].adapter = "run",
               Contains(interrupted', requests[r].turn)
        PROVE  requests'[r].aborted
    <3>1. CASE Contains(interrupted, requests[r].turn)
      BY <1>2, <2>1, <2>3, <3>1 DEF Sound
    <3>2. CASE r \in R
      BY <1>2, <2>2, <2>3, <3>2
    <3> QED
      BY <2>3, <3>1, <3>2
  <2> QED
    BY <1>2, <2>1, <2>3 DEF Sound
<1>4. RequestsSound'
  BY <1>3 DEF RequestsSound
<1>5. NothingCut'
  BY <1>2 DEF ServerIInv, NothingCut
<1> QED
  BY <1>4, <1>5 DEF ServerIInv

LEMMA ServerInitially == ServerInit => ServerIInv
<1> SUFFICES ASSUME ServerInit PROVE ServerIInv
  OBVIOUS
<1>1. <<>> \in BoundedSeq(Turn, MaxInterrupted)
  <2>1. <<>> \in Seq(Turn) /\ Len(<<>>) = 0 /\ 0 <= MaxInterrupted
    BY ServerTurnsAssumption
  <2> QED
    BY <2>1, Bounded
<1>2. Blank \in RequestRecord
  BY DEF Blank, RequestRecord, Kinds
<1>3. ServerTypeOK
  <2>1. 0 \in 0..MaxExternal
    BY ServerTurnsAssumption
  <2> QED
    BY <1>1, <1>2, <2>1 DEF ServerInit, ServerTypeOK
<1>4. RequestsSound /\ NothingCut /\ ShutdownIsIdle
  BY DEF ServerInit, RequestsSound, Sound, NothingCut, ShutdownIsIdle, Blank
<1> QED
  BY <1>3, <1>4 DEF ServerIInv

LEMMA ServerStep == ServerIInv /\ [ServerNext]_serverVars => ServerIInv'
<1> SUFFICES ASSUME ServerIInv, [ServerNext]_serverVars PROVE ServerIInv'
  OBVIOUS
<1>0. /\ requests \in [Request -> RequestRecord]
      /\ interrupted \in BoundedSeq(Turn, MaxInterrupted)
      /\ sessions \in [Turn -> {"none", "active", "settling"}]
      /\ external \in 0..MaxExternal
      /\ draining \in BOOLEAN /\ disturbed \in BOOLEAN
      /\ closing \in {"open", "scheduled", "closing", "closed"}
      /\ leases \subseteq Turn /\ MaxExternal \in Nat
  BY ServerTurnsAssumption DEF ServerIInv, ServerTypeOK
<1>a. \A r \in Request : requests[r] \in RequestRecord /\ Sound(requests[r])
  BY <1>0 DEF ServerIInv, RequestsSound
<1>1. ASSUME NEW r \in Request, NEW kind \in Kinds, Arrive(r, kind) PROVE ServerIInv'
  <2> DEFINE rec == [requests[r] EXCEPT !.phase = IF Admits THEN "reading" ELSE "refused",
                                        !.kind = IF Admits THEN kind ELSE @]
  <2>1. requests' = [requests EXCEPT ![r] = rec] /\ requests'[r] = rec
    BY <1>0, <1>1 DEF Arrive
  <2>2. /\ rec \in RequestRecord /\ rec.phase = (IF Admits THEN "reading" ELSE "refused")
        /\ rec.adapter = requests[r].adapter
    BY <1>a DEF RequestRecord, Kinds
  <2> HIDE DEF rec
  <2>3. requests[r].phase = "new"
    BY <1>1 DEF Arrive
  <2>4. Sound(rec)
    BY <1>a, <2>2, <2>3 DEF Sound, TrackedPhases
  <2>5. rec.phase # "cut" /\ (rec.phase \in TrackedPhases => ~draining)
    BY <2>2 DEF Admits, TrackedPhases
  <2> QED
    BY <1>1, <2>1, <2>2, <2>4, <2>5, OneRequest DEF Arrive
<1>2. ASSUME NEW r \in Request, NEW t \in Turn \cup {NoTurn}, ReadBody(r, t) PROVE ServerIInv'
  <2> DEFINE rec == Bind(r, t)
  <2>1. requests' = [requests EXCEPT ![r] = rec] /\ requests'[r] = rec
    BY <1>0, <1>2 DEF ReadBody
  <2>2. /\ rec \in RequestRecord /\ rec.phase = "ready" /\ rec.turn = t
        /\ rec.aborted = (requests[r].aborted \/ Contains(interrupted, t))
        /\ rec.adapter = requests[r].adapter
    BY <1>a DEF RequestRecord, Bind, Contains
  <2> HIDE DEF rec
  <2>3. requests[r].phase = "reading" /\ r \in Tracked
    BY <1>2 DEF ReadBody, Tracked
  <2>4. Sound(rec) /\ rec.phase # "cut"
    BY <2>2 DEF Sound, TrackedPhases
  <2> QED
    BY <1>2, <2>1, <2>2, <2>3, <2>4, OneRequest DEF ReadBody
<1>3. ASSUME NEW r \in Request, Reject(r) PROVE ServerIInv'
  <2>1. Moves(r, "answer", "over") /\ r \in Tracked
    BY <1>3 DEF Reject, Tracked
  <2> QED
    BY <1>3, <2>1, MovesSound DEF Reject, TrackedPhases
<1>4. ASSUME NEW r \in Request, BeginRun(r) PROVE ServerIInv'
  <2> DEFINE p == IF requests[r].kind = "streamed" THEN "answer" ELSE "running"
  <2>1. Moves(r, p, "run") /\ r \in Tracked /\ requests[r].phase = "ready"
    BY <1>4 DEF BeginRun, Tracked
  <2>2. p \in TrackedPhases /\ p # "ready"
    BY DEF TrackedPhases
  <2> QED
    BY <1>4, <2>1, <2>2, MovesSound DEF BeginRun
<1>5. ASSUME NEW r \in Request, Forward(r) PROVE ServerIInv'
  <2>1. Moves(r, "running", requests[r].adapter) /\ r \in Tracked
    BY <1>5 DEF Forward, Tracked
  <2>2. requests[r].adapter \in {"idle", "run", "over"}
    BY <1>a DEF RequestRecord
  <2> QED
    BY <1>5, <2>1, <2>2, MovesSound DEF Forward, TrackedPhases
<1>6. ASSUME NEW r \in Request, Forwarded(r) PROVE ServerIInv'
  <2>1. Moves(r, "answer", "over") /\ r \in Tracked
    BY <1>6 DEF Forwarded, Tracked
  <2> QED
    BY <1>6, <2>1, MovesSound DEF Forwarded, TrackedPhases
<1>7. ASSUME NEW r \in Request, EndRun(r) PROVE ServerIInv'
  <2> DEFINE p == IF requests[r].phase = "running" THEN "answer" ELSE requests[r].phase
  <2>1. Moves(r, p, "over") /\ requests[r].adapter = "run"
    BY <1>7 DEF EndRun
  <2>2. r \in Tracked /\ p \in TrackedPhases
    BY <1>a, <2>1 DEF Sound, Tracked, TrackedPhases
  <2>3. p = "ready" => requests[r].phase = "ready"
    OBVIOUS
  <2> HIDE DEF p
  <2> QED
    BY <1>7, <2>1, <2>2, <2>3, MovesSound DEF EndRun
<1>8. ASSUME NEW r \in Request, StartSession(r) PROVE ServerIInv'
  <2>1. /\ sessions' = [sessions EXCEPT ![requests[r].turn] = "active"]
        /\ UNCHANGED <<requests, interrupted, external, draining, closing, leases, disturbed>>
        /\ requests[r].adapter = "run"
    BY <1>8 DEF StartSession
  <2>2. ServerTypeOK'
    BY <1>0, <2>1 DEF ServerTypeOK
  <2>3. r \in Tracked
    BY <1>a, <2>1 DEF Sound, Tracked, TrackedPhases
  <2>4. ShutdownIsIdle'
    BY <2>1, <2>3 DEF ServerIInv, ShutdownIsIdle, Tracked
  <2> QED
    BY <2>1, <2>2, <2>4, RequestsApart
<1>9. ASSUME NEW r \in Request, Stream(r) PROVE ServerIInv'
  <2>1. Moves(r, "streaming", requests[r].adapter) /\ r \in Tracked
    BY <1>9 DEF Stream, Tracked
  <2>2. requests[r].adapter \in {"idle", "run", "over"}
    BY <1>a DEF RequestRecord
  <2> QED
    BY <1>9, <2>1, <2>2, MovesSound DEF Stream, TrackedPhases
<1>10. ASSUME NEW r \in Request, CancelBody(r) \/ EndStream(r) PROVE ServerIInv'
  BY <1>10, ReleaseSound DEF CancelBody, EndStream
<1>11. ASSUME NEW r \in Request, ClientLeaves(r) PROVE ServerIInv'
  <2> DEFINE rec == [requests[r] EXCEPT !.aborted = TRUE]
  <2>1. requests' = [requests EXCEPT ![r] = rec] /\ requests'[r] = rec
    BY <1>0, <1>11 DEF ClientLeaves
  <2>2. /\ rec \in RequestRecord /\ rec.phase = requests[r].phase /\ rec.aborted
        /\ rec.adapter = requests[r].adapter
    BY <1>a DEF RequestRecord
  <2> HIDE DEF rec
  <2>3. r \in Tracked
    BY <1>11 DEF ClientLeaves
  <2>4. Sound(rec) /\ rec.phase # "cut"
    BY <1>a, <2>2, <2>3 DEF Sound, Tracked
  <2> QED
    BY <1>11, <2>1, <2>2, <2>3, <2>4, OneRequest DEF ClientLeaves
<1>12. ASSUME NEW t \in Turn, SessionEnds(t) PROVE ServerIInv'
  <2>1. sessions' = [sessions EXCEPT ![t] = "none"]
        /\ UNCHANGED <<requests, interrupted, external, draining, closing, leases, disturbed>>
    BY <1>12 DEF SessionEnds
  <2>2. ServerTypeOK'
    BY <1>0, <2>1 DEF ServerTypeOK
  <2>3. ActiveSessions' \subseteq ActiveSessions /\ Tracked' = Tracked
    BY <1>0, <2>1 DEF ActiveSessions, Tracked
  <2>4. ShutdownIsIdle'
    BY <2>1, <2>3 DEF ServerIInv, ShutdownIsIdle
  <2> QED
    BY <2>1, <2>2, <2>4, RequestsApart
<1>13. ASSUME NEW t \in Turn, InterruptTurn(t) PROVE ServerIInv'
  <2> DEFINE R == {r \in Request : requests[r].turn = t}
  <2>1. /\ interrupted' = Tombstone(t) /\ requests' = AbortAll(R)
        /\ sessions' = [sessions EXCEPT ![t] = IF @ = "active" THEN "settling" ELSE @]
        /\ UNCHANGED <<external, draining, closing, leases, disturbed>>
    BY <1>13 DEF InterruptTurn
  <2>2. /\ interrupted' \in BoundedSeq(Turn, MaxInterrupted)
        /\ \A u : Contains(interrupted', u) => u = t \/ Contains(interrupted, u)
    BY <1>0, <2>1, TombstoneKept
  <2>3. requests' \in [Request -> RequestRecord] /\ Tracked' = Tracked
    BY <2>1, AbortsKept DEF ServerIInv
  <2>4. ServerTypeOK'
    <3>1. sessions' \in [Turn -> {"none", "active", "settling"}]
      BY <1>0, <2>1
    <3> QED
      BY <1>0, <2>1, <2>2, <2>3, <3>1 DEF ServerTypeOK
  <2>5. ActiveSessions' \subseteq ActiveSessions
    BY <1>0, <2>1 DEF ActiveSessions
  <2>6. ShutdownIsIdle'
    BY <2>1, <2>3, <2>5 DEF ServerIInv, ShutdownIsIdle
  <2>7. \A u : Contains(interrupted', u) =>
                  Contains(interrupted, u) \/ \A r \in Request : requests[r].turn = u => r \in R
    BY <2>2
  <2> HIDE DEF R
  <2> QED
    BY <2>1, <2>2, <2>4, <2>6, <2>7, AbortsSound
<1>14. ASSUME NEW t \in Turn, NEW lease \in BOOLEAN, CancelTrace(t, lease) PROVE ServerIInv'
  <2>1. /\ sessions' = [sessions EXCEPT ![t] = IF @ = "active" THEN "settling" ELSE @]
        /\ leases' = IF lease /\ sessions[t] # "none" THEN leases \cup {t} ELSE leases
        /\ UNCHANGED <<requests, interrupted, external, draining, closing, disturbed>>
    BY <1>14 DEF CancelTrace
  <2>2. ServerTypeOK'
    BY <1>0, <2>1 DEF ServerTypeOK
  <2>3. ActiveSessions' \subseteq ActiveSessions /\ Tracked' = Tracked
    BY <1>0, <2>1 DEF ActiveSessions, Tracked
  <2>4. ShutdownIsIdle'
    BY <2>1, <2>3 DEF ServerIInv, ShutdownIsIdle
  <2> QED
    BY <2>1, <2>2, <2>4, RequestsApart
<1>15. ASSUME NEW t \in Turn, AnswerLease(t) PROVE ServerIInv'
  <2>1. leases' = leases \ {t}
        /\ UNCHANGED <<requests, interrupted, sessions, external, draining, closing, disturbed>>
    BY <1>15 DEF AnswerLease
  <2>2. ServerTypeOK' /\ ShutdownIsIdle'
    BY <1>0, <2>1 DEF ServerTypeOK, ServerIInv, ShutdownIsIdle, Tracked, ActiveSessions
  <2> QED
    BY <2>1, <2>2, RequestsApart
<1>16. ASSUME RegisterExternal \/ ExternalEnds PROVE ServerIInv'
  <2>1. UNCHANGED <<requests, interrupted, sessions, draining, closing, leases, disturbed>>
    BY <1>16 DEF RegisterExternal, ExternalEnds
  <2>2. external' \in 0..MaxExternal
    BY <1>0, <1>16 DEF RegisterExternal, ExternalEnds
  <2>3. ServerTypeOK' /\ ShutdownIsIdle'
    BY <1>0, <2>1, <2>2 DEF ServerTypeOK, ServerIInv, ShutdownIsIdle, Tracked, ActiveSessions
  <2> QED
    BY <2>1, <2>3, RequestsApart
<1>17. ASSUME Drain \/ Resume PROVE ServerIInv'
  <2>1. /\ UNCHANGED <<requests, interrupted, sessions, external, closing, leases>>
        /\ draining' \in BOOLEAN /\ disturbed' \in BOOLEAN /\ (disturbed => disturbed')
        /\ draining' \/ closing = "open" \/ disturbed'
    BY <1>0, <1>17 DEF Drain, Resume
  <2>2. ServerTypeOK' /\ ShutdownIsIdle'
    BY <1>0, <2>1 DEF ServerTypeOK, ServerIInv, ShutdownIsIdle, Tracked, ActiveSessions
  <2> QED
    BY <2>1, <2>2, RequestsApart
<1>18. ASSUME CancelTurns PROVE ServerIInv'
  <2>1. /\ requests' = AbortAll(Request) /\ external' = 0
        /\ sessions' = [t \in Turn |-> IF sessions[t] = "active" THEN "settling" ELSE sessions[t]]
        /\ UNCHANGED <<interrupted, draining, closing, leases, disturbed>>
    BY <1>18 DEF CancelTurns
  <2>2. requests' \in [Request -> RequestRecord] /\ Tracked' = Tracked
    BY <2>1, AbortsKept DEF ServerIInv
  <2>3. sessions' \in [Turn -> {"none", "active", "settling"}] /\ ActiveSessions' = {}
    BY <1>0, <2>1 DEF ActiveSessions
  <2>4. ServerTypeOK'
    BY <1>0, <2>1, <2>2, <2>3 DEF ServerTypeOK
  <2>5. ShutdownIsIdle'
    BY <2>1, <2>2, <2>3 DEF ServerIInv, ShutdownIsIdle
  <2> QED
    BY <1>0, <2>1, <2>4, <2>5, AbortsSound
<1>19. ASSUME RequestShutdown \/ Signal PROVE ServerIInv'
  <2>1. /\ UNCHANGED <<requests, interrupted, sessions, external, draining, leases>>
        /\ closing' = "scheduled" /\ disturbed' \in BOOLEAN /\ (disturbed => disturbed')
        /\ Quiet \/ disturbed'
    BY <1>0, <1>19 DEF RequestShutdown, Signal
  <2>2. ServerTypeOK' /\ ShutdownIsIdle'
    BY <1>0, <2>1 DEF ServerTypeOK, ShutdownIsIdle, Tracked, ActiveSessions, Quiet
  <2> QED
    BY <2>1, <2>2, RequestsApart
<1>20. ASSUME Shutdown PROVE ServerIInv'
  <2>1. /\ UNCHANGED <<requests, interrupted, external, leases, disturbed>>
        /\ closing = "scheduled" /\ closing' = "closing" /\ draining' = TRUE
        /\ sessions' = [t \in Turn |-> IF sessions[t] = "active" THEN "settling" ELSE sessions[t]]
    BY <1>20 DEF Shutdown
  <2>2. ServerTypeOK'
    BY <1>0, <2>1 DEF ServerTypeOK
  <2>3. ActiveSessions' = {} /\ Tracked' = Tracked
    BY <1>0, <2>1 DEF ActiveSessions, Tracked
  <2>4. ShutdownIsIdle'
    BY <2>1, <2>3 DEF ServerIInv, ShutdownIsIdle
  <2> QED
    BY <2>1, <2>2, <2>4, RequestsApart
<1>21. ASSUME StopServer PROVE ServerIInv'
  <2> DEFINE Cut == [Blank EXCEPT !.phase = "cut"]
  <2>1. /\ closing = "closing" /\ closing' = "closed" /\ external' = 0 /\ leases' = {}
        /\ sessions' = [t \in Turn |-> "none"]
        /\ requests' = [r \in Request |-> IF r \in Tracked THEN Cut ELSE requests[r]]
        /\ UNCHANGED <<interrupted, draining, disturbed>>
    BY <1>21 DEF StopServer
  <2>2. Cut \in RequestRecord /\ Cut.phase = "cut" /\ Cut.adapter = "idle"
    BY DEF Blank, RequestRecord, Kinds
  <2> HIDE DEF Cut
  <2>3. \A r \in Request : requests'[r] = IF r \in Tracked THEN Cut ELSE requests[r]
    BY <2>1
  <2>4. ServerTypeOK'
    <3>1. requests' \in [Request -> RequestRecord]
      BY <1>0, <2>1, <2>2
    <3> QED
      BY <1>0, <2>1, <3>1 DEF ServerTypeOK
  <2>5. RequestsSound'
    <3>1. ASSUME NEW r \in Request PROVE Sound(requests[r])'
      BY <1>a, <2>1, <2>2, <2>3 DEF Sound
    <3> QED
      BY <3>1 DEF RequestsSound
  <2>6. ~disturbed => draining /\ Tracked = {} /\ \A r \in Request : requests'[r] = requests[r]
    BY <2>1, <2>3 DEF ServerIInv, ShutdownIsIdle
  <2>7. NothingCut'
    BY <2>1, <2>6 DEF ServerIInv, NothingCut
  <2>8. ShutdownIsIdle'
    BY <2>1, <2>6 DEF ShutdownIsIdle, Tracked, ActiveSessions
  <2> QED
    BY <2>4, <2>5, <2>7, <2>8 DEF ServerIInv
<1>22. CASE UNCHANGED serverVars
  BY <1>22 DEF serverVars, ServerIInv, ServerTypeOK, RequestsSound, Sound, NothingCut, ShutdownIsIdle,
               Tracked, ActiveSessions
<1> QED
  BY <1>1, <1>2, <1>3, <1>4, <1>5, <1>6, <1>7, <1>8, <1>9, <1>10, <1>11, <1>12, <1>13, <1>14,
     <1>15, <1>16, <1>17, <1>18, <1>19, <1>20, <1>21, <1>22 DEF ServerNext

-----------------------------------------------------------------------------
(* The theorems                                                            *)

\* A shutdown that was asked for while nothing worked cuts no request and no
\* browser turn, for any number of requests, turns and tombstones
\* (server.ts:1040, 1163).
THEOREM ShutdownCorrect == ServerSpec => []ShutdownCutsNothing
<1>1. ServerIInv => ShutdownCutsNothing
  BY DEF ServerIInv, ShutdownCutsNothing, NothingCut, ShutdownIsIdle
<1> QED
  BY ServerInitially, ServerStep, <1>1, PTL DEF ServerSpec

\* Whatever order the interrupt and the body of a request come in, a turn whose
\* tombstone is kept is not taken up again (server.ts:213, 222).
THEOREM InterruptCorrect == ServerSpec => InterruptSticks
<1> DEFINE NotTakenUp ==
      /\ \A t \in Turn : sessions[t] = "none" /\ sessions'[t] = "active" => ~Contains(interrupted, t)
      /\ \A r \in Request : requests[r].phase = "ready" /\ Contains(interrupted, requests[r].turn)
                             => requests[r].aborted
<1>1. ServerIInv /\ [ServerNext]_serverVars => [NotTakenUp]_serverVars
  <2> SUFFICES ASSUME ServerIInv, ServerNext PROVE NotTakenUp
    OBVIOUS
  <2>1. \A r \in Request : Sound(requests[r])
    BY DEF ServerIInv, RequestsSound
  <2>2. sessions \in [Turn -> {"none", "active", "settling"}]
    BY DEF ServerIInv, ServerTypeOK
  <2>3. ASSUME NEW t \in Turn, sessions[t] = "none", sessions'[t] = "active"
        PROVE  \E r \in Request : StartSession(r) /\ requests[r].turn = t
    BY <2>2, <2>3 DEF ServerNext, Arrive, ReadBody, Reject, BeginRun, Forward, Forwarded, StartSession,
      EndRun, Stream, CancelBody, EndStream, ClientLeaves, SessionEnds, InterruptTurn, AnswerLease,
      CancelTrace, RegisterExternal, ExternalEnds, Drain, Resume, CancelTurns, RequestShutdown,
      Signal, Shutdown, StopServer
  <2>4. \A t \in Turn : sessions[t] = "none" /\ sessions'[t] = "active" => ~Contains(interrupted, t)
    BY <2>1, <2>3 DEF StartSession, Sound
  <2> QED
    BY <2>1, <2>4 DEF Sound
<1>2. ServerSpec => []ServerIInv
  BY ServerInitially, ServerStep, PTL DEF ServerSpec
<1> QED
  BY <1>1, <1>2, PTL DEF ServerSpec, InterruptSticks

-----------------------------------------------------------------------------
(* The shared catalogue requests (ModelCatalog)                            *)

\* The clients an attempt counts, and those that have been numbered.
Joining(a) == {c \in Client : client[c].at \in {"waiting", "leaving"} /\ client[c].joined = a}
Begun == {c \in Client : client[c].at # "new"}

ClientSound(c) ==
    /\ c \in Begun => /\ client[c].joined \in Client /\ attempt[client[c].joined].state # "none"
                      /\ client[c].number \in 1..numbered
    /\ c \notin Begun => attempt[c].state = "none" /\ client[c].number = 0
    /\ client[c].at = "leaving" /\ attempt[client[c].joined].state = "settled"
          => client[c].joined # shared
OneNumberEach == \A c \in Begun, d \in Begun : client[c].number = client[d].number => c = d

AttemptSound(a) ==
    /\ Waiters(a) = Cardinality(Joining(a))
    /\ attempt[a].state = "none" => ~attempt[a].handed /\ attempt[a].timer = "off"
    /\ attempt[a].timer # "off" => Waiters(a) = 0
    /\ attempt[a].timer = "abandon" => attempt[a].state = "running"
SharedSound ==
    shared # NoAttempt =>
        /\ attempt[shared].state # "none" /\ ~attempt[shared].handed
        /\ attempt[shared].state = "settled" =>
              attempt[shared].outcome = "ok" /\ (attempt[shared].timer = "unclaimed" \/ Waiters(shared) > 0)

CatalogIInv ==
    /\ CatalogTypeOK /\ numbered = Cardinality(Begun) /\ OneNumberEach /\ SharedSound
    /\ \A c \in Client : ClientSound(c) /\ AttemptSound(c)

LEMMA JoiningFinite ==
    ASSUME NEW a
    PROVE  IsFiniteSet(Joining(a)) /\ Cardinality(Joining(a)) \in 0..Cardinality(Client)
<1>1. Joining(a) \in SUBSET Client
  BY DEF Joining
<1> QED
  BY <1>1, CatalogAssumption, FS_Subset, FS_CardinalityType

LEMMA BegunFinite == IsFiniteSet(Begun) /\ Cardinality(Begun) \in 0..Cardinality(Client)
<1>1. Begun \in SUBSET Client
  BY DEF Begun
<1> QED
  BY <1>1, CatalogAssumption, FS_Subset, FS_CardinalityType

LEMMA CatalogInitially == CatalogInit => CatalogIInv
<1> SUFFICES ASSUME CatalogInit PROVE CatalogIInv
  OBVIOUS
<1>1. Cardinality(Client) \in Nat /\ 0 \in 0..Cardinality(Client)
  BY CatalogAssumption, FS_CardinalityType
<1>2. \A a : Joining(a) = {}
  BY DEF CatalogInit, Joining
<1>3. Begun = {}
  BY DEF CatalogInit, Begun
<1>4. Cardinality({}) = 0
  BY FS_EmptySet
<1>5. CatalogTypeOK
  BY <1>1 DEF CatalogInit, CatalogTypeOK, ClientRecord, AttemptRecord, Outcomes
<1>6. ASSUME NEW c \in Client PROVE ClientSound(c) /\ AttemptSound(c)
  BY <1>2, <1>3, <1>4 DEF CatalogInit, ClientSound, AttemptSound, Waiters
<1> QED
  BY <1>3, <1>4, <1>5, <1>6 DEF CatalogIInv, OneNumberEach, SharedSound, CatalogInit

\* The counts of the attempts, where one client joins one or leaves the one it
\* has joined.
LEMMA OneJoins ==
    ASSUME NEW c \in Client, NEW a \in Client, c \notin Joining(a),
           client' = [client EXCEPT ![c] = client'[c]], client \in [Client -> ClientRecord],
           client'[c].at = "waiting", client'[c].joined = a, client[c].at = "new"
    PROVE  /\ Cardinality(Joining(a)') = Cardinality(Joining(a)) + 1
           /\ \A b \in Client : b # a => Joining(b)' = Joining(b)
<1>1. \A d \in Client : d # c => client'[d] = client[d]
  OBVIOUS
<1>2. Joining(a)' = Joining(a) \cup {c}
  BY <1>1 DEF Joining
<1>3. Cardinality(Joining(a) \cup {c}) = Cardinality(Joining(a)) + 1
  BY JoiningFinite, FS_AddElement
<1>4. \A b \in Client : b # a => Joining(b)' = Joining(b)
  BY <1>1 DEF Joining
<1> QED
  BY <1>2, <1>3, <1>4

LEMMA OneParts ==
    ASSUME NEW c \in Client, NEW a \in Client, c \in Joining(a),
           client' = [client EXCEPT ![c] = client'[c]], client \in [Client -> ClientRecord],
           client'[c].at \notin {"waiting", "leaving"}
    PROVE  /\ Cardinality(Joining(a)') = Cardinality(Joining(a)) - 1
           /\ Cardinality(Joining(a)) > 0
           /\ \A b \in Client : b # a => Joining(b)' = Joining(b)
<1>1. \A d \in Client : d # c => client'[d] = client[d]
  OBVIOUS
<1>2. Joining(a)' = Joining(a) \ {c}
  BY <1>1 DEF Joining
<1>3. Cardinality(Joining(a) \ {c}) = Cardinality(Joining(a)) - 1
  BY JoiningFinite, FS_RemoveElement
<1>4. \A b \in Client : b # a => Joining(b)' = Joining(b)
  BY <1>1 DEF Joining
<1>5. Joining(a) # {}
  OBVIOUS
<1>6. Cardinality(Joining(a)) # 0 /\ Cardinality(Joining(a)) \in Nat
  BY <1>5, JoiningFinite, FS_EmptySet, FS_CardinalityType
<1>7. Cardinality(Joining(a)) > 0
  BY <1>6
<1> QED
  BY <1>2, <1>3, <1>4, <1>7

\* Where clients only move on, and none begins, the numbers stay as they are.
LEMMA NumbersKept ==
    ASSUME CatalogIInv, UNCHANGED numbered, client' \in [Client -> ClientRecord],
           \A c \in Client : /\ client'[c].number = client[c].number
                             /\ client'[c].at = "new" <=> client[c].at = "new"
    PROVE  /\ Begun' = Begun /\ numbered' = Cardinality(Begun') /\ OneNumberEach'
           /\ \A c \in Client : IF c \in Begun THEN client'[c].number \in 1..numbered'
                                ELSE client'[c].number = 0
<1>1. Begun' = Begun
  BY DEF Begun
<1>2. \A c \in Client : ClientSound(c)
  BY DEF CatalogIInv
<1>3. numbered' = Cardinality(Begun')
  BY <1>1 DEF CatalogIInv
<1>4. OneNumberEach'
  BY <1>1 DEF CatalogIInv, OneNumberEach, Begun
<1>5. ASSUME NEW c \in Client
      PROVE  IF c \in Begun THEN client'[c].number \in 1..numbered' ELSE client'[c].number = 0
  BY <1>2 DEF ClientSound
<1> QED
  BY <1>1, <1>3, <1>4, <1>5

\* A step of one attempt, which no client takes part in.
LEMMA AttemptMoves ==
    ASSUME CatalogIInv, NEW a \in Client, UNCHANGED <<client, numbered, lastResult>>,
           attempt' = [attempt EXCEPT ![a] = attempt'[a]], attempt'[a] \in AttemptRecord,
           attempt'[a].waiters = attempt[a].waiters, attempt'[a].handed = attempt[a].handed,
           attempt[a].state # "none", attempt'[a].state # "none",
           attempt'[a].timer # "off" => Waiters(a) = 0,
           attempt'[a].timer = "abandon" => attempt'[a].state = "running",
           shared' \in {shared, NoAttempt}, SharedSound',
           attempt'[a].state = "settled" => attempt[a].state = "settled" \/ shared' # a \/ Waiters(a) = 0
    PROVE  CatalogIInv'
<1>0. client \in [Client -> ClientRecord] /\ attempt \in [Client -> AttemptRecord] /\ NoAttempt \notin Client
  BY CatalogAssumption DEF CatalogIInv, CatalogTypeOK
<1>1. CatalogTypeOK'
  BY <1>0 DEF CatalogIInv, CatalogTypeOK
<1>2. /\ Begun' = Begun /\ \A b \in Client : Joining(b)' = Joining(b)
      /\ \A b \in Client : b # a => attempt'[b] = attempt[b]
  BY <1>0 DEF Begun, Joining
<1>3. numbered' = Cardinality(Begun') /\ OneNumberEach'
  BY <1>2 DEF CatalogIInv, OneNumberEach
<1>4. ASSUME NEW b \in Client PROVE AttemptSound(b)'
  <2>1. AttemptSound(b)
    BY DEF CatalogIInv
  <2>2. CASE b = a
    BY <1>2, <2>1, <2>2 DEF AttemptSound, Waiters
  <2>3. CASE b # a
    BY <1>2, <2>1, <2>3 DEF AttemptSound, Waiters
  <2> QED
    BY <2>2, <2>3
<1>5. ASSUME NEW c \in Client PROVE ClientSound(c)'
  <2>1. ClientSound(c)
    BY DEF CatalogIInv
  <2>2. /\ c \notin Begun => attempt'[c].state = "none" /\ client'[c].number = 0
        /\ c \in Begun => client'[c].joined \in Client /\ attempt'[client'[c].joined].state # "none"
                          /\ client'[c].number \in 1..numbered'
    <3>1. c \notin Begun => c # a
      BY <2>1 DEF ClientSound
    <3> QED
      BY <1>2, <2>1, <3>1 DEF ClientSound
  <2>3. ASSUME client[c].at = "leaving", attempt'[client[c].joined].state = "settled",
               client[c].joined = shared'
        PROVE  FALSE
    <3>1. c \in Begun /\ client[c].joined \in Client /\ shared' = shared
      BY <1>0, <2>1, <2>3 DEF Begun, ClientSound
    <3>2. client[c].joined = a
      BY <1>2, <2>1, <2>3, <3>1 DEF ClientSound
    <3>3. Waiters(a) = 0
      BY <2>1, <2>3, <3>1, <3>2 DEF ClientSound
    <3>4. Joining(a) = {}
      BY <3>3, JoiningFinite, FS_EmptySet DEF CatalogIInv, AttemptSound
    <3> QED
      BY <2>3, <3>2, <3>4 DEF Joining
  <2> QED
    BY <1>2, <2>2, <2>3 DEF ClientSound
<1> QED
  BY <1>1, <1>3, <1>4, <1>5 DEF CatalogIInv

LEMMA CatalogStep == CatalogIInv /\ [CatalogNext]_catalogVars => CatalogIInv'
<1> SUFFICES ASSUME CatalogIInv, [CatalogNext]_catalogVars PROVE CatalogIInv'
  OBVIOUS
<1>0. /\ client \in [Client -> ClientRecord] /\ attempt \in [Client -> AttemptRecord]
      /\ shared \in Client \cup {NoAttempt}
      /\ numbered \in 0..Cardinality(Client)
      /\ lastResult \in [request: 0..Cardinality(Client), got: Outcomes \cup {"nothing", "abandoned"}]
      /\ Cardinality(Client) \in Nat /\ NoAttempt \notin Client
  BY CatalogAssumption, FS_CardinalityType DEF CatalogIInv, CatalogTypeOK
<1>a. \A c \in Client : ClientSound(c) /\ AttemptSound(c)
  BY DEF CatalogIInv
<1>b. numbered = Cardinality(Begun) /\ OneNumberEach /\ SharedSound
  BY DEF CatalogIInv
<1>c. \A a \in Client : Waiters(a) \in 0..Cardinality(Client) /\ Waiters(a) = attempt[a].waiters
  BY <1>0 DEF Waiters, AttemptRecord
<1>1. ASSUME NEW c \in Client, Fetch(c) PROVE CatalogIInv'
  <2>0. PICK a \in Client : a = IF shared = NoAttempt THEN c ELSE shared
    BY <1>0
  <2> DEFINE mine == [client[c] EXCEPT !.at = "waiting", !.joined = a, !.number = numbered + 1]
             begun == IF shared = NoAttempt THEN Started ELSE Joined(a)
  <2>1. /\ client[c].at = "new" /\ numbered' = numbered + 1 /\ shared' = a /\ lastResult' = lastResult
        /\ client' = [client EXCEPT ![c] = mine] /\ attempt' = [attempt EXCEPT ![a] = begun]
    BY <1>0, <1>1, <2>0 DEF Fetch
  <2>2. a \in Client /\ a # NoAttempt /\ (shared # NoAttempt => a = shared) /\ (shared = NoAttempt => a = c)
    BY <1>0, <2>0
  <2>3. c \notin Begun /\ attempt[c].state = "none" /\ c \notin Joining(a)
    BY <1>a, <2>1 DEF ClientSound, Begun, Joining
  <2>4. /\ Begun' = Begun \cup {c} /\ Cardinality(Begun \cup {c}) = numbered + 1
        /\ numbered + 1 \in 0..Cardinality(Client)
    <3>1. Begun' = Begun \cup {c}
      BY <1>0, <2>1 DEF Begun
    <3>2. Cardinality(Begun \cup {c}) = Cardinality(Begun) + 1
      BY <2>3, BegunFinite, FS_AddElement
    <3>3. Begun \cup {c} \in SUBSET Client
      BY DEF Begun
    <3>4. Cardinality(Begun \cup {c}) <= Cardinality(Client)
      BY <3>3, CatalogAssumption, FS_Subset
    <3> QED
      BY <1>0, <1>b, <3>1, <3>2, <3>4
  <2>5. /\ mine \in ClientRecord /\ mine.at = "waiting" /\ mine.joined = a
        /\ mine.number = numbered + 1 /\ mine.left = client[c].left
    BY ZenonT(60), <1>0, <2>2, <2>4 DEF ClientRecord
  <2>6. shared = NoAttempt => Waiters(a) = 0
    <3>1. ASSUME shared = NoAttempt PROVE Joining(a) = {}
      BY <1>a, <2>2, <2>3, <3>1 DEF ClientSound, Joining, Begun
    <3> QED
      BY <1>a, <2>2, <3>1, FS_EmptySet DEF AttemptSound
  <2>7. /\ begun.state = (IF shared = NoAttempt THEN "running" ELSE attempt[a].state)
        /\ begun.outcome = (IF shared = NoAttempt THEN "failed" ELSE attempt[a].outcome)
        /\ begun.waiters = Waiters(a) + 1 /\ begun.timer = "off"
        /\ begun.handed => shared # NoAttempt /\ attempt[a].handed
    <3>1. CASE shared = NoAttempt
      BY <2>6, <3>1 DEF Started
    <3>2. CASE shared # NoAttempt
      <4>1. attempt[a] \in AttemptRecord
        BY <1>0, <2>2
      <4> QED
        BY <3>2, <4>1 DEF Joined, Waiters, AttemptRecord
    <3> QED
      BY <3>1, <3>2
  <2> HIDE DEF mine, begun
  <2>8. client'[c] = mine /\ attempt'[a] = begun
    BY <1>0, <2>1, <2>2
  <2>9. /\ Cardinality(Joining(a)') = Cardinality(Joining(a)) + 1
        /\ \A b \in Client : b # a => Joining(b)' = Joining(b)
    BY <1>0, <2>1, <2>2, <2>3, <2>5, <2>8, OneJoins
  <2>10. Waiters(a)' = Cardinality(Joining(a)') /\ Waiters(a)' = Waiters(a) + 1
    <3>1. Waiters(a) = Cardinality(Joining(a)) /\ Waiters(a)' = attempt'[a].waiters
      BY <1>a, <2>2 DEF AttemptSound, Waiters
    <3> QED
      BY <2>7, <2>8, <2>9, <3>1
  <2>11. Waiters(a) + 1 \in 0..Cardinality(Client)
    <3>1. Joining(a)' \in SUBSET Client
      BY DEF Joining
    <3>2. Cardinality(Joining(a)') <= Cardinality(Client)
      BY <3>1, CatalogAssumption, FS_Subset
    <3> QED
      BY <1>0, <1>c, <2>2, <2>10, <3>2
  <2>12. begun \in AttemptRecord
    <3>1. CASE shared = NoAttempt
      BY <2>6, <2>11, <3>1 DEF begun, Started, AttemptRecord, Outcomes
    <3>2. CASE shared # NoAttempt
      <4>1. attempt[a] \in AttemptRecord
        BY <1>0, <2>2
      <4> QED
        BY <2>11, <3>2, <4>1 DEF begun, Joined, AttemptRecord, Waiters
    <3> QED
      BY <3>1, <3>2
  <2>13. CatalogTypeOK'
    BY <1>0, <2>1, <2>2, <2>4, <2>5, <2>12 DEF CatalogTypeOK
  <2>14. OneNumberEach'
    <3>1. \A d \in Begun : d # c /\ client'[d].number = client[d].number /\ client[d].number \in 1..numbered
      BY <1>0, <1>a, <2>1, <2>3 DEF Begun, ClientSound
    <3>2. client'[c].number = numbered + 1
      BY <2>5, <2>8
    <3> QED
      BY <1>0, <1>b, <2>4, <3>1, <3>2 DEF OneNumberEach
  <2>15. SharedSound'
    <3>1. Waiters(a) \in Nat /\ Waiters(a)' > 0
      BY <1>c, <2>2, <2>10
    <3>2. attempt'[a].state # "none" /\ ~attempt'[a].handed
          /\ (attempt'[a].state = "settled" => attempt'[a].outcome = "ok")
      BY <1>b, <2>2, <2>7, <2>8 DEF SharedSound
    <3> QED
      BY <2>1, <2>2, <3>1, <3>2 DEF SharedSound
  <2>16. ASSUME NEW b \in Client PROVE AttemptSound(b)'
    <3>1. CASE b = a
      <4>1. attempt'[a].state # "none" /\ attempt'[a].timer = "off"
        BY <1>b, <2>2, <2>7, <2>8 DEF SharedSound
      <4> QED
        BY <2>10, <3>1, <4>1 DEF AttemptSound
    <3>2. CASE b # a
      BY <1>0, <1>a, <2>1, <2>9, <3>2 DEF AttemptSound, Waiters
    <3> QED
      BY <3>1, <3>2
  <2>17. ASSUME NEW d \in Client PROVE ClientSound(d)'
    <3>1. \A b \in Client : attempt[b].state # "none" => attempt'[b].state = attempt[b].state
      BY <1>0, <2>1, <2>2, <2>3, <2>7, <2>8
    <3>2. attempt'[a].state # "none"
      BY <1>b, <2>2, <2>7, <2>8 DEF SharedSound
    <3>3. CASE d = c
      BY <1>0, <2>2, <2>1, <2>4, <2>5, <2>8, <3>2, <3>3 DEF ClientSound
    <3>4. CASE d # c
      <4>1. client'[d] = client[d] /\ (d \in Begun' <=> d \in Begun) /\ ClientSound(d)
        BY <1>0, <1>a, <2>1, <2>4, <3>4
      <4>2. d \notin Begun => attempt'[d].state = "none"
        <5>1. d \notin Begun => attempt[d].state = "none"
          BY <4>1 DEF ClientSound
        <5>2. d \notin Begun => d # a
          BY <1>b, <2>2, <3>4, <5>1 DEF SharedSound
        <5> QED
          BY <1>0, <2>1, <5>1, <5>2
      <4>3. d \in Begun => client[d].joined \in Client /\ attempt'[client[d].joined].state # "none"
                           /\ client[d].number \in 1..numbered'
        BY <1>0, <2>1, <3>1, <4>1 DEF ClientSound
      <4>4. client[d].at = "leaving" /\ attempt'[client[d].joined].state = "settled"
               => client[d].joined # shared'
        <5>1. ASSUME client[d].at = "leaving", attempt'[client[d].joined].state = "settled",
                     client[d].joined = shared'
              PROVE  FALSE
          <6>1. d \in Begun /\ client[d].joined = a /\ attempt[a].state # "none"
            BY <2>1, <4>1, <5>1 DEF Begun, ClientSound
          <6>2. attempt[a].state = "settled"
            BY <2>2, <3>1, <5>1, <6>1
          <6>3. shared # NoAttempt
            BY <2>2, <2>3, <6>1
          <6> QED
            BY <2>2, <4>1, <5>1, <6>1, <6>2, <6>3 DEF ClientSound
        <5> QED
          BY <5>1
      <4> QED
        BY <4>1, <4>2, <4>3, <4>4 DEF ClientSound
    <3> QED
      BY <3>3, <3>4
  <2> QED
    BY <2>1, <2>4, <2>13, <2>14, <2>15, <2>16, <2>17 DEF CatalogIInv
<1>2. ASSUME NEW a \in Client, NEW outcome \in Outcomes \cup {"abandoned"}, Settle(a, outcome)
      PROVE  CatalogIInv'
  <2> DEFINE kept == Kept(a, outcome)
             rec == [attempt[a] EXCEPT !.state = "settled", !.outcome = outcome,
                                       !.timer = IF kept /\ shared = a THEN "unclaimed" ELSE "off"]
  <2>1. /\ attempt[a].state = "running" /\ attempt' = [attempt EXCEPT ![a] = rec]
        /\ shared' = (IF shared = a /\ ~kept THEN NoAttempt ELSE shared)
        /\ UNCHANGED <<client, numbered, lastResult>>
    BY <1>0, <1>2 DEF Settle
  <2>2. /\ rec \in AttemptRecord /\ rec.state = "settled" /\ rec.outcome = outcome
        /\ rec.waiters = attempt[a].waiters /\ rec.handed = attempt[a].handed
        /\ rec.timer = IF kept /\ shared = a THEN "unclaimed" ELSE "off"
    <3>1. attempt[a] \in AttemptRecord
      BY <1>0
    <3> QED
      BY <3>1 DEF AttemptRecord
  <2>3. kept <=> outcome = "ok" /\ Waiters(a) = 0
    BY DEF Kept
  <2> HIDE DEF rec, kept
  <2>4. attempt'[a] = rec /\ (\A b \in Client : b # a => attempt'[b] = attempt[b])
    BY <1>0, <2>1
  <2>5. SharedSound'
    <3>1. CASE shared = a
      BY <1>0, <1>b, <2>1, <2>2, <2>3, <2>4, <3>1 DEF SharedSound
    <3>2. CASE shared # a
      BY <1>0, <1>b, <2>1, <2>4, <3>2 DEF SharedSound, Waiters
    <3> QED
      BY <3>1, <3>2
  <2> QED
    BY <1>0, <2>1, <2>2, <2>3, <2>4, <2>5, AttemptMoves
<1>3. ASSUME NEW a \in Client, Abandon(a) PROVE CatalogIInv'
  <2> DEFINE rec == [attempt[a] EXCEPT !.timer = "off", !.aborting = attempt[a].state = "running"]
  <2>1. /\ attempt[a].timer = "abandon" /\ attempt' = [attempt EXCEPT ![a] = rec]
        /\ UNCHANGED <<client, shared, numbered, lastResult>>
    BY <1>0, <1>3 DEF Abandon
  <2>2. /\ rec \in AttemptRecord /\ rec.state = attempt[a].state /\ rec.outcome = attempt[a].outcome
        /\ rec.waiters = attempt[a].waiters /\ rec.handed = attempt[a].handed /\ rec.timer = "off"
    <3>1. attempt[a] \in AttemptRecord
      BY <1>0
    <3> QED
      BY <3>1 DEF AttemptRecord
  <2> HIDE DEF rec
  <2>3. attempt'[a] = rec /\ (\A b \in Client : b # a => attempt'[b] = attempt[b])
    BY <1>0, <2>1
  <2>4. attempt[a].state = "running"
    BY <1>a, <2>1 DEF AttemptSound
  <2>5. SharedSound'
    BY <1>0, <1>b, <2>1, <2>2, <2>3, <2>4 DEF SharedSound, Waiters
  <2> QED
    BY <2>1, <2>2, <2>3, <2>4, <2>5, AttemptMoves
<1>4. ASSUME NEW a \in Client, Unclaimed(a) PROVE CatalogIInv'
  <2> DEFINE rec == [attempt[a] EXCEPT !.timer = "off"]
  <2>1. /\ attempt[a].timer = "unclaimed" /\ attempt' = [attempt EXCEPT ![a] = rec]
        /\ shared' = (IF shared = a THEN NoAttempt ELSE shared)
        /\ UNCHANGED <<client, numbered, lastResult>>
    BY <1>0, <1>4 DEF Unclaimed
  <2>2. /\ rec \in AttemptRecord /\ rec.state = attempt[a].state /\ rec.outcome = attempt[a].outcome
        /\ rec.waiters = attempt[a].waiters /\ rec.handed = attempt[a].handed /\ rec.timer = "off"
    <3>1. attempt[a] \in AttemptRecord
      BY <1>0
    <3> QED
      BY <3>1 DEF AttemptRecord
  <2> HIDE DEF rec
  <2>3. attempt'[a] = rec /\ (\A b \in Client : b # a => attempt'[b] = attempt[b])
    BY <1>0, <2>1
  <2>4. attempt[a].state # "none"
    BY <1>a, <2>1 DEF AttemptSound
  <2>5. SharedSound'
    BY <1>0, <1>b, <2>1, <2>3 DEF SharedSound, Waiters
  <2> QED
    BY <2>1, <2>2, <2>3, <2>4, <2>5, AttemptMoves
<1>5. ASSUME CloseFetches PROVE CatalogIInv'
  <2>0. PICK a \in Client : a = shared
    BY <1>0, <1>5 DEF CloseFetches
  <2> DEFINE rec == [attempt[a] EXCEPT !.timer = "off", !.aborting = attempt[a].state = "running"]
  <2>1. /\ attempt' = [attempt EXCEPT ![a] = rec] /\ shared' = NoAttempt
        /\ UNCHANGED <<client, numbered, lastResult>>
    BY <1>0, <1>5, <2>0 DEF CloseFetches
  <2>2. /\ rec \in AttemptRecord /\ rec.state = attempt[a].state
        /\ rec.waiters = attempt[a].waiters /\ rec.handed = attempt[a].handed /\ rec.timer = "off"
    <3>1. attempt[a] \in AttemptRecord
      BY <1>0
    <3> QED
      BY <3>1 DEF AttemptRecord
  <2> HIDE DEF rec
  <2>3. attempt'[a] = rec
    BY <1>0, <2>1
  <2>4. attempt[a].state # "none"
    BY <1>0, <1>b, <2>0 DEF SharedSound
  <2>5. SharedSound'
    BY <2>1 DEF SharedSound
  <2> QED
    BY <2>1, <2>2, <2>3, <2>4, <2>5, AttemptMoves
<1>6. ASSUME NEW c \in Client, Disconnect(c) PROVE CatalogIInv'
  <2> DEFINE now == IF attempt[client[c].joined].state = "running" THEN "leaving" ELSE client[c].at
             rec == [client[c] EXCEPT !.left = TRUE, !.at = now]
  <2>1. /\ client[c].at = "waiting" /\ client' = [client EXCEPT ![c] = rec]
        /\ UNCHANGED <<attempt, shared, numbered, lastResult>>
    BY <1>0, <1>6 DEF Disconnect
  <2>2. now \in {"waiting", "leaving"}
    BY <2>1
  <2>3. /\ rec \in ClientRecord /\ rec.at = now /\ rec.joined = client[c].joined
        /\ rec.number = client[c].number
    <3>1. client[c] \in ClientRecord
      BY <1>0
    <3> QED
      BY <2>2, <3>1 DEF ClientRecord
  <2>4. now = "leaving" => attempt[client[c].joined].state = "running"
    BY <2>1
  <2> HIDE DEF rec, now
  <2>5. client'[c] = rec /\ (\A d \in Client : d # c => client'[d] = client[d])
        /\ client' \in [Client -> ClientRecord]
    BY <1>0, <2>1, <2>3
  <2>6. \A b \in Client : Joining(b)' = Joining(b)
    BY <2>1, <2>2, <2>3, <2>5 DEF Joining
  <2>7. \A d \in Client : client'[d].number = client[d].number /\ (client'[d].at = "new" <=> client[d].at = "new")
    BY <2>1, <2>2, <2>3, <2>5
  <2>8. /\ Begun' = Begun /\ numbered' = Cardinality(Begun') /\ OneNumberEach'
        /\ \A d \in Client : IF d \in Begun THEN client'[d].number \in 1..numbered' ELSE client'[d].number = 0
    BY <2>1, <2>5, <2>7, NumbersKept
  <2>9. CatalogTypeOK'
    BY <1>0, <2>1, <2>5 DEF CatalogTypeOK
  <2>10. SharedSound' /\ \A b \in Client : AttemptSound(b)'
    BY <1>a, <1>b, <2>1, <2>6 DEF SharedSound, AttemptSound, Waiters
  <2>11. ASSUME NEW d \in Client PROVE ClientSound(d)'
    <3>1. ClientSound(d) /\ client'[d].joined = client[d].joined
      BY <1>a, <2>3, <2>5
    <3>2. client'[d].at = "leaving" /\ attempt[client[d].joined].state = "settled" => client[d].joined # shared
      BY <2>3, <2>4, <2>5, <3>1 DEF ClientSound
    <3> QED
      BY <2>1, <2>8, <3>1, <3>2 DEF ClientSound
  <2> QED
    BY <2>8, <2>9, <2>10, <2>11 DEF CatalogIInv
<1>7. ASSUME NEW c \in Client, Deliver(c) \/ Leave(c) PROVE CatalogIInv'
  <2>0. /\ client[c].at \in {"waiting", "leaving"} /\ c \in Begun /\ client[c].joined \in Client
        /\ attempt[client[c].joined].state # "none"
    BY <1>a, <1>7 DEF Deliver, Leave, ClientSound, Begun
  <2>1. PICK a \in Client : a = client[c].joined
    BY <2>0
  <2> DEFINE ok == attempt[a].outcome \in {"ok", "unauthorized"}
             gone == IF client[c].at = "waiting" THEN "answered" ELSE "gone"
             rec == [client[c] EXCEPT !.at = gone]
             delivered == [attempt[a] EXCEPT !.waiters = @ - 1, !.handed = @ \/ ok,
                                             !.timer = IF ok /\ shared = a THEN "off" ELSE @]
             left == Leaving(a)
             after == IF client[c].at = "waiting" THEN delivered ELSE left
  <2>2. /\ client' = [client EXCEPT ![c] = rec] /\ attempt' = [attempt EXCEPT ![a] = after]
        /\ shared' = (IF client[c].at = "waiting" /\ ok /\ shared = a THEN NoAttempt ELSE shared)
        /\ client[c].at = "waiting" => attempt[a].state = "settled"
        /\ UNCHANGED numbered
    BY <1>0, <1>7, <2>1 DEF Deliver, Leave
  <2>3. /\ rec \in ClientRecord /\ rec.at = gone /\ rec.joined = a /\ rec.number = client[c].number
    <3>1. client[c] \in ClientRecord
      BY <1>0
    <3> QED
      BY <2>1, <3>1 DEF ClientRecord
  <2>4. gone \notin {"waiting", "leaving", "new"}
    OBVIOUS
  <2> HIDE DEF rec, gone
  <2>5. client'[c] = rec /\ (\A d \in Client : d # c => client'[d] = client[d])
        /\ client' \in [Client -> ClientRecord] /\ client' = [client EXCEPT ![c] = client'[c]]
    BY <1>0, <2>2, <2>3
  <2>6. c \in Joining(a)
    BY <2>0, <2>1 DEF Joining
  <2>7. /\ Cardinality(Joining(a)') = Cardinality(Joining(a)) - 1 /\ Cardinality(Joining(a)) > 0
        /\ \A b \in Client : b # a => Joining(b)' = Joining(b)
    BY <1>0, <2>3, <2>4, <2>5, <2>6, OneParts
  <2>8. Waiters(a) = Cardinality(Joining(a)) /\ Waiters(a) > 0 /\ attempt[a].timer = "off"
        /\ Waiters(a) - 1 \in 0..Cardinality(Client)
    <3>1. Waiters(a) = Cardinality(Joining(a)) /\ (attempt[a].timer # "off" => Waiters(a) = 0)
      BY <1>a DEF AttemptSound
    <3>2. Waiters(a) \in 0..Cardinality(Client)
      BY <1>c
    <3> QED
      BY <1>0, <2>7, <3>1, <3>2
  <2>9. attempt[a] \in AttemptRecord
    BY <1>0
  <2>10. /\ delivered \in AttemptRecord /\ delivered.state = attempt[a].state
         /\ delivered.outcome = attempt[a].outcome /\ delivered.waiters = Waiters(a) - 1
         /\ delivered.timer = "off" /\ (delivered.handed => attempt[a].handed \/ ok)
    <3>1. delivered.handed \in BOOLEAN /\ (delivered.handed => attempt[a].handed \/ ok)
      BY <2>9 DEF AttemptRecord
    <3>2. delivered.waiters = Waiters(a) - 1 /\ delivered.state = attempt[a].state
          /\ delivered.outcome = attempt[a].outcome /\ delivered.timer = "off"
      BY <2>8, <2>9 DEF AttemptRecord, Waiters
    <3> QED
      BY <2>8, <2>9, <3>1, <3>2 DEF AttemptRecord
  <2>11. /\ left \in AttemptRecord /\ left.state = attempt[a].state /\ left.outcome = attempt[a].outcome
         /\ left.waiters = Waiters(a) - 1 /\ left.handed = attempt[a].handed
         /\ left.timer = IF Waiters(a) = 1 /\ shared = a THEN "abandon" ELSE "off"
    <3>1. left.waiters = Waiters(a) - 1 /\ left.state = attempt[a].state /\ left.handed = attempt[a].handed
          /\ left.outcome = attempt[a].outcome
          /\ left.timer = IF Waiters(a) = 1 /\ shared = a THEN "abandon" ELSE "off"
      BY <2>8, <2>9 DEF AttemptRecord, Waiters, Leaving
    <3> QED
      BY <2>8, <2>9, <3>1 DEF AttemptRecord, Leaving
  <2> HIDE DEF delivered, left
  <2>12. /\ after \in AttemptRecord /\ after.state = attempt[a].state /\ after.outcome = attempt[a].outcome
         /\ after.waiters = Waiters(a) - 1
         /\ after.timer \in {"off", "abandon"}
         /\ after.timer = "abandon" => client[c].at = "leaving" /\ Waiters(a) = 1 /\ shared = a
         /\ after.handed => attempt[a].handed \/ (ok /\ client[c].at = "waiting")
    BY <2>0, <2>10, <2>11
  <2> HIDE DEF after
  <2>13. attempt'[a] = after /\ (\A b \in Client : b # a => attempt'[b] = attempt[b])
    BY <1>0, <2>2
  <2>14. Waiters(a)' = Cardinality(Joining(a)') /\ Waiters(a)' = Waiters(a) - 1
    BY <2>7, <2>8, <2>12, <2>13 DEF Waiters
  <2>15. client[c].at = "leaving" /\ shared = a => attempt[a].state = "running"
    <3>1. ClientSound(c)
      BY <1>a
    <3>2. attempt[a].state \in {"none", "running", "settled"}
      BY <2>9 DEF AttemptRecord
    <3> QED
      BY <2>0, <2>1, <3>1, <3>2 DEF ClientSound
  <2>16. client[c].at = "waiting" /\ shared = a => shared' = NoAttempt
    BY <1>0, <1>b, <2>2 DEF SharedSound
  <2>17. SharedSound'
    <3>1. CASE shared' = a
      <4>1. shared = a /\ client[c].at = "leaving" /\ attempt[a].state = "running"
        BY <1>0, <2>0, <2>2, <2>15, <2>16, <3>1
      <4>2. ~attempt[a].handed
        BY <1>0, <1>b, <4>1 DEF SharedSound
      <4> QED
        BY <2>12, <2>13, <3>1, <4>1, <4>2 DEF SharedSound
    <3>2. CASE shared' # a
      BY <1>0, <1>b, <2>2, <2>13, <3>2 DEF SharedSound, Waiters
    <3> QED
      BY <3>1, <3>2
  <2>18. ASSUME NEW b \in Client PROVE AttemptSound(b)'
    <3>1. CASE b = a
      <4>1. after.timer # "off" => Waiters(a)' = 0
        BY <2>12, <2>14
      <4>2. after.timer = "abandon" => attempt[a].state = "running"
        BY <2>12, <2>15
      <4> QED
        BY <2>0, <2>1, <2>12, <2>13, <2>14, <3>1, <4>1, <4>2 DEF AttemptSound
    <3>2. CASE b # a
      <4>1. AttemptSound(b)
        BY <1>a
      <4> QED
        BY <2>7, <2>13, <3>2, <4>1 DEF AttemptSound, Waiters
    <3> QED
      BY <3>1, <3>2
  <2>19. \A d \in Client : client'[d].number = client[d].number /\ (client'[d].at = "new" <=> client[d].at = "new")
    BY <2>0, <2>3, <2>4, <2>5
  <2>20. /\ Begun' = Begun /\ numbered' = Cardinality(Begun') /\ OneNumberEach'
         /\ \A d \in Client : IF d \in Begun THEN client'[d].number \in 1..numbered' ELSE client'[d].number = 0
    BY <2>2, <2>5, <2>19, NumbersKept
  <2>21. ASSUME NEW d \in Client PROVE ClientSound(d)'
    <3>1. ClientSound(d) /\ client'[d].joined = client[d].joined
      BY <1>a, <2>1, <2>3, <2>5
    <3>2. \A b \in Client : attempt'[b].state = attempt[b].state
      BY <2>12, <2>13
    <3>3. /\ d \in Begun => client'[d].joined \in Client /\ attempt'[client'[d].joined].state # "none"
          /\ d \notin Begun => attempt'[d].state = "none"
      BY <3>1, <3>2 DEF ClientSound
    <3>4. ASSUME client'[d].at = "leaving", attempt'[client'[d].joined].state = "settled",
                 client'[d].joined = shared'
          PROVE  FALSE
      <4>1. d # c /\ client'[d] = client[d] /\ d \in Begun
        BY <2>3, <2>4, <2>5, <3>4 DEF Begun
      <4>2. client[d].joined \in Client /\ shared' = shared
        BY <1>0, <2>2, <3>1, <3>4, <4>1 DEF ClientSound
      <4> QED
        BY <3>1, <3>2, <3>4, <4>1, <4>2 DEF ClientSound
    <3> QED
      BY <2>20, <3>3, <3>4 DEF ClientSound
  <2>22. lastResult' \in [request: 0..Cardinality(Client), got: Outcomes \cup {"nothing", "abandoned"}]
    <3>1. CASE client[c].at = "leaving"
      BY <1>0, <1>7, <3>1 DEF Deliver, Leave
    <3>2. CASE client[c].at = "waiting"
      <4>1. lastResult' = Record(c, attempt[a].outcome)
        BY <1>7, <2>1, <3>2 DEF Deliver, Leave
      <4>2. client[c].number \in 0..Cardinality(Client) /\ attempt[a].outcome \in Outcomes \cup {"abandoned"}
        BY <1>0, <2>9 DEF ClientRecord, AttemptRecord
      <4> QED
        BY <1>0, <4>1, <4>2 DEF Record
    <3> QED
      BY <2>0, <3>1, <3>2
  <2>23. CatalogTypeOK'
    BY <1>0, <2>2, <2>5, <2>12, <2>22 DEF CatalogTypeOK
  <2> QED
    BY <2>17, <2>18, <2>20, <2>21, <2>23 DEF CatalogIInv
<1>8. CASE UNCHANGED catalogVars
  <2>1. UNCHANGED <<client, attempt, shared, numbered, lastResult>>
    BY <1>8 DEF catalogVars
  <2>2. Begun' = Begun /\ \A b \in Client : Joining(b)' = Joining(b)
    BY <2>1 DEF Begun, Joining
  <2>3. CatalogTypeOK' /\ OneNumberEach' /\ SharedSound' /\ numbered' = Cardinality(Begun')
    BY <1>0, <1>b, <2>1, <2>2 DEF CatalogTypeOK, OneNumberEach, SharedSound, Waiters
  <2>4. ASSUME NEW c \in Client PROVE ClientSound(c)' /\ AttemptSound(c)'
    BY <1>a, <2>1, <2>2 DEF ClientSound, AttemptSound, Waiters
  <2> QED
    BY <2>3, <2>4 DEF CatalogIInv
<1> QED
  BY <1>1, <1>2, <1>3, <1>4, <1>5, <1>6, <1>7, <1>8 DEF CatalogNext

\* Identical catalogue requests share one attempt whose books are exact, a
\* delivered catalogue goes to nobody who asks later, and the last result
\* never goes back (server.ts:424-512, 1197), for any number of clients.
THEOREM CatalogCorrect == CatalogSpec => CatalogHolds
<1>1. CatalogSpec => []CatalogIInv
  BY CatalogInitially, CatalogStep, PTL DEF CatalogSpec
<1>2. CatalogIInv => AttemptBooks
  BY DEF CatalogIInv, AttemptBooks, AttemptSound, SharedSound, Joining
<1> DEFINE Fresh ==
      /\ \A c \in Client : client[c].at = "new" /\ client'[c].at = "waiting"
            => ~attempt[client'[c].joined].handed
      /\ lastResult' # lastResult
            => /\ lastResult'.request > lastResult.request
               /\ \A c \in Client : client[c].number = lastResult'.request => ~client[c].left
<1>3. CatalogIInv /\ [CatalogNext]_catalogVars => [Fresh]_catalogVars
  <2> SUFFICES ASSUME CatalogIInv, CatalogNext PROVE Fresh
    OBVIOUS
  <2>0. client \in [Client -> ClientRecord] /\ shared \in Client \cup {NoAttempt}
        /\ lastResult.request \in Nat /\ Cardinality(Client) \in Nat
        /\ \A c \in Client : client[c].number \in Nat
    BY CatalogAssumption, FS_CardinalityType DEF CatalogIInv, CatalogTypeOK, ClientRecord
  <2>1. ASSUME NEW c \in Client, client[c].at = "new", client'[c].at = "waiting"
        PROVE  ~attempt[client'[c].joined].handed
    <3>1. Fetch(c)
      BY ZenonT(60), <2>0, <2>1 DEF CatalogNext, Fetch, Deliver, Disconnect, Leave, Abandon, Unclaimed, Settle, CloseFetches
    <3>2. client'[c].joined = IF shared = NoAttempt THEN c ELSE shared
      BY <2>0, <3>1 DEF Fetch, ClientRecord
    <3>3. attempt[c].state = "none" /\ ~attempt[c].handed
      BY <2>1 DEF CatalogIInv, ClientSound, AttemptSound, Begun
    <3> QED
      BY SMTT(40), <3>2, <3>3 DEF CatalogIInv, SharedSound
  <2>2. ASSUME lastResult' # lastResult
        PROVE  /\ lastResult'.request > lastResult.request
               /\ \A c \in Client : client[c].number = lastResult'.request => ~client[c].left
    <3>1. PICK d \in Client : Deliver(d)
      BY <2>2 DEF CatalogNext, Fetch, Deliver, Disconnect, Leave, Abandon, Unclaimed, Settle, CloseFetches
    <3>2. /\ ~client[d].left /\ client[d].number > lastResult.request
          /\ lastResult'.request = client[d].number
      BY <2>2, <3>1 DEF Deliver, Record
    <3>3. ASSUME NEW c \in Client, client[c].number = client[d].number PROVE c = d
      <4>1. c \in Begun /\ d \in Begun
        BY <2>0, <3>2, <3>3 DEF CatalogIInv, ClientSound
      <4> QED
        BY <3>3, <4>1 DEF CatalogIInv, OneNumberEach
    <3> QED
      BY <3>2, <3>3
  <2> QED
    BY <2>1, <2>2
<1> QED
  BY <1>1, <1>2, <1>3, PTL DEF CatalogSpec, CatalogHolds, CatalogIsFresh
===============================================================================
