---------------------------- MODULE ServerTurns ----------------------------
(***************************************************************************)
(* The HTTP side of the daemon (src/src/server.ts): which requests are     *)
(* admitted, how HttpTurnCounter tracks each one until its response body   *)
(* has ended, how an interrupt reaches a request whose body names its turn *)
(* only later, and how drain, resume, the cancellations and the shutdown   *)
(* meet the work that is in flight.                                        *)
(*                                                                         *)
(* A request is streamed (a bridge over a detached adapter run), buffered  *)
(* (stream: false and /responses/compact) or native (the passthrough).     *)
(* The browser session of a turn outlives the request that started it:     *)
(* only its phase matters here, TurnSessions has the registry.             *)
(***************************************************************************)
EXTENDS Naturals, Sequences, FiniteSets, SequencesExt

CONSTANTS Request, Turn, NoTurn,
          MaxInterrupted,  \* tombstones kept; 1 024 in the code
          MaxExternal      \* bounds the external owners a behaviour registers

ASSUME ServerTurnsAssumption ==
    /\ NoTurn \notin Turn
    /\ MaxInterrupted \in Nat \ {0}
    /\ MaxExternal \in Nat

VARIABLES requests,     \* what HttpTurnCounter and the handler know of each request
          interrupted,  \* tombstones of interrupted turns, oldest first
          sessions,     \* the browser session of each turn
          external,     \* owners registered from another process
          draining, closing,
          leases,       \* turns whose cancellation waits for the document to settle
          disturbed     \* history: a signal or a resume met the shutdown

serverVars == <<requests, interrupted, sessions, external, draining, closing,
                leases, disturbed>>

Kinds == {"streamed", "buffered", "native"}
RequestRecord ==
    [phase: {"new", "reading", "ready", "running", "answer", "streaming", "released",
             "refused", "cut"},
     kind: Kinds, turn: Turn \cup {NoTurn}, aborted: BOOLEAN,
     adapter: {"idle", "run", "over"}]

ServerTypeOK ==
    /\ requests \in [Request -> RequestRecord]
    /\ interrupted \in BoundedSeq(Turn, MaxInterrupted)
    /\ sessions \in [Turn -> {"none", "active", "settling"}]
    /\ external \in 0..MaxExternal
    /\ draining \in BOOLEAN /\ disturbed \in BOOLEAN
    /\ closing \in {"open", "scheduled", "closing", "closed"}
    /\ leases \subseteq Turn

Blank == [phase |-> "new", kind |-> "streamed", turn |-> NoTurn, aborted |-> FALSE,
          adapter |-> "idle"]

ServerInit ==
    /\ requests = [r \in Request |-> Blank]
    /\ interrupted = <<>>
    /\ sessions = [t \in Turn |-> "none"]
    /\ external = 0
    /\ draining = FALSE /\ disturbed = FALSE
    /\ closing = "open"
    /\ leases = {}

Tracked == {r \in Request :
               requests[r].phase \in {"reading", "ready", "running", "answer", "streaming"}}
ActiveSessions == {t \in Turn : sessions[t] = "active"}
\* The handler of r goes on to a phase, its adapter to a place.
Moves(r, phase, adapter) ==
    requests' = [requests EXCEPT ![r].phase = phase, ![r].adapter = adapter]
\* release(): the counter forgets the request, once.
Release(r) == requests' = [requests EXCEPT ![r] = [Blank EXCEPT !.phase = "released"]]
AbortAll(R) == [r \in Request |-> IF r \in R /\ r \in Tracked
                                  THEN [requests[r] EXCEPT !.aborted = TRUE]
                                  ELSE requests[r]]
-----------------------------------------------------------------------------
(* Requests *)

Admits == closing # "closed" /\ ~draining

Arrive(r, kind) ==
    /\ requests[r].phase = "new"
    /\ closing # "closed"
    /\ requests' = [requests EXCEPT ![r].phase = IF Admits THEN "reading" ELSE "refused",
                                    ![r].kind = IF Admits THEN kind ELSE @]
    /\ UNCHANGED <<interrupted, sessions, external, draining, closing, leases, disturbed>>

Bind(r, t) == [requests[r] EXCEPT !.turn = t, !.phase = "ready",
                                  !.aborted = @ \/ Contains(interrupted, t)]

\* The body has been read and names its turn: a tombstone aborts the request at once.
ReadBody(r, t) ==
    /\ requests[r].phase = "reading"
    /\ requests' = [requests EXCEPT ![r] = Bind(r, t)]
    /\ UNCHANGED <<interrupted, sessions, external, draining, closing, leases, disturbed>>

\* A body that is not JSON, an unknown model, missing history, a cancelled trace: 4xx.
Reject(r) ==
    /\ requests[r].phase \in {"reading", "ready"}
    /\ Moves(r, "answer", "over")
    /\ UNCHANGED <<interrupted, sessions, external, draining, closing, leases, disturbed>>

\* runTurn begins; a streamed request answers at once and leaves it running.
BeginRun(r) ==
    /\ requests[r].phase = "ready" /\ requests[r].kind # "native"
    /\ Moves(r, IF requests[r].kind = "streamed" THEN "answer" ELSE "running", "run")
    /\ UNCHANGED <<interrupted, sessions, external, draining, closing, leases, disturbed>>

Forward(r) ==
    /\ requests[r].phase = "ready" /\ requests[r].kind = "native"
    /\ Moves(r, "running", requests[r].adapter)
    /\ UNCHANGED <<interrupted, sessions, external, draining, closing, leases, disturbed>>

\* The upstream answers, or the fetch fails (502), as it does at once when aborted.
Forwarded(r) ==
    /\ requests[r].phase = "running" /\ requests[r].kind = "native"
    /\ Moves(r, "answer", "over")
    /\ UNCHANGED <<interrupted, sessions, external, draining, closing, leases, disturbed>>

\* The adapter reaches the registry: an aborted request starts or joins nothing, a
\* retiring session is awaited, a live one is joined.
StartSession(r) ==
    LET t == requests[r].turn IN
    /\ requests[r].adapter = "run" /\ ~requests[r].aborted
    /\ t \in Turn /\ sessions[t] = "none"
    /\ sessions' = [sessions EXCEPT ![t] = "active"]
    /\ UNCHANGED <<requests, interrupted, external, draining, closing, leases, disturbed>>

\* The round is over: a batch is handed to Codex, the turn ended, an error, an abort.
EndRun(r) ==
    /\ requests[r].adapter = "run"
    /\ Moves(r, IF requests[r].phase = "running" THEN "answer" ELSE requests[r].phase, "over")
    /\ UNCHANGED <<interrupted, sessions, external, draining, closing, leases, disturbed>>

SessionEnds(t) ==
    /\ sessions[t] # "none"
    /\ sessions' = [sessions EXCEPT ![t] = "none"]
    /\ UNCHANGED <<requests, interrupted, external, draining, closing, leases, disturbed>>

Stream(r) ==
    /\ requests[r].phase = "answer" /\ ~requests[r].aborted
    /\ Moves(r, "streaming", requests[r].adapter)
    /\ UNCHANGED <<interrupted, sessions, external, draining, closing, leases, disturbed>>

CancelUnstreamed(r) ==
    /\ requests[r].phase = "answer" /\ requests[r].aborted
    /\ Release(r)
    /\ UNCHANGED <<interrupted, sessions, external, draining, closing, leases, disturbed>>

\* 499 before a body was handed out, or the abort listener of a body in flight: the
\* reader is cancelled, and the bridge's cancel aborts the adapter.
CancelBody(r) ==
    /\ requests[r].phase \in {"answer", "streaming"} /\ requests[r].aborted
    /\ Release(r)
    /\ UNCHANGED <<interrupted, sessions, external, draining, closing, leases, disturbed>>

\* The body is at its end: the bridge closed, or the upstream is gone.
EndStream(r) ==
    /\ requests[r].phase = "streaming" /\ requests[r].adapter = "over"
    /\ Release(r)
    /\ UNCHANGED <<interrupted, sessions, external, draining, closing, leases, disturbed>>

ClientLeaves(r) ==
    /\ r \in Tracked /\ ~requests[r].aborted
    /\ requests' = [requests EXCEPT ![r].aborted = TRUE]
    /\ UNCHANGED <<interrupted, sessions, external, draining, closing, leases, disturbed>>
-----------------------------------------------------------------------------
(* External owners: another process registers its turn at the broker. *)

RegisterExternal ==
    /\ closing # "closed" /\ ~draining /\ external < MaxExternal
    /\ external' = external + 1
    /\ UNCHANGED <<requests, interrupted, sessions, draining, closing, leases, disturbed>>

ExternalEnds ==
    /\ external > 0
    /\ external' = external - 1
    /\ UNCHANGED <<requests, interrupted, sessions, draining, closing, leases, disturbed>>
-----------------------------------------------------------------------------
(* The launcher's control routes *)

Drain ==
    /\ closing # "closed" /\ ~draining
    /\ draining' = TRUE
    /\ UNCHANGED <<requests, interrupted, sessions, external, closing, leases, disturbed>>

Resume ==
    /\ closing # "closed" /\ draining
    /\ draining' = FALSE
    /\ disturbed' = (disturbed \/ closing # "open")
    /\ UNCHANGED <<requests, interrupted, sessions, external, closing, leases>>

\* The turn moves to the end of a set in insertion order, which then drops its oldest.
Others(t) == IF Contains(interrupted, t)
             THEN RemoveAt(interrupted, CHOOSE i \in DOMAIN interrupted : interrupted[i] = t)
             ELSE interrupted
Tombstone(t) ==
    LET kept == Append(Others(t), t)
    IN IF Len(kept) > MaxInterrupted THEN Tail(kept) ELSE kept

\* /admin/interrupt-turn: answers at once, the settlement is only logged.
InterruptTurn(t) ==
    /\ closing # "closed"
    /\ interrupted' = Tombstone(t)
    /\ requests' = AbortAll({r \in Request : requests[r].turn = t})
    /\ sessions' = [sessions EXCEPT ![t] = IF @ = "active" THEN "settling" ELSE @]
    /\ UNCHANGED <<external, draining, closing, leases, disturbed>>

\* /admin/cancel-turn: a closed tab is answered at once, an expired lease only when the
\* document is gone. It leaves no tombstone: the trace's own error refuses a replay.
CancelTrace(t, lease) ==
    /\ closing # "closed" /\ t \notin leases
    /\ sessions' = [sessions EXCEPT ![t] = IF @ = "active" THEN "settling" ELSE @]
    /\ leases' = IF lease /\ sessions[t] # "none" THEN leases \cup {t} ELSE leases
    /\ UNCHANGED <<requests, interrupted, external, draining, closing, disturbed>>

AnswerLease(t) ==
    /\ t \in leases /\ sessions[t] # "settling"
    /\ leases' = leases \ {t}
    /\ UNCHANGED <<requests, interrupted, sessions, external, draining, closing, disturbed>>

\* /admin/cancel-turns: browser turns, external owners and every tracked request.
CancelTurns ==
    /\ closing # "closed"
    /\ requests' = AbortAll(Request)
    /\ sessions' = [t \in Turn |-> IF sessions[t] = "active" THEN "settling" ELSE sessions[t]]
    /\ external' = 0
    /\ UNCHANGED <<interrupted, draining, closing, leases, disturbed>>

QuietWithoutDrain == Tracked = {} /\ ActiveSessions = {} /\ external = 0
Quiet == draining /\ Tracked = {} /\ ActiveSessions = {} /\ external = 0

\* /admin/shutdown: 409 unless drained and idle; the handler only schedules the shutdown.
RequestShutdown ==
    /\ closing = "open" /\ Quiet
    /\ closing' = "scheduled"
    /\ UNCHANGED <<requests, interrupted, sessions, external, draining, leases, disturbed>>

Signal ==
    /\ closing \in {"open", "scheduled"}
    /\ closing' = "scheduled" /\ disturbed' = TRUE
    /\ UNCHANGED <<requests, interrupted, sessions, external, draining, leases>>

\* shutdown(): drains, clears the sessions and begins to close workers and brokers.
Shutdown ==
    /\ closing = "scheduled"
    /\ closing' = "closing" /\ draining' = TRUE
    /\ sessions' = [t \in Turn |-> IF sessions[t] = "active" THEN "settling" ELSE sessions[t]]
    /\ UNCHANGED <<requests, interrupted, external, leases, disturbed>>

\* closeTurnBrokers has revoked every owner, server.stop(true) drops every connection.
StopServer ==
    /\ closing = "closing"
    /\ closing' = "closed" /\ external' = 0
    /\ sessions' = [t \in Turn |-> "none"]
    /\ leases' = {}
    /\ requests' = [r \in Request |-> IF r \in Tracked
                                      THEN [Blank EXCEPT !.phase = "cut"] ELSE requests[r]]
    /\ UNCHANGED <<interrupted, draining, disturbed>>

ServerNext ==
    \/ \E r \in Request :
          \/ \E kind \in Kinds : Arrive(r, kind)
          \/ \E t \in Turn \cup {NoTurn} : ReadBody(r, t)
          \/ Reject(r) \/ BeginRun(r) \/ Forward(r) \/ Forwarded(r) \/ StartSession(r)
          \/ EndRun(r) \/ Stream(r) \/ CancelBody(r) \/ EndStream(r)
          \/ ClientLeaves(r)
    \/ \E t \in Turn :
          \/ SessionEnds(t) \/ InterruptTurn(t) \/ AnswerLease(t)
          \/ \E lease \in BOOLEAN : CancelTrace(t, lease)
    \/ RegisterExternal \/ ExternalEnds \/ Drain \/ Resume \/ CancelTurns
    \/ RequestShutdown \/ Signal \/ Shutdown \/ StopServer

ServerSpec == ServerInit /\ [][ServerNext]_serverVars

(* What the daemon itself keeps doing: a handler runs on, the run of an aborted request
   ends, a settling document is gone in the end (the worker has its own deadlines). *)
Progress(r) ==
    \/ \E t \in Turn \cup {NoTurn} : ReadBody(r, t)
    \/ BeginRun(r) \/ Forward(r) \/ Forwarded(r) \/ Stream(r) \/ CancelBody(r)
    \/ requests[r].aborted /\ EndRun(r)
Settles(t) == sessions[t] = "settling" /\ SessionEnds(t)
ServerFairness ==
    /\ \A r \in Request : WF_serverVars(Progress(r))
    /\ \A t \in Turn : WF_serverVars(Settles(t)) /\ WF_serverVars(AnswerLease(t))
-----------------------------------------------------------------------------
(* Properties *)

(* The types, and the exactness of the drain: when the server drops its connections a
   request is cut, or a turn's document abandoned while it works, only if a signal ended
   the daemon or a resume crossed the shutdown (server.ts:1040, 1163). *)
ShutdownCutsNothing ==
    /\ ServerTypeOK
    /\ ~disturbed => \A r \in Request : requests[r].phase # "cut"
    /\ ~disturbed /\ closing # "open" => Tracked = {} /\ ActiveSessions = {}

(* No order of the interrupt and the body lets an interrupted turn go on: while its
   tombstone is kept, no session of it starts, and no request that names it goes on
   unaborted (server.ts:213, 222). *)
InterruptSticks ==
    [][/\ \A t \in Turn : sessions[t] = "none" /\ sessions'[t] = "active"
                             => ~Contains(interrupted, t)
       /\ \A r \in Request : requests[r].phase = "ready" /\ Contains(interrupted, requests[r].turn)
                             => requests[r].aborted]_serverVars

(* Whoever aborts a request, its tracking ends, so that drain and cancel-turns return;
   and a cancellation that waits for a document is answered. *)
EveryAbortEnds ==
    /\ \A r \in Request : (r \in Tracked /\ requests[r].aborted) ~> r \notin Tracked
    /\ \A t \in Turn : t \in leases ~> t \notin leases

(* An abort sticks and ends: in every order of interrupt, body, answer and cancellation. *)
AbortsHold == InterruptSticks /\ EveryAbortEnds
=============================================================================
