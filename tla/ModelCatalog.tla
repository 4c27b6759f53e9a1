---------------------------- MODULE ModelCatalog ----------------------------
(***************************************************************************)
(* ModelCatalogFetches (src/src/server.ts): identical catalogue requests   *)
(* share one upstream attempt, which outlives the client that started it   *)
(* so that a retry finds it still running; and modelsRequest with its      *)
(* recordResult, which keeps the last completed result for the launcher.   *)
(* All requests of this model are identical (one key). Attempts are        *)
(* numbered by the request that started them.                              *)
(***************************************************************************)
EXTENDS Naturals, FiniteSets

CONSTANT Client

VARIABLES client,    \* per client: where its handler is, the attempt it joined, its number
          attempt,   \* per starting client: the attempt it created
          shared,    \* the attempts map: the attempt a new client joins, or none
          numbered,  \* modelCatalogRequests
          lastResult \* lastModelCatalogResult: request number and outcome

catalogVars == <<client, attempt, shared, numbered, lastResult>>

NoAttempt == "none"

ASSUME CatalogAssumption == IsFiniteSet(Client) /\ NoAttempt \notin Client

Outcomes == {"ok", "unauthorized", "failed"}  \* 2xx; another status; a network error
ClientRecord == [at: {"new", "waiting", "leaving", "answered", "gone"}, left: BOOLEAN,
                 joined: Client \cup {NoAttempt}, number: 0..Cardinality(Client)]
AttemptRecord == [state: {"none", "running", "settled"}, outcome: Outcomes \cup {"abandoned"},
                  waiters: 0..Cardinality(Client), handed: BOOLEAN,
                  timer: {"off", "abandon", "unclaimed"}, aborting: BOOLEAN]

CatalogTypeOK ==
    /\ client \in [Client -> ClientRecord]
    /\ attempt \in [Client -> AttemptRecord]
    /\ shared \in Client \cup {NoAttempt}
    /\ numbered \in 0..Cardinality(Client)
    /\ lastResult \in [request: 0..Cardinality(Client),
                       got: Outcomes \cup {"nothing", "abandoned"}]

CatalogInit ==
    /\ client = [c \in Client |-> [at |-> "new", left |-> FALSE, joined |-> NoAttempt,
                                   number |-> 0]]
    /\ attempt = [c \in Client |-> [state |-> "none", outcome |-> "failed", waiters |-> 0,
                                    handed |-> FALSE, timer |-> "off", aborting |-> FALSE]]
    /\ shared = NoAttempt
    /\ numbered = 0
    /\ lastResult = [request |-> 0, got |-> "nothing"]

Waiters(a) == attempt[a].waiters
\* joined.waiters += 1, and the timer of the attempt is cleared.
Joined(a) == [attempt[a] EXCEPT !.waiters = @ + 1, !.timer = "off"]
Started == [state |-> "running", outcome |-> "failed", waiters |-> 1, handed |-> FALSE,
            timer |-> "off", aborting |-> FALSE]

\* A request is numbered, then joins the attempt of the map or starts one.
Fetch(c) ==
    /\ client[c].at = "new"
    /\ numbered' = numbered + 1
    /\ LET a == IF shared = NoAttempt THEN c ELSE shared IN
         /\ client' = [client EXCEPT ![c].at = "waiting", ![c].joined = a, ![c].number = numbered + 1]
         /\ attempt' = [attempt EXCEPT ![a] = IF shared = NoAttempt THEN Started ELSE Joined(a)]
         /\ shared' = a
    /\ UNCHANGED lastResult

\* The upstream answers. Nobody waiting: a 2xx is kept for a retry, anything else is dropped.
Kept(a, outcome) == outcome = "ok" /\ Waiters(a) = 0
Settle(a, outcome) ==
    /\ attempt[a].state = "running"
    /\ attempt[a].aborting <=> outcome = "abandoned"
    /\ attempt' = [attempt EXCEPT ![a].state = "settled", ![a].outcome = outcome,
                                  ![a].timer = IF Kept(a, outcome) /\ shared = a
                                               THEN "unclaimed" ELSE "off"]
    /\ shared' = IF shared = a /\ ~Kept(a, outcome) THEN NoAttempt ELSE shared
    /\ UNCHANGED <<client, numbered, lastResult>>

\* The finally of fetch: the last waiter to go arms the abandon timer of a kept attempt.
Leaving(a) == [attempt[a] EXCEPT !.waiters = @ - 1,
                                 !.timer = IF @ = "off" /\ Waiters(a) = 1 /\ shared = a
                                           THEN "abandon" ELSE @]

\* recordResult: a client that left tested nothing; an older request replaces no newer one.
RecordAlways(c, got) == [request |-> client[c].number, got |-> got]
Record(c, got) == IF ~client[c].left /\ client[c].number > lastResult.request
                  THEN [request |-> client[c].number, got |-> got] ELSE lastResult

\* The attempt of the map settled first: a response is handed out and leaves the map.
Deliver(c) ==
    LET a == client[c].joined
        ok == attempt[a].outcome \in {"ok", "unauthorized"} IN
    /\ client[c].at = "waiting" /\ attempt[a].state = "settled"
    /\ client' = [client EXCEPT ![c].at = "answered"]
    /\ attempt' = [attempt EXCEPT ![a] =
                     [attempt[a] EXCEPT !.waiters = @ - 1, !.handed = @ \/ ok,
                        !.timer = IF ok /\ shared = a THEN "off" ELSE @]]
    /\ shared' = IF ok /\ shared = a THEN NoAttempt ELSE shared
    /\ lastResult' = Record(c, attempt[a].outcome)
    /\ UNCHANGED numbered

\* Codex gives up after five seconds. Before the attempt has settled that wins the race and
\* the handler leaves; afterwards the result is still taken, though nobody reads it.
Disconnect(c) ==
    /\ client[c].at = "waiting" /\ ~client[c].left
    /\ client' = [client EXCEPT ![c].left = TRUE,
                     ![c].at = IF attempt[client[c].joined].state = "running" THEN "leaving" ELSE @]
    /\ UNCHANGED <<attempt, shared, numbered, lastResult>>
Leave(c) ==
    LET a == client[c].joined IN
    /\ client[c].at = "leaving"
    /\ client' = [client EXCEPT ![c].at = "gone"]
    /\ attempt' = [attempt EXCEPT ![a] = Leaving(a)]
    /\ UNCHANGED <<shared, numbered, lastResult>>

\* abandonedTimeoutMs: the attempt is aborted, but leaves the map only when it has settled.
Abandon(a) ==
    /\ attempt[a].timer = "abandon"
    /\ attempt' = [attempt EXCEPT ![a].timer = "off", ![a].aborting = attempt[a].state = "running"]
    /\ UNCHANGED <<client, shared, numbered, lastResult>>

\* unclaimedResultMs: the result nobody came back for is dropped.
Unclaimed(a) ==
    /\ attempt[a].timer = "unclaimed"
    /\ attempt' = [attempt EXCEPT ![a].timer = "off"]
    /\ shared' = IF shared = a THEN NoAttempt ELSE shared
    /\ UNCHANGED <<client, numbered, lastResult>>

\* close(): the server stops.
CloseFetches ==
    /\ shared # NoAttempt
    /\ attempt' = [attempt EXCEPT ![shared].timer = "off",
                                  ![shared].aborting = attempt[shared].state = "running"]
    /\ shared' = NoAttempt
    /\ UNCHANGED <<client, numbered, lastResult>>

CatalogNext ==
    \/ \E c \in Client : Fetch(c) \/ Deliver(c) \/ Disconnect(c) \/ Leave(c)
    \/ \E a \in Client : Abandon(a) \/ Unclaimed(a)
    \/ \E a \in Client, outcome \in Outcomes \cup {"abandoned"} : Settle(a, outcome)
    \/ CloseFetches

CatalogSpec == CatalogInit /\ [][CatalogNext]_catalogVars
-----------------------------------------------------------------------------
(* The books of the attempts: a timer runs only while nobody waits for the attempt it ends,
   the waiters are counted exactly, and a finished attempt stays joinable only as the
   unclaimed 2xx whose timer will drop it (server.ts:456-475, 503-512). *)
AttemptBooks ==
    /\ CatalogTypeOK
    /\ \A a \in Client :
          /\ attempt[a].timer # "off" => Waiters(a) = 0
          /\ Waiters(a) = Cardinality({c \in Client : client[c].at \in {"waiting", "leaving"}
                                                  /\ client[c].joined = a})
    /\ shared # NoAttempt /\ attempt[shared].state = "settled"
          => attempt[shared].outcome = "ok" /\ (attempt[shared].timer = "unclaimed" \/ Waiters(shared) > 0)

(* A delivered catalogue is never handed to a request that arrives afterwards, and the last
   result the launcher shows never goes back to an older request, nor to one whose client
   had gone (server.ts:424, 497, 1197). *)
CatalogIsFresh ==
    [][/\ \A c \in Client : client[c].at = "new" /\ client'[c].at = "waiting"
             => ~attempt[client'[c].joined].handed
       /\ lastResult' # lastResult
             => /\ lastResult'.request > lastResult.request
                /\ \A c \in Client : client[c].number = lastResult'.request => ~client[c].left]_catalogVars

(* Attempts are shared exactly, and what they deliver is fresh. *)
CatalogHolds == []AttemptBooks /\ CatalogIsFresh
=============================================================================
