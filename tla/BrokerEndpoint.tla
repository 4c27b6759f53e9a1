--------------------------- MODULE BrokerEndpoint ---------------------------
(* The Unix socket of the turn broker, and the calls made over it.

   Every daemon has a TurnBroker (turn-broker.ts) on the same path of the runtime directory.
   A daemon binds it when a turn needs it: it probes what it finds there, takes over a
   socket nobody answers on, and leaves one that answers alone. A daemon that closes removes
   only the socket it bound itself. The MCP server and the DEV driver (RemoteTurnBroker)
   are the clients: one connection per call, one request line, one response frame
   (callTurnBroker). What a request does to a turn is TurnBroker's; here it is done or not.

   A socket file is its inode number; 0 is no file, Foreign a file that is not an answering
   socket of this user. *)
EXTENDS Integers, FiniteSets

CONSTANTS
    Daemon, Caller,
    Method,         \* the broker methods the clients call in this instance
    OneStarter,     \* daemons start one after another, as the supervisor starts them
    InodeReuse,     \* the file system may give a freed inode number to the next socket
    MAX_BINDS,      \* bound: sockets bound
    MAX_CALLS_EACH, \* bound: calls per client
    MAX_CUTS        \* bound: daemons killed, and foreign files put at the path

ASSUME EndpointBounds ==
    /\ {OneStarter, InodeReuse} \subseteq BOOLEAN
    /\ MAX_BINDS \in Nat \ {0} /\ MAX_CALLS_EACH \in Nat \ {0} /\ MAX_CUTS \in Nat

VARIABLES
    path,       \* the file at socketPath
    broker,     \* per daemon: phase, the inode it listens on, and socketIdentity
    inodes,     \* inode numbers given out
    calls,      \* per client: its current callTurnBroker
    cuts

endpointVars == <<path, broker, inodes, calls, cuts>>

Foreign == -1
Nobody == "nobody"

(* RemoteTurnBroker: the calls with the default timeout, the waits (timeout null, answered
   when something happens), and the calls that take as long as they take. *)
BoundedMethod == {"owner_status", "owner_register", "owner_register_safe", "owner_update",
    "owner_safe_sent", "owner_compaction_delivery_count", "owner_completion_fence_begin",
    "owner_completion_fence_commit", "owner_revoke"}
WaitMethod == {"owner_next", "owner_safe_wait_start", "owner_safe_wait_completion",
    "owner_wait_retirement"}
PatientMethod == {"owner_complete", "owner_request_compaction"}

Listener(i) == IF \E d \in Daemon : i > 0 /\ broker[d].listens = i
               THEN CHOOSE d \in Daemon : broker[d].listens = i ELSE Nobody
Starting(d) == broker[d].phase \in {"probing", "stale", "binding", "bound"}
Connected(d) == {c \in Caller : calls[c].peer = d}
To(d, phase) == broker' = [broker EXCEPT ![d].phase = phase]

QuietPeer == [method |-> "none", peer |-> Nobody, at |-> "idle", frame |-> "none",
              did |-> FALSE, result |-> "none", made |-> 0]

EPInit ==
    /\ path \in {0, 1} /\ inodes = 1      \* nothing, or the socket of a daemon that was killed
    /\ broker = [d \in Daemon |-> [phase |-> "idle", listens |-> 0, identity |-> 0]]
    /\ calls = [c \in Caller |-> QuietPeer]
    /\ cuts = 0

\* -------------------------------------------------------------------- the daemons
(* start(), called by every turn until one attempt succeeded: what it finds at the path. *)
StartBroker(d) ==
    /\ broker[d].phase = "idle" /\ inodes < MAX_BINDS
    /\ OneStarter => \A e \in Daemon : ~Starting(e)
    /\ path # Foreign           \* rejected at once; the next turn tries again
    /\ To(d, IF path = 0 THEN "binding" ELSE "probing")
    /\ UNCHANGED <<path, inodes, calls, cuts>>

(* The probe: an answer, or no answer in time, ends the attempt; a refusal or a missing file
   lets it take over. A failed attempt is forgotten. *)
Probe(d) ==
    /\ broker[d].phase = "probing"
    /\ To(d, IF Listener(path) # Nobody THEN "idle" ELSE "stale")
    /\ UNCHANGED <<path, inodes, calls, cuts>>

(* server.listen binds at once; its callback comes later. *)
FreshInode ==
    IF InodeReuse
    THEN {i \in 1..(inodes + 1) : i # path /\ \A d \in Daemon : broker[d].listens # i}
    ELSE {inodes + 1}
BindSocket(d) ==
    \E i \in FreshInode :
        /\ path' = i /\ inodes' = IF i > inodes THEN i ELSE inodes
        /\ broker' = [broker EXCEPT ![d].phase = "bound", ![d].listens = i]
TakeOver(d) ==      \* unlinks whatever is at the path by now
    /\ broker[d].phase = "stale" /\ BindSocket(d) /\ UNCHANGED <<calls, cuts>>
BindFree(d) ==
    /\ broker[d].phase = "binding"
    /\ IF path = 0 THEN BindSocket(d) ELSE To(d, "idle") /\ UNCHANGED <<path, inodes>>
    /\ UNCHANGED <<calls, cuts>>
Listening(d) ==     \* the callback remembers the inode it finds at the path
    /\ broker[d].phase = "bound"
    /\ broker' = [broker EXCEPT ![d].phase = "serving", ![d].identity = path]
    /\ UNCHANGED <<path, inodes, calls, cuts>>

(* close(): every turn is revoked, so every parked wait is answered with an error; the
   server stops listening and waits for its connections. *)
(* Mutant: the parked waits are left parked. *)
CloseBrokerUnanswered(d) ==
    /\ broker[d].phase = "serving"
    /\ broker' = [broker EXCEPT ![d].phase = "closing", ![d].listens = 0]
    /\ UNCHANGED <<path, inodes, calls, cuts>>
CloseBroker(d) ==
    /\ broker[d].phase = "serving"
    /\ broker' = [broker EXCEPT ![d].phase = "closing", ![d].listens = 0]
    /\ calls' = [c \in Caller |->
                    IF calls[c].peer = d /\ calls[c].at = "parked"
                    THEN [calls[c] EXCEPT !.at = "answered", !.frame = "error"] ELSE calls[c]]
    /\ UNCHANGED <<path, inodes, cuts>>
RemovesOwn(d) == path' = IF path = broker[d].identity THEN 0 ELSE path
BrokerClosed(d) ==
    /\ broker[d].phase = "closing" /\ Connected(d) = {}
    /\ RemovesOwn(d)
    /\ broker' = [broker EXCEPT ![d] = [phase |-> "idle", listens |-> 0, identity |-> 0]]
    /\ UNCHANGED <<inodes, calls, cuts>>

(* A daemon is killed: its file stays, its connections drop. The next daemon is idle. *)
Drop(c) ==
    IF calls[c].at \in {"done", "idle"} THEN calls[c]
    ELSE [calls[c] EXCEPT !.peer = Nobody, !.at = "done",
             !.result = IF calls[c].frame = "ok" /\ calls[c].at = "framed" THEN "ok" ELSE "lost"]
DaemonKilled(d) ==
    /\ cuts < MAX_CUTS /\ cuts' = cuts + 1
    /\ broker[d].phase # "idle"
    /\ broker' = [broker EXCEPT ![d] = [phase |-> "idle", listens |-> 0, identity |-> 0]]
    /\ calls' = [c \in Caller |-> IF calls[c].peer = d THEN Drop(c) ELSE calls[c]]
    /\ UNCHANGED <<path, inodes>>
ForeignFile ==
    \/ /\ path = 0 /\ cuts < MAX_CUTS /\ cuts' = cuts + 1 /\ path' = Foreign
       /\ UNCHANGED <<broker, inodes, calls>>
    \/ /\ path = Foreign /\ path' = 0 /\ UNCHANGED <<broker, inodes, calls, cuts>>

\* -------------------------------------------------------------------- the clients
(* callTurnBroker: connects, and writes its one line; nobody there is an error. *)
Dial(c, m) ==
    /\ calls[c].at \in {"idle", "done"} /\ calls[c].made < MAX_CALLS_EACH
    /\ calls' = [calls EXCEPT ![c] =
          [QuietPeer EXCEPT !.method = m, !.made = calls[c].made + 1,
             !.peer = Listener(path), !.at = IF Listener(path) = Nobody THEN "done" ELSE "sent",
             !.result = IF Listener(path) = Nobody THEN "unavailable" ELSE "none"]]
    /\ UNCHANGED <<path, broker, inodes, cuts>>

(* handleSocket and dispatch: an invalid line or a refused request is answered with an
   error; a wait may be parked; anything else is done and answered. *)
Dispatch(c) ==
    /\ calls[c].at = "sent"
    /\ calls' \in {[calls EXCEPT ![c].at = "answered", ![c].frame = "error"]}
                  \cup (IF broker[calls[c].peer].phase = "closing" THEN {}
                        ELSE {[calls EXCEPT ![c].at = "answered", ![c].frame = "ok",
                                            ![c].did = TRUE]})
                  \cup (IF calls[c].method \in WaitMethod /\ broker[calls[c].peer].phase # "closing"
                        THEN {[calls EXCEPT ![c].at = "parked"]} ELSE {})
    /\ UNCHANGED <<path, broker, inodes, cuts>>
WaitAnswered(c) ==
    /\ calls[c].at = "parked"
    /\ calls' = [calls EXCEPT ![c].at = "answered", ![c].frame = "ok", ![c].did = TRUE]
    /\ UNCHANGED <<path, broker, inodes, cuts>>

(* The response frame. A bounded call that succeeded keeps its connection until the server
   has closed it; every other call settles on the frame. *)
SettlesOnFrame(c) == calls[c].method \notin BoundedMethod \/ calls[c].frame = "error"
Frame(c) ==
    /\ calls[c].at = "answered"
    /\ calls' = [calls EXCEPT ![c] =
          IF SettlesOnFrame(c) THEN [@ EXCEPT !.at = "done", !.peer = Nobody, !.result = calls[c].frame]
          ELSE [@ EXCEPT !.at = "framed"]]
    /\ UNCHANGED <<path, broker, inodes, cuts>>
PeerClosed(c) ==
    /\ calls[c].at = "framed"
    /\ calls' = [calls EXCEPT ![c].at = "done", ![c].peer = Nobody, ![c].result = "ok"]
    /\ UNCHANGED <<path, broker, inodes, cuts>>

(* The bounded call's timer, and the caller's abort of a wait: the socket is destroyed,
   which ends a parked wait and undoes nothing; a request on its way may still be done. *)
GivesUp(c) ==
    /\ calls[c].at \in {"sent", "parked", "answered", "framed"}
    /\ calls[c].method \notin PatientMethod
    /\ \E late \in BOOLEAN :
          /\ late => calls[c].at = "sent"
          /\ calls' = [calls EXCEPT ![c].at = "done", ![c].peer = Nobody, ![c].result = "lost",
                                     ![c].did = @ \/ late]
    /\ UNCHANGED <<path, broker, inodes, cuts>>

DaemonSteps(d) == StartBroker(d) \/ Probe(d) \/ TakeOver(d) \/ BindFree(d) \/ Listening(d)
ServerSteps(c) == Dispatch(c) \/ Frame(c) \/ PeerClosed(c)
EPNext ==
    \/ \E d \in Daemon : DaemonSteps(d) \/ CloseBroker(d) \/ BrokerClosed(d) \/ DaemonKilled(d)
    \/ \E c \in Caller : ServerSteps(c) \/ WaitAnswered(c) \/ GivesUp(c)
    \/ \E c \in Caller, m \in Method : Dial(c, m)
    \/ ForeignFile

(* The event loops run: a started attempt, a closing server and a sent request go on. No
   wait need ever be answered, no timer need fire, and no turn need come. *)
EPFairness ==
    /\ \A d \in Daemon : WF_endpointVars(Probe(d) \/ TakeOver(d) \/ BindFree(d) \/ Listening(d))
                        /\ WF_endpointVars(BrokerClosed(d))
    /\ \A c \in Caller : WF_endpointVars(ServerSteps(c))

\* -------------------------------------------------------------------- properties
EndpointTypeOK ==
    /\ path \in {Foreign} \cup 0..MAX_BINDS /\ inodes \in 1..MAX_BINDS
    /\ \A c \in Caller : calls[c].peer \in Daemon \cup {Nobody} /\ calls[c].made <= MAX_CALLS_EACH

(* A daemon that serves is the one a client reaches: neither a daemon that starts later nor
   one that is still closing takes its socket away. *)
ServingIsReachable ==
    \A d \in Daemon : broker[d].phase = "serving" =>
        path = broker[d].listens /\ broker[d].identity = path

(* A caller never believes more than happened: a successful answer means the request was
   done, a refusal or nobody there means it was not; only a lost answer means either. *)
CallerIsNotMisled ==
    \A c \in Caller :
        /\ calls[c].result = "ok" => calls[c].did
        /\ calls[c].result \in {"error", "unavailable"} => ~calls[c].did

(* The socket is the serving daemon's, and no caller is misled by what it got. *)
EndpointInv == EndpointTypeOK /\ ServingIsReachable /\ CallerIsNotMisled

(* Attempts to start, closes and calls that are not waits all come to an end: nothing is
   held up by a wait nothing would ever answer. *)
UnderWay ==
    \/ \E d \in Daemon : Starting(d) \/ broker[d].phase = "closing"
    \/ \E c \in Caller : calls[c].at \in {"sent", "answered", "framed"}
EndpointProceeds == UnderWay ~> ~UnderWay

(* The socket of the broker: reachable, truthful, and never held up by a wait. *)
EndpointHolds == []EndpointInv /\ EndpointProceeds
=============================================================================
