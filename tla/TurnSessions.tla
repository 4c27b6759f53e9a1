---------------------------- MODULE TurnSessions ----------------------------
(***************************************************************************)
(* Ownership of ChatGPT browser surfaces: turn-execution.ts                *)
(* (ChatGptTurnSessions, ChatGptTurnSession) and the part of runTurn in    *)
(* index.ts that obtains a session for a Responses request.                *)
(*                                                                         *)
(* Every request has an execution key (one canonical request), an owner    *)
(* (the native thread) and a native turn.  A session is one browser turn.  *)
(* It ends twice: logically, when its outcome settles, and physically,     *)
(* when the browser worker's promise settles after the launcher's /turn/end*)
(* handshake.  A retired session leaves the registry at once and its       *)
(* physical settlement is what a replacement waits for.  Promises are      *)
(* represented by the set of unsettled sessions they wait for; the loop of *)
(* getOrCreateAfterOwnerRetirement has one action per branch.              *)
(*                                                                         *)
(* Zero Risk's sweep of aborted turns (retireAbortedOwnerTurns) and the    *)
(* preservation of a final answer across a retirement are not modelled.    *)
(***************************************************************************)
EXTENDS Naturals, Sequences, FiniteSets

CONSTANTS
    Requests,       \* Responses requests the adapter receives
    Info,           \* their identity: see RequestInfo
    Key, Owner, NativeTurn, Conversation, Instruction,
    NoConversation,
    NoSession,
    MAX_CHATGPT_BROWSER_TABS,
    MAX_SESSIONS,   \* bound: browser turns started in a behaviour
    MAX_CANCELS     \* bound: interrupts and cancellations in a behaviour

RequestInfo == [key: Key, owner: Owner, turn: NativeTurn,
                conversation: Conversation \cup {NoConversation},
                instruction: Instruction, predecessors: SUBSET Instruction,
                compacts: SUBSET Key]
\* compacts: empty, or the key of the response that a compaction request replaces

ASSUME InfoAssumption == Info \in [Requests -> RequestInfo]
ASSUME SessionAssumption ==
    /\ MAX_SESSIONS \in Nat /\ MAX_CANCELS \in Nat
    /\ MAX_CHATGPT_BROWSER_TABS \in Nat
    /\ NoConversation \notin Conversation
    /\ NoSession \notin Nat

Session == 1..MAX_SESSIONS

SessionRecord ==
    [key: Key, owner: Owner, turn: NativeTurn, instruction: Instruction,
     conversation: Conversation \cup {NoConversation},
     outcome: {"none", "final", "error"},   \* settledBrowserOutcome
     settled: BOOLEAN,                      \* settledPhysical
     aborted: BOOLEAN,                      \* the browser's AbortController
     superseded: BOOLEAN,                   \* supersededError
     capability: {"live", "retired"}]

VARIABLES
    sess,                \* every browser turn started so far
    entries,             \* registry: execution key -> session
    heads,               \* conversationHeads
    retirements,         \* key -> sessions its pending retirement waits for
    ownerRetirements,    \* owner -> sessions its pending retirements wait for
    closing,             \* conversationRetirements
    tail,                \* session -> observers admitted by runExclusive
    barrier,             \* session -> observers its capability waits for
    pc, waitFor, at,     \* a request's place, the promise it awaits, its session
    cancels

registry == <<entries, heads>>
pending == <<retirements, ownerRetirements, closing>>
observers == <<tail, barrier>>
request == <<pc, waitFor, at>>
vars == <<sess, registry, pending, observers, request, cancels>>

Sessions == 1..Len(sess)
Active(s) == sess[s].outcome = "none"
Unsettled(S) == {s \in S : ~sess[s].settled}
Registered == {s \in Sessions : entries[sess[s].key] = s}

TypeOK ==
    /\ sess \in Seq(SessionRecord) /\ Len(sess) <= MAX_SESSIONS
    /\ entries \in [Key -> Session \cup {NoSession}]
    /\ heads \in [Conversation -> Session \cup {NoSession}]
    /\ retirements \in [Key -> SUBSET Session]
    /\ ownerRetirements \in [Owner -> SUBSET Session]
    /\ closing \in [Conversation -> SUBSET Session]
    /\ tail \in [Session -> Seq(Requests \X BOOLEAN)]
    /\ barrier \in [Session -> SUBSET Requests]
    /\ pc \in [Requests -> {"new", "waiting", "attached", "done", "aborted", "refused"}]
    /\ waitFor \in [Requests -> SUBSET Session]
    /\ at \in [Requests -> Session \cup {NoSession}]
    /\ cancels \in 0..MAX_CANCELS

Init ==
    /\ sess = <<>>
    /\ entries = [k \in Key |-> NoSession]
    /\ heads = [c \in Conversation |-> NoSession]
    /\ retirements = [k \in Key |-> {}]
    /\ ownerRetirements = [o \in Owner |-> {}]
    /\ closing = [c \in Conversation |-> {}]
    /\ tail = [s \in Session |-> <<>>]
    /\ barrier = [s \in Session |-> {}]
    /\ pc = [r \in Requests |-> "new"]
    /\ waitFor = [r \in Requests |-> {}]
    /\ at = [r \in Requests |-> NoSession]
    /\ cancels = 0

-----------------------------------------------------------------------------
\* cancel(): every cancellation aborts the browser; only one with a reason
\* settles the logical outcome before the browser has unwound.
Cancelled(rec, how) ==
    [rec EXCEPT !.aborted = TRUE,
                !.outcome = IF how # "silently" /\ @ = "none" THEN "error" ELSE @,
                !.superseded = @ \/ how = "superseded"]

CancelSessions(S, how) ==
    sess' = [s \in Sessions |-> IF s \in S THEN Cancelled(sess[s], how) ELSE sess[s]]

\* Mutant: the owner's next request is not told of the retirement.
ForgetsOwner(S, how) ==
    /\ CancelSessions(S, how)
    /\ retirements' = [k \in Key |->
           retirements[k] \cup {s \in Unsettled(S) : sess[s].key = k}]
    /\ UNCHANGED <<ownerRetirements, closing>>

\* beginRetirement for the sessions S: a key whose retirement is pending keeps
\* it, and its session is not cancelled again.
BeginRetirement(S, how) ==
    LET fresh == {s \in S : retirements[sess[s].key] = {}}
        live == Unsettled(fresh)
    IN /\ CancelSessions(fresh, how)
       /\ retirements' = [k \in Key |->
              retirements[k] \cup {s \in live : sess[s].key = k}]
       /\ ownerRetirements' = [o \in Owner |->
              ownerRetirements[o] \cup {s \in live : sess[s].owner = o}]
       /\ closing' = [c \in Conversation |->
              closing[c] \cup {s \in live : sess[s].conversation = c}]

\* A conversation head is forgotten with its session.
ForgetHeads(S) ==
    heads' = [c \in Conversation |-> IF heads[c] \in S THEN NoSession ELSE heads[c]]

\* Deletion from the registry.
Forget(S) ==
    /\ entries' = [k \in Key |-> IF entries[k] \in S THEN NoSession ELSE entries[k]]
    /\ ForgetHeads(S)

Await(r, S) == /\ pc' = [pc EXCEPT ![r] = "waiting"]
               /\ waitFor' = [waitFor EXCEPT ![r] = Unsettled(S)]
               /\ UNCHANGED at

EndRequest(r, how) == /\ pc' = [pc EXCEPT ![r] = how]
                      /\ waitFor' = [waitFor EXCEPT ![r] = {}]
                      /\ at' = [at EXCEPT ![r] = NoSession]

-----------------------------------------------------------------------------
(* A compaction request that needs no structured handoff first retires the *)
(* response it replaces.                                                    *)

\* closeConversationAndWait: a pending closing is only awaited; otherwise every
\* registered session of the conversation is deleted, detached and, when
\* active, cancelled, and the request waits for their physical settlement.
CloseConversation(r, c) ==
    LET matches == {s \in Registered : sess[s].conversation = c}
    IN IF closing[c] # {}
       THEN /\ Await(r, closing[c])
            /\ UNCHANGED <<sess, registry, pending>>
       ELSE /\ entries' = [k \in Key |-> IF entries[k] \in matches THEN NoSession ELSE entries[k]]
            /\ heads' = [heads EXCEPT ![c] = NoSession]
            /\ sess' = [s \in Sessions |->
                  IF s \notin matches THEN sess[s]
                  ELSE [(IF Active(s) THEN Cancelled(sess[s], "silently") ELSE sess[s])
                           EXCEPT !.conversation = NoConversation]]
            /\ closing' = [closing EXCEPT ![c] = Unsettled(matches)]
            /\ Await(r, matches)
            /\ UNCHANGED <<retirements, ownerRetirements>>

\* retireAndWait
RetireAndWait(r, k) ==
    IF retirements[k] # {}
    THEN Await(r, retirements[k]) /\ UNCHANGED <<sess, registry, pending>>
    ELSE IF entries[k] = NoSession
         THEN Await(r, {}) /\ UNCHANGED <<sess, registry, pending>>
         ELSE /\ Forget({entries[k]})
              /\ BeginRetirement({entries[k]}, "silently")
              /\ Await(r, {entries[k]})

RetireSource(r) ==
    /\ pc[r] = "new"
    /\ \E k \in Info[r].compacts :
          LET c == Info[r].conversation IN
          IF c # NoConversation /\ heads[c] # NoSession
          THEN CloseConversation(r, c)
          ELSE RetireAndWait(r, k)
    /\ UNCHANGED <<observers, cancels>>

-----------------------------------------------------------------------------
(* getOrCreateAfterOwnerRetirement: one pass of its loop.                   *)

Ready(r) == \/ pc[r] = "new" /\ Info[r].compacts = {}
            \/ pc[r] = "waiting" /\ Unsettled(waitFor[r]) = {}

\* runExclusive: admission to the session's queue, together with whether the
\* browser was still unsettled.
Admit(r, s) ==
    /\ tail' = [tail EXCEPT ![s] = Append(@, <<r, ~sess[s].settled>>)]
    /\ pc' = [pc EXCEPT ![r] = "attached"]
    /\ waitFor' = [waitFor EXCEPT ![r] = {}]
    /\ at' = [at EXCEPT ![r] = s]
    /\ UNCHANGED barrier

AttachExisting(r) ==
    LET s == entries[Info[r].key] IN
    /\ Ready(r)
    /\ s # NoSession /\ ~sess[s].superseded
    /\ Admit(r, s)
    /\ UNCHANGED <<sess, registry, pending, cancels>>

\* A delayed replay of superseded work is refused.
RefuseSuperseded(r) ==
    LET s == entries[Info[r].key] IN
    /\ Ready(r)
    /\ s # NoSession /\ sess[s].superseded
    /\ EndRequest(r, "refused")
    /\ UNCHANGED <<sess, registry, pending, observers, cancels>>

\* The retirement a request has to wait for: its key's, or its owner's.
PendingFor(r) == IF retirements[Info[r].key] # {} THEN retirements[Info[r].key]
                 ELSE ownerRetirements[Info[r].owner]

AwaitRetirement(r) ==
    /\ Ready(r)
    /\ entries[Info[r].key] = NoSession
    /\ PendingFor(r) # {}
    /\ Await(r, PendingFor(r))
    /\ UNCHANGED <<sess, registry, pending, observers, cancels>>

ActiveOwner(r) == {s \in Unsettled(Registered) : sess[s].owner = Info[r].owner}

NoRetirement(r) == /\ Ready(r)
                   /\ entries[Info[r].key] = NoSession
                   /\ PendingFor(r) = {}

\* A newer instruction never waits for the browser it replaces: that browser
\* may be waiting for a tool result which arrives with this very request.
\* The old entry stays, so that a delayed replay cannot restart its work.
Supersede(r) ==
    /\ NoRetirement(r)
    /\ \E s \in ActiveOwner(r) :
          /\ Active(s)
          /\ sess[s].instruction \in Info[r].predecessors \ {Info[r].instruction}
          /\ BeginRetirement({s}, "superseded")
          /\ ForgetHeads({s})
          /\ Await(r, {s})
    /\ UNCHANGED <<entries, observers, cancels>>

RefuseOutdated(r) ==
    /\ NoRetirement(r)
    /\ \E s \in ActiveOwner(r) :
          /\ Active(s)
          /\ sess[s].instruction # Info[r].instruction
          /\ sess[s].instruction \notin Info[r].predecessors
    /\ EndRequest(r, "refused")
    /\ UNCHANGED <<sess, registry, pending, observers, cancels>>

AwaitOwner(r) ==
    /\ NoRetirement(r)
    /\ \E s \in ActiveOwner(r) :
          /\ ~Active(s) \/ sess[s].instruction = Info[r].instruction
          /\ Await(r, {s})
    /\ UNCHANGED <<sess, registry, pending, observers, cancels>>

\* getOrCreate.  prune() first drops responses that have been unused for the
\* registry's TTL.  Assumed: a browser unwinds within that half hour, so only
\* physically settled sessions are old enough.
Prunable == {s \in Registered : ~Active(s) /\ sess[s].settled}

TabsFull == Cardinality({s \in Registered : Active(s)}) >= MAX_CHATGPT_BROWSER_TABS

NewSession(info) ==
    [key |-> info.key, owner |-> info.owner, turn |-> info.turn,
     instruction |-> info.instruction,
     conversation |-> IF info.compacts = {} THEN info.conversation ELSE NoConversation,
     outcome |-> "none", settled |-> FALSE, aborted |-> FALSE,
     superseded |-> FALSE, capability |-> "live"]

PruneAndRegister(old, k, c, s) ==
    /\ entries' = [x \in Key |-> IF x = k THEN s
                                 ELSE IF entries[x] \in old THEN NoSession ELSE entries[x]]
    /\ heads' = [x \in Conversation |-> IF x = c THEN s
                                 ELSE IF heads[x] \in old THEN NoSession ELSE heads[x]]

Start(r) ==
    LET s == Len(sess) + 1
        new == NewSession(Info[r])
    IN /\ NoRetirement(r) /\ ActiveOwner(r) = {}
       /\ ~TabsFull
       /\ s \in Session
       /\ \E old \in SUBSET Prunable : PruneAndRegister(old, new.key, new.conversation, s)
       /\ sess' = Append(sess, new)
       /\ tail' = [tail EXCEPT ![s] = <<<<r, TRUE>>>>]
       /\ pc' = [pc EXCEPT ![r] = "attached"]
       /\ waitFor' = [waitFor EXCEPT ![r] = {}]
       /\ at' = [at EXCEPT ![r] = s]
       /\ UNCHANGED <<pending, barrier, cancels>>

\* The registry refuses a turn beyond the tab limit (after the same prune).
RefuseTab(r) ==
    /\ NoRetirement(r) /\ ActiveOwner(r) = {}
    /\ TabsFull
    /\ \E old \in SUBSET Prunable : Forget(old)
    /\ EndRequest(r, "refused")
    /\ UNCHANGED <<sess, pending, observers, cancels>>

\* The client closes its request while it waits.
AbortWait(r) ==
    /\ pc[r] = "waiting"
    /\ EndRequest(r, "aborted")
    /\ UNCHANGED <<sess, registry, pending, observers, cancels>>

-----------------------------------------------------------------------------
(* The observer at the head of a session's queue.                           *)

Observing(r) == /\ pc[r] = "attached"
                /\ Head(tail[at[r]])[1] = r

Leave(r, how) == /\ tail' = [tail EXCEPT ![at[r]] = Tail(@)]
                 /\ EndRequest(r, how)
                 /\ UNCHANGED barrier

\* The round ends with a tool batch, or with the final answer.
FinishRound(r) ==
    /\ Observing(r) /\ sess[at[r]].outcome # "error"
    /\ Leave(r, "done")
    /\ UNCHANGED <<sess, registry, pending, cancels>>

\* Mutant: every failure retires the session.
FailAlwaysRetryable(r) ==
    /\ Observing(r)
    /\ IF at[r] \in Registered
       THEN Forget({at[r]}) /\ BeginRetirement({at[r]}, "silently")
       ELSE UNCHANGED <<sess, registry, pending>>
    /\ Leave(r, "done")
    /\ UNCHANGED cancels

\* A retryable failure retires the session (when it still owns its key), so
\* that a retry starts on a fresh surface.
FailRetryable(r) ==
    LET s == at[r] IN
    /\ Observing(r) /\ ~sess[s].superseded
    /\ IF s \in Registered
       THEN Forget({s}) /\ BeginRetirement({s}, "silently")
       ELSE UNCHANGED <<sess, registry, pending>>
    /\ Leave(r, "done")
    /\ UNCHANGED cancels

\* A failure that may not be retried stays replayable.
FailTerminal(r) ==
    /\ Observing(r)
    /\ CancelSessions({at[r]}, "silently")
    /\ Leave(r, "done")
    /\ UNCHANGED <<registry, pending, cancels>>

\* The client disconnects: an automatic browser turn keeps its execution for
\* a reconnect.
Disconnect(r) ==
    /\ Observing(r)
    /\ Leave(r, "aborted")
    /\ UNCHANGED <<sess, registry, pending, cancels>>

-----------------------------------------------------------------------------
(* The browser behind a session.                                            *)

\* Physical settlement resolves every promise that waits for it; the
\* capability is retired once the observers admitted so far have left.
Settle(s, outcome) ==
    /\ sess' = [sess EXCEPT ![s].settled = TRUE,
                            ![s].outcome = IF @ = "none" THEN outcome ELSE @]
    /\ retirements' = [k \in Key |-> retirements[k] \ {s}]
    /\ ownerRetirements' = [o \in Owner |-> ownerRetirements[o] \ {s}]
    /\ closing' = [c \in Conversation |-> closing[c] \ {s}]
    /\ barrier' = [barrier EXCEPT ![s] = {tail[s][i][1] : i \in DOMAIN tail[s]}]
    /\ UNCHANGED <<registry, tail, request, cancels>>

BrowserAnswers(s) == /\ ~sess[s].settled /\ ~sess[s].aborted
                     /\ \E outcome \in {"final", "error"} : Settle(s, outcome)

\* An aborted worker unwinds: its finally block ends the launcher's turn.
BrowserUnwinds(s) == /\ ~sess[s].settled /\ sess[s].aborted
                     /\ \E outcome \in {"final", "error"} : Settle(s, outcome)

RetireCapability(s) ==
    /\ sess[s].settled /\ sess[s].capability = "live"
    /\ \A i \in DOMAIN tail[s] : tail[s][i][1] \notin barrier[s]
    /\ sess' = [sess EXCEPT ![s].capability = "retired"]
    /\ UNCHANGED <<registry, pending, observers, request, cancels>>

-----------------------------------------------------------------------------
(* Cancellation from outside.                                               *)

Budget == cancels < MAX_CANCELS /\ cancels' = cancels + 1

\* cancelNativeTurn: Codex interrupted one native turn.
CancelNativeTurn(t) ==
    LET matches == {s \in Registered : sess[s].turn = t} IN
    /\ Budget
    /\ matches # {}
    /\ Forget(matches)
    /\ BeginRetirement(matches, "reasoned")
    /\ UNCHANGED <<observers, request>>

\* beginCancelTrace: the user closed the tab of an active response.  The entry
\* stays and replays the cancellation.
CancelTrace(s) ==
    /\ Budget
    /\ s \in Registered /\ Active(s)
    /\ CancelSessions({s}, "reasoned")
    /\ UNCHANGED <<registry, pending, observers, request>>

\* clear(): the launcher cancels everything.
Clear ==
    /\ Budget
    /\ Registered # {}
    /\ Forget(Registered)
    /\ BeginRetirement(Registered, "silently")
    /\ UNCHANGED <<observers, request>>

Acquire(r) ==
    \/ AttachExisting(r) \/ RefuseSuperseded(r) \/ AwaitRetirement(r)
    \/ Supersede(r) \/ RefuseOutdated(r) \/ AwaitOwner(r)
    \/ Start(r) \/ RefuseTab(r)

Next ==
    \/ \E r \in Requests :
          \/ RetireSource(r) \/ Acquire(r) \/ AbortWait(r)
          \/ FinishRound(r) \/ FailRetryable(r) \/ FailTerminal(r) \/ Disconnect(r)
    \/ \E s \in Sessions :
          \/ BrowserAnswers(s) \/ BrowserUnwinds(s) \/ RetireCapability(s)
          \/ CancelTrace(s)
    \/ \E t \in NativeTurn : CancelNativeTurn(t)
    \/ Clear

Spec == Init /\ [][Next]_vars

\* The daemon's event loop resumes a request whose promise has resolved; an
\* aborted worker unwinds.  Nothing makes a browser answer.
FairSpec ==
    /\ Spec
    /\ \A r \in Requests : WF_vars(RetireSource(r) \/ Acquire(r))
    /\ \A s \in Session : WF_vars(s \in Sessions /\ BrowserUnwinds(s))

-----------------------------------------------------------------------------
(* Properties.                                                              *)

\* "One native Codex thread may own at most one live ChatGPT browser surface":
\* a replacement starts only after the browser it replaces has physically
\* settled, whatever retired that browser.
OneBrowserPerOwner ==
    \A s, t \in Unsettled(Sessions) : sess[s].owner = sess[t].owner => s = t

\* A conversation's head is a registered session attached to it and not
\* superseded, so a compaction or a retained follow-up never resumes a
\* conversation that is being torn down.
HeadIsLive ==
    \A c \in Conversation : heads[c] # NoSession =>
        /\ heads[c] \in Registered
        /\ sess[heads[c]].conversation = c
        /\ ~sess[heads[c]].superseded

\* The entry of superseded work stays, to refuse a delayed replay of its
\* request, until an interrupt, a cancel-all or the registry's TTL removes it.
SupersededStaysRefused ==
    [][\A s \in Registered : sess[s].superseded =>
          \/ entries'[sess[s].key] = s
          \/ cancels' # cancels
          \/ \E r \in Requests : Start(r) \/ RefuseTab(r)]_vars

\* The capability of a turn outlives every observer that was admitted before
\* its browser settled.
CapabilityOutlivesObservers ==
    \A s \in Sessions : sess[s].capability = "retired" =>
        \A i \in DOMAIN tail[s] : ~tail[s][i][2]

\* The registry is sound: types, heads that may be resumed, one browser for an owner, and
\* no capability taken from under an observer.
SessionInv == TypeOK /\ HeadIsLive /\ OneBrowserPerOwner /\ CapabilityOutlivesObservers

\* A request that carries a newer instruction is never left waiting for the
\* browser that it replaces, even when that browser never answers.
SteeringProceeds ==
    \A r \in Requests : Info[r].predecessors # {} => (pc[r] = "waiting" ~> pc[r] # "waiting")

\* Superseded work neither comes back nor holds up what supersedes it.
SupersessionHolds == SupersededStaysRefused /\ SteeringProceeds
=============================================================================
