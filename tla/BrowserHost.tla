---------------------------- MODULE BrowserHost ----------------------------
(***************************************************************************)
(* The Launcher's registry of automatic turn tabs                          *)
(* (src/launcher/electron/browser-host.cjs) behind the control server      *)
(* (control-server.cjs): tabs are leased to a worker of a browser helper,  *)
(* kept for the next turn of a conversation, evicted, closed by the user   *)
(* and reaped when their heartbeats stop; a cancellation of the daemon is  *)
(* awaited before the document of a running turn is destroyed.             *)
(*                                                                         *)
(* The workers (browser-worker.ts runExclusive and the helper client) are  *)
(* actors over unreliable HTTP calls. Time is the flag `aged`: the tab's   *)
(* deadline (heartbeat, bootstrap or retention) has passed. A helper beats *)
(* every 10 s and the deadline is 60 s, so a lease ages only when its      *)
(* helper is dead or stuck, or the machine sleeps. Zero Risk tabs are in   *)
(* ZeroRiskTurn, views and their geometry are not modelled.                *)
(***************************************************************************)
EXTENDS Naturals, Sequences, FiniteSets, SequencesExt

CONSTANTS Trace, Helper,
          Frail,          \* the helpers that may get stuck or exit
          Conversation, NoConversation,
          ConversationOf, \* the conversation the turn of each trace belongs to
          MaxTabs,       \* MAX_BROWSER_TABS, 5 in the code
          MaxCancelled,  \* MAX_CANCELLED_TURN_TRACES, 256 in the code
          MaxCreated,    \* bounds the tabs a behaviour creates
          MaxFaults      \* bounds the losses, failures and closes of a behaviour

ASSUME BrowserHostAssumption ==
    /\ NoConversation \notin Conversation /\ Frail \subseteq Helper /\ Helper # {}
    /\ ConversationOf \in [Trace -> Conversation \cup {NoConversation}]
    /\ MaxTabs \in Nat \ {0} /\ MaxCancelled \in Nat \ {0}
    /\ MaxCreated \in Nat /\ MaxFaults \in Nat

VARIABLES tabs,        \* turnTabs: tab id -> tab, ids in order of creation
          created,     \* tabs created so far
          cancels,     \* cancellations awaited: closeTab and expiryCancellation
          closedOwners,     \* closedTurnOwners: trace -> helper
          cancelledOwners,  \* userCancelledTurnOwners, oldest first
          blocking,    \* a power-save blocker is held
          operation,   \* manualOperation
          workers,     \* runExclusive of each trace
          helpers,     \* "well", "stuck" or "dead"
          asleep,      \* the machine slept since the last sweep
          faults

hostVars == <<tabs, created, cancels, closedOwners, cancelledOwners, blocking, operation,
              workers, helpers, asleep, faults>>
hostOnly == <<created, cancels, closedOwners, cancelledOwners, blocking, operation>>

Ids == 1..MaxCreated
Tab == [trace: Trace, helper: Helper,
        status: {"running", "ready", "error"}, failed: BOOLEAN, loaded: BOOLEAN,
        initializing: BOOLEAN, signIn: BOOLEAN, aged: BOOLEAN]
Cancel == [why: {"close", "expire"}, id: Ids, trace: Trace, helper: Helper]
Statuses == {"completed", "failed", "aborted"}
\* A worker that has begun is "idle" between two attempts and "past" once a later turn of
\* its conversation has begun. `excuse` is history: the user closed the worker's tab or its
\* page was lost, or a surface of its trace could not be marked.
Worker == [phase: {"new", "idle", "acquiring", "running", "ending", "orphan", "past"},
           id: Ids \cup {0}, helper: Helper, status: Statuses,
           excuse: {"none", "lost", "unmarked"}]

HostTypeOK ==
    /\ DOMAIN tabs \subseteq Ids /\ \A i \in DOMAIN tabs : tabs[i] \in Tab
    /\ created \in 0..MaxCreated
    /\ cancels \subseteq Cancel
    /\ DOMAIN closedOwners \subseteq Trace
    /\ \A t \in DOMAIN closedOwners : closedOwners[t] \in Helper
    /\ cancelledOwners \in Seq(Trace) /\ Len(cancelledOwners) <= MaxCancelled
    /\ blocking \in BOOLEAN /\ asleep \in BOOLEAN /\ faults \in 0..MaxFaults
    /\ operation \in BOOLEAN
    /\ workers \in [Trace -> Worker]
    /\ helpers \in [Helper -> {"well", "stuck", "dead"}]

Nobody == CHOOSE h \in Helper : TRUE
Resting == [phase |-> "idle", id |-> 0, helper |-> Nobody, status |-> "completed",
            excuse |-> "none"]
New == [Resting EXCEPT !.phase = "new"]
HostInit ==
    /\ tabs = << >> /\ created = 0 /\ cancels = {}
    /\ closedOwners = << >> /\ cancelledOwners = << >>
    /\ blocking = FALSE /\ operation = FALSE
    /\ workers = [t \in Trace |-> New]
    /\ helpers = [h \in Helper |-> "well"]
    /\ asleep = FALSE /\ faults = 0

Open == DOMAIN tabs
Running(i) == tabs[i].status = "running"
AnyRunning(T) == \E i \in DOMAIN T : T[i].status = "running"   \* shouldBlockSleepForTurns
Owned(t) == {i \in Open : tabs[i].trace = t}
Found(t) == {i \in Owned(t) : \A j \in Owned(t) : i <= j}      \* the one that is found
Without(S) == [i \in Open \ S |-> tabs[i]]
UserCancelled(t) == Contains(cancelledOwners, t)

\* removeTurnTab for each tab of S; abortRunning remembers the owner of a running one.
Remember(S) ==
    [t \in DOMAIN closedOwners \cup {tabs[i].trace : i \in {j \in S : Running(j)}} |->
        IF \E i \in S : Running(i) /\ tabs[i].trace = t
        THEN tabs[CHOOSE i \in S : Running(i) /\ tabs[i].trace = t].helper
        ELSE closedOwners[t]]
Discard(S, abortRunning) ==
    /\ tabs' = Without(S)
    /\ blocking' = IF S = {} THEN blocking ELSE AnyRunning(Without(S))
    /\ closedOwners' = IF abortRunning THEN Remember(S) ELSE closedOwners
Fault == faults < MaxFaults /\ faults' = faults + 1
-----------------------------------------------------------------------------
(* Leasing a tab *)

Over(t) == workers' = [workers EXCEPT ![t] = Resting]   \* a retry may run the trace again
Excuse(i, why) == workers' = [t \in Trace |-> IF workers[t].id = i /\ workers[t].excuse # "unmarked"
                                              THEN [workers[t] EXCEPT !.excuse = why]
                                              ELSE workers[t]]
BeingClosed(i) == \E c \in cancels : c.why = "close" /\ c.id = i
Reusable(c) == {i \in Open : c # NoConversation /\ tabs[i].status = "ready"
                             /\ ConversationOf[tabs[i].trace] = c}
\* The retained tabs a turn may resume: none when its own tab has failed.
Matches(t) == {i \in Reusable(ConversationOf[t]) : ~\E j \in Found(t) : tabs[j].failed}
Failed == {i \in Open : tabs[i].failed}
Retained == {i \in Open : tabs[i].status = "ready"}

\* beginTurn refuses a trace the user cancelled, a busy browser, a tab of another
\* helper, and a turn that needs a retained tab. The conversation of a trace is fixed.
StartRefused(t, h, require) ==
    \/ operation
    \/ UserCancelled(t)
    \/ \E i \in Found(t) : Running(i) /\ tabs[i].helper # h
    \/ \E i \in Found(t) : tabs[i].status = "ready" /\ i \notin Matches(t)
    \/ /\ require /\ Matches(t) = {}
       /\ ~\E i \in Found(t) : Running(i)

\* The attempt of t begins; no earlier turn of its conversation is taken up again.
Earlier(s, t) == /\ s # t /\ workers[s].phase = "idle"
                 /\ ConversationOf[t] # NoConversation
                 /\ ConversationOf[s] = ConversationOf[t]
Attempt(t, h, i, phase, excuse) ==
    workers' = [s \in Trace |->
        IF s = t THEN [phase |-> phase, id |-> i, helper |-> h, status |-> "completed",
                       excuse |-> excuse]
        ELSE IF Earlier(s, t) THEN [workers[s] EXCEPT !.phase = "past"] ELSE workers[s]]
Refuse(t) == Attempt(t, Nobody, 0, "idle", "none")

Lease(t, h, i) ==
    /\ tabs' = [tabs EXCEPT ![i] = [@ EXCEPT !.helper = h, !.trace = t, !.status = "running",
                                            !.aged = FALSE,
                                            !.loaded = tabs[i].loaded /\ tabs[i].status = "ready"]]
    /\ Attempt(t, h, i, "running", IF Owned(t) \ {i} # {} THEN "unmarked"
                                   ELSE IF BeingClosed(i) THEN "lost" ELSE "none")
    /\ UNCHANGED hostOnly

\* createTurnTab: a full browser gives up a failed tab first, then a retained one.
Evicted(dropped) ==
    LET left == Open \ dropped
    IN  IF Cardinality(left) < MaxTabs THEN {{}}
        ELSE IF Failed \cap left # {} THEN {{i} : i \in Failed \cap left}
        ELSE {{i} : i \in Retained}

Fresh(t, h) == [trace |-> t, helper |-> h, status |-> "running", failed |-> FALSE,
                loaded |-> FALSE, initializing |-> TRUE, signIn |-> FALSE, aged |-> FALSE]
Create(t, h) ==
    LET dropped == Found(t) \cap Failed
    IN  IF Evicted(dropped) = {}
        THEN /\ Refuse(t) /\ Discard(dropped, FALSE)
             /\ UNCHANGED <<created, cancels, cancelledOwners, operation>>
        ELSE \E out \in Evicted(dropped) :
             /\ created < MaxCreated
             /\ created' = created + 1
             /\ tabs' = [i \in (Open \ (dropped \cup out)) \cup {created'} |->
                            IF i = created' THEN Fresh(t, h) ELSE tabs[i]]
             /\ blocking' = TRUE
             /\ Attempt(t, h, created', "acquiring",
                        IF Owned(t) \ dropped # {} THEN "unmarked" ELSE "none")
             /\ UNCHANGED <<cancels, closedOwners, cancelledOwners, operation>>

\* POST /v1/turn/start. A turn waits until every earlier one of its conversation has ended
\* and told the host (getOrCreateAfterOwnerRetirement), and a client does not return to a
\* turn once it has begun a later one.
Start(t, h, require) ==
    /\ require => ConversationOf[t] # NoConversation
    /\ workers[t].phase \in {"new", "idle"} /\ helpers[h] = "well"
    /\ \A s \in Trace \ {t} : /\ ConversationOf[t] # NoConversation
                              /\ ConversationOf[s] = ConversationOf[t]
                              => workers[s].phase \in {"new", "idle", "past"}
    /\ IF StartRefused(t, h, require) THEN Refuse(t) /\ UNCHANGED <<tabs, hostOnly>>
       ELSE IF \E i \in Found(t) : Running(i) THEN \E i \in Found(t) : Lease(t, h, i)
       ELSE IF Matches(t) # {} THEN \E i \in Matches(t) : Lease(t, h, i)
       ELSE Create(t, h)
    /\ UNCHANGED <<helpers, asleep, faults>>

\* initializeTurnTab ends well and the answer reaches the worker, or is lost on its way.
Initialized(t) ==
    LET i == workers[t].id
    IN  /\ workers[t].phase = "acquiring" /\ i \in Open /\ tabs[i].trace = t
        /\ tabs' = [tabs EXCEPT ![i].initializing = FALSE]
        /\ \/ /\ helpers[workers[t].helper] = "well"
              /\ workers' = [workers EXCEPT ![t].phase = "running"]
              /\ UNCHANGED faults
           \/ Fault /\ Over(t)
        /\ UNCHANGED <<hostOnly, helpers, asleep>>

\* The page does not load or is gone, or the caller has hung up (the abort signal of the
\* acquisition).
InitializationFails(t) ==
    /\ workers[t].phase = "acquiring"
    /\ \/ Fault
       \/ /\ workers[t].id \notin Open \/ helpers[workers[t].helper] = "dead"
          /\ UNCHANGED faults
    /\ Discard({workers[t].id} \cap Open, TRUE)
    /\ Over(t)
    /\ UNCHANGED <<created, cancels, cancelledOwners, operation, helpers, asleep>>
-----------------------------------------------------------------------------
(* The document and its heartbeats *)

Beating(i) == \E t \in Trace : /\ workers[t].phase = "running" /\ workers[t].id = i
                               /\ tabs[i].trace = t /\ helpers[workers[t].helper] = "well"

\* From now on the deadline is that of the heartbeats, which came all along.
Bootstrapped(i) ==
    /\ i \in Open /\ ~tabs[i].initializing /\ ~tabs[i].loaded
    /\ tabs' = [tabs EXCEPT ![i] = [@ EXCEPT
                   !.loaded = TRUE, !.aged = tabs[i].aged /\ (asleep \/ ~Beating(i))]]
    /\ UNCHANGED <<hostOnly, workers, helpers, asleep, faults>>

\* The surface cannot be marked: the tab is an error, whatever has become of its turn, and
\* stays until its turn ends it or the user closes it.
MarkFails(i) ==
    /\ Fault
    /\ i \in Open /\ tabs[i].status # "error" /\ ~tabs[i].initializing /\ tabs[i].loaded
    /\ tabs' = [tabs EXCEPT ![i].status = "error"]
    /\ blocking' = AnyRunning(Without({i}))
    /\ Excuse(i, "unmarked")
    /\ UNCHANGED <<created, cancels, closedOwners, cancelledOwners, operation, helpers,
                   asleep>>

\* markTurnAuthenticationRequired: the page was sent to the sign-in origin.
SignInRequired(i) ==
    /\ Fault
    /\ i \in Open /\ Running(i) /\ ~tabs[i].signIn
    /\ tabs' = [tabs EXCEPT ![i].signIn = TRUE]
    /\ UNCHANGED <<hostOnly, workers, helpers, asleep>>

\* did-fail-load, render-process-gone and a page closed from outside.
PageLost(i) ==
    /\ Fault
    /\ i \in Open
    /\ Discard({i}, TRUE)
    /\ Excuse(i, "lost")
    /\ UNCHANGED <<created, cancels, cancelledOwners, operation, helpers, asleep>>

Heartbeat(t) ==
    /\ workers[t].phase = "running" /\ helpers[workers[t].helper] = "well"
    /\ \E i \in Found(t) : /\ tabs[i].helper = workers[t].helper /\ Running(i)
                           /\ tabs[i].aged
                           /\ tabs' = [tabs EXCEPT ![i].aged = FALSE]
    /\ UNCHANGED <<hostOnly, workers, helpers, asleep, faults>>

\* A deadline passes: retention (30 minutes), bootstrap (2 minutes), or heartbeats (60 s).
Age(i) ==
    /\ i \in Open /\ ~tabs[i].aged
    /\ Running(i) => /\ tabs[i].loaded => ~Beating(i)
                     /\ tabs[i].initializing => FALSE   \* ten seconds at most
    /\ tabs' = [tabs EXCEPT ![i].aged = TRUE]
    /\ UNCHANGED <<hostOnly, workers, helpers, asleep, faults>>

\* The machine sleeps: no helper beats and no sweep runs, and every deadline passes.
Sleep ==
    /\ asleep' = TRUE
    /\ tabs' = [i \in Open |-> [tabs[i] EXCEPT !.aged = TRUE]]
    /\ UNCHANGED <<hostOnly, workers, helpers, faults>>

Refreshed == [i \in Open |-> IF Running(i) THEN [tabs[i] EXCEPT !.aged = FALSE] ELSE tabs[i]]
\* powerMonitor "resume", which need not come before the first sweep.
SystemResume ==
    /\ asleep /\ tabs # Refreshed
    /\ tabs' = Refreshed
    /\ UNCHANGED <<hostOnly, workers, helpers, asleep, faults>>
-----------------------------------------------------------------------------
(* Reaping and closing *)

Expiring(i) == i \in Open /\ Running(i) /\ tabs[i].aged
                /\ ~\E c \in cancels : c.why = "expire" /\ c.id = i
SweepUnaware ==
    /\ Discard({i \in Open : tabs[i].aged /\ (tabs[i].failed \/ tabs[i].status = "ready")}, FALSE)
    /\ cancels' = cancels \cup
         {[why |-> "expire", id |-> i, trace |-> tabs[i].trace,
           helper |-> tabs[i].helper] : i \in {j \in Open : Expiring(j)}}
    /\ asleep' = FALSE
    /\ UNCHANGED <<created, cancelledOwners, operation, workers, helpers, faults>>
Sweep ==
    /\ IF asleep
       THEN tabs' = Refreshed /\ UNCHANGED hostOnly
       ELSE /\ Discard({i \in Open : tabs[i].aged /\ (tabs[i].failed \/ tabs[i].status = "ready")},
                      FALSE)
            /\ cancels' = cancels \cup
                 {[why |-> "expire", id |-> i, trace |-> tabs[i].trace,
                   helper |-> tabs[i].helper] : i \in {j \in Open : Expiring(j)}}
            /\ UNCHANGED <<created, cancelledOwners, operation>>
    /\ asleep' = FALSE
    /\ UNCHANGED <<workers, helpers, faults>>

RememberCancelled(t) ==
    LET at == CHOOSE n \in DOMAIN cancelledOwners : cancelledOwners[n] = t
        others == IF UserCancelled(t) THEN RemoveAt(cancelledOwners, at) ELSE cancelledOwners
        kept == Append(others, t)
    IN  cancelledOwners' = IF Len(kept) > MaxCancelled THEN Tail(kept) ELSE kept

\* The user closes a tab: a running one only after its turn has been cancelled.
CloseTab(i) ==
    /\ Fault
    /\ i \in Open
    /\ Excuse(i, "lost")
    /\ IF Running(i)
       THEN /\ RememberCancelled(tabs[i].trace)
            /\ cancels' = cancels \cup {[why |-> "close", id |-> i, trace |-> tabs[i].trace,
                                         helper |-> tabs[i].helper]}
            /\ UNCHANGED <<tabs, blocking, closedOwners>>
       ELSE Discard({i}, TRUE) /\ UNCHANGED <<cancels, cancelledOwners>>
    /\ UNCHANGED <<created, operation, helpers, asleep>>

\* The daemon aborts the turn; its worker unwinds and ends the lease.
CancelReaches(c) ==
    /\ c \in cancels
    /\ workers[c.trace].phase = "running"
    /\ workers' = [workers EXCEPT ![c.trace] = [@ EXCEPT !.phase = "ending",
                                                         !.status = "aborted"]]
    /\ UNCHANGED <<tabs, hostOnly, helpers, asleep, faults>>

StillOpen(c) == c.id \in Open
StillOwned(c) == /\ c.id \in Open /\ tabs[c.id].trace = c.trace
                 /\ tabs[c.id].helper = c.helper /\ Running(c.id)

\* The cancellation has been acknowledged: no worker runs the turn any more.
Cancelled(c) ==
    /\ c \in cancels /\ workers[c.trace].phase # "running"
    /\ cancels' = cancels \ {c}
    /\ IF IF c.why = "expire" THEN StillOwned(c) ELSE StillOpen(c)
       THEN Discard({c.id}, TRUE) ELSE UNCHANGED <<tabs, blocking, closedOwners>>
    /\ UNCHANGED <<created, cancelledOwners, operation, workers, helpers, asleep, faults>>

\* The control request fails: the tab keeps its lease.
CancelFails(c) ==
    /\ c \in cancels
    /\ cancels' = cancels \ {c}
    /\ UNCHANGED <<tabs, created, closedOwners, cancelledOwners, blocking, operation,
                   workers, helpers, asleep, faults>>

\* POST /v1/turn/release: the retained tabs of a superseded conversation.
ReleaseRetained(c) ==
    LET S == Reusable(c)
    IN  /\ S # {} /\ Discard(S, FALSE)
        /\ UNCHANGED <<created, cancels, cancelledOwners, operation, workers, helpers,
                       asleep, faults>>
-----------------------------------------------------------------------------
(* The end of a turn *)

Finish(t, status) ==
    /\ workers[t].phase = "running" /\ helpers[workers[t].helper] = "well"
    /\ workers' = [workers EXCEPT ![t] = [@ EXCEPT !.phase = "ending", !.status = status]]
    /\ UNCHANGED <<tabs, hostOnly, helpers, asleep, faults>>

\* endTurn: keep a completed conversation, preserve a failed page, release anything else.
EndOf(t, status) ==
    LET h == workers[t].helper
        S == Found(t)
    IN  IF S = {}
        THEN /\ closedOwners' = IF t \in DOMAIN closedOwners /\ closedOwners[t] = h
                                THEN [s \in DOMAIN closedOwners \ {t} |-> closedOwners[s]]
                                ELSE closedOwners
             /\ UNCHANGED <<tabs, blocking>>
        ELSE \E i \in S :
             LET signIn == tabs[i].signIn
                 as == IF signIn /\ status = "completed" THEN "failed" ELSE status
                 keeps == as = "completed" /\ ConversationOf[t] # NoConversation
                 preserves == as = "failed" /\ tabs[i].loaded /\ ~signIn /\ ~UserCancelled(t)
             IN  IF tabs[i].helper # h \/ tabs[i].failed
                 THEN UNCHANGED <<tabs, blocking, closedOwners>>
                 ELSE IF keeps \/ preserves
                 THEN /\ tabs' = [tabs EXCEPT ![i] = [@ EXCEPT
                                     !.status = IF keeps THEN "ready" ELSE "error",
                                     !.failed = preserves, !.aged = FALSE]]
                      /\ blocking' = AnyRunning(Without({i}))
                      /\ UNCHANGED closedOwners
                 ELSE Discard({i}, FALSE)

\* POST /v1/turn/end of the worker, or of the client when the helper has exited.
End(t) ==
    /\ \/ workers[t].phase = "ending" /\ helpers[workers[t].helper] = "well"
       \/ workers[t].phase = "orphan"
    /\ EndOf(t, workers[t].status)
    /\ Over(t)
    /\ UNCHANGED <<created, cancels, cancelledOwners, operation, helpers, asleep, faults>>

EndIsLost(t) ==
    /\ Fault
    /\ workers[t].phase \in {"ending", "orphan"}
    /\ Over(t)
    /\ UNCHANGED <<tabs, hostOnly, helpers, asleep>>

HelperSticks(h) ==
    /\ Fault
    /\ h \in Frail /\ helpers[h] = "well"
    /\ helpers' = [helpers EXCEPT ![h] = "stuck"]
    /\ UNCHANGED <<tabs, hostOnly, workers, asleep>>

\* The client ends the leases of a helper that exited, and its acquisitions hang up.
HelperExits(h) ==
    /\ Fault
    /\ h \in Frail /\ helpers[h] # "dead"
    /\ helpers' = [helpers EXCEPT ![h] = "dead"]
    /\ workers' = [t \in Trace |->
         IF workers[t].helper = h /\ workers[t].phase \in {"running", "ending"}
         THEN [workers[t] EXCEPT !.phase = "orphan", !.status = "failed"]
         ELSE workers[t]]
    /\ UNCHANGED <<tabs, hostOnly, asleep>>

-----------------------------------------------------------------------------
(* Operations of the Launcher that need the browser for themselves *)

BeginOperationAnyway ==
    /\ ~operation
    /\ operation' = TRUE
    /\ UNCHANGED <<tabs, created, cancels, closedOwners, cancelledOwners, blocking,
                   workers, helpers, asleep, faults>>
BeginOperation ==
    /\ ~operation
    /\ ~AnyRunning(tabs)
    /\ operation' = TRUE
    /\ UNCHANGED <<tabs, created, cancels, closedOwners, cancelledOwners, blocking,
                   workers, helpers, asleep, faults>>

EndOperation ==
    /\ operation
    /\ operation' = FALSE
    /\ UNCHANGED <<tabs, created, cancels, closedOwners, cancelledOwners, blocking,
                   workers, helpers, asleep, faults>>

\* clearOwnedSessionForPasskey releases every tab it found.
ClearTabs ==
    /\ operation /\ Open # {}
    /\ Discard(Open, FALSE)
    /\ UNCHANGED <<created, cancels, cancelledOwners, operation, workers, helpers,
                   asleep, faults>>

HostNext ==
    \/ \E t \in Trace :
         \/ \E h \in Helper, require \in BOOLEAN : Start(t, h, require)
         \/ Initialized(t) \/ InitializationFails(t) \/ Heartbeat(t)
         \/ \E status \in Statuses : Finish(t, status)
         \/ End(t) \/ EndIsLost(t)
    \/ \E i \in Ids : Bootstrapped(i) \/ MarkFails(i) \/ SignInRequired(i) \/ PageLost(i)
                      \/ Age(i) \/ CloseTab(i)
    \/ Sleep \/ SystemResume \/ Sweep
    \/ \E c \in cancels : CancelReaches(c) \/ Cancelled(c) \/ CancelFails(c)
    \/ \E c \in Conversation : ReleaseRetained(c)
    \/ \E h \in Helper : HelperSticks(h) \/ HelperExits(h)
    \/ BeginOperation
    \/ EndOperation \/ ClearTabs
HostSpec == HostInit /\ [][HostNext]_hostVars
-----------------------------------------------------------------------------
\* A turn that is still being worked on keeps its document: neither a sweep, an eviction, a
\* sleep, an operation of the Launcher nor a cancellation that was meant for an earlier
\* owner of the tab destroys it, unless its page was lost or the user closed the tab; and
\* its lease never expires once the document is loaded, however long the machine slept
\* (reapExpiredTurnTabs, evictOldestReclaimableTurnTab, withManualOperation).
Live(t) == /\ workers[t].phase = "running" /\ helpers[workers[t].helper] = "well"
           /\ workers[t].excuse = "none"
Kept(t) == /\ workers[t].id \in Open /\ tabs[workers[t].id].trace = t
           /\ tabs[workers[t].id].helper = workers[t].helper
Expires(t) == \E c \in cancels' \ cancels : c.why = "expire" /\ c.id = workers[t].id
LiveTurnKeepsItsTab ==
    [][\A t \in Trace : Live(t) => /\ Live(t)' => Kept(t)'
                                   /\ tabs[workers[t].id].loaded => ~Expires(t)]_hostVars

\* A worker whose tab went away under it can still end its turn: the host has the tab or
\* remembers the owner it closed (closedTurnOwners), so the end is never refused as foreign.
OwnerCanEnd ==
    \A t \in Trace :
        workers[t].phase \in {"running", "ending", "orphan"} /\ workers[t].excuse # "unmarked"
        => \/ \E i \in Found(t) : tabs[i].helper = workers[t].helper
           \/ t \in DOMAIN closedOwners /\ closedOwners[t] = workers[t].helper

\* An operation that owns the browser never shares it with a turn, whichever of the two
\* comes first (withManualOperation, beginTurn), and one conversation never owns two tabs
\* that a later turn could resume (beginTurn refuses with "owns multiple browser tabs").
OperationIsAlone == operation => ~AnyRunning(tabs)
OneTabPerConversation ==
    \A c \in Conversation : Cardinality(Reusable(c)) <= 1

\* The registry of tabs is sound: types, an operation alone, one tab for a conversation,
\* and an end that every worker can still report.
HostInv == HostTypeOK /\ OperationIsAlone /\ OneTabPerConversation /\ OwnerCanEnd

\* A blocker is held exactly while a turn is running (turn-suspension.cjs:34).
SleepIsBlocked == blocking = AnyRunning(tabs)
=============================================================================
