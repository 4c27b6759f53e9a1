---------------------------- MODULE ManualControl ----------------------------
(* The Zero Risk turns of one conversation, seen from the wire between the daemon and the
   launcher: every operation is one HTTP request of launcher-browser-host.ts, answered by
   control-server.cjs from the manual tabs of browser-host.cjs.

   A request whose answer does not come in time may still be handled, at any later moment;
   the three mutations (start, started, end) are then asked a second time, word for word.
   So the launcher must answer a repeated, or a late, request without doing it twice and
   without touching the tab of another turn. What the turn does in between is
   ZeroRiskTurn's. The turns run one after another; all belong to one conversation. *)
EXTENDS Integers, Sequences, FiniteSets, SequencesExt

CONSTANTS
    ManualTurn,         \* the turns, 1..n, in the order Codex starts them
    KeepsTab,           \* whether a finished turn leaves its tab for the next one
    MAX_SIGNALS,        \* MAX_MANUAL_TERMINAL_SIGNALS
    MAX_LATE,           \* bound: requests whose answer comes too late
    MAX_PIDS            \* bound: daemon processes, one after another

ASSUME ManualBounds ==
    /\ KeepsTab \in BOOLEAN /\ {MAX_SIGNALS, MAX_PIDS} \subseteq Nat \ {0}
    /\ MAX_LATE \in Nat
    /\ IsFiniteSet(ManualTurn) /\ ManualTurn = 1..Cardinality(ManualTurn)

VARIABLES
    tabs,       \* turnTabs: a set of records, one per manual tab
    ends,       \* manualTerminalSignals: pairs of trace and process with a status, oldest first
    dones,      \* manualCompletionSignals: the same, without a status
    owner,      \* per turn: runManual and its request
    wire,       \* requests not handled yet
    pid,        \* the daemon that runs now
    late

manualVars == <<tabs, ends, dones, owner, wire, pid, late>>

NotBegun == [phase |-> "idle", act |-> "none", n |-> 0, reply |-> "none", how |-> "none"]
TabOf(t) == {b \in tabs : b.turn = t}
Owned(r) == {b \in TabOf(r.turn) : b.pid = r.pid}
Reusable == {b \in tabs : b.state = "completed"}
Ended(t, p) == {i \in DOMAIN ends : ends[i].turn = t /\ ends[i].pid = p}
EndOf(t, p) == ends[CHOOSE i \in Ended(t, p) : TRUE].status
Done(t, p) == \E i \in DOMAIN dones : dones[i] = [turn |-> t, pid |-> p]

(* rememberManualTerminal and rememberManualCompletion: one entry per trace, the oldest
   entries go. *)
LatestTry(seq, entry) ==
    LET older == {i \in DOMAIN seq : seq[i].turn = entry.turn}
        others == IF older = {} THEN seq ELSE RemoveAt(seq, CHOOSE i \in older : TRUE)
        kept == Append(others, entry)
    IN  IF Len(kept) > MAX_SIGNALS THEN Tail(kept) ELSE kept
Signal(t, p, status) == ends' = LatestTry(ends, [turn |-> t, pid |-> p, status |-> status])
Completed(t, p) == dones' = LatestTry(dones, [turn |-> t, pid |-> p])

MCInit ==
    /\ tabs = {} /\ ends = <<>> /\ dones = <<>> /\ wire = {} /\ pid = 1 /\ late = 0
    /\ owner = [t \in ManualTurn |-> NotBegun]

\* ------------------------------------------------------------- the client's side
(* launcherManualRequest: one request, one answer or a timeout. *)
Request(t, act, n) == [turn |-> t, act |-> act, n |-> n, pid |-> pid]
Asks(t, phase, act) ==
    /\ owner' = [owner EXCEPT ![t] = [@ EXCEPT !.phase = phase, !.act = act, !.n = 1,
                                               !.reply = "none"]]
    /\ wire' = wire \cup {Request(t, act, 1)}
Moves(t, phase) == owner' = [owner EXCEPT ![t] = [@ EXCEPT !.phase = phase, !.act = "none",
                                                           !.reply = "none"]]
                   /\ UNCHANGED wire
EndsWith(t, how) == owner' = [owner EXCEPT ![t] = [NotBegun EXCEPT !.phase = "over", !.how = how]]
                    /\ UNCHANGED wire
HostIdle == UNCHANGED <<tabs, ends, dones, pid>>

TurnBegins(t) ==
    /\ owner[t].phase = "idle" /\ \A u \in 1..(t - 1) : owner[u].phase = "over"
    /\ Asks(t, "starting", "start") /\ HostIdle /\ UNCHANGED late

(* The answer: a status the client cannot use ends the turn; the end is best effort. *)
TakesReply(t) ==
    /\ owner[t].reply # "none"
    /\ CASE owner[t].phase = "starting" ->
              IF owner[t].reply = "ok" THEN Asks(t, "waiting", "wait-sent") ELSE EndsWith(t, "refused")
         [] owner[t].phase = "waiting" ->
              IF owner[t].reply = "ok" THEN Moves(t, "sent") ELSE Asks(t, "ending", "failed")
         [] owner[t].phase = "marking" ->
              IF owner[t].reply = "ok" THEN Moves(t, "running") ELSE Asks(t, "ending", "failed")
         [] owner[t].phase = "ending" -> EndsWith(t, owner[t].reply)
    /\ HostIdle /\ UNCHANGED late

(* runManual: ChatGPT calls codex_turn_start, then codex_turn_complete; Codex may abort; a
   terminal signal ends the race. *)
Marks(t) ==
    /\ owner[t].phase = "sent" /\ Asks(t, "marking", "started") /\ HostIdle /\ UNCHANGED late
Completes(t) ==
    /\ owner[t].phase = "running" /\ Asks(t, "ending", "completed") /\ HostIdle /\ UNCHANGED late
Aborts(t) ==
    /\ owner[t].phase \in {"waiting", "sent", "running"}
    /\ Asks(t, "ending", "aborted") /\ HostIdle /\ UNCHANGED late
SeesTerminal(t) ==      \* waitForLauncherManualTerminal
    /\ owner[t].phase \in {"sent", "running"} /\ Ended(t, pid) # {}
    /\ Asks(t, "ending", "failed") /\ HostIdle /\ UNCHANGED late

(* reconcileLauncherManualMutation: the second identical request, then the error. *)
Mutations == {"starting", "marking", "ending"}
TimesOut(t) ==
    /\ owner[t].act # "none" /\ owner[t].reply = "none" /\ late < MAX_LATE /\ late' = late + 1
    /\ CASE owner[t].phase \in Mutations /\ owner[t].n = 1 ->
              /\ owner' = [owner EXCEPT ![t].n = 2]
              /\ wire' = wire \cup {Request(t, owner[t].act, 2)}
         [] owner[t].phase = "starting" /\ owner[t].n = 2 -> EndsWith(t, "unanswered")
         [] owner[t].phase = "ending" /\ owner[t].n = 2 -> EndsWith(t, "unanswered")
         [] OTHER -> Asks(t, "ending", "failed")
    /\ HostIdle

\* ------------------------------------------------------------- the launcher's side
Replies(r, reply) ==
    /\ wire' = wire \ {r}
    /\ owner' = IF r.pid = pid /\ owner[r.turn].act = r.act /\ owner[r.turn].n = r.n
                     /\ owner[r.turn].reply = "none"
                THEN [owner EXCEPT ![r.turn].reply = reply] ELSE owner
    /\ UNCHANGED <<pid, late>>
Leaves(r, reply) == Replies(r, reply) /\ UNCHANGED <<tabs, ends, dones>>

Fresh(r) == [turn |-> r.turn, pid |-> r.pid, state |-> "awaiting-user"]

(* Mutant: a request repeated after its turn has ended opens a tab again. *)
HasSettledNever(r) == FALSE
HasSettled(r) ==
    Done(r.turn, r.pid) \/ (\E i \in DOMAIN dones : dones[i].turn = r.turn)
        \/ Ended(r.turn, r.pid) # {}

(* beginManualTurn: a settled trace is refused; a trace with a tab is the same turn asked
   again, or one whose process is gone; otherwise the retained tab is taken, or a new one
   opened. *)
HandleStart(r) ==
    /\ r.act = "start"
    /\ \/ HasSettled(r) /\ Leaves(r, "refused")
       \/ /\ ~HasSettled(r) /\ TabOf(r.turn) # {}
          /\ IF Owned(r) # {} THEN Leaves(r, "ok")
             ELSE IF \E b \in TabOf(r.turn) : b.pid = pid THEN Leaves(r, "refused")
             ELSE /\ tabs' = tabs \ TabOf(r.turn) /\ Signal(r.turn, r.pid, "failed")
                  /\ Replies(r, "refused") /\ UNCHANGED dones
       \/ /\ ~HasSettled(r) /\ TabOf(r.turn) = {} /\ Cardinality(Reusable) <= 1
          /\ tabs' = (tabs \ Reusable) \cup {Fresh(r)}
          /\ Replies(r, "ok") /\ UNCHANGED <<ends, dones>>
       \/ /\ ~HasSettled(r) /\ TabOf(r.turn) = {} /\ Cardinality(Reusable) > 1 /\ Leaves(r, "refused")

(* waitManualSent; a pending answer (202) asks again, so only the others are answers. *)
HandleWaitSent(r) ==
    /\ r.act = "wait-sent"
    /\ \/ /\ \E b \in Owned(r) : b.state \in {"sent", "running", "completed"} /\ Leaves(r, "ok")
       \/ /\ Owned(r) = {} \/ \E b \in Owned(r) : b.state = "timed-out"
          /\ Leaves(r, "refused")

(* markManualTurnStarted *)
HandleStarted(r) ==
    /\ r.act = "started"
    /\ IF \E b \in Owned(r) : b.state \in {"sent", "running"}
       THEN /\ tabs' = (tabs \ Owned(r)) \cup {[b EXCEPT !.state = "running"] : b \in Owned(r)}
            /\ Replies(r, "ok") /\ UNCHANGED <<ends, dones>>
       ELSE Leaves(r, "refused")

(* endManualTurn: a turn that has ended is answered from the signals. *)
HandleEnd(r) ==
    /\ r.act \in {"completed", "failed", "aborted"}
    /\ \/ Done(r.turn, r.pid) /\ Leaves(r, "ok")
       \/ /\ ~Done(r.turn, r.pid) /\ Owned(r) = {}
          /\ Leaves(r, IF Ended(r.turn, r.pid) # {} THEN "ok" ELSE "refused")
       \/ /\ ~Done(r.turn, r.pid) /\ \E b \in Owned(r) : b.state = "completed"
          /\ Completed(r.turn, r.pid) /\ Replies(r, "ok") /\ UNCHANGED <<tabs, ends>>
       \/ /\ ~Done(r.turn, r.pid) /\ r.act = "completed"
          /\ \E b \in Owned(r) : b.state \notin {"sent", "running", "completed"}
          /\ Leaves(r, "refused")
       \/ /\ ~Done(r.turn, r.pid) /\ r.act = "completed"
          /\ \E b \in Owned(r) : b.state \in {"sent", "running"}
          /\ tabs' = (tabs \ Owned(r)) \cup
                        (IF KeepsTab THEN {[b EXCEPT !.state = "completed"] : b \in Owned(r)} ELSE {})
          /\ Completed(r.turn, r.pid) /\ Replies(r, "ok") /\ UNCHANGED ends
       \/ /\ ~Done(r.turn, r.pid) /\ r.act # "completed"
          /\ \E b \in Owned(r) : b.state # "completed"
          /\ tabs' = tabs \ Owned(r)
          /\ Signal(r.turn, r.pid, IF r.act = "aborted" THEN "cancelled" ELSE "failed")
          /\ Replies(r, "ok") /\ UNCHANGED dones

HandleRequest == \E r \in wire : HandleStart(r) \/ HandleWaitSent(r) \/ HandleStarted(r) \/ HandleEnd(r)

(* The user presses Sent; the submit deadline passes; the user closes a tab, it dies, or its
   process is found dead; a retained tab may also be evicted or released without a signal. *)
UserSent ==
    /\ \E b \in tabs : b.state = "awaiting-user" /\ tabs' = (tabs \ {b}) \cup {[b EXCEPT !.state = "sent"]}
    /\ UNCHANGED <<ends, dones, owner, wire, pid, late>>
SubmitDeadline ==
    /\ \E b \in tabs : /\ b.state = "awaiting-user"
                       /\ tabs' = (tabs \ {b}) \cup {[b EXCEPT !.state = "timed-out"]}
                       /\ Signal(b.turn, b.pid, "timeout")
    /\ UNCHANGED <<dones, owner, wire, pid, late>>
TabCloses ==
    /\ \E b \in tabs : /\ tabs' = tabs \ {b}
                       /\ \/ b.state = "completed" /\ UNCHANGED ends
                          \/ \E s \in {"cancelled", "failed"} : Signal(b.turn, b.pid, s)
    /\ UNCHANGED <<dones, owner, wire, pid, late>>

(* The daemon dies and the next one is started: its turns are gone, and Codex may ask for
   the last one again. A request still unread is taken to die with its connection. *)
DaemonReplaced ==
    /\ pid < MAX_PIDS /\ pid' = pid + 1
    /\ \E again \in BOOLEAN :
          owner' = [t \in ManualTurn |->
                      IF owner[t].phase \in {"idle", "over"} THEN owner[t]
                      ELSE IF again THEN NotBegun ELSE [NotBegun EXCEPT !.phase = "over", !.how = "gone"]]
    /\ wire' = {} /\ UNCHANGED <<tabs, ends, dones, late>>

MCtlNext ==
    \/ \E t \in ManualTurn : TurnBegins(t) \/ TakesReply(t) \/ Marks(t) \/ Completes(t)
                                \/ Aborts(t) \/ SeesTerminal(t) \/ TimesOut(t)
    \/ HandleRequest \/ UserSent \/ SubmitDeadline \/ TabCloses \/ DaemonReplaced

MCtlSpec == MCInit /\ [][MCtlNext]_manualVars
\* -------------------------------------------------------------------- properties
ManualTypeOK ==
    /\ pid \in 1..MAX_PIDS /\ late \in 0..MAX_LATE
    /\ \A b \in tabs : b.turn \in ManualTurn /\ b.pid \in 1..MAX_PIDS
    /\ \A r \in wire : r.turn \in ManualTurn /\ r.n \in 1..2

(* No request, however often or late it is handled, opens a second tab for its turn, and the
   conversation never has two retained tabs (which would refuse every later turn). The
   second is not owed once the end of a turn was never acknowledged (see README). *)
OneTabEach ==
    /\ \A t \in ManualTurn : Cardinality(TabOf(t)) <= 1
    /\ (\A t \in ManualTurn : owner[t].how \notin {"unanswered", "gone"}) => Cardinality(Reusable) <= 1

(* A turn that was given a tab has it, or is told why not: no late request of an earlier
   turn, or of an earlier attempt, takes it away in silence. *)
LeaseHolds ==
    \A t \in ManualTurn :
        owner[t].phase \in {"waiting", "sent", "marking", "running"} =>
            Ended(t, pid) # {} \/ \E b \in TabOf(t) : b.pid = pid

(* A turn that is over leaves no tab that waits for the user or works. Not owed: a turn
   whose start or end was never acknowledged, and one whose daemon died (see README). *)
NoGhostTab ==
    \A t \in ManualTurn :
        owner[t].phase = "over" /\ owner[t].how = "ok" =>
            \A b \in TabOf(t) : b.state = "completed"

(* The tab of a manual turn is its own: one each, kept while the turn lives, gone after. *)
ManualControlInv == ManualTypeOK /\ OneTabEach /\ LeaseHolds /\ NoGhostTab
=============================================================================
