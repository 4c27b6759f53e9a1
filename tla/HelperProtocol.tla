--------------------------- MODULE HelperProtocol ---------------------------
(***************************************************************************)
(* The daemon's client (launcher-helper-client.ts) and the browser helper  *)
(* process (browser-helper-main.ts) that runs ChatGPT turns in launcher    *)
(* tabs.  They talk in JSON lines over two FIFO pipes; a line names its    *)
(* turn by trace id only, and the trace id of a retried turn repeats.      *)
(*                                                                         *)
(* A frame of the model also carries the number of the run() it belongs    *)
(* to.  No action decides by it; properties compare it.                    *)
(***************************************************************************)
EXTENDS Integers, FiniteSets, Sequences

CONSTANTS
    Trace,            \* trace ids
    NoTrace,          \* the trace of a run that has not started
    RUNS_PER_TRACE,   \* bound on the runs that share a trace id
    MAX_EXITS,        \* bound on exits of the helper process
    MAX_REQUESTS      \* bound on completionFenceRequestId

ASSUME FiniteTraces == IsFiniteSet(Trace) /\ NoTrace \notin Trace
ASSUME HelperBounds == RUNS_PER_TRACE \in Nat /\ MAX_EXITS \in Nat /\ MAX_REQUESTS \in Nat

MAX_RUNS == RUNS_PER_TRACE * Cardinality(Trace)
Run == 1..MAX_RUNS
NoRun == 0

VARIABLES
    runState,      \* what the client knows of each run
    runs,      \* run() calls so far
    exiting,   \* runs whose tab handleExit() is releasing
    child,     \* the helper process, as the client sees it
    exits,     \* how often it has exited
    toHelper, toClient,
    worker,    \* the run each trace has in the helper
    requests,  \* completionFenceRequestId
    lease      \* the run the launcher keeps a tab for, per trace

clientVars == <<runState, runs, exiting>>
childVars == <<child, exits>>
helperVars == <<worker, requests, lease>>
protocolVars == <<clientVars, childVars, toHelper, toClient, helperVars>>

SettledOutcome == {"resolved", "rejected"}
Turns == [trace : Trace \cup {NoTrace},
          outcome : {"none", "waiting", "pending"} \cup SettledOutcome,
          aborted : BOOLEAN,           \* turn.abortSignal
          failed : BOOLEAN,            \* pending.localFailure
          prompt : {"none", "compiling", "compiled", "sent", "released"},
          fence : 0..MAX_REQUESTS]     \* the request the broker is working on
Workers == [run : Run \cup {NoRun},
            at : {"idle", "starting", "selecting", "composing", "activating", "answering", "fencing", "ending"},
            aborted : BOOLEAN,
            waiter : BOOLEAN,          \* sendActivationWaiters
            request : 0..MAX_REQUESTS, \* completionFence...Waiters
            done : BOOLEAN]
Frames == [type : {"run", "abort", "prompt", "activation", "fence"}, run : Run, request : 0..MAX_REQUESTS]
Events == [type : {"prompt", "activation", "fence", "result", "error"}, run : Run, request : 0..MAX_REQUESTS]

Idle == [run |-> NoRun, at |-> "idle", aborted |-> FALSE, waiter |-> FALSE, request |-> 0, done |-> FALSE]

HelperTypeOK ==
    /\ runState \in [Run -> Turns] /\ runs \in 0..MAX_RUNS /\ exiting \subseteq Run
    /\ child \in {"none", "starting", "ready"} /\ exits \in 0..MAX_EXITS
    /\ toHelper \in Seq(Frames) /\ toClient \in Seq(Events)
    /\ worker \in [Trace -> Workers] /\ \A t \in Trace : worker[t].run = NoRun <=> worker[t] = Idle
    /\ requests \in 0..MAX_REQUESTS
    /\ lease \in [Trace -> Run \cup {NoRun}]

HelperInit ==
    /\ runState = [r \in Run |-> [trace |-> NoTrace, outcome |-> "none", aborted |-> FALSE,
                                  failed |-> FALSE, prompt |-> "none", fence |-> 0]]
    /\ runs = 0 /\ exiting = {}
    /\ child = "none" /\ exits = 0 /\ toHelper = <<>> /\ toClient = <<>>
    /\ worker = [t \in Trace |-> Idle] /\ requests = 0
    /\ lease = [t \in Trace |-> NoRun]

Line(type, r, request) == [type |-> type, run |-> r, request |-> request]
TraceOf(line) == runState[line.run].trace
RunsOf(t) == {r \in Run : runState[r].trace = t}

\* this.pending.get(t): at most one run.
Pending(t) == {r \in RunsOf(t) : runState[r].outcome = "pending"}
IsPending(r) == runState[r].outcome = "pending"

-----------------------------------------------------------------------------
(* The client *)

\* finish(): the prepared prompt, if it is there, is released.
Finish(record, outcome) ==
    [record EXCEPT !.outcome = outcome,
                   !.prompt = IF @ \in {"compiled", "sent"} THEN "released" ELSE @]

Send(line) == toHelper' = Append(toHelper, line)

\* Mutant: an aborted turn is finished here and left running there.
AbortForgets(r, record) == runState' = [runState EXCEPT ![r] = Finish(record, "rejected")] /\ UNCHANGED toHelper

\* The abort line, or the end of the turn when no helper can read it.
SendAbort(r, record) ==
    IF child = "none" THEN runState' = [runState EXCEPT ![r] = Finish(record, "rejected")] /\ UNCHANGED toHelper
    ELSE runState' = [runState EXCEPT ![r] = record] /\ Send(Line("abort", r, 0))

\* abortWithLocalFailure()
AbortLocally(r, record) ==
    IF IsPending(r) /\ ~record.failed THEN SendAbort(r, [record EXCEPT !.failed = TRUE])
    ELSE runState' = [runState EXCEPT ![r] = record] /\ UNCHANGED toHelper

\* An answer to the helper; when it cannot be written the turn is aborted.
AnswerHelper(line, record) ==
    IF child = "none" THEN AbortLocally(line.run, record)
    ELSE runState' = [runState EXCEPT ![line.run] = record] /\ Send(line)

\* run() of a trace whose earlier runs have settled (turn-execution.ts:601).
\* Without a helper ensureChild() spawns one and the run waits.
StartRun(t) ==
    /\ \A r \in RunsOf(t) : runState[r].outcome \in SettledOutcome
    /\ Cardinality(RunsOf(t)) < RUNS_PER_TRACE
    /\ runs' = runs + 1
    /\ runState' = [runState EXCEPT ![runs + 1].trace = t,
                                    ![runs + 1].outcome = IF child = "ready" THEN "pending" ELSE "waiting"]
    /\ IF child = "ready" THEN Send(Line("run", runs + 1, 0)) ELSE UNCHANGED toHelper
    /\ child' = IF child = "none" THEN "starting" ELSE child
    /\ UNCHANGED <<exiting, exits, toClient, helperVars>>

WaitingRuns == {r \in Run : runState[r].outcome = "waiting"}
WaitingInOrder == SelectSeq([r \in Run |-> r], LAMBDA r : r \in WaitingRuns /\ ~runState[r].aborted)

\* The helper says ready: every waiting run is sent, or ends if it was aborted.
HelperReady ==
    /\ child = "starting" /\ child' = "ready"
    /\ runState' = [r \in Run |-> IF r \notin WaitingRuns THEN runState[r]
                                  ELSE [runState[r] EXCEPT !.outcome = IF runState[r].aborted THEN "rejected" ELSE "pending"]]
    /\ toHelper' = toHelper \o [i \in DOMAIN WaitingInOrder |-> Line("run", WaitingInOrder[i], 0)]
    /\ UNCHANGED <<runs, exiting, exits, toClient, helperVars>>

\* The turn's abort signal fires.
Abort(r) ==
    /\ runState[r].outcome \in {"waiting", "pending"} /\ ~runState[r].aborted
    /\ LET record == [runState[r] EXCEPT !.aborted = TRUE]
       IN IF IsPending(r) THEN SendAbort(r, record)
          ELSE runState' = [runState EXCEPT ![r] = record] /\ UNCHANGED toHelper
    /\ UNCHANGED <<runs, exiting, childVars, toClient, helperVars>>

CompiledPrompt(r) == IF IsPending(r) THEN "compiled" ELSE "released"

\* prepare() has compiled the prompt, or fails.
CompilePrompt(r) ==
    /\ runState[r].prompt = "compiling"
    /\ \/ /\ runState' = [runState EXCEPT ![r].prompt = CompiledPrompt(r)]
          /\ UNCHANGED toHelper
       \/ AbortLocally(r, [runState[r] EXCEPT !.prompt = "none"])
    /\ UNCHANGED <<runs, exiting, childVars, toClient, helperVars>>

\* onPreparedSelected() has returned.
SendPrompt(r) ==
    /\ runState[r].prompt = "compiled" /\ IsPending(r)
    /\ AnswerHelper(Line("prompt", r, 0), [runState[r] EXCEPT !.prompt = "sent"])
    /\ UNCHANGED <<runs, exiting, childVars, toClient, helperVars>>

\* The broker answers fence.begin() or commit(), or throws.
AnswerFence(r) ==
    /\ runState[r].fence > 0
    /\ LET record == [runState[r] EXCEPT !.fence = 0]
       IN \/ IF IsPending(r) /\ ~runState[r].failed /\ ~runState[r].aborted
             THEN AnswerHelper(Line("fence", r, runState[r].fence), record)
             ELSE runState' = [runState EXCEPT ![r] = record] /\ UNCHANGED toHelper
          \/ AbortLocally(r, record)
    /\ UNCHANGED <<runs, exiting, childVars, toClient, helperVars>>

\* What an event does to the run pending for its trace.
Handle(event, r) ==
    CASE event.type = "prompt" ->
            runState' = [runState EXCEPT ![r].prompt = "compiling"] /\ UNCHANGED toHelper
      [] event.type = "activation" -> AnswerHelper(Line("activation", r, 0), runState[r])
      [] event.type = "fence" ->
            runState' = [runState EXCEPT ![r].fence = event.request] /\ UNCHANGED toHelper
      [] event.type = "result" ->
            /\ runState' = [runState EXCEPT ![r] = Finish(@, IF @.failed THEN "rejected" ELSE "resolved")]
            /\ UNCHANGED toHelper
      [] event.type = "error" ->
            runState' = [runState EXCEPT ![r] = Finish(@, "rejected")] /\ UNCHANGED toHelper

\* handleLine(): an event for a trace that is not pending is ignored.
HandleLine ==
    /\ child = "ready" /\ toClient # <<>>
    /\ toClient' = Tail(toClient)
    /\ LET event == Head(toClient)
       IN IF Pending(TraceOf(event)) = {} THEN UNCHANGED <<runState, toHelper>>
          ELSE \E r \in Pending(TraceOf(event)) : Handle(event, r)
    /\ UNCHANGED <<runs, exiting, childVars, helperVars>>

\* The process exits or never becomes ready.  Its pipes and workers are gone;
\* handleExit() tells the launcher about each pending turn.
Exit ==
    /\ child # "none" /\ exits < MAX_EXITS
    /\ child' = "none" /\ exits' = exits + 1
    /\ toHelper' = <<>> /\ toClient' = <<>>
    /\ worker' = [t \in Trace |-> Idle]
    /\ runState' = [r \in Run |-> IF r \in WaitingRuns THEN [runState[r] EXCEPT !.outcome = "rejected"] ELSE runState[r]]
    /\ exiting' = exiting \cup {r \in Run : IsPending(r)}
    /\ UNCHANGED <<runs, requests, lease>>

\* The launcher has ended the tab; whoever is pending for the trace is finished.
ExitHandled(r) ==
    /\ r \in exiting /\ exiting' = exiting \ {r}
    /\ lease' = [lease EXCEPT ![runState[r].trace] = IF @ = r THEN NoRun ELSE @]
    /\ runState' = [q \in Run |-> IF q \in Pending(runState[r].trace) THEN Finish(runState[q], "rejected") ELSE runState[q]]
    /\ UNCHANGED <<runs, childVars, toHelper, toClient, worker, requests>>

-----------------------------------------------------------------------------
(* The helper *)

Emit(event) == toClient' = Append(toClient, event)

\* An abort rejects whatever answer the run is waiting for.
AbortedRun(w) ==
    IF w.run = NoRun THEN w
    ELSE [w EXCEPT !.aborted = TRUE, !.waiter = FALSE, !.request = 0,
                   !.at = IF @ \in {"selecting", "activating", "fencing"} THEN "ending" ELSE @]

\* A run, a prompt or an acknowledgement that finds nobody waiting for it.
Unexpected(line, w) ==
    \/ line.type = "run" /\ w.run # NoRun
    \/ line.type = "prompt" /\ w.run = NoRun
    \/ line.type = "activation" /\ ~w.waiter

\* What a line does to the run the helper has for its trace.
After(line, w, committed) ==
    CASE line.type = "run" -> [Idle EXCEPT !.run = line.run, !.at = "starting"]
      [] line.type = "abort" -> AbortedRun(w)
      [] line.type = "prompt" -> [w EXCEPT !.at = IF @ = "selecting" THEN "composing" ELSE @]
      [] line.type = "activation" ->
            [w EXCEPT !.waiter = FALSE, !.at = IF @ = "activating" THEN "answering" ELSE @]
      [] line.type = "fence" ->
            IF w.request # line.request THEN w
            ELSE [w EXCEPT !.request = 0, !.at = IF committed THEN "ending" ELSE "answering",
                           !.done = committed]

\* input.on("line")
ReceiveLine ==
    /\ child = "ready" /\ toHelper # <<>>
    /\ toHelper' = Tail(toHelper)
    /\ LET line == Head(toHelper)
           t == TraceOf(line)
       IN IF Unexpected(line, worker[t]) THEN Emit(Line("error", line.run, 0)) /\ UNCHANGED worker
          ELSE /\ \E committed \in BOOLEAN : worker' = [worker EXCEPT ![t] = After(line, @, committed)]
               /\ UNCHANGED toClient
    /\ UNCHANGED <<clientVars, childVars, requests, lease>>

At(t, stage) == worker[t].at = stage /\ child = "ready"
StepsTo(t, stage, type) ==
    /\ worker' = [worker EXCEPT ![t].at = stage]
    /\ Emit(Line(type, worker[t].run, 0))

\* /turn/start, then the question for the prompt.
StartTab(t) ==
    /\ At(t, "starting") /\ ~worker[t].aborted
    /\ lease[t] = NoRun
    /\ StepsTo(t, "selecting", "prompt")
    /\ lease' = [lease EXCEPT ![t] = worker[t].run]
    /\ UNCHANGED <<clientVars, childVars, toHelper, requests>>

\* turn_owner_lost: the tab still belongs to a run whose helper has exited.
RefuseTab(t) ==
    /\ At(t, "starting") /\ ~worker[t].aborted
    /\ lease[t] # NoRun
    /\ worker' = [worker EXCEPT ![t].at = "ending"]
    /\ UNCHANGED <<clientVars, childVars, toHelper, toClient, requests, lease>>

\* The launcher's sweep: no heartbeat comes for the tab any more.
ReapTab(t) ==
    /\ lease[t] # NoRun /\ worker[t].run # lease[t]
    /\ lease' = [lease EXCEPT ![t] = NoRun]
    /\ UNCHANGED <<clientVars, childVars, toHelper, toClient, worker, requests>>

\* The prompt is attached: onSendActivated() before Send is pressed.
ActivateSend(t) ==
    /\ At(t, "composing") /\ ~worker[t].aborted
    /\ worker' = [worker EXCEPT ![t].at = "activating", ![t].waiter = TRUE]
    /\ Emit(Line("activation", worker[t].run, 0))
    /\ UNCHANGED <<clientVars, childVars, toHelper, requests, lease>>

\* The answer looks complete: fence.begin() or commit().
AskFence(t) ==
    /\ At(t, "answering") /\ ~worker[t].aborted /\ requests < MAX_REQUESTS
    /\ requests' = requests + 1
    /\ worker' = [worker EXCEPT ![t].at = "fencing", ![t].request = requests + 1]
    /\ Emit(Line("fence", worker[t].run, requests + 1))
    /\ UNCHANGED <<clientVars, childVars, toHelper, lease>>

\* The worker fails on its own; a stage may time out while Send is activated.
Fail(t) ==
    /\ At(t, "starting") \/ At(t, "composing") \/ At(t, "activating") \/ At(t, "answering")
    /\ worker' = [worker EXCEPT ![t].at = "ending"]
    /\ UNCHANGED <<clientVars, childVars, toHelper, toClient, requests, lease>>

\* The worker notices the abort signal.
Unwind(t) == worker[t].aborted /\ Fail(t)

\* /turn/end in the worker's finally block, then the result or error line and
\* the finally block of run().
EndTab(t) ==
    /\ At(t, "ending")
    /\ lease' = [lease EXCEPT ![t] = IF @ = worker[t].run THEN NoRun ELSE @]
    /\ Emit(Line(IF worker[t].done THEN "result" ELSE "error", worker[t].run, 0))
    /\ worker' = [worker EXCEPT ![t] = Idle]
    /\ UNCHANGED <<clientVars, childVars, toHelper, requests>>

-----------------------------------------------------------------------------
HelperNext ==
    \/ \E t \in Trace : StartRun(t) \/ StartTab(t) \/ RefuseTab(t) \/ ActivateSend(t) \/ AskFence(t)
                       \/ Fail(t) \/ EndTab(t) \/ ReapTab(t)
    \/ \E r \in Run : Abort(r) \/ CompilePrompt(r) \/ SendPrompt(r) \/ AnswerFence(r) \/ ExitHandled(r)
    \/ HelperReady \/ HandleLine \/ Exit \/ ReceiveLine

HelperSpec == HelperInit /\ [][HelperNext]_protocolVars

\* Both event loops run, calls into the launcher return, an aborted worker
\* notices it.  Nothing makes ChatGPT answer or a user stop a turn.
HelperFairness ==
    /\ WF_protocolVars(HelperReady) /\ WF_protocolVars(HandleLine) /\ WF_protocolVars(ReceiveLine)
    /\ \A r \in Run : WF_protocolVars(CompilePrompt(r)) /\ WF_protocolVars(SendPrompt(r))
                      /\ WF_protocolVars(AnswerFence(r)) /\ WF_protocolVars(ExitHandled(r))
    /\ \A t \in Trace : WF_protocolVars(Unwind(t)) /\ WF_protocolVars(EndTab(t)) /\ WF_protocolVars(ReapTab(t))

FairHelperSpec == HelperSpec /\ HelperFairness

-----------------------------------------------------------------------------
(* Properties *)

\* A line that changes the run a helper has for a trace was sent for that very
\* run, although the line names no more than the trace; and the text a run
\* resolves with is the text its own worker has read.
AnswersReachTheirRun ==
    [][/\ \A t \in Trace :
            child' = "ready" /\ toHelper # <<>> /\ toHelper' = Tail(toHelper)
            /\ worker[t].run # NoRun /\ worker'[t] # worker[t]
            => Head(toHelper).run = worker[t].run
       /\ \A r \in Run :
            runState'[r].outcome = "resolved" /\ runState[r].outcome # "resolved"
            => Head(toClient).run = r]_protocolVars

\* A settled run holds no compiled prompt (it owns files and a turn token).
PromptIsReleased ==
    \A r \in Run : runState[r].outcome \in SettledOutcome => runState[r].prompt \in {"none", "compiling", "released"}

\* Client and helper keep their books: types, and no prompt outlives its run.
HelperInv == HelperTypeOK /\ PromptIsReleased

\* An aborted run settles.
AbortSettles == \A r \in Run : runState[r].aborted ~> runState[r].outcome \in SettledOutcome

\* The launcher does not keep the tab of a run that has settled.  (A run that
\* bears the trace id of an earlier one may be finished by a late error line of
\* that one, or by the handling of its helper's exit, while its own worker waits
\* for an answer; the property therefore stops at the second run.)
LeaseIsReleased ==
    \A t \in Trace, r \in Run :
        (runState[r].outcome \in SettledOutcome /\ lease[t] = r) ~> lease[t] # r \/ runs > 1

\* Lines that name a trace reach the run they were sent for, an aborted run settles, and
\* its prompt and its tab are given back, whenever the helper exits.
RunsSettle == []HelperInv /\ AnswersReachTheirRun /\ AbortSettles /\ LeaseIsReleased
=============================================================================
