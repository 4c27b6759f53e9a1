----------------------------- MODULE Compaction -----------------------------
(***************************************************************************)
(* Structured context compaction of one native thread:                     *)
(* compaction-handoff.ts (runStructuredCompactionOnce and the handoff),    *)
(* compaction-transaction.ts (CompactionTransactionStore) and the          *)
(* compaction branch of runTurn in index.ts.                               *)
(*                                                                         *)
(* A compact request names a key (one canonical input) of a native turn.   *)
(* Requests for one key share a run; runs of one thread queue at a gate    *)
(* which each holds until the browsers it retains have settled.  A run     *)
(* obtains its summary from the retained conversation, where ChatGPT       *)
(* submits it through a one-shot transaction, or from a fresh tab.  It     *)
(* ends by retiring the conversation, whose last response is the source.   *)
(* The deadline of a run is renewed by activity: here it may pass at any   *)
(* time before the run has its end.                                        *)
(***************************************************************************)
EXTENDS Naturals, FiniteSets

CONSTANTS
    Compacts,       \* compact requests that the adapter receives
    CompactKey,     \* their keys
    KeyOf,          \* request -> key
    TurnOf,         \* key -> native turn
    NoRun,
    MAX_RUNS,       \* bound: runs in a behaviour
    MAX_ABORTS,     \* bound: cancellations and interrupts
    MAX_CALLS       \* bound: tool calls of the source

ASSUME CompactionAssumption ==
    /\ KeyOf \in [Compacts -> CompactKey] /\ DOMAIN TurnOf = CompactKey
    /\ MAX_RUNS \in Nat /\ MAX_ABORTS \in Nat /\ MAX_CALLS \in Nat /\ NoRun \notin Nat

Run == 1..MAX_RUNS
NativeTurns == {TurnOf[k] : k \in CompactKey}

VARIABLES
    mode,           \* "retained", "zero risk" or "fresh": configuration and interaction
    source,         \* the conversation's last response
    runs,           \* structuredCompactionRuns, finished and evicted runs included
    cached,         \* structuredCompactionRuns: key -> run
    gate,           \* structuredCompactionOwners
    tx,             \* the transaction of a run
    tab,            \* the browser turns of a run
    interrupted,    \* structuredCompactionInterruptions
    asks,           \* a request's place, and its run
    aborts, calls

compactionVars == <<mode, source, runs, cached, gate, tx, tab, interrupted, asks, aborts, calls>>
books == <<cached, gate>>
outside == <<mode, aborts, calls>>

RunRecord ==
    [key: CompactKey, prev: Run \cup {NoRun}, aborted: BOOLEAN, active: BOOLEAN,
     error: {"none", "unavailable", "oversized", "other"}, preserve: BOOLEAN,
     phase: {"gated", "inspect", "settling", "releasing", "begin", "handoff", "closing",
             "accepted", "retiring", "catching", "fresh", "done", "failed"}]

SourceRecord ==
    [out: {"active", "final", "error"}, settled: BOOLEAN, head: BOOLEAN, entry: BOOLEAN,
     instructed: BOOLEAN, requested: BOOLEAN, cancelled: BOOLEAN,
     call: {"none", "queued", "delivered", "journaled"}]

TabState == {"none", "running", "aborting"}
Live(t) == t \in {"running", "aborting"}

CompactionTypeOK ==
    /\ mode \in {"retained", "zero risk", "fresh"}
    /\ source \in SourceRecord
    /\ DOMAIN runs \subseteq Run /\ \A r \in DOMAIN runs : runs[r] \in RunRecord
    /\ cached \in [CompactKey -> Run \cup {NoRun}] /\ gate \in Run \cup {NoRun}
    /\ tx \in [Run -> {"none", "beginning", "open"}]
    /\ tab \in [Run -> [handoff: TabState, fresh: TabState]]
    /\ interrupted \subseteq NativeTurns
    /\ asks \in [Compacts -> [at: {"new", "waiting", "summary", "error"},
                              run: Run \cup {NoRun}]]
    /\ aborts \in 0..MAX_ABORTS /\ calls \in 0..MAX_CALLS

CompactionInit ==
    /\ mode \in {"retained", "zero risk", "fresh"}
    /\ source \in {[out |-> out, settled |-> out = "final", head |-> mode # "fresh", entry |-> TRUE,
                    instructed |-> FALSE, requested |-> FALSE, cancelled |-> FALSE,
                    call |-> "none"] :
                        out \in {"active", "final"}}
    /\ runs = <<>>
    /\ cached = [k \in CompactKey |-> NoRun] /\ gate = NoRun
    /\ tx = [r \in Run |-> "none"]
    /\ tab = [r \in Run |-> [handoff |-> "none", fresh |-> "none"]]
    /\ interrupted = {}
    /\ asks = [q \in Compacts |-> [at |-> "new", run |-> NoRun]]
    /\ aborts = 0 /\ calls = 0

Started == DOMAIN runs
Ended(r) == runs[r].phase \in {"done", "failed"}
Becomes(r, phase) ==
    runs' = [runs EXCEPT ![r].phase = phase,
                         ![r].preserve = IF phase \in {"done", "failed"} THEN FALSE ELSE @]

-----------------------------------------------------------------------------
(* The source and its tool calls.                                           *)

\* A call after the request is answered by the compaction instruction.
SourceCalls ==
    /\ source.out = "active" /\ source.call = "none" /\ calls < MAX_CALLS
    /\ source' = IF source.requested THEN [source EXCEPT !.instructed = TRUE]
                 ELSE [source EXCEPT !.call = "queued"]
    /\ calls' = calls + 1
    /\ UNCHANGED <<mode, runs, books, tx, tab, interrupted, asks, aborts>>

\* An observer takes the batch; it journals it unless its client has gone.
CallDelivered ==
    /\ source.call = "queued" /\ ~source.requested
    /\ \E call \in {"delivered", "journaled"} : source' = [source EXCEPT !.call = call]
    /\ UNCHANGED <<runs, books, tx, tab, interrupted, asks, outside>>

\* The round of an ordinary request: a batch not yet journaled is replayed to
\* it, and a result it brings is given to the call.
OrdinaryRound ==
    /\ source.call \in {"delivered", "journaled"} /\ ~source.requested
    /\ source' = [source EXCEPT !.call = IF @ = "delivered" THEN "journaled" ELSE "none"]
    /\ UNCHANGED <<runs, books, tx, tab, interrupted, asks, outside>>

\* The request for the compaction goes with the capability of the response.
SourceEnds ==
    /\ source.out = "active" /\ source.call = "none"
    /\ \E out \in {"final", "error"} :
          source' = [source EXCEPT !.out = out, !.settled = TRUE, !.requested = FALSE]
    /\ UNCHANGED <<runs, books, tx, tab, interrupted, asks, outside>>

\* A cancelled browser unwinds, behind its logical end when the cancellation had a reason.
\* Otherwise it ends by unwinding, and a result already on its way makes the end final.
SourceUnwinds ==
    /\ ~source.settled /\ (source.out = "error" \/ source.cancelled)
    /\ \E out \in {"final", "error"} :
          source' = [source EXCEPT !.out = IF @ = "active" THEN out ELSE @,
                                   !.settled = TRUE, !.call = "none", !.requested = FALSE]
    /\ UNCHANGED <<runs, books, tx, tab, interrupted, asks, outside>>

\* A cancellation without a reason, as a retirement's, only aborts the browser of an active
\* response; one with a reason is also its end.
CancelSource(s) == IF s.out = "active" THEN [s EXCEPT !.cancelled = TRUE] ELSE s
FailSource(s) == IF s.out = "active" THEN [CancelSource(s) EXCEPT !.out = "error"] ELSE s

\* Retirement of the conversation: its head goes, its response is cancelled when
\* active, and the entry of a preserved final response stays.
Retired(s, preserve) == [CancelSource(s) EXCEPT !.head = FALSE, !.entry = @ /\ preserve]

-----------------------------------------------------------------------------
(* runStructuredCompactionOnce.                                             *)

NewRun(k) == [key |-> k, prev |-> gate, aborted |-> FALSE, active |-> TRUE, error |-> "none",
              preserve |-> FALSE, phase |-> "gated"]

Interrupted(k) == TurnOf[k] \in interrupted

Attach(q, r) == asks' = [asks EXCEPT ![q] = [at |-> "waiting", run |-> r]]

Join(q) ==
    LET k == KeyOf[q] IN
    /\ asks[q].at = "new" /\ cached[k] # NoRun
    /\ Attach(q, cached[k])
    /\ UNCHANGED <<source, runs, books, tx, tab, interrupted, outside>>

Refuse(q) ==
    /\ asks[q].at = "new" /\ cached[KeyOf[q]] = NoRun /\ Interrupted(KeyOf[q])
    /\ asks' = [asks EXCEPT ![q].at = "error"]
    /\ UNCHANGED <<source, runs, books, tx, tab, interrupted, outside>>

Register(q) ==
    LET k == KeyOf[q]
        r == Cardinality(Started) + 1
    IN /\ asks[q].at = "new" /\ cached[k] = NoRun /\ ~Interrupted(k)
       /\ r \in Run
       /\ runs' = [i \in Started \cup {r} |-> IF i = r THEN NewRun(k) ELSE runs[i]]
       /\ cached' = [cached EXCEPT ![k] = r]
       /\ gate' = r
       /\ Attach(q, r)
       /\ UNCHANGED <<source, tx, tab, interrupted, outside>>

\* Mutant: a run starts as soon as its predecessor has failed or succeeded.
GateOpenToResult(r) == runs[r].prev # NoRun => Ended(runs[r].prev)

\* The gate of a run is its predecessor's settlement.
GateOpen(r) == runs[r].prev # NoRun => ~runs[runs[r].prev].active

PassGate(r) ==
    /\ runs[r].phase = "gated" /\ ~runs[r].aborted /\ GateOpen(r)
    /\ Becomes(r, IF mode = "fresh" THEN "releasing" ELSE "inspect")
    /\ source' = IF mode # "fresh" \/ source.out = "final" \/ ~source.entry THEN source
                 ELSE [CancelSource(source) EXCEPT !.entry = FALSE, !.head = FALSE]
    /\ UNCHANGED <<books, tx, tab, interrupted, asks, outside>>

\* What runStructuredCompactionOnce waits for after the run's own end.
RetainedSettled(r) == /\ ~Live(tab[r].fresh)
                      /\ mode = "fresh" => source.settled \/ source.entry

\* The end of ownership: a failure that may be retried is evicted.
SettleOwnership(r) ==
    /\ Ended(r) /\ runs[r].active /\ GateOpen(r) /\ RetainedSettled(r)
    /\ runs' = [runs EXCEPT ![r].active = FALSE]
    /\ gate' = IF gate = r THEN NoRun ELSE gate
    /\ cached' = [k \in CompactKey |->
           IF cached[k] = r /\ runs[r].phase = "failed" /\ runs[r].error # "oversized"
           THEN NoRun ELSE cached[k]]
    /\ UNCHANGED <<source, tx, tab, interrupted, asks, outside>>

\* Half an hour later the next request prunes the result of a run and the interruption of
\* a turn.
ForgetRun(k) ==
    /\ cached[k] # NoRun /\ ~runs[cached[k]].active
    /\ cached' = [cached EXCEPT ![k] = NoRun]
    /\ UNCHANGED <<source, runs, gate, tx, tab, interrupted, asks, outside>>

ForgetInterruption(t) ==
    /\ t \in interrupted /\ interrupted' = interrupted \ {t}
    /\ UNCHANGED <<source, runs, books, tx, tab, asks, outside>>

-----------------------------------------------------------------------------
(* The work of a run.                                                       *)

StartFresh(r) ==
    tab' = [tab EXCEPT ![r].fresh = IF runs[r].aborted THEN "aborting" ELSE "running"]

\* Fresh mode: the replaced response is released first.
Released(r) ==
    /\ runs[r].phase = "releasing" /\ source.settled
    /\ Becomes(r, "fresh") /\ StartFresh(r)
    /\ UNCHANGED <<source, books, tx, interrupted, asks, outside>>

\* The retirement of an earlier epoch was awaited by the gate.
Inspect(r) ==
    /\ runs[r].phase = "inspect"
    /\ CASE ~source.head -> /\ Becomes(r, "fresh") /\ StartFresh(r)
                            /\ UNCHANGED <<source, tx>>
         [] source.head /\ source.out = "active" ->
               \* requestCompaction answers the queued call; a journaled one
               \* gets the result that came with the request.
               /\ Becomes(r, "settling")
               /\ source' = [source EXCEPT !.requested = TRUE,
                     !.instructed = @ \/ source.call = "queued"
                                      \/ (mode = "zero risk" /\ source.call = "journaled"),
                     !.call = IF @ = "delivered" THEN @ ELSE "none"]
               /\ UNCHANGED <<tx, tab>>
         [] source.head /\ source.out # "active" /\ mode = "zero risk" ->
               /\ runs' = [runs EXCEPT ![r].phase = "fresh", ![r].preserve = source.out = "final"]
               /\ StartFresh(r) /\ UNCHANGED <<source, tx>>
         [] OTHER -> /\ runs' = [runs EXCEPT ![r].phase = "begin",
                                             ![r].preserve = source.out = "final"]
                     /\ tx' = [tx EXCEPT ![r] = "beginning"] /\ UNCHANGED <<source, tab>>
    /\ UNCHANGED <<books, interrupted, asks, outside>>

\* The catch block: the conversation is retired before anything else is tried.
Catch(r, error) ==
    /\ runs' = [runs EXCEPT ![r].phase = IF source.head THEN "catching" ELSE "failed",
                            ![r].error = error,
                            ![r].preserve = FALSE]
    /\ source' = IF source.head THEN Retired(source, runs[r].preserve) ELSE source

\* A request without the results of its calls, or with duplicates.
ResultsMissing(r) ==
    /\ runs[r].phase = "inspect" /\ source.head /\ source.out = "active"
    /\ source.call = "journaled" /\ mode # "fresh"
    /\ Catch(r, "other")
    /\ UNCHANGED <<books, tx, tab, interrupted, asks, outside>>

\* The source has ended.  Its answer survives unless the instruction reached it;
\* then it was no answer, but for Zero Risk the summary itself.
SourceSettled(r) ==
    LET preserve == ~source.instructed IN
    /\ runs[r].phase = "settling" /\ source.out = "final" /\ source.settled
    /\ CASE mode = "retained" ->
               /\ runs' = [runs EXCEPT ![r].phase = "begin", ![r].preserve = preserve]
               /\ tx' = [tx EXCEPT ![r] = "beginning"] /\ UNCHANGED <<source, tab>>
         [] mode = "zero risk" /\ preserve ->
               /\ runs' = [runs EXCEPT ![r].phase = "fresh", ![r].preserve = TRUE]
               /\ StartFresh(r) /\ UNCHANGED <<source, tx>>
         [] OTHER -> /\ Becomes(r, "retiring")
                     /\ source' = Retired(source, FALSE) /\ UNCHANGED <<tab, tx>>
    /\ UNCHANGED <<books, interrupted, asks, outside>>

SourceFailed(r) ==
    /\ runs[r].phase = "settling" /\ source.out = "error"
    /\ Catch(r, "other")
    /\ UNCHANGED <<books, tx, tab, interrupted, asks, outside>>

\* beginCompactionTransaction answers; the retained tab is asked at once, and
\* the waiter registered in the same step.
Begin(r) ==
    /\ runs[r].phase = "begin" /\ tx[r] = "beginning"
    /\ tx' = [tx EXCEPT ![r] = "open"]
    /\ tab' = [tab EXCEPT ![r].handoff = "running"]
    /\ Becomes(r, "handoff")
    /\ UNCHANGED <<source, books, interrupted, asks, outside>>

\* The transaction began after the run had gone.
BeginLate(r) ==
    /\ tx[r] = "beginning" /\ runs[r].phase # "begin"
    /\ tx' = [tx EXCEPT ![r] = "none"]
    /\ UNCHANGED <<source, runs, books, tab, interrupted, asks, outside>>

\* ChatGPT submits the summary: the waiter consumes it, and the run ends its
\* browser turn.  A second submission finds no transaction.
Submit(r) ==
    /\ tx[r] = "open" /\ tab[r].handoff = "running" /\ runs[r].phase = "handoff"
    /\ tx' = [tx EXCEPT ![r] = "none"]
    /\ tab' = [tab EXCEPT ![r].handoff = "aborting"]
    /\ Becomes(r, "accepted")
    /\ UNCHANGED <<source, books, interrupted, asks, outside>>

AbortTx(r) == IF tx[r] = "open" THEN "none" ELSE tx[r]

\* The retained turn ends without the summary: it was lost before it could be
\* asked, refused for its size, failed, or answered with ordinary text.
NoHandoff(r) ==
    /\ runs[r].phase = "handoff" /\ tab[r].handoff = "running"
    /\ \E error \in {"unavailable", "oversized", "other"} : Catch(r, error)
    /\ tab' = [tab EXCEPT ![r].handoff = "none"]
    /\ tx' = [tx EXCEPT ![r] = AbortTx(r)]
    /\ UNCHANGED <<books, interrupted, asks, outside>>

\* The transaction's own timer, or the trace's revocation: the run waits for its
\* browser, as long as its own signal lets it.
TxExpires(r) ==
    /\ runs[r].phase = "handoff" /\ tx[r] = "open"
    /\ tx' = [tx EXCEPT ![r] = "none"]
    /\ tab' = [tab EXCEPT ![r].handoff = "aborting"]
    /\ Becomes(r, "closing")
    /\ UNCHANGED <<source, books, interrupted, asks, outside>>

Closed(r) ==
    /\ runs[r].phase = "closing" /\ tab[r].handoff = "none"
    /\ Catch(r, "other")
    /\ UNCHANGED <<books, tx, tab, interrupted, asks, outside>>

TabUnwinds(r) ==
    /\ \/ tab[r].handoff = "aborting" /\ tab' = [tab EXCEPT ![r].handoff = "none"]
       \/ tab[r].fresh = "aborting" /\ tab' = [tab EXCEPT ![r].fresh = "none"]
    /\ UNCHANGED <<source, runs, books, tx, interrupted, asks, outside>>

\* The accepted turn has been cleaned up: the summary is canonicalised and the
\* conversation retired.  A conflicting marker is an error.
Accepted(r) ==
    /\ runs[r].phase = "accepted" /\ tab[r].handoff = "none"
    /\ \/ Becomes(r, "retiring") /\ source' = Retired(source, runs[r].preserve)
       \/ Catch(r, "other")
    /\ UNCHANGED <<books, tx, tab, interrupted, asks, outside>>

Conclude(r) ==
    /\ runs[r].phase = "retiring" /\ source.settled
    /\ Becomes(r, "done")
    /\ UNCHANGED <<source, books, tx, tab, interrupted, asks, outside>>

\* The failed run has retired its conversation; a source that disappeared
\* before the handoff is made good by a fresh tab.
Caught(r) ==
    /\ runs[r].phase = "catching" /\ source.settled
    /\ IF runs[r].error = "unavailable"
       THEN /\ StartFresh(r)
            /\ Becomes(r, IF runs[r].aborted THEN "failed" ELSE "fresh")
       ELSE Becomes(r, "failed") /\ UNCHANGED tab
    /\ UNCHANGED <<source, books, tx, interrupted, asks, outside>>

FreshEnds(r) ==
    /\ runs[r].phase = "fresh" /\ tab[r].fresh = "running"
    /\ tab' = [tab EXCEPT ![r].fresh = "none"]
    /\ \/ source.head /\ Becomes(r, "retiring") /\ source' = Retired(source, runs[r].preserve)
       \/ ~source.head /\ Becomes(r, "done") /\ UNCHANGED source
       \/ \E error \in {"oversized", "other"} : Catch(r, error)
    /\ UNCHANGED <<books, tx, interrupted, asks, outside>>

-----------------------------------------------------------------------------
(* Deadline, cancellation and interruption.                                 *)

\* A run goes on, before anything else happens, when its source has ended.
Abortable(r) == ~Ended(r) /\ ~runs[r].aborted
Continuing == \E r \in Started : runs[r].phase = "settling" /\ source.out # "active"

\* What the abort of the signals of some runs does at each of their awaits.  The wait for a
\* source with tools cancels it with the abort's reason, the wait for one without does not.
\* The retirement of a failed run is not abortable.
Abort(hit) ==
    LET Catches(r) == source.head /\ runs[r].phase \in
                      {"settling", "begin", "handoff", "closing", "accepted", "fresh"}
        Aborted(r) == [runs[r] EXCEPT
            !.aborted = TRUE, !.preserve = FALSE,
            !.error = IF runs[r].phase = "catching" THEN @ ELSE "other",
            !.phase = IF @ \in {"catching", "retiring"} \/ Catches(r) THEN "catching" ELSE "failed"]
        Stopped(t) == IF t = "running" THEN "aborting" ELSE t
    IN /\ runs' = [r \in Started |-> IF r \in hit THEN Aborted(r) ELSE runs[r]]
       /\ \E ended \in {source, FailSource(source)} :
             source' = IF \E r \in hit : Catches(r)
                       THEN Retired(ended, \A r \in hit : Catches(r) => runs[r].preserve)
                       ELSE source
       /\ tab' = [r \in Run |-> IF r \notin hit THEN tab[r]
                     ELSE [handoff |-> Stopped(tab[r].handoff), fresh |-> Stopped(tab[r].fresh)]]
       /\ tx' = [r \in Run |-> IF r \in hit THEN AbortTx(r) ELSE tx[r]]

\* Mutant: the deadline is only armed for the handoff.
DeadlineOfTheHandoff(r) ==
    /\ ~Continuing /\ Abortable(r) /\ runs[r].phase \in {"begin", "handoff", "closing", "accepted", "fresh"}
    /\ Abort({r})
    /\ UNCHANGED <<books, interrupted, asks, outside>>

\* The deadline of a run that has passed its gate: no activity in five minutes.
Deadline(r) ==
    /\ ~Continuing /\ Abortable(r) /\ runs[r].phase # "gated"
    /\ Abort({r})
    /\ UNCHANGED <<books, interrupted, asks, outside>>

\* cancelStructuredCompactionTrace: a tab closed, a lease lost, an operator.
CancelCompactingTrace(r) ==
    /\ aborts < MAX_ABORTS /\ aborts' = aborts + 1
    /\ ~Continuing /\ Abortable(r) /\ Abort({r})
    /\ UNCHANGED <<mode, books, interrupted, asks, calls>>

\* cancelStructuredCompactionNativeTurn: the interruption is recorded before
\* the active runs are looked for.
Interrupt(t) ==
    /\ aborts < MAX_ABORTS /\ aborts' = aborts + 1
    /\ ~Continuing
    /\ interrupted' = interrupted \cup {t}
    /\ Abort({r \in Started : Abortable(r) /\ TurnOf[runs[r].key] = t})
    /\ UNCHANGED <<mode, books, asks, calls>>

-----------------------------------------------------------------------------
(* The observers.                                                           *)

Observe(q) ==
    /\ asks[q].at = "waiting" /\ Ended(asks[q].run)
    /\ asks' = [asks EXCEPT ![q].at = IF runs[asks[q].run].phase = "done" THEN "summary" ELSE "error"]
    /\ UNCHANGED <<source, runs, books, tx, tab, interrupted, outside>>

\* A disconnect ends the observer, never the run; an exact reconnect finds it.
Detach(q) ==
    /\ asks[q].at = "waiting"
    /\ asks' = [asks EXCEPT ![q] = [at |-> "new", run |-> NoRun]]
    /\ UNCHANGED <<source, runs, books, tx, tab, interrupted, outside>>

RunNext(r) ==
    \/ PassGate(r) \/ Released(r) \/ Inspect(r) \/ ResultsMissing(r) \/ SourceSettled(r)
    \/ SourceFailed(r) \/ Begin(r) \/ BeginLate(r) \/ Submit(r) \/ NoHandoff(r)
    \/ TxExpires(r) \/ Closed(r) \/ TabUnwinds(r) \/ Accepted(r) \/ Conclude(r) \/ Caught(r)
    \/ FreshEnds(r) \/ Deadline(r) \/ SettleOwnership(r) \/ CancelCompactingTrace(r)

CompactionNext ==
    \/ SourceCalls \/ CallDelivered \/ OrdinaryRound \/ SourceEnds \/ SourceUnwinds
    \/ \E q \in Compacts : Join(q) \/ Refuse(q) \/ Register(q) \/ Observe(q) \/ Detach(q)
    \/ \E r \in Started : RunNext(r)
    \/ \E t \in NativeTurns : Interrupt(t) \/ ForgetInterruption(t)
    \/ \E k \in CompactKey : ForgetRun(k)

\* Code that runs when its turn comes, cancelled browsers that unwind, and the
\* deadline, which needs nobody.  ChatGPT, Codex and the user owe nothing.
Automatic(r) ==
    \/ PassGate(r) \/ Released(r) \/ Inspect(r) \/ SourceSettled(r) \/ SourceFailed(r)
    \/ Begin(r) \/ TabUnwinds(r) \/ Closed(r) \/ Accepted(r) \/ Conclude(r) \/ Caught(r)
    \/ Deadline(r)
    \/ SettleOwnership(r)

CompactionFairness ==
    /\ WF_compactionVars(SourceUnwinds)
    /\ WF_compactionVars(\E r \in Started : Automatic(r))
    /\ WF_compactionVars(\E q \in Compacts : Observe(q))

CompactionMoves == CompactionInit /\ [][CompactionNext]_compactionVars
CompactionSpec == CompactionMoves /\ CompactionFairness

-----------------------------------------------------------------------------
\* A thread never has two browsers at work for its compactions: a fresh tab
\* opens on a settled source, and no other run's fresh tab is alive.
FreshTabAlone ==
    \A r \in Run : Live(tab[r].fresh) =>
        source.settled /\ \A s \in Run \ {r} : ~Live(tab[s].fresh)

\* A run registered before or after the interruption of its turn does no work.
InterruptionHolds ==
    \A r \in Started : TurnOf[runs[r].key] \in interrupted => runs[r].aborted \/ Ended(r)

\* A summary is one that ChatGPT submitted or a fresh tab answered, for the very
\* input of the request, and no transaction outlives the run.
SummaryHasItsSource ==
    /\ \A q \in Compacts : asks[q].at = "summary" =>
          runs[asks[q].run].key = KeyOf[q] /\ runs[asks[q].run].phase = "done"
    /\ \A r \in Started : Ended(r) => tx[r] # "open"

\* A response that ended before any compaction instruction reached it, and before anything
\* cancelled it, remains replayable, whatever becomes of the compaction: its work is not
\* done twice.  The answer that comes after a cancellation has lost its entry.
FinalAnswerSurvives ==
    source.out = "final" /\ ~source.instructed /\ ~source.cancelled => source.entry

\* A compaction is sound: types, one browser at work, interruptions that hold, summaries
\* with a source, and a final answer that is not thrown away.
CompactionInv ==
    /\ CompactionTypeOK /\ FreshTabAlone /\ InterruptionHolds
    /\ SummaryHasItsSource /\ FinalAnswerSurvives

\* Every observer is answered and every owner let go, though a delivered batch
\* was never journaled and ChatGPT waits for its results.
Compacting ==
    \/ \E q \in Compacts : asks[q].at = "waiting"
    \/ \E r \in Started : runs[r].active
CompactionEnds == Compacting ~> ~Compacting

\* "its physical browser owner still blocks retries and cancel-all completion"
GateOutlivesBrowser ==
    \A r \in Started : ~runs[r].active => ~Live(tab[r].handoff) /\ ~Live(tab[r].fresh)
=============================================================================
