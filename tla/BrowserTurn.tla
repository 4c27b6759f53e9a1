---------------------------- MODULE BrowserTurn ----------------------------
(***************************************************************************)
(* One run of ChatGptBrowserWorker.runBrowserTurn: the prompt of a turn is *)
(* put into a leased ChatGPT page, sent once per physical message (one for *)
(* an inline prompt, several for Bigger Context), and the page is read     *)
(* until the answer is complete.  The same record follows what ChatGPT     *)
(* really received, which the worker only ever sees through a page that    *)
(* may stop answering, be reconnected, or be taken away.                   *)
(*                                                                         *)
(* The terminal fence of a native turn is NativeTurn's, the tool-batch     *)
(* barrier TurnProgress's, the stage timers StageClock's.  Here a stage    *)
(* may time out at any moment, which is what those timers allow.           *)
(***************************************************************************)
EXTENDS Naturals, FiniteSets

CONSTANTS
    Parts,        \* physical messages of the largest transfer
    MaxRebinds,   \* MAX_CHATGPT_BROWSER_PAGE_REBINDS
    MaxFaults     \* MAX_CHATGPT_INTERNAL_OBSERVATION_FAULTS

ASSUME BrowserTurnAssumption ==
    /\ Parts \in Nat \ {0}
    /\ MaxRebinds \in Nat
    /\ MaxFaults \in Nat

VARIABLES
    run,      \* the worker: its phase, the part it is at, the error it carries
    page,     \* ChatGPT: messages received and answers given, per part
    conn,     \* browser connections: how many are open, is one owned, a dial
    press,    \* the Enter command that sends a part
    watch,    \* ChatGptSubmissionRejectionObserver
    usage,    \* the usage receipt of every part
    abort     \* the caller's signal: none, a cancellation, an accepted handoff

bturnVars == <<run, page, conn, press, watch, usage, abort>>

Part == 1..Parts
Receipt == {"none", "pending", "written"}

\* The run's own last part; a turn with one part is an inline prompt.
Final == run.part = run.parts
Received(p) == page[p].sent > 0
Step(ph) == [run EXCEPT !.phase = ph]
FailsWith(err) == [run EXCEPT !.phase = "catch", !.error = err]
\* turn.abortSignal: the caller's signal or the observer's rejection.
Aborted == abort # "no" \/ watch.stop
\* The page is read and written over the connection the turn owns.
Attached == conn.own

\* The observer hears a request only over the connection it was started on.
Heard == watch.on

\* A turn that sends several parts starts a new conversation, so it does not
\* reuse one; only a compaction may retry an attachment.
BTInit ==
    /\ \E n \in Part, reuse, compact \in BOOLEAN :
          /\ reuse => n = 1
          /\ run = [phase |-> "start", part |-> 1, parts |-> n, reuse |-> reuse,
                    compact |-> compact, error |-> "none", outcome |-> "none",
                    held |-> FALSE, rebinds |-> 0, faults |-> 0, retry |-> FALSE, missed |-> FALSE,
                    refresh |-> ~reuse /\ n = 1, back |-> "none", asking |-> FALSE]
    /\ page = [p \in Part |-> [sent |-> 0, reply |-> "none", refused |-> FALSE, alert |-> FALSE]]
    /\ conn = [open |-> 0, own |-> FALSE, dial |-> "none"]
    /\ press = "none"
    /\ watch = [gen |-> 0, on |-> FALSE, owned |-> FALSE, stream |-> FALSE,
                base |-> {}, checks |-> {}, found |-> "no", stop |-> FALSE]
    /\ usage = [p \in Part |-> "none"]
    /\ abort = "no"

----------------------------------------------------------------------------
(* Preparing the turn and getting its page.                                *)

\* The guards before the try block end the turn with nothing to release.
\* Then the prompt is compiled and held until finally releases it.
Prepare ==
    /\ run.phase = "start"
    /\ \/ /\ abort # "no"
          /\ run' = [run EXCEPT !.phase = "ended", !.outcome = "aborted"]
       \/ /\ abort = "no"
          /\ run' = [run EXCEPT !.phase = "limits", !.held = TRUE]
    /\ UNCHANGED <<page, conn, press, watch, usage, abort>>

\* Every physical message must fit the mode it is sent in, or nothing is sent.
CheckLimits ==
    /\ run.phase = "limits"
    /\ \/ Aborted /\ run' = FailsWith("abort") /\ UNCHANGED conn
       \/ run' = FailsWith("limits") /\ UNCHANGED conn
       \/ /\ ~Aborted
          /\ run' = Step("acquire")
          /\ conn' = [conn EXCEPT !.dial = "live"]
    /\ UNCHANGED <<page, press, watch, usage, abort>>

\* connectLauncherBrowserHost: a connection made after its stage or its caller
\* gave up is closed at once, where it was made.
DialAnswers ==
    /\ conn.dial # "none"
    /\ \/ /\ conn.dial = "live"
          /\ conn' = [open |-> conn.open + 1, own |-> TRUE, dial |-> "none"]
          /\ run' = IF run.phase = "acquire" THEN Step(IF run.reuse THEN "effort" ELSE "chat")
                    ELSE Step(run.back)
       \/ /\ conn.dial = "late"
          /\ conn' = [conn EXCEPT !.dial = "none"]
          /\ UNCHANGED run
    /\ UNCHANGED <<page, press, watch, usage, abort>>


\* The dial is refused, or the page it reaches has no usable viewport: in that
\* case the turn already owns the connection, and finally must close it.
DialFails ==
    /\ conn.dial # "none"
    /\ \/ conn' = [conn EXCEPT !.dial = "none"]
       \/ /\ conn.dial = "live"
          /\ conn' = [open |-> conn.open + 1, own |-> TRUE, dial |-> "none"]
    /\ run' = IF conn.dial = "live" THEN FailsWith("failed") ELSE run
    /\ UNCHANGED <<page, press, watch, usage, abort>>

\* The stage around a dial times out, or (only while rebinding) the caller
\* aborts: the turn goes on to its end while the dial is still under way.
GiveUpDial ==
    /\ run.phase \in {"acquire", "rebind"}
    /\ conn.dial = "live"
    /\ \/ run' = FailsWith("failed")
       \/ run.phase = "rebind" /\ Aborted /\ run' = FailsWith("abort")
    /\ conn' = [conn EXCEPT !.dial = "late"]
    /\ UNCHANGED <<page, press, watch, usage, abort>>

----------------------------------------------------------------------------
(* Preparing the page for one part.                                        *)

NewChat ==
    /\ run.phase = "chat"
    /\ run' = Step("effort")
    /\ UNCHANGED <<page, conn, press, watch, usage, abort>>

\* selectModelAndEffort, once before every part; then the baseline of turns
\* already on the page, which a later observation compares with.
SelectEffort ==
    /\ run.phase = "effort"
    /\ run' = [run EXCEPT !.phase = "attach", !.retry = run.compact /\ Final]
    /\ UNCHANGED <<page, conn, press, watch, usage, abort>>

\* The two retries are of the attachment only.
AttachPrompt ==
    /\ run.phase = "attach"
    /\ run' = [run EXCEPT !.phase = "files", !.retry = FALSE, !.refresh = FALSE]
    /\ UNCHANGED <<page, conn, press, watch, usage, abort>>

\* A failed attachment clears the composer.  Its text may already have gone to
\* ChatGPT: an editor that took a line break for Enter.
AttachSlips ==
    /\ run.phase = "attach"
    /\ \/ UNCHANGED <<page, watch>>
       \/ /\ page' = [page EXCEPT ![run.part].sent = @ + 1]
          /\ watch' = [watch EXCEPT !.owned = @ \/ Heard, !.stream = @ \/ Heard]
    /\ run' = Step("unattached")
    /\ UNCHANGED <<conn, press, usage, abort>>

\* attachPromptWithCompactionRetry: one more attachment, for a compaction only,
\* and only while none of its three looks at the page shows that the message was sent.
\* A page may show a message later than ChatGPT has it: missed (history) says so.
RetryAttachment ==
    /\ run.phase = "unattached"
    /\ \/ /\ run.retry
          /\ run' = [run EXCEPT !.phase = "attach", !.retry = FALSE, !.missed = @ \/ Received(run.part)]
       \/ /\ ~run.retry \/ Received(run.part)
          /\ run' = FailsWith("integrity")
    /\ UNCHANGED <<page, conn, press, watch, usage, abort>>

\* A connector ChatGPT has not loaded yet: one reload of the page, which starts
\* the new chat, the selection and the baseline again.
RefreshCatalog ==
    /\ run.phase = "attach"
    /\ run.refresh
    /\ run' = [run EXCEPT !.phase = "chat", !.refresh = FALSE]
    /\ UNCHANGED <<page, conn, press, watch, usage, abort>>

\* attachFiles, then onSendActivated: the observer forgets the part before and
\* watches the page of the connection in use; alerts now shown are not new.
SendButtonReady ==
    /\ run.phase = "files"
    /\ run' = Step("send")
    /\ watch' = [gen |-> watch.gen + 1, on |-> TRUE, owned |-> FALSE, stream |-> FALSE,
                 base |-> {p \in Part : page[p].alert}, checks |-> {}, found |-> "no",
                 stop |-> watch.stop]
    /\ UNCHANGED <<page, conn, press, usage, abort>>

----------------------------------------------------------------------------
(* Sending one part and proving that ChatGPT has it.                       *)

\* The one press of Enter for this part.
Press ==
    /\ run.phase = "send"
    /\ ~Aborted
    /\ press' = "pending"
    /\ run' = Step("accept")
    /\ UNCHANGED <<page, conn, watch, usage, abort>>

\* The page shows the new user turn (or the turn's own tool call arrived): the
\* part is accepted, and its receipt is written without being waited for.
Accept ==
    /\ run.phase = "accept"
    /\ Attached /\ ~Aborted
    /\ Received(run.part)
    /\ press' = "none"
    /\ usage' = [usage EXCEPT ![run.part] = "pending"]
    /\ run' = [run EXCEPT !.phase = "bind", !.rebinds = 0]
    /\ UNCHANGED <<page, conn, watch, abort>>

\* The assistant turn of this part is on the page.
BindAnswer ==
    /\ run.phase = "bind"
    /\ Attached /\ ~Aborted
    /\ page[run.part].reply # "none"
    /\ run' = [run EXCEPT !.phase = IF Final THEN "observe" ELSE "ack", !.rebinds = 0]
    /\ UNCHANGED <<page, conn, press, watch, usage, abort>>

\* A DOM probe does not answer: the connection is closed and the same page is
\* reached over a new one.  A keypress whose reply was pending is given up; only
\* what the page then shows counts, and Enter is not pressed again.
StartRebindPressingAgain ==
    /\ run.phase \in {"accept", "bind", "observe"}
    /\ Attached /\ ~Aborted
    /\ IF run.rebinds = MaxRebinds
         THEN /\ run' = FailsWith("failed")
              /\ UNCHANGED <<conn, press, watch>>
         ELSE /\ run' = [run EXCEPT !.phase = "rebind",
                                    !.back = IF run.phase = "accept" THEN "send" ELSE run.phase,
                                    !.rebinds = @ + 1]
              /\ conn' = [open |-> conn.open - 1, own |-> FALSE, dial |-> "live"]
              /\ press' = "none"
              /\ watch' = [watch EXCEPT !.on = FALSE, !.stream = FALSE]
    /\ UNCHANGED <<page, usage, abort>>
StartRebind ==
    /\ run.phase \in {"accept", "bind", "observe"}
    /\ Attached /\ ~Aborted
    /\ IF run.rebinds = MaxRebinds
         THEN /\ run' = FailsWith("failed")
              /\ UNCHANGED <<conn, press, watch>>
         ELSE \/ /\ run' = FailsWith("failed")      \* the old connection does not close
                 /\ UNCHANGED <<conn, press, watch>>
              \/ /\ run' = [run EXCEPT !.phase = "rebind", !.back = run.phase, !.rebinds = @ + 1]
                 /\ conn' = [open |-> conn.open - 1, own |-> FALSE, dial |-> "live"]
                 /\ press' = "none"
                 /\ watch' = [watch EXCEPT !.on = FALSE, !.stream = FALSE]
    /\ UNCHANGED <<page, usage, abort>>

----------------------------------------------------------------------------
(* Reading the answer.                                                     *)

\* failure(): the checks of this submission are awaited, then the page is asked
\* for a size alert that was not there before Send.  The observer listens to
\* the page of the connection it was started on.
ChecksSettled == watch.checks = {}
NewAlert == /\ watch.owned
            /\ watch.on
            /\ \E p \in Part : page[p].alert /\ p \notin watch.base
Rejection == watch.found = "rejected" \/ NewAlert

\* A staged part is acknowledged, and only then is the next one prepared.
Acknowledge ==
    /\ run.phase = "ack"
    /\ Attached /\ ~Aborted
    /\ \/ /\ page[run.part].reply = "done"
          /\ ChecksSettled
          /\ run' = IF Rejection THEN FailsWith("too_long")
                    ELSE [run EXCEPT !.phase = "effort", !.part = @ + 1]
       \/ /\ page[run.part].reply = "wrong"
          /\ run' = FailsWith("failed")
    /\ UNCHANGED <<page, conn, press, watch, usage, abort>>

\* ChatGPT asks whether its tool may run.  The launcher is told while the
\* question is open, and told again when it is not, whatever ended it.
AskApproval ==
    /\ run.phase = "observe"
    /\ Attached /\ ~Aborted
    /\ page[run.part].reply = "streaming"
    /\ run' = [run EXCEPT !.phase = "approve", !.asking = TRUE, !.faults = 0]
    /\ UNCHANGED <<page, conn, press, watch, usage, abort>>
CloseApprovalUnlessAborted ==
    /\ run.phase = "approve"
    /\ ~Aborted
    /\ run' \in {[run EXCEPT !.phase = "observe", !.asking = FALSE], [FailsWith("failed") EXCEPT !.asking = FALSE]}
    /\ UNCHANGED <<page, conn, press, watch, usage, abort>>
CloseApproval ==
    /\ run.phase = "approve"
    /\ \/ ~Aborted /\ run' = [run EXCEPT !.phase = "observe", !.asking = FALSE]
       \/ run' = [FailsWith(IF Aborted THEN "abort" ELSE "failed") EXCEPT !.asking = FALSE]
    /\ UNCHANGED <<page, conn, press, watch, usage, abort>>

\* A TypeError while the page was being read is this worker's own defect: the
\* read is tried again, a bounded number of times in a row.
ToleratesFault ==
    /\ run.phase = "observe"
    /\ Attached /\ ~Aborted
    /\ run' = IF run.faults = MaxFaults THEN FailsWith("failed") ELSE [run EXCEPT !.faults = @ + 1]
    /\ UNCHANGED <<page, conn, press, watch, usage, abort>>

\* The answer is complete, and no rejection of the submission is left unread.
Complete ==
    /\ run.phase = "observe"
    /\ Attached /\ ~Aborted
    /\ page[run.part].reply = "done"
    /\ ChecksSettled
    /\ run' = IF Rejection THEN FailsWith("too_long")
              ELSE [run EXCEPT !.phase = "finally", !.outcome = "completed"]
    /\ UNCHANGED <<page, conn, press, watch, usage, abort>>

\* Alerts, lost tabs, stage timeouts, a DOM that shows no further activity.
\* An attachment that times out is waited for, so it is not cut in the middle.
GivesUp ==
    /\ run.phase \in {"chat", "effort", "attach", "files", "send", "accept", "bind", "ack", "observe"}
    /\ run' \in {FailsWith("failed"), FailsWith("tab_closed")}
    /\ UNCHANGED <<page, conn, press, watch, usage, abort>>

\* Every wait of a stage ends with the turn's signal.
Interrupted ==
    /\ run.phase \in {"chat", "effort", "attach", "files", "send", "accept", "bind", "ack", "observe"}
    /\ Aborted
    /\ run' = FailsWith("abort")
    /\ UNCHANGED <<page, conn, press, watch, usage, abort>>

----------------------------------------------------------------------------
(* The end of the turn.                                                    *)

\* catch: the observer's rejection explains the turn's own abort, and is looked
\* for once more before any other failure is reported.
Catch ==
    LET named == watch.stop /\ abort = "no" /\ run.error # "tab_closed"
        other == run.error \notin {"abort", "tab_closed"}
    IN
    /\ run.phase = "catch"
    /\ (other /\ ~named) => ChecksSettled
    /\ run' = [run EXCEPT
           !.phase = "finally",
           !.outcome = IF named \/ (other /\ Rejection) THEN "too_long"
                       ELSE IF run.error = "abort" THEN IF abort = "handoff" THEN "handoff" ELSE "aborted"
                       ELSE run.error]
    /\ UNCHANGED <<page, conn, press, watch, usage, abort>>

\* finally: the observer stops, the receipts are drained, the prompt's lease and
\* the connection the turn owns are released.
Drained == \A p \in Part : usage[p] # "pending"
Finally ==
    /\ run.phase = "finally"
    /\ Drained
    /\ run' = [run EXCEPT !.phase = "ended", !.held = FALSE, !.rebinds = 0,
                          !.faults = 0, !.back = "none", !.error = "none"]
    /\ press' = "none"
    /\ conn' = [conn EXCEPT !.open = IF conn.own THEN @ - 1 ELSE @, !.own = FALSE]
    /\ watch' = [watch EXCEPT !.gen = @ + 1, !.on = FALSE, !.owned = FALSE, !.stream = FALSE,
                               !.checks = {}]
    /\ UNCHANGED <<page, usage, abort>>

\* The receipt reaches the launcher, or the failure to write it is only logged.
ReceiptSettles(p) ==
    /\ usage[p] = "pending"
    /\ usage' = [usage EXCEPT ![p] = "written"]
    /\ UNCHANGED <<run, page, conn, press, watch, abort>>

\* A response body the observer reads after its request ended.  What it says of
\* an earlier submission is dropped; a body it cannot read says nothing.
SettleCheck(c) ==
    /\ c \in watch.checks
    /\ \E readable \in BOOLEAN :
         watch' = [watch EXCEPT !.checks = @ \ {c},
                     !.found = IF readable /\ c.bad /\ c.gen = watch.gen THEN "rejected"
                               ELSE IF c.bad /\ @ = "no" THEN "unread" ELSE @,
                     !.stop = @ \/ (readable /\ c.bad /\ c.gen = watch.gen)]
    /\ UNCHANGED <<run, page, conn, press, usage, abort>>

----------------------------------------------------------------------------
(* ChatGPT and the caller.                                                 *)

Lands ==
    /\ press = "pending"
    /\ Attached
    /\ press' = "landed"
    /\ page' = [page EXCEPT ![run.part].sent = @ + 1]
    /\ watch' = IF Heard THEN [watch EXCEPT !.owned = TRUE, !.stream = TRUE] ELSE watch
    /\ UNCHANGED <<run, conn, usage, abort>>

PageAnswers ==
    /\ Received(run.part) /\ ~page[run.part].refused
    /\ page[run.part].reply = "none"
    /\ page' = [page EXCEPT ![run.part].reply = "streaming"]
    /\ UNCHANGED <<run, conn, press, watch, usage, abort>>

\* The stream ends; the observer reads its body if it still listens.
StreamEnds(bad) ==
    IF Heard /\ watch.stream
      THEN [watch EXCEPT !.stream = FALSE,
                         !.checks = @ \union {[gen |-> watch.gen, bad |-> bad]}]
      ELSE watch
AnswerEnds ==
    /\ page[run.part].reply = "streaming"
    /\ page' \in {[page EXCEPT ![run.part].reply = r] : r \in {"done", "wrong"}}
    /\ watch' = StreamEnds(FALSE)
    /\ UNCHANGED <<run, conn, press, usage, abort>>

\* The message is too long: the request is answered with the error, a page-level
\* alert is shown, or both; an error also replaces the bound answer.
Refuses ==
    /\ Received(run.part)
    /\ page[run.part].reply \in {"none", "streaming"} /\ ~page[run.part].refused
    /\ \E alert \in BOOLEAN :
         /\ page' = [page EXCEPT ![run.part].refused = TRUE, ![run.part].alert = alert]
         /\ watch' = StreamEnds(TRUE)
    /\ UNCHANGED <<run, conn, press, usage, abort>>

\* The turn's signal keeps its first reason: after the observer's rejection, a handoff is a
\* cancellation like any other.
CallerAborts(why) ==
    /\ abort = "no"
    /\ run.phase # "ended"
    /\ why = "handoff" => run.compact
    /\ abort' = IF watch.stop THEN "user" ELSE why
    /\ UNCHANGED <<run, page, conn, press, watch, usage>>

\* What the page shows after the turn's last look at it is of no consequence.
ChatGpt == /\ run.phase \notin {"finally", "ended"}
           /\ Lands \/ PageAnswers \/ AnswerEnds \/ Refuses
Worker ==
    \/ Prepare \/ CheckLimits \/ DialAnswers \/ DialFails \/ GiveUpDial
    \/ NewChat \/ SelectEffort \/ AttachPrompt \/ AttachSlips \/ RetryAttachment
    \/ RefreshCatalog \/ SendButtonReady \/ Press \/ Accept \/ BindAnswer
    \/ StartRebind \/ Acknowledge \/ AskApproval \/ CloseApproval \/ ToleratesFault
    \/ Complete \/ GivesUp \/ Interrupted \/ Catch \/ Finally
    \/ \E p \in Part : ReceiptSettles(p)
    \/ \E c \in watch.checks : SettleCheck(c)
BTNext == Worker \/ ChatGpt \/ \E why \in {"user", "handoff"} : CallerAborts(why)

BTSpec == BTInit /\ [][BTNext]_bturnVars

BTTypeOK ==
    /\ run.part \in Part /\ run.parts \in Part
    /\ \A p \in Part : page[p].reply \in {"none", "streaming", "done", "wrong"}
    /\ conn.open \in 0..2 /\ (conn.own => conn.open > 0)
    /\ press \in {"none", "pending", "landed"}
    /\ watch.checks \subseteq [gen : 0..watch.gen, bad : BOOLEAN]
    /\ usage \in [Part -> Receipt]

----------------------------------------------------------------------------
(* Properties.                                                             *)

\* A part of a prompt reaches ChatGPT at most once, and no part before the one
\* before it was acknowledged: through retried attachments, lost replies to the
\* keypress and reconnections (sendAttachedPrompt 3640-3668, 3854-3866).  The exception: a
\* message that slipped out of a failed attachment and that the page did not show in time.
SentOnceInOrder ==
    \A p \in Part :
        /\ ~run.missed => page[p].sent <= 1
        /\ (p > 1 /\ Received(p)) => page[p - 1].reply = "done"

\* A receipt is for a message ChatGPT has, and a turn that is over has no write
\* under way: its lease may be given to another turn (5166-5190, 5791-5793).
ReceiptsAreDrained ==
    /\ \A p \in Part : usage[p] # "none" => Received(p)
    /\ run.phase = "ended" => Drained
    /\ run.outcome = "completed" => \A p \in 1..run.parts : usage[p] # "none"

\* A turn that is over holds nothing: no connection, not even one that was made
\* after the turn gave up waiting for it, no prompt lease, no open question at
\* the launcher (connectLauncherBrowserHost 278-302, finally 5788-5806).
EndedHoldsNothing ==
    run.phase = "ended" =>
        /\ conn.open = 0 /\ ~run.held /\ ~run.asking /\ ~watch.on

\* A refusal ChatGPT reported on the page the observer was listening to, and
\* which could be read, is what the turn reports, whatever else ended it and even
\* when the page showed an answer; only the caller's own cancellation or a closed
\* tab says something else (failure 554-569, 5747-5748, 5761-5770).
RefusalIsNamed ==
    /\ run.phase = "finally" /\ run.outcome \in {"completed", "failed"}
    /\ page[run.part].refused /\ watch.owned /\ watch.on /\ ~run.missed
    => watch.found = "unread"

\* The turn in its tab is sound: types, parts sent once and in order, receipts that are
\* drained, an end that holds nothing, and a refusal reported as what it is.
BrowserTurnInv ==
    BTTypeOK /\ SentOnceInOrder /\ ReceiptsAreDrained /\ EndedHoldsNothing /\ RefusalIsNamed

\* A turn that was cancelled, or whose submission was refused, ends.
CancelledTurnEnds == Aborted ~> run.phase = "ended"
============================================================================
