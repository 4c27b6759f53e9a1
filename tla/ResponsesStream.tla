--------------------------- MODULE ResponsesStream ---------------------------
(***************************************************************************)
(* One Responses answer: responseRequest's detached adapter run feeding an *)
(* AsyncEventQueue (src/src/event-queue.ts), and bridgeToResponsesSSE or   *)
(* buildResponseJSON (src/src/bridge.ts) turning its events into output    *)
(* items and one ending. Only the event types this adapter emits are here: *)
(* no thinking_signature, redacted_thinking or reasoning_raw_delta, and    *)
(* done never stops at max_tokens. A content event is numbered by its      *)
(* place in what the adapter said; the payload is that number.             *)
(***************************************************************************)
EXTENDS Naturals, Sequences, SequencesExt

CONSTANTS MaxSaid,     \* events an adapter emits before its done or error
          MaxBuffered  \* 10 000 in the code

VARIABLES mode,       \* "turn", "compact" (compaction item) or "buffered" (stream: false)
          adapter,    \* the run: running, failing (it threw), over
          said,       \* what the adapter pushed, in order
          queue, queueClosed,
          bridge,     \* gated (frames unread), pulled (a step runs), over, cancelled
          current,    \* the open output item, or none
          items,      \* finishedItems, each the numbers of its content
          ending,     \* terminal frames emitted, in order
          marks,      \* data: [DONE] frames
          silent,     \* the stall budget has passed since the last event was taken
          remembered  \* the items onCompletedResponse was called with

streamVars == <<mode, adapter, said, queue, queueClosed, bridge, current, items, ending,
                marks, silent, remembered>>

Content == {"commentary", "final", "think", "call", "args"}
Events == Content \cup {"boundary", "callEnd", "heartbeat", "done", "error"}
NoItem == [kind |-> "none", of |-> <<>>]
Item == [kind: {"none", "commentary", "final", "think", "call", "compaction"}, of: Seq(1..MaxSaid)]

StreamTypeOK ==
    /\ mode \in {"turn", "compact", "buffered"}
    /\ adapter \in {"running", "failing", "over"}
    /\ queue \in Seq([type: Events, n: 0..MaxSaid]) /\ Len(queue) <= MaxBuffered
    /\ bridge \in {"gated", "pulled", "over", "cancelled"}
    /\ current \in Item /\ items \in Seq(Item)
    /\ ending \in Seq({"completed", "failed", "eof", "stalled", "rejected"})
    /\ marks \in Nat
    /\ queueClosed \in BOOLEAN /\ silent \in BOOLEAN

StreamInit ==
    /\ mode \in {"turn", "compact", "buffered"}
    /\ adapter = "running" /\ said = <<>>
    /\ queue = <<>> /\ queueClosed = FALSE
    /\ bridge = "gated" /\ current = NoItem /\ items = <<>>
    /\ ending = <<>> /\ marks = 0 /\ silent = FALSE
    /\ remembered = <<>>
-----------------------------------------------------------------------------
(* The adapter's run *)

Contents(s) == SelectSeq(s, LAMBDA e : e.n > 0)
\* Tool deltas and ends come between their start and the next item.
InCall == said # <<>> /\ Last(said).type \in {"call", "args"}

\* queue.push: dropped once the consumer closed the queue, an exception once it is full.
Push(e) == queue' = IF queueClosed THEN queue ELSE Append(queue, e)
Say(type) ==
    /\ adapter = "running"
    /\ type \in {"args", "callEnd"} <=> InCall
    /\ type # "done" => Len(said) < MaxSaid
    /\ LET e == [type |-> type, n |-> IF type \in Content THEN Len(Contents(said)) + 1 ELSE 0] IN
         IF ~queueClosed /\ Len(queue) = MaxBuffered
         THEN adapter' = "failing" /\ UNCHANGED <<said, queue, queueClosed>>
         ELSE /\ said' = Append(said, e)
              /\ Push(e)
              /\ adapter' = IF type = "done" THEN "over" ELSE adapter
              /\ queueClosed' = (queueClosed \/ type = "done")
    /\ UNCHANGED <<mode, bridge, current, items, ending, marks, silent, remembered>>

\* The turn fails, or its abort signal is seen.
Throw ==
    /\ adapter = "running"
    /\ adapter' = "failing"
    /\ UNCHANGED <<mode, said, queue, queueClosed, bridge, current, items, ending, marks,
                   silent, remembered>>

\* run()'s catch reports the failure, unless the full queue throws again; finally closes it.
FailRun ==
    LET e == [type |-> "error", n |-> 0] IN
    /\ adapter = "failing"
    /\ adapter' = "over" /\ queueClosed' = TRUE
    /\ IF queueClosed \/ Len(queue) < MaxBuffered
       THEN said' = Append(said, e) /\ Push(e)
       ELSE UNCHANGED <<said, queue>>
    /\ UNCHANGED <<mode, bridge, current, items, ending, marks, silent, remembered>>
-----------------------------------------------------------------------------
(* The streamed answer *)

Closed(i, list) == IF i = NoItem THEN list ELSE Append(list, i)
Finished == Closed(current, items)

\* The item an event leaves open; an event of the same kind goes on with the open one.
SameItem(type) == \/ type = "args"
                  \/ type # "call" /\ current.kind = type
Extended(e) == [kind |-> IF e.type = "args" THEN "call" ELSE e.type,
                of |-> IF SameItem(e.type) THEN Append(current.of, e.n) ELSE <<e.n>>]

EndedWith(e) == IF e.type = "done" THEN "completed" ELSE "failed"

\* emit of the terminal, onCancel, returnIterator, then [DONE] and close.
Terminate(list, how) ==
    /\ items' = list /\ current' = NoItem
    /\ ending' = Append(ending, how) /\ marks' = marks + 1
    /\ bridge' = "over" /\ queueClosed' = TRUE
    /\ remembered' = IF how = "completed" THEN list ELSE remembered

\* pull: the client has taken the last frame and a step begins.
Pull ==
    /\ mode # "buffered" /\ bridge = "gated"
    /\ bridge' = "pulled"
    /\ UNCHANGED <<mode, adapter, said, queue, queueClosed, current, items, ending, marks,
                   silent, remembered>>

\* A compaction keeps the summary to itself until the end.
TakeCompact(e) ==
    IF e.type \in {"done", "error"}
    THEN Terminate(IF e.type = "done" THEN <<[current EXCEPT !.kind = "compaction"]>> ELSE <<>>,
                   EndedWith(e))
    ELSE /\ current' = IF e.type \in {"commentary", "final"}
                       THEN [kind |-> "compaction", of |-> Append(current.of, e.n)] ELSE current
         /\ UNCHANGED <<items, ending, marks, bridge, queueClosed, remembered>>

\* The step goes on until a frame was emitted; boundaries with nothing open emit none.
TakeTurn(e) ==
    CASE e.type \in Content ->
           /\ items' = IF SameItem(e.type) THEN items ELSE Finished
           /\ current' = Extended(e) /\ bridge' = "gated"
           /\ UNCHANGED <<ending, marks, queueClosed, remembered>>
      [] e.type \in {"boundary", "callEnd"} ->
           /\ items' = Finished /\ current' = NoItem
           /\ bridge' = IF current = NoItem THEN bridge ELSE "gated"
           /\ UNCHANGED <<ending, marks, queueClosed, remembered>>
      [] e.type = "heartbeat" ->
           UNCHANGED <<items, current, bridge, ending, marks, queueClosed, remembered>>
      [] OTHER -> Terminate(Finished, EndedWith(e))

Take ==
    /\ mode # "buffered" /\ bridge = "pulled" /\ queue # <<>>
    /\ queue' = Tail(queue)
    /\ silent' = FALSE
    /\ IF mode = "compact" THEN TakeCompact(Head(queue)) ELSE TakeTurn(Head(queue))
    /\ UNCHANGED <<mode, adapter, said>>

\* The queue closed and gave no ending: incomplete, adapter_eof.
EndOfQueue ==
    /\ mode # "buffered" /\ bridge = "pulled" /\ queue = <<>> /\ queueClosed
    /\ Terminate(IF mode = "compact" THEN <<>> ELSE Finished, "eof")
    /\ UNCHANGED <<mode, adapter, said, queue, silent>>

BudgetPasses ==
    /\ mode # "buffered" /\ bridge \in {"gated", "pulled"} /\ ~silent
    /\ silent' = TRUE
    /\ UNCHANGED <<mode, adapter, said, queue, queueClosed, bridge, current, items, ending,
                   marks, remembered>>

\* The heartbeat interval: only a step that waits for the adapter can stall. Buffered events
\* are taken by the microtasks of the pull, before any timer.
NeverStalls == FALSE
Stalls == bridge = "pulled" /\ queue = <<>> /\ silent /\ ~queueClosed
Beat ==
    /\ mode # "buffered" /\ Stalls
    /\ Terminate(IF mode = "compact" THEN <<>> ELSE Finished, "stalled")
    /\ UNCHANGED <<mode, adapter, said, queue, silent>>

\* The client disconnects.
CancelStream ==
    /\ mode # "buffered" /\ bridge \in {"gated", "pulled"}
    /\ bridge' = "cancelled" /\ queueClosed' = TRUE
    /\ UNCHANGED <<mode, adapter, said, queue, current, items, ending, marks, silent, remembered>>
-----------------------------------------------------------------------------
(* The buffered answer: run() is awaited, then the whole queue is folded. *)

\* One event of buildResponseJSON's loop, over [items, current, ending].
Fold(e, acc) ==
    LET done == Closed(acc.current, acc.items)
        same == \/ e.type = "args"
                \/ e.type # "call" /\ acc.current.kind = e.type
    IN CASE e.type \in Content ->
              [acc EXCEPT !.items = IF same THEN @ ELSE done,
                 !.current = [kind |-> IF e.type = "args" THEN "call" ELSE e.type,
                              of |-> IF same THEN Append(@.of, e.n) ELSE <<e.n>>]]
         [] e.type \in {"boundary", "callEnd"} -> [acc EXCEPT !.items = done, !.current = NoItem]
         [] e.type = "error" -> [acc EXCEPT !.ending = "failed"]
         [] OTHER -> acc

Build ==
    /\ mode = "buffered" /\ bridge = "gated" /\ adapter = "over"
    /\ LET out == FoldLeft(LAMBDA acc, e : Fold(e, acc),
                           [items |-> <<>>, current |-> NoItem, ending |-> "completed"], queue)
           rejected == said = <<>> \/ Last(said).type \notin {"done", "error"}
       IN IF rejected
          THEN ending' = <<"rejected">> /\ UNCHANGED <<items, current, remembered>>
          ELSE /\ items' = Closed(out.current, out.items)
               /\ ending' = <<out.ending>> /\ current' = NoItem
               /\ remembered' = IF out.ending = "completed" THEN items' ELSE remembered
    /\ queue' = <<>> /\ bridge' = "over" /\ marks' = 1
    /\ UNCHANGED <<mode, adapter, said, queueClosed, silent>>

StreamNext ==
    \/ \E type \in Events \ {"error"} : Say(type)
    \/ Throw \/ FailRun \/ Pull \/ Take \/ EndOfQueue \/ BudgetPasses \/ Beat \/ CancelStream
    \/ Build

(* The abort signal reaches the adapter, which ends; the client reads; the interval runs on. *)
StreamRuns == FailRun \/ Take \/ EndOfQueue \/ Build \/ Pull \/ BudgetPasses \/ Beat
Aborted == queueClosed /\ Throw
-----------------------------------------------------------------------------
(* Every answer has exactly one ending. A completed answer holds, in order and in one item
   each, all the adapter said; it is remembered only then; and it is called stalled only when
   the adapter had nothing unread (bridge.ts:240, 614, 736). *)
Flat(list) == FlattenSeq([i \in 1..Len(list) |-> list[i].of])
Numbers(s) == [i \in 1..Len(Contents(s)) |-> Contents(s)[i].n]
Spoken == SelectSeq(said, LAMBDA e : e.type \in {"commentary", "final"})
NothingIsLost ==
    /\ StreamTypeOK
    /\ Len(ending) = marks /\ marks = (IF bridge = "over" THEN 1 ELSE 0)
    /\ ending = <<"completed">> =>
          /\ Last(said).type = "done"
          /\ Flat(items) = Numbers(IF mode = "compact" THEN Spoken ELSE said)
          /\ \A i \in 1..Len(items) : mode = "compact" \/ items[i].of # <<>>
    /\ remembered # <<>> => ending = <<"completed">> /\ remembered = items
    /\ ending = <<"stalled">> => queue = <<>> /\ silent

(* The answer ends, and the adapter's run with it, whatever the adapter does: it finishes,
   throws, overflows the queue or stays silent for the stall budget. *)
StreamEnds == (adapter # "running" \/ silent)
                 ~> (bridge \in {"over", "cancelled"} /\ adapter = "over")

(* One answer, whole or named as failed, and always at an end. *)
StreamHolds == []NothingIsLost /\ StreamEnds
=============================================================================
