---------------------------- MODULE ToolDelivery ----------------------------
(***************************************************************************)
(* What the turn broker promises about one invoke request of the MCP       *)
(* server, whatever turn it belongs to: it is offered to Codex only while  *)
(* unanswered, it is answered once, a result comes only from somebody it   *)
(* was offered to, and the compaction control answer is never given to a   *)
(* call that Codex may already be running.                                 *)
(***************************************************************************)
EXTENDS FiniteSets

CONSTANT Call
VARIABLE status

Init == status = [c \in Call |-> "unsent"]

Move(S, from, to) ==
    /\ S # {} /\ \A c \in S : status[c] \in from
    /\ status' = [c \in Call |-> IF c \in S THEN to ELSE status[c]]

Ask(c) == Move({c}, {"unsent"}, "queued")

\* The adapter is handed the calls it does not have yet.
Offer(S) == Move(S, {"queued"}, "offered")

Answer(c) == Move({c}, {"offered"}, "result")

\* Compaction answers calls nobody has seen with the control result.
Divert(S) == Move(S, {"unsent", "queued"}, "control")

\* The turn is gone.
Drop(S) == Move(S, {"queued", "offered"}, "rejected")

Change ==
    \/ \E c \in Call : Ask(c) \/ Answer(c)
    \/ \E S \in SUBSET Call : Offer(S) \/ Divert(S) \/ Drop(S)

\* A step that leaves every call where it is stutters.
Next == status' # status /\ Change

Spec == Init /\ [][Next]_status
=============================================================================
