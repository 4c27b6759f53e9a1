------------------------------ MODULE MCSessions ------------------------------
(* The sessions of ChatGPT turns and, side by side, the hand-off of a compaction.  focus
   names what moves: a steered turn or a compacted one of TurnSessions, with the requests
   of its own, or Compaction. *)
EXTENDS TurnSessions, Compaction, TLC

CONSTANTS r1, r2, r3, r4, r5, k1, k2, k3, o1, t1, c1, i1, i2, q1, q2, kk1, kk2, u1
VARIABLE focus

Req(key, owner, turn, conversation, instruction, predecessors, compacts) ==
    [key |-> key, owner |-> owner, turn |-> turn, conversation |-> conversation,
     instruction |-> instruction, predecessors |-> predecessors, compacts |-> compacts]

\* A turn, an instruction that steers it and the turn's reconnect; a turn without a
\* retained conversation, and its compaction.
First == Req(k1, o1, t1, c1, i1, {}, {})
Steer == Req(k2, o1, t1, c1, i2, {i1}, {})
Unretained == Req(k1, o1, t1, NoConversation, i1, {}, {})
Compact == Req(k3, o1, t1, NoConversation, i1, {}, {k1})
SessionInfo == r1 :> First @@ r2 :> Steer @@ r3 :> First
               @@ r4 :> Unretained @@ r5 :> Compact

KeyOfAsk == q1 :> kk1 @@ q2 :> kk2
TurnOfKey == kk1 :> u1 @@ kk2 :> u1

SumInit ==
    /\ focus \in {"steer", "compact", "hand-off"}
    /\ Init /\ CompactionInit
    /\ focus # "hand-off" => mode = "fresh" /\ source.out = "active"

Resting(requests) == \A r \in requests : pc'[r] = pc[r]
Steering == /\ focus = "steer" /\ Next /\ Resting({r4, r5}) /\ UNCHANGED cancels
            /\ UNCHANGED <<focus, compactionVars>>
Compacted == /\ focus = "compact" /\ Next /\ Resting({r1, r2, r3})
              /\ UNCHANGED <<focus, compactionVars>>
HandOff == focus = "hand-off" /\ CompactionNext /\ UNCHANGED <<focus, vars>>

\* The fairness of a steered turn is TurnSessions's; nothing is assumed of the other turns.
SumSpec ==
    /\ SumInit /\ [][Steering \/ Compacted \/ HandOff]_<<focus, vars, compactionVars>>
    /\ \A r \in {r1, r2, r3} : WF_vars(focus = "steer" /\ (RetireSource(r) \/ Acquire(r)))
    /\ \A s \in Session : WF_vars(s \in Sessions /\ BrowserUnwinds(s))
    /\ CompactionFairness
=============================================================================
