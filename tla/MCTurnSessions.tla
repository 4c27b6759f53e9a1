--------------------------- MODULE MCTurnSessions ---------------------------
(* A small instance of TurnSessions for TLC: a turn with a retained conversation, its
   compaction, and the next turn. *)
EXTENDS TurnSessions, TLC

CONSTANTS r1, r2, r3, k1, k2, k3, o1, t1, c1, i1, i2

Req(key, instruction, predecessors, compacts) ==
    [key |-> key, owner |-> o1, turn |-> t1, conversation |-> c1,
     instruction |-> instruction, predecessors |-> predecessors, compacts |-> compacts]

RetainedInfo == r1 :> Req(k1, i1, {}, {}) @@ r2 :> Req(k3, i1, {}, {k1})
                @@ r3 :> Req(k2, i2, {i1}, {})
=============================================================================
