-------------------------- MODULE RollingCheckpoint --------------------------
(***************************************************************************)
(* Luna's rolling checkpoint (rolling-checkpoint.ts, the finishing of a     *)
(* browser turn in browser-worker.ts and its use in index.ts).  A Luna      *)
(* answer ends with a private marker and a summary of the task so far.  The *)
(* daemon cuts the summary off the visible answer, stores it under the      *)
(* thread and the hash of that answer, and gives the next turn the summary  *)
(* of its exact parent in the place of the history before it.               *)
(*                                                                          *)
(* Tokens stand for runs of characters: "t" text, "m1" "m2" the two halves  *)
(* of the marker, "c" the summary.  The marker may be cut by any snapshot   *)
(* of the page.  An instruction is named by its number; what a browser      *)
(* turn was told is a ghost of the model, the code keeps no such set.       *)
(***************************************************************************)
EXTENDS Naturals, Sequences, FiniteSets, SequencesExt, FiniteSetsExt

CONSTANTS AnswerText,    \* what an answer may say: equal texts have equal hashes
          Page,          \* what ChatGPT may write: sequences of tokens
          MAX_TASK_TURNS, MAX_SAID, \* turn ids and instructions Codex may spend
          MAX_STORED,    \* MAX_STORED_CHECKPOINTS
          MAX_MISHAPS    \* restarts, damages, expiries and aborted turns together

ASSUME CheckpointBounds == {MAX_TASK_TURNS, MAX_SAID, MAX_STORED, MAX_MISHAPS} \subseteq Nat
\* The summary is what follows the marker.
ASSUME PageTokens ==
  \A p \in Page :
    /\ p \in Seq({"t", "m1", "m2", "c"})
    /\ \A i \in 1 .. Len(p) : p[i] = "c" => \E j \in 1 .. i - 2 : p[j] = "m1" /\ p[j + 1] = "m2"

NoTurn == [none |-> TRUE]
Marker == <<"m1", "m2">>
\* VISIBLE_MARKER_RESERVE_CHARS, in tokens
RESERVE == Len(Marker)

VARIABLES past,    \* the native history: instructions and answers, with their turns
          turns,   \* turn ids spent
          said,    \* instructions spent
          live,    \* the browser turn of the current request
          pend, shown, cut, \* ChatGptLunaCheckpointStream: pending, visibleAnswer, markerSeen
          memory,  \* checkpoints, oldest first
          saved,   \* luna-checkpoints.json
          loaded,
          costs,   \* ghost: requests lost to a damaged file since the daemon started
          mishaps

rcVars == <<past, turns, said, live, pend, shown, cut, memory, saved, loaded, costs, mishaps>>
streamVars == <<pend, shown, cut>>
storeVars  == <<memory, saved, loaded>>

Says(x)   == x.k = "user"
Answered(x) == x.k = "answer"
Told(h)   == {h[i].id : i \in {j \in 1 .. Len(h) : Says(h[j])}}

(***************************************************************************)
(* The store                                                                *)
(***************************************************************************)
\* prune: the expired ones, which are the oldest, and then what exceeds the limit.
PruneStore(m) == LET expired == Cardinality({i \in DOMAIN m : m[i].old}) IN
                 SubSeq(m, Max({expired, Len(m) - MAX_STORED}) + 1, Len(m))

\* load: the flag is set before the file is read, so a damaged file is an error once.
Load == IF loaded THEN [ok |-> TRUE, mem |-> memory]
        ELSE IF saved.damaged THEN [ok |-> FALSE, mem |-> << >>]
        ELSE [ok |-> TRUE, mem |-> PruneStore(saved.list)]
SetsLoaded == loaded' = TRUE

\* One checkpoint for each answer: a new one takes the last place.
Commit(c) == LET older == {i \in DOMAIN Load.mem : Load.mem[i].text = c.text}
                 others == IF older = {} THEN Load.mem
                           ELSE RemoveAt(Load.mem, CHOOSE i \in older : TRUE) IN
             PruneStore(Append(others, c))

(***************************************************************************)
(* apply: the checkpoint of the exact parent, or the full history           *)
(***************************************************************************)
\* The turn boundary: the prefix the daemon replayed itself, or the first item of the turn.
LastAnswer(h) == Max({0} \cup {i \in 1 .. Len(h) : Answered(h[i])})
FirstOfTurn(h, t) == CHOOSE i \in 1 .. Len(h) : h[i].turn = t /\ \A j \in 1 .. i - 1 : h[j].turn # t
Boundary(h, t, replayed) == IF replayed THEN LastAnswer(h) + 1 ELSE FirstOfTurn(h, t)

Parent(h, b) == LET answers == {i \in 1 .. b - 1 : Answered(h[i])} IN
                IF answers = {} THEN NoTurn ELSE h[Max(answers)]
\* Mutant: the turn of the checkpoint is not compared with the parent's.
StoredByText(m, p) == {c \in Range(m) : c.text = p.text}
Stored(m, p) == {c \in Range(m) : c.text = p.text /\ c.turn = p.turn}

\* Codex replays the history of this turn, or names the response the daemon answered last.
Apply ==
  /\ live = NoTurn /\ past # << >> /\ Says(Last(past))
  /\ \E replayed \in BOOLEAN :
       /\ replayed => LastAnswer(past) > 0
       /\ \E b \in {Boundary(past, Last(past).turn, replayed)} :
          \E p \in {Parent(past, b)} :
            IF p = NoTurn
            THEN /\ live' = [turn |-> Last(past).turn, told |-> Told(past), parent |-> NoTurn, page |-> << >>, read |-> 0]
                 /\ UNCHANGED <<storeVars, costs>>
            ELSE /\ SetsLoaded /\ UNCHANGED saved
                 /\ memory' = PruneStore(Load.mem)
                 /\ costs' = IF Load.ok THEN costs ELSE costs + 1
                 /\ live' = IF ~Load.ok THEN NoTurn
                            ELSE [turn |-> Last(past).turn, parent |-> p, page |-> << >>, read |-> 0,
                                  told |-> LET found == Stored(PruneStore(Load.mem), p) IN
                                           IF found = {} THEN Told(past)
                                           ELSE (CHOOSE c \in found : TRUE).covers \cup Told(SubSeq(past, b, Len(past)))]
  /\ pend' = << >> /\ shown' = << >> /\ cut' = FALSE
  /\ UNCHANGED <<past, turns, said, mishaps>>

(***************************************************************************)
(* The answer as the browser reads it                                       *)
(***************************************************************************)
Write == /\ live # NoTurn /\ live.page = << >>
         /\ \E p \in Page : live' = [live EXCEPT !.page = p]
         /\ UNCHANGED <<past, turns, said, streamVars, storeVars, costs, mishaps>>

At(s, sub) == {i \in 1 .. Len(s) : i + Len(sub) - 1 <= Len(s) /\ SubSeq(s, i, i + Len(sub) - 1) = sub}

Emits(s) == IF Len(s) <= RESERVE THEN 0 ELSE Len(s) - RESERVE

Push == /\ live # NoTurn
        /\ \E n \in live.read + 1 .. Len(live.page) :
             LET delta == SubSeq(live.page, live.read + 1, n)
                 all   == pend \o delta
                 marks == At(all, Marker) IN
             /\ live' = [live EXCEPT !.read = n]
             /\ IF cut THEN UNCHANGED streamVars
                ELSE IF marks # {}
                THEN /\ cut' = TRUE /\ pend' = << >>
                     /\ shown' = shown \o SubSeq(all, 1, Min(marks) - 1)
                ELSE /\ cut' = FALSE
                     /\ shown' = shown \o SubSeq(all, 1, Emits(all))
                     /\ pend' = SubSeq(all, Emits(all) + 1, Len(all))
        /\ UNCHANGED <<past, turns, said, storeVars, costs, mishaps>>

\* finishOptional: no marker keeps the full history, a present one must be the only one.
Whole(p) == IF ~cut THEN shown \o pend ELSE shown
CompletePage(p) == /\ Whole(p) # << >>
                   /\ cut => Cardinality(At(p, Marker)) = 1 /\ Last(p) = "c"
\* Two different answers never share a hash; one answer keeps its text.
Finish ==
  /\ live # NoTurn /\ live.page # << >> /\ live.read = Len(live.page)
  /\ \E text \in AnswerText :
       LET ok == CompletePage(live.page)
           c  == [text |-> text, turn |-> live.turn, covers |-> live.told, old |-> FALSE]
           lost == ok /\ cut /\ ~Load.ok IN
       /\ past' = IF ok /\ ~lost THEN Append(past, [k |-> "answer", turn |-> live.turn, text |-> text, id |-> 0]) ELSE past
       /\ IF ok /\ cut
          THEN /\ SetsLoaded
               /\ IF Load.ok THEN memory' = Commit(c) /\ saved' = [damaged |-> FALSE, list |-> Commit(c)]
                             ELSE memory' = << >> /\ UNCHANGED saved
          ELSE UNCHANGED storeVars
       /\ costs' = IF lost THEN costs + 1 ELSE costs
  /\ shown' = Whole(live.page) /\ pend' = << >> /\ live' = NoTurn
  /\ UNCHANGED <<turns, said, cut, mishaps>>

(***************************************************************************)
(* Native Codex and the machine                                             *)
(***************************************************************************)
Told1(k, t) == [k |-> k, turn |-> t, text |-> "", id |-> said + 1]
StartTurn == /\ live = NoTurn /\ turns < MAX_TASK_TURNS /\ said < MAX_SAID
             /\ turns' = turns + 1 /\ said' = said + 1
             /\ past' = Append(past, Told1("user", turns + 1))
             /\ UNCHANGED <<live, streamVars, storeVars, costs, mishaps>>
SteerTask == /\ live = NoTurn /\ said < MAX_SAID /\ past # << >> /\ Last(past).turn = turns
             /\ said' = said + 1
             /\ past' = Append(past, Told1("user", turns))
             /\ UNCHANGED <<turns, live, streamVars, storeVars, costs, mishaps>>
\* The user drops the last turns, whole; turn ids are not used twice.
Rollback == /\ live = NoTurn
            /\ \E i \in 1 .. Len(past) - 1 : /\ Answered(past[i]) /\ past[i].turn # past[i + 1].turn
                                            /\ past' = SubSeq(past, 1, i)
            /\ UNCHANGED <<turns, said, live, streamVars, storeVars, costs, mishaps>>

Mishap == mishaps < MAX_MISHAPS /\ mishaps' = mishaps + 1
AbortTurn == /\ Mishap /\ live # NoTurn /\ live' = NoTurn
             /\ UNCHANGED <<past, turns, said, streamVars, storeVars, costs>>
RestartRuntime == /\ Mishap /\ live' = NoTurn /\ loaded' = FALSE /\ memory' = << >> /\ costs' = 0
                  /\ \E d \in BOOLEAN : saved' = IF d THEN [damaged |-> TRUE, list |-> << >>] ELSE saved
                  /\ UNCHANGED <<past, turns, said, streamVars>>
AgeOut == /\ Mishap /\ LET aged(m) == [i \in DOMAIN m |-> [m[i] EXCEPT !.old = TRUE]] IN
                       /\ memory' = aged(memory)
                       /\ saved' = [saved EXCEPT !.list = aged(@)]
          /\ UNCHANGED <<past, turns, said, live, streamVars, loaded, costs>>

RCInit == /\ past = << >> /\ turns = 0 /\ said = 0 /\ live = NoTurn
          /\ pend = << >> /\ shown = << >> /\ cut = FALSE
          /\ memory = << >> /\ saved = [damaged |-> FALSE, list |-> << >>] /\ loaded = FALSE /\ costs = 0 /\ mishaps = 0
RCNext == \/ Apply \/ Write \/ Push \/ Finish \/ StartTurn \/ SteerTask \/ Rollback
          \/ AbortTurn \/ RestartRuntime \/ AgeOut

RCSpec == RCInit /\ [][RCNext]_rcVars

(***************************************************************************)
(* Properties                                                               *)
(***************************************************************************)
\* A browser turn is told, in full or through the summary it is given, every instruction of the
\* history it answers and nothing of another branch, whatever was answered in equal words, rolled
\* back, pruned or restarted in between.  Two exceptions are of the code's making: a turn that
\* answers twice in the same words and leaves the marker out the second time, and a turn that
\* ended without an answer: apply looks past it for the parent, and cuts it off with the rest.
SaidTwice == \E i, j \in 1 .. Len(past) : i < j /\ Answered(past[i]) /\ past[i] = past[j]
LeftUnanswered == \E i \in 1 .. Len(past) - 1 : Says(past[i]) /\ Says(past[i + 1]) /\ past[i].turn # past[i + 1].turn
NothingForgotten ==
  live # NoTurn /\ ~LeftUnanswered /\ ~SaidTwice => live.told = Told(past)

\* The same without the second exception: the checkpoint replaces only the history of the exact
\* parent, as the store's test says, so what was said after that answer is still told.
OnlyParentHistoryReplaced ==
  live # NoTurn /\ live.parent # NoTurn =>
    \E i \in 1 .. Len(past) : past[i] = live.parent /\ Told(SubSeq(past, i, Len(past))) \subseteq live.told

\* Besides, nothing private is shown: neither the marker nor the summary is part of the visible answer,
\* wherever the snapshots of the page cut it; and a damaged store costs one request of a
\* daemon's life, not every Luna request until somebody repairs the file.
CheckpointInv ==
  /\ NothingForgotten
  /\ \A i \in 1 .. Len(shown) : shown[i] # "c"
  /\ At(shown, Marker) = {}
  /\ costs <= 1
=============================================================================
