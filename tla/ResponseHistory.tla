--------------------------- MODULE ResponseHistory ---------------------------
(***************************************************************************)
(* The previous_response_id store (src/src/responses/state.ts) and its use *)
(* by responseRequest: a map in insertion order, loaded once per process,  *)
(* pruned by age and by count, and written newest first by a debounced     *)
(* timer and by the flush of a graceful shutdown. The byte cap evicts the  *)
(* same prefix as the count cap and is folded into it.                     *)
(***************************************************************************)
EXTENDS Naturals, Sequences, SequencesExt

CONSTANTS Reply,      \* ids of responses
          Big,        \* those too large for the snapshot
          NoReply,
          MaxStored,  \* 1 000 entries in the code
          MaxOnDisk   \* 24 MiB in the code

VARIABLES store,    \* states: entries [id, items] in insertion order
          loaded, persistTimer,
          disk,     \* the snapshot
          expired,  \* ids older than the hour they are kept, oldest first
          inFlight, \* per id: the expanded input of a running turn, <<>> when there is none
          story,    \* history: per id, the whole conversation Codex means by it
          process,  \* up or down
          trouble   \* the last write failed

historyVars == <<store, loaded, persistTimer, disk, expired, inFlight, story, process, trouble>>

Ids(entries) == {entries[i].id : i \in 1..Len(entries)}
Entry(entries, id) == entries[CHOOSE i \in 1..Len(entries) : entries[i].id = id]

HistoryTypeOK ==
    /\ Len(store) <= MaxStored /\ Len(disk) <= MaxOnDisk
    /\ Ids(store) \subseteq Reply /\ Ids(disk) \subseteq Reply \ Big
    /\ loaded \in BOOLEAN /\ persistTimer \in BOOLEAN /\ trouble \in BOOLEAN
    /\ expired \subseteq Reply
    /\ inFlight \in [Reply -> Seq(Reply)] /\ story \in [Reply -> Seq(Reply)]
    /\ process \in {"up", "down"}

HistoryInit ==
    /\ store = <<>> /\ disk = <<>>
    /\ loaded = FALSE /\ persistTimer = FALSE /\ trouble = FALSE
    /\ expired = {}
    /\ inFlight = [id \in Reply |-> <<>>] /\ story = [id \in Reply |-> <<>>]
    /\ process = "up"

Newest(entries, n) == IF Len(entries) <= n THEN entries
                      ELSE SubSeq(entries, Len(entries) - n + 1, Len(entries))
PruneByAge(entries) == SelectSeq(entries, LAMBDA e : e.id \notin expired)
Prune(entries) == Newest(PruneByAge(entries), MaxStored)
\* ensureLoaded: the snapshot is read at the first use.
EnsureLoaded == IF loaded THEN store ELSE Prune(disk)
Persisted(entries) == Newest(SelectSeq(entries, LAMBDA e : e.id \notin Big), MaxOnDisk)

\* A request names its predecessor, or starts a conversation. Without the stored state of
\* the predecessor it is refused (409).
ExpandsOrRefuses(prev, entries) == prev = NoReply \/ prev \in Ids(entries)
Expanded(prev, id, entries) ==
    Append(IF prev \in Ids(entries) THEN Entry(entries, prev).items ELSE <<>>, id)

Continue(prev, id) ==
    LET entries == IF prev = NoReply THEN store ELSE Prune(EnsureLoaded) IN
    /\ process = "up" /\ story[id] = <<>>
    /\ prev # NoReply => story[prev] # <<>>
    /\ store' = entries /\ loaded' = (loaded \/ prev # NoReply)
    /\ IF ExpandsOrRefuses(prev, entries)
       THEN /\ inFlight' = [inFlight EXCEPT ![id] = Expanded(prev, id, entries)]
            /\ story' = [story EXCEPT ![id] = Append(IF prev = NoReply THEN <<>> ELSE story[prev], id)]
       ELSE UNCHANGED <<inFlight, story>>
    /\ UNCHANGED <<persistTimer, disk, expired, process, trouble>>

\* rememberResponseState of a completed turn.
RememberResponse(id) ==
    /\ process = "up" /\ inFlight[id] # <<>>
    /\ store' = Prune(Append(SelectSeq(EnsureLoaded, LAMBDA e : e.id # id),
                             [id |-> id, items |-> inFlight[id]]))
    /\ loaded' = TRUE /\ persistTimer' = TRUE
    /\ inFlight' = [inFlight EXCEPT ![id] = <<>>]
    /\ UNCHANGED <<disk, expired, story, process, trouble>>

\* A turn that failed or was truncated is no replay history.
Forget(id) ==
    /\ process = "up" /\ inFlight[id] # <<>>
    /\ inFlight' = [inFlight EXCEPT ![id] = <<>>]
    /\ UNCHANGED <<store, loaded, persistTimer, disk, expired, story, process, trouble>>

\* persistNow; a failing disk is swallowed and the snapshot stays as it was.
Write == \/ disk' = Persisted(store) /\ trouble' = FALSE
         \/ disk' = disk /\ trouble' = TRUE
Persist ==
    /\ process = "up" /\ persistTimer
    /\ persistTimer' = FALSE /\ Write
    /\ UNCHANGED <<store, loaded, expired, inFlight, story, process>>

\* An hour passes for the oldest completed response.
Age(id) ==
    /\ id \in Ids(store) \cup Ids(disk) /\ id \notin expired
    /\ \A entries \in {store, disk} : id \in Ids(entries) => Ids(PruneByAge(entries)) # {}
                                            /\ PruneByAge(entries)[1].id = id
    /\ expired' = expired \cup {id}
    /\ UNCHANGED <<store, loaded, persistTimer, disk, inFlight, story, process, trouble>>

Halt == /\ process' = "down" /\ store' = <<>> /\ loaded' = FALSE /\ persistTimer' = FALSE
        /\ inFlight' = [id \in Reply |-> <<>>]

\* The daemon stops: the pending write is flushed.
NoFlush == UNCHANGED <<disk, trouble>>
Flush == IF persistTimer THEN Write ELSE UNCHANGED <<disk, trouble>>
StopDaemon ==
    /\ process = "up"
    /\ Flush /\ Halt
    /\ UNCHANGED <<expired, story>>

CrashDaemon ==
    /\ process = "up"
    /\ Halt
    /\ UNCHANGED <<disk, expired, story, trouble>>

StartDaemon ==
    /\ process = "down"
    /\ process' = "up"
    /\ UNCHANGED <<store, loaded, persistTimer, disk, expired, inFlight, story, trouble>>

HistoryNext ==
    \/ \E id \in Reply : RememberResponse(id) \/ Forget(id) \/ Age(id)
    \/ \E id \in Reply, prev \in Reply \cup {NoReply} : Continue(prev, id)
    \/ Persist \/ StopDaemon \/ CrashDaemon \/ StartDaemon
-----------------------------------------------------------------------------
(* No eviction, crash or restart lets a turn run with part of its conversation: each running
   turn and each kept response holds all Codex means by its id. And what is not yet on disk is
   what the timer is about to write, or what the caps leave out (state.ts:136, 171, 180). *)
FullContext ==
    /\ HistoryTypeOK
    /\ \A id \in Reply : inFlight[id] \in {<<>>, story[id]}
    /\ \A entries \in {store, disk} : \A i \in 1..Len(entries) :
          entries[i].items = story[entries[i].id]
    /\ process = "up" /\ ~persistTimer /\ ~trouble
          => Ids(Persisted(store)) \subseteq Ids(disk)

(* A graceful stop loses no response that may be kept. *)
StopKeepsHistory ==
    [][StopDaemon => trouble' \/ Ids(Persisted(store)) \subseteq Ids(disk')]_historyVars

(* The history is whole or refused, and a graceful stop keeps it. *)
HistoryHolds == []FullContext /\ StopKeepsHistory
=============================================================================
