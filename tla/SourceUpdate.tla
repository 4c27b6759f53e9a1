----------------------------- MODULE SourceUpdate -----------------------------
(***************************************************************************)
(* The update of a launcher that runs from its Git checkout: merge upstream *)
(* into master, test, commit and push.  Two programs do it: the launcher's  *)
(* own controller (source-update.cjs) and scripts/update-upstream.cjs, which*)
(* first commits or stashes the user's work, holds the lock around the      *)
(* whole and runs the same controller inside.  The lock is a file created   *)
(* with O_EXCL; the lock of a dead process is taken over                    *)
(* (source-update-safety.cjs).                                              *)
(*                                                                          *)
(* Every process may be killed at any step (MAX_KILLS); a killed one leaves *)
(* its lock, its saved documents and its merge behind.                      *)
(***************************************************************************)
EXTENDS Naturals, FiniteSets

CONSTANTS Updater,        \* updating processes
          ScriptUpdater,  \* those that are scripts/update-upstream.cjs
          LocalDoc,       \* untracked README and other documents of the user
          MAX_UPSTREAM,   \* upstream commits
          MAX_KILLS, MAX_SETBACKS, \* killed processes; failing commands
          TakeoverGap     \* may another process run between comparing a stale lock and removing it

ASSUME SourceBounds == /\ {MAX_UPSTREAM, MAX_KILLS, MAX_SETBACKS} \subseteq Nat
                       /\ TakeoverGap \in BOOLEAN /\ ScriptUpdater \subseteq Updater
                       /\ Updater \cap {"free", "empty", "dead", "tree", "orphan"} = {}

VARIABLES lock,     \* teeho-source-update.lock: free, empty, dead, or whose pid it holds
          run,      \* every process: how far, what it remembers
          repo,     \* upstream commits merged, MERGE_HEAD (0: none), origin
          upstream, \* commits of upstream/main
          work,     \* the user's tracked changes: none, tree, stash or commit
          docs,     \* every document: in the tree, saved by a process, or orphan
          kills, setbacks,
          spoiled   \* ghost: an abort, a restore or the applying of a stash failed

suVars == <<lock, run, repo, upstream, work, docs, kills, setbacks, spoiled>>

Asleep == [pc |-> "idle", target |-> 0, saved |-> {}, merging |-> FALSE, committed |-> FALSE,
           backup |-> FALSE, failed |-> FALSE, stash |-> FALSE]
Script(u) == u \in ScriptUpdater
MovesTo(u, pc) == run' = [run EXCEPT ![u].pc = pc]
Setback   == setbacks < MAX_SETBACKS /\ setbacks' = setbacks + 1 /\ UNCHANGED spoiled
Spoils    == setbacks < MAX_SETBACKS /\ setbacks' = setbacks + 1 /\ spoiled' = TRUE
Fine      == UNCHANGED <<setbacks, spoiled>>
\* assertGitReady; assertClean; the owner's pid answers no signal.
GitReady  == repo.merge = 0
CleanTree == GitReady /\ work # "tree"
Stale(l)  == l = "dead"
\* A throw inside update(): to its catch clause.
Throw(u)  == run' = [run EXCEPT ![u].pc = "catch", ![u].failed = TRUE]

(***************************************************************************)
(* acquireUpdateLock                                                        *)
(***************************************************************************)
BeginUpdate(u) == /\ run[u].pc = "idle"
                  /\ MovesTo(u, "open")
                  /\ UNCHANGED <<lock, repo, upstream, work, docs, kills, setbacks, spoiled>>

Open(u) == /\ run[u].pc \in {"open", "reopen"}
           /\ IF lock = "free" THEN lock' = "empty" /\ MovesTo(u, "write")
              ELSE UNCHANGED lock /\ MovesTo(u, IF run[u].pc = "open" THEN "read" ELSE "idle")
           /\ UNCHANGED <<repo, upstream, work, docs, kills, setbacks, spoiled>>
\* A lock without a readable pid, or with a live one, is another updater's.
ReadLock(u) == /\ run[u].pc = "read"
               /\ MovesTo(u, IF Stale(lock) THEN "compare" ELSE "idle")
               /\ UNCHANGED <<lock, repo, upstream, work, docs, kills, setbacks, spoiled>>
Compare(u) == /\ run[u].pc = "compare"
              /\ IF ~Stale(lock) THEN UNCHANGED lock /\ MovesTo(u, "reopen")
                 ELSE IF TakeoverGap THEN UNCHANGED lock /\ MovesTo(u, "unlink")
                 ELSE lock' = "free" /\ MovesTo(u, "reopen")
              /\ UNCHANGED <<repo, upstream, work, docs, kills, setbacks, spoiled>>
\* unlinkSync takes whatever file has the name.
Unlink(u) == /\ run[u].pc = "unlink"
             /\ lock' = "free" /\ MovesTo(u, "reopen")
             /\ UNCHANGED <<repo, upstream, work, docs, kills, setbacks, spoiled>>
WriteLock(u) == /\ run[u].pc = "write"
                /\ \/ lock' = u /\ MovesTo(u, IF Script(u) THEN "prepare" ELSE "assert") /\ Fine
                   \/ lock' = "free" /\ MovesTo(u, "idle") /\ Setback
                /\ UNCHANGED <<repo, upstream, work, docs, kills>>

(***************************************************************************)
(* update-upstream.cjs: the user's tracked changes                          *)
(***************************************************************************)
\* assertReady: no merge in progress.  With changes the user commits, stashes or cancels.
Prepare(u) ==
  /\ run[u].pc = "prepare"
  /\ \/ ~GitReady /\ MovesTo(u, "unlock") /\ UNCHANGED work
     \/ CleanTree /\ MovesTo(u, "assert") /\ UNCHANGED work
     \/ GitReady /\ ~CleanTree
        /\ \/ work' = "commit" /\ MovesTo(u, "assert")
           \/ work' = "stash" /\ run' = [run EXCEPT ![u].pc = "assert", ![u].stash = TRUE]
           \/ MovesTo(u, "unlock") /\ UNCHANGED work
  /\ UNCHANGED <<lock, repo, upstream, docs, kills, setbacks, spoiled>>

\* The finally clause applies the stash it made, unless a merge is still in progress; the
\* stash itself is kept.
ApplyStash(u) ==
  /\ run[u].pc = "stash"
  /\ \/ run[u].stash /\ GitReady /\ work = "stash" /\ work' = "tree" /\ Fine
     \/ run[u].stash /\ GitReady /\ Spoils /\ UNCHANGED work
     \/ (~run[u].stash \/ ~GitReady \/ work # "stash") /\ UNCHANGED work /\ Fine
  /\ MovesTo(u, "unlock")
  /\ UNCHANGED <<lock, repo, upstream, docs, kills>>

\* releaseLock, by name.
Unlock(u) == /\ run[u].pc = "unlock"
             /\ lock' = "free" /\ run' = [run EXCEPT ![u] = [Asleep EXCEPT !.failed = run[u].failed]]
             /\ UNCHANGED <<repo, upstream, work, docs, kills, setbacks, spoiled>>

(***************************************************************************)
(* update()                                                                 *)
(***************************************************************************)
\* assertRepository, assertClean, fetchCandidate, assertClean, the identities.  Nothing to
\* merge is an answer, not an error.
Inspect(u) ==
  /\ run[u].pc = "assert"
  /\ \/ /\ CleanTree /\ Fine
        /\ IF upstream = repo.merged THEN MovesTo(u, IF Script(u) THEN "push" ELSE "finally")
           ELSE run' = [run EXCEPT ![u].pc = "docs", ![u].target = upstream]
     \/ ~CleanTree /\ Throw(u) /\ Fine
     \/ Throw(u) /\ Setback
  /\ UNCHANGED <<lock, repo, upstream, work, docs, kills>>

\* preserveLocalDocumentation: rename by rename; a failure puts the moved ones back.
SaveDoc(u) ==
  /\ run[u].pc = "docs"
  /\ \/ \E d \in LocalDoc : /\ docs[d] = "tree"
                            /\ docs' = [docs EXCEPT ![d] = u]
                            /\ run' = [run EXCEPT ![u].saved = @ \cup {d}] /\ Fine
     \/ /\ \A d \in LocalDoc : docs[d] # "tree"
        /\ MovesTo(u, "obstruct") /\ Fine /\ UNCHANGED docs
     \/ Throw(u) /\ Setback /\ UNCHANGED docs
  /\ UNCHANGED <<lock, repo, upstream, work, kills>>

\* assertNoLocalObstructions: a file of the user's stands where the merge would write.
Obstruct(u) ==
  /\ run[u].pc = "obstruct"
  /\ \/ MovesTo(u, "merge") /\ Fine
     \/ Throw(u) /\ Setback
  /\ UNCHANGED <<lock, repo, upstream, work, docs, kills>>

\* The backup branch, then git merge --no-commit.  A merge that does not start, or has
\* nothing to merge, leaves no MERGE_HEAD; one with conflicts does.  Another's MERGE_HEAD is
\* taken for its own.
Merge(u) ==
  /\ run[u].pc = "merge"
  /\ \/ /\ GitReady
        /\ IF run[u].target > repo.merged THEN Setback ELSE Fine
        /\ run' = [run EXCEPT ![u].pc = "catch", ![u].failed = TRUE, ![u].backup = TRUE]
        /\ UNCHANGED repo
     \/ /\ ~GitReady \/ run[u].target > repo.merged
        /\ repo' = [repo EXCEPT !.merge = IF GitReady THEN run[u].target ELSE @]
        /\ \E next \in {"resolve", "verify"} :
             run' = [run EXCEPT ![u].pc = next, ![u].merging = TRUE, ![u].backup = TRUE]
        /\ Fine
  /\ UNCHANGED <<lock, upstream, work, docs, kills>>

\* resolveMergeConflicts: the user takes the local or the upstream side of every file, or
\* cancels; the launcher has nobody to ask and a conflict ends its update.
Resolve(u) ==
  /\ run[u].pc = "resolve"
  /\ \/ Script(u) /\ MovesTo(u, "verify")
     \/ Throw(u)
  /\ UNCHANGED <<lock, repo, upstream, work, docs, kills, setbacks, spoiled>>

\* The protected features are still there, bun install, typecheck and the tests pass.
VerifySource(u) ==
  /\ run[u].pc = "verify"
  /\ \/ MovesTo(u, "commit") /\ Fine
     \/ Throw(u) /\ Setback
  /\ UNCHANGED <<lock, repo, upstream, work, docs, kills>>

\* What is committed is MERGE_HEAD, which must have brought the commit that was selected.
CommitMerge(u) ==
  /\ run[u].pc = "commit"
  /\ \/ /\ ~GitReady /\ Fine
        /\ repo' = [repo EXCEPT !.merge = 0, !.merged = repo.merge]
        /\ run' = [run EXCEPT ![u].merging = FALSE, ![u].committed = TRUE,
                              ![u].pc = IF run[u].target <= repo.merge THEN "push" ELSE "catch",
                              ![u].failed = run[u].target > repo.merge]
     \/ GitReady /\ Throw(u) /\ Fine /\ UNCHANGED repo
     \/ Throw(u) /\ Setback /\ UNCHANGED repo
  /\ UNCHANGED <<lock, upstream, work, docs, kills>>

\* A refused push leaves the commits.
PushOrigin(u) ==
  /\ run[u].pc = "push"
  /\ \/ repo' = [repo EXCEPT !.origin = repo.merged] /\ MovesTo(u, "finally") /\ Fine
     \/ UNCHANGED repo /\ Throw(u) /\ Setback
  /\ UNCHANGED <<lock, upstream, work, docs, kills>>

CatchAfterTheReset(u) ==
  /\ run[u].pc = "catch"
  /\ MovesTo(u, "finally") /\ Fine
  /\ UNCHANGED <<lock, repo, upstream, work, docs, kills>>

\* catch: a merge this run started is aborted; the abort may fail too.
Catch(u) ==
  /\ run[u].pc = "catch"
  /\ IF run[u].merging /\ ~run[u].committed /\ run[u].backup /\ ~GitReady
     THEN \/ repo' = [repo EXCEPT !.merge = 0] /\ Fine
          \/ UNCHANGED repo /\ Spoils
     ELSE UNCHANGED repo /\ Fine
  /\ MovesTo(u, "finally")
  /\ UNCHANGED <<lock, upstream, work, docs, kills>>

\* finally: every saved document back in its place, then the lock.  One that cannot go
\* back stays in the saved directory.
Finally(u) ==
  /\ run[u].pc = "finally"
  /\ \/ \E d \in run[u].saved :
          /\ run' = [run EXCEPT ![u].saved = @ \ {d}]
          /\ \/ docs' = [docs EXCEPT ![d] = "tree"] /\ Fine
             \/ docs' = [docs EXCEPT ![d] = "orphan"] /\ Spoils
     \/ /\ run[u].saved = {}
        /\ MovesTo(u, IF Script(u) THEN "stash" ELSE "unlock") /\ Fine /\ UNCHANGED docs
  /\ UNCHANGED <<lock, repo, upstream, work, kills>>

UpdaterStep(u) == \/ Open(u) \/ ReadLock(u) \/ Compare(u) \/ Unlink(u) \/ WriteLock(u)
                  \/ Prepare(u) \/ Inspect(u) \/ SaveDoc(u) \/ Obstruct(u) \/ Merge(u) \/ Resolve(u)
                  \/ VerifySource(u) \/ CommitMerge(u) \/ PushOrigin(u) \/ Catch(u) \/ Finally(u) \/ ApplyStash(u) \/ Unlock(u)

(***************************************************************************)
(* External                                                                 *)
(***************************************************************************)
Killed(u) ==
  /\ run[u].pc # "idle" /\ kills < MAX_KILLS
  /\ kills' = kills + 1
  /\ lock' = IF lock = u THEN "dead" ELSE lock
  /\ docs' = [d \in LocalDoc |-> IF docs[d] = u THEN "orphan" ELSE docs[d]]
  /\ run' = [run EXCEPT ![u] = Asleep]
  /\ UNCHANGED <<repo, upstream, work, setbacks, spoiled>>

\* The user clears up by hand what the message names, edits, and upstream moves.
UserAborts == /\ ~GitReady /\ \A u \in Updater : run[u].pc = "idle"
              /\ repo' = [repo EXCEPT !.merge = 0]
              /\ UNCHANGED <<lock, run, upstream, work, docs, kills, setbacks, spoiled>>
UserEdits == /\ work = "none" /\ \A u \in Updater : run[u].pc = "idle"
             /\ work' = "tree"
             /\ UNCHANGED <<lock, run, repo, upstream, docs, kills, setbacks, spoiled>>
UpstreamMoves == /\ upstream < MAX_UPSTREAM
                 /\ upstream' = upstream + 1
                 /\ UNCHANGED <<lock, run, repo, work, docs, kills, setbacks, spoiled>>

SUInit ==
  /\ lock = "free"
  /\ run = [u \in Updater |-> Asleep]
  /\ repo = [merged |-> 0, merge |-> 0, origin |-> 0]
  /\ upstream = 0 /\ work = "none"
  /\ docs = [d \in LocalDoc |-> "tree"]
  /\ kills = 0 /\ setbacks = 0 /\ spoiled = FALSE

Advance == \E u \in Updater : UpdaterStep(u)
SUNext == \/ Advance \/ UserAborts \/ UserEdits \/ UpstreamMoves
          \/ \E u \in Updater : BeginUpdate(u) \/ Killed(u)

SUSpec == SUInit /\ [][SUNext]_suVars

(***************************************************************************)
(* Properties                                                               *)
(***************************************************************************)
SUTypeOK == /\ lock \in {"free", "empty", "dead"} \cup Updater
            /\ repo.merged <= upstream /\ repo.origin <= repo.merged
            /\ ~GitReady => repo.merged < repo.merge /\ repo.merge <= upstream
            /\ work \in {"none", "tree", "stash", "commit"}

Resting == \A u \in Updater : run[u].pc = "idle"

\* An update that ends, however it ends, leaves the checkout as usable as it found it: no
\* merge in progress, the user's documents and changes back, the lock gone.  Only a killed
\* process, an abort that failed and a restore that failed may leave something.
CheckoutIsWhole ==
  Resting /\ kills = 0 =>
     /\ lock = "free"
     /\ ~spoiled => GitReady /\ work # "stash" /\ \A d \in LocalDoc : docs[d] = "tree"

\* The checkout is sound: types, and nothing of an ended update left in it.
SourceInv == SUTypeOK /\ CheckoutIsWhole

\* docs/UPSTREAM_UPDATE_WORKFLOW.md: a lock of its own keeps two updaters from updating at
\* once.
Updating(u) == run[u].pc \in 
  {"prepare", "assert", "docs", "obstruct", "merge", "resolve", "verify", "commit", "push", "catch", "finally", "stash"}
OneUpdater == \A u, v \in Updater : Updating(u) /\ Updating(v) => u = v
=============================================================================
