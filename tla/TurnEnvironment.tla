--------------------------- MODULE TurnEnvironment ---------------------------
(***************************************************************************)
(* Where a turn's working directory and permissions come from               *)
(* (environment.ts, thread-environment.ts, codex-rollout-environment.ts,    *)
(* compaction-continuation.ts).  Native Codex sends its environment only    *)
(* when a task starts or the environment changes.  The daemon reads it from *)
(* the replayed history, from the rollout file Codex keeps beside, or from  *)
(* its own store, and must never run a turn under another turn's authority. *)
(*                                                                          *)
(* An authority is a record [cwd, roots, extra, policy, net].  An item of   *)
(* the history carries the turn it is attributed to (0 when that Codex      *)
(* writes no attribution) and, as a ghost, the turn it was written in.  The *)
(* text of an environment item is determined by its style and by the        *)
(* authority of the turn it was written in.  Codex rewrites nothing inside  *)
(* a turn; a user who types environment markup is not modelled.             *)
(***************************************************************************)
EXTENDS Naturals, Sequences, FiniteSets, SequencesExt

CONSTANTS Authority,    \* the authorities a task can run under
          Version,      \* what the installed Codex writes (see Codex below)
          MAX_TURNS,    \* turns of the task
          MAX_ITEMS,    \* items the history may hold
          MAX_FAULTS    \* restarts, damaged stores and expiries together

ASSUME EnvironmentBounds == MAX_TURNS \in Nat \ {0} /\ MAX_ITEMS \in Nat /\ MAX_FAULTS \in Nat

NoDir   == "no_dir"
Refused == [ok |-> FALSE]
Nothing == [none |-> TRUE]
Threads == {"task", "child"}
Turns   == 1 .. MAX_TURNS

VARIABLES codex,    \* the version of Codex at the other end, chosen once
          auths,    \* the authority of every turn so far
          hist,     \* the input Codex replays with every request
          answered, \* the current turn has model output
          file,     \* the rollout: latest complete turn_context, and its state
          kept,     \* checkpoints this daemon returned, by turn
          store,    \* thread-environments.json: the map in memory and the file
          used,     \* what the last request was answered with, by thread
          skipped,  \* history: a turn that changed the authority was interrupted unanswered
          faults

envVars == <<codex, auths, hist, answered, file, kept, store, used, skipped, faults>>

currentTurn   == Len(auths)
native == auths[currentTurn]

(***************************************************************************)
(* The history and its readers                                              *)
(***************************************************************************)
Item(k, own, born, style) == [k |-> k, own |-> own, born |-> born, style |-> style]
Tagged(t)     == IF codex.tagged THEN t ELSE 0
Fragment(x)   == x.k = "env"
Instruction(x) == x.k \in {"say", "more", "goal"}
Output(x)     == x.k = "out"
Summary(x)    == x.k \in {"sum", "blob"}
\* The second compaction protocol stores the daemon's checkpoint as an item, the first as a message.
Blob(x)       == x.k = "blob" \/ (codex.v2 /\ x.k = "sum")
\* Developer items and summaries are stepped over on the way to a preamble.
Wrapper(x, canonical) == x.k = "dev" \/ (canonical /\ Summary(x) /\ ~Blob(x))

Active(h) == SelectLastInSeq(h, Instruction)
OutputIn(h, i, j) == \E n \in i .. j : Output(h[n])

Cwd(x)    == IF x.style \in {"roots", "date"} THEN NoDir ELSE auths[x.born].cwd
Stated(x) == x.style = "legacy"
\* A rendered envelope lists its project roots, and the output directories of some versions.
Roots(x)  == auths[x.born].roots \cup (IF codex.lists THEN auths[x.born].extra ELSE {})
Writable(policy, roots) == IF policy = "read" THEN {} ELSE roots
ClaimOf(x) == [cwd |-> Cwd(x), roots |-> Roots(x), policy |-> auths[x.born].policy, stated |-> Stated(x),
               net |-> Stated(x) /\ auths[x.born].net]
\* environmentPaths refuses a fragment that names neither a cwd nor its roots.
Readable(x) == x.style # "date" \/ codex.repeats
Envelope(i) == [at |-> i]
NoText      == [at |-> 0]

\* The canonical metadata of the request is Codex's own account of the current turn.
SandboxMatches(x) == IF codex.platform /\ native.policy # "full" THEN auths[x.born].policy # "full"
                     ELSE auths[x.born].policy = native.policy
Workspaces == IF codex.git THEN {native.cwd} ELSE {}

Preamble(h, i, canonical) ==
  CHOOSE j \in 0 .. i - 1 : /\ j > 0 => ~Wrapper(h[j], canonical)
                            /\ \A n \in j + 1 .. i - 1 : Wrapper(h[n], canonical)

EnvironmentBeforeUser(h, i, expected) ==
  LET j == Preamble(h, i, FALSE) IN
  /\ i > 1 /\ Instruction(h[i]) /\ h[i].own # 0 /\ (expected # 0 => h[i].own = expected)
  /\ j > 0 /\ Fragment(h[j]) /\ \A n \in j .. i - 1 : h[n].own = h[i].own

MatchesMetadata(x, bound) ==
  /\ Readable(x)
  /\ (Cwd(x) # NoDir /\ Workspaces # {}) => Cwd(x) \in Workspaces
  /\ bound => Workspaces # {} /\ Roots(x) \subseteq Workspaces
  /\ SandboxMatches(x)

CanonicalBefore(h, i, t, bound) ==
  LET j == Preamble(h, i, TRUE) IN
  i > 1 /\ j > 0 /\ Fragment(h[j]) /\ (\A n \in j .. i - 1 : h[n].own \in {0, t}) /\ MatchesMetadata(h[j], bound)

CanonicalBeforeUser(h, i, t, bound) == i > 1 /\ Instruction(h[i]) /\ h[i].own \in {0, t} /\ CanonicalBefore(h, i, t, bound)

CurrentContext(h, t) == \E i \in 1 .. Len(h) : /\ Fragment(h[i])
                                               /\ \/ h[i].own = t
                                                  \/ (h[i].own = 0 /\ ~\E n \in i .. Len(h) : Output(h[n]) \/ Blob(h[n]))

(***************************************************************************)
(* Checkpoints this daemon returned                                         *)
(***************************************************************************)
Revision(x) == <<x.k, x.born>>

Accepted(h, t) == /\ kept[t] # Nothing
                  /\ LET i == SelectLastInSeq(h, Summary) IN
                     i > 0 /\ h[i].k = "sum" /\ h[i].own \in {0, t} /\ kept[t].gen = h[i].style
Recovered(h, t) == IF Accepted(h, t) THEN SelectLastInSeq(h, Summary) ELSE 0
AcceptedContinuation(h, t, x) == Accepted(h, t) /\ Revision(x) \in kept[t].sources

\* latestChatGptTurnUserRevision: the newest instruction, or the one the checkpoint saved
LatestRevision(h, t) ==
  LET i == Active(h) IN
  IF i = 0 THEN IF Accepted(h, t) THEN kept[t].source ELSE Nothing
  ELSE IF Accepted(h, t) /\ kept[t].synthetic /\ i < Recovered(h, t) /\ AcceptedContinuation(h, t, h[i])
       THEN kept[t].source ELSE h[i]

CompactionContinuation(h, t) ==
  LET x == LatestRevision(h, t) IN
  x # Nothing /\ x.own # 0 /\ IF x.own = t THEN Accepted(h, t) ELSE AcceptedContinuation(h, t, x)

(***************************************************************************)
(* rawEnvironmentText: the places of the history an envelope may stand      *)
(***************************************************************************)
Anchor(h, t) == LET a == Active(h) IN IF a > 0 THEN a ELSE Recovered(h, t)
Superseded(h, t) == LET a == Anchor(h, t) IN \E i \in a + 1 .. Len(h) : Fragment(h[i]) /\ h[i].own \in {0, t}

\* A skill item follows the instruction: the pair before it, unless output was crossed.
SameTurn(h, t, i) == /\ h[i].own = t \/ ~OutputIn(h, i, Active(h) - 1)
                     /\ CanonicalBeforeUser(h, i, t, TRUE)

Historical(h, t, i) ==
  /\ h[i].own \notin {0, t}
  /\ h[Active(h)].own = t
  /\ EnvironmentBeforeUser(h, i, 0)
  /\ OutputIn(h, i + 1, Active(h)) \/ CanonicalBeforeUser(h, i, h[i].own, TRUE)

\* The pairs of the part that previous_response_id restored, whatever stands between.
Replayed(h, p) == {i \in 2 .. p : EnvironmentBeforeUser(h, i, 0)}

Latest(S) == CHOOSE i \in S : \A j \in S : j <= i

EnvelopeOf(h, i, canonical) == Envelope(Preamble(h, i, canonical))

\* Mutant: the restored part is read before what the current turn says of itself.
RawTextReplayedFirst(h, t, p) ==
  IF Replayed(h, p) # {} THEN EnvelopeOf(h, Latest(Replayed(h, p)), FALSE)
  ELSE IF EnvironmentBeforeUser(h, Active(h), t) THEN EnvelopeOf(h, Active(h), FALSE) ELSE NoText

RawText(h, t, p) ==
  LET a == Active(h)
      same == {i \in 2 .. a - 1 : SameTurn(h, t, i)}
      old  == {i \in 2 .. a - 1 : Historical(h, t, i)} IN
  IF Superseded(h, t) THEN NoText
  ELSE IF a > 0 /\ EnvironmentBeforeUser(h, a, t) THEN EnvelopeOf(h, a, FALSE)
  ELSE IF a = 0 /\ Accepted(h, t) /\ CanonicalBefore(h, Recovered(h, t), t, FALSE) THEN EnvelopeOf(h, Recovered(h, t), TRUE)
  ELSE IF a > 0 /\ CanonicalBeforeUser(h, a, t, FALSE) THEN EnvelopeOf(h, a, TRUE)
  ELSE IF same # {} THEN EnvelopeOf(h, Latest(same), TRUE)
  ELSE IF CurrentContext(h, t) THEN NoText
  ELSE IF Replayed(h, p) # {} THEN EnvelopeOf(h, Latest(Replayed(h, p)), FALSE)
  ELSE IF old # {} THEN EnvelopeOf(h, Latest(old), FALSE) ELSE NoText

(***************************************************************************)
(* The claims that only the rollout can turn into authority                 *)
(***************************************************************************)
ClaimsOf(h, t) == {i \in 1 .. Len(h) : Fragment(h[i]) /\ h[i].own \in {0, t}}
NoClaim == [none |-> TRUE]

\* Mutant: the midnight fragment is recognised only after the model has answered.
DeltaAfterOutput(h, t, after) ==
  LET later == {i \in after + 1 .. Len(h) : Fragment(h[i])} IN
  /\ after > 0 /\ h[after].own = t /\ later # {} /\ OutputIn(h, after, Len(h))
  /\ \A i \in later : h[i].own = t /\ h[i].style = "date" /\ SandboxMatches(h[i])

Delta(h, t, after) == \* extractChatGptCalendarEnvironmentDelta
  LET later == {i \in after + 1 .. Len(h) : Fragment(h[i])} IN
  /\ after > 0 /\ h[after].own = t /\ later # {}
  /\ \A i \in later : h[i].own = t /\ h[i].style = "date" /\ SandboxMatches(h[i])

ContinuationClaim(h, t) ==
  LET own == {i \in 1 .. Len(h) : Fragment(h[i]) /\ h[i].own = t}
      first == CHOOSE i \in own : \A j \in own : i <= j IN
  IF own = {} \/ (Cardinality(own) > 1 /\ ~Delta(h, t, first)) THEN NoClaim ELSE ClaimOf(h[first])

SteeringClaim(h, t) ==
  LET c == ClaimsOf(h, t)
      i == CHOOSE j \in c : TRUE
      a == Active(h) IN
  IF /\ Cardinality(c) = 1 /\ h[i].own = t
     /\ a > 0 /\ h[a].own = t
     /\ \E j \in i + 1 .. a - 1 : EnvironmentBeforeUser(h, j, t) /\ Readable(h[i])
  THEN ClaimOf(h[i]) ELSE NoClaim

NativeCompaction(h, t) ==
  LET c == ClaimsOf(h, t)
      i == CHOOSE j \in c : TRUE
      blobs == {j \in 1 .. Len(h) : Blob(h[j])} IN
  IF /\ Cardinality(c) = 1 /\ h[i].own = t /\ Cardinality(blobs) = 1 /\ Active(h) > 0 /\ h[Active(h)].own = t
     /\ \A j \in blobs : i < j /\ j < Active(h)
  THEN ClaimOf(h[i]) ELSE NoClaim

\* Unattributed fragments: history only if the rollout holds each before this task began.
Unattributed(h, t) == {i \in 1 .. Len(h) : Fragment(h[i]) /\ h[i].own \in {0, t}} # {}
                      /\ \A i \in ClaimsOf(h, t) : h[i].own = 0
BeforeTask(h, t)   == \A i \in ClaimsOf(h, t) : h[i].born < t

(***************************************************************************)
(* The rollout                                                              *)
(***************************************************************************)
OwnsRollout == codex.ids /\ file.at > 0
\* A partial last line is passed over: the context before it is the latest complete one.
LatestContext == file.at
RolloutRoots(t) == IF codex.declares THEN auths[t].roots ELSE {auths[t].cwd}
RolloutAuthority(t) ==
  [cwd |-> auths[t].cwd, roots |-> RolloutRoots(t), policy |-> auths[t].policy,
   net |-> auths[t].net, writable |-> CASE auths[t].policy = "full"  -> RolloutRoots(t)
                                        [] auths[t].policy = "write" -> {auths[t].cwd} \cup auths[t].roots \cup auths[t].extra
                                        [] OTHER -> {}]
MetadataConsistent(t) ==
  /\ IF codex.platform /\ native.policy # "full" THEN auths[t].policy # "full" ELSE auths[t].policy = native.policy
  /\ Workspaces # {} => auths[t].cwd \in Workspaces

Conflicts(claim, right) ==
  \/ claim.cwd \notin {NoDir, right.cwd}
  \/ right.policy # "full" /\ right.cwd \notin claim.roots
  \/ ~(right.roots \subseteq claim.roots)
  \/ ~(claim.roots \subseteq right.roots \cup right.writable)
  \/ ~(Writable(claim.policy, claim.roots) \subseteq right.writable)
  \/ claim.policy # right.policy
  \/ claim.policy # "full" /\ claim.stated /\ claim.net # right.net

\* Full Access keeps every declared native project.
Merged(claim, right) ==
  IF /\ claim # NoClaim /\ right.policy = "full" /\ claim.policy = "full"
     /\ claim.cwd \in {NoDir, right.cwd} /\ right.cwd \in claim.roots
     /\ codex.declares => right.roots \subseteq claim.roots
  THEN [right EXCEPT !.roots = IF codex.declares THEN @ \cup claim.roots ELSE claim.roots,
                     !.writable = IF codex.declares THEN right.roots \cup claim.roots ELSE claim.roots]
  ELSE right

Given(a) == [ok |-> TRUE, auth |-> a]

(***************************************************************************)
(* ChatGptThreadEnvironmentStore                                            *)
(***************************************************************************)
NoEntries == [d \in Threads |-> Nothing]
Usable(m)  == [d \in Threads |-> IF m[d] # Nothing /\ m[d].old THEN Nothing ELSE m[d]]
\* load: an unreadable file is an error until verified authority lets it be moved aside.
Loads(verified) == CASE store.loaded             -> store.mem
                     [] store.disk = "none"       -> NoEntries
                     [] store.disk = "garbled"    -> IF verified THEN NoEntries ELSE Refused
                     [] store.disk = "unfamiliar" -> Refused
                     [] OTHER                     -> Usable(store.saved)

Remember(d, a) == IF codex.homes > 1 THEN [ok |-> TRUE, store |-> store]
                  ELSE IF Loads(TRUE) = Refused THEN Refused
                  ELSE LET m == [Loads(TRUE) EXCEPT ![d] = [auth |-> a, old |-> FALSE]] IN
                       [ok |-> TRUE, store |-> [loaded |-> TRUE, mem |-> m, disk |-> "whole", saved |-> m,
                          aside |-> store.aside \/ (~store.loaded /\ store.disk = "garbled")]]

\* The answer of resolve before the store is written: [ok, auth, d, write]
Cached(d) == LET m == Loads(FALSE) IN
             IF m = Refused \/ m[d] = Nothing \/ m[d].old THEN Refused ELSE Given(m[d].auth)

(***************************************************************************)
(* resolve                                                                  *)
(***************************************************************************)
FromText(x) == LET c == ClaimOf(x) IN
  [cwd |-> c.cwd, roots |-> c.roots, policy |-> c.policy, net |-> c.net, writable |-> Writable(c.policy, c.roots)]

\* A readable envelope that states everything is authority of a single home at once.
CompleteTurn(x) == /\ Cwd(x) # NoDir /\ Cwd(x) \in Roots(x) /\ codex.homes = 1
                   /\ auths[x.born].policy # "full" => Stated(x)

\* What a request carries: an envelope at once readable, a claim, or nothing it can name.
Reading(h, t, raw) ==
  LET initial == IF raw # NoText /\ Readable(h[raw.at]) THEN ClaimOf(h[raw.at]) ELSE NoClaim
      current == CurrentContext(h, t)
      ours    == current /\ CompactionContinuation(h, t)
      steer   == IF current /\ ~ours THEN SteeringClaim(h, t) ELSE NoClaim
      delta   == current /\ ~ours /\ Delta(h, t, Active(h))
      old     == current /\ ~ours /\ initial = NoClaim /\ Unattributed(h, t)
      blob    == IF current /\ ~ours /\ initial = NoClaim /\ steer = NoClaim /\ ~delta
                 THEN NativeCompaction(h, t) ELSE NoClaim
      claims  == SelectSeq(<<initial, IF ours THEN ContinuationClaim(h, t) ELSE NoClaim, steer, blob>>,
                           LAMBDA c : c # NoClaim) IN
  [text       |-> IF initial # NoClaim /\ CompleteTurn(h[raw.at]) THEN FromText(h[raw.at]) ELSE NoClaim,
   claim      |-> IF claims = << >> THEN NoClaim ELSE claims[1],
   historical |-> old,
   delta      |-> delta \/ ours,
   named      |-> current => old \/ delta \/ claims # << >>]

RightOf(claim) == IF OwnsRollout THEN Merged(claim, RolloutAuthority(LatestContext)) ELSE NoClaim

FromRollout(h, t, compact, q, right) ==
  IF /\ LatestContext = t \/ (compact /\ LatestContext = LatestRevision(h, t).own)
     /\ MetadataConsistent(LatestContext)
     /\ q.historical => BeforeTask(h, t)
     /\ q.delta => \A i \in ClaimsOf(h, t) : h[i].style = "date" =>
                     /\ auths[h[i].born].policy = right.policy
                     /\ codex.repeats => Roots(h[i]) = right.roots
     /\ q.claim # NoClaim => ~Conflicts(q.claim, right)
  THEN Given(right) ELSE Refused

Resolve(h, t, compact, q, right) ==
  IF q.text # NoClaim THEN Given(q.text)
  ELSE IF ~q.named \/ (compact /\ LatestRevision(h, t) = Nothing) THEN Refused
  ELSE IF OwnsRollout THEN FromRollout(h, t, compact, q, right)
  ELSE IF codex.homes > 1 \/ (\E i \in 1 .. Len(h) : Fragment(h[i])) THEN Refused
  ELSE Cached("task")

\* A native child: its own entry, or its trusted parent's.
Inherited == IF codex.homes > 1 THEN Refused
             ELSE IF Cached("child").ok THEN Cached("child")
             ELSE IF Cached("task").ok /\ Cached("task").auth.policy = native.policy
                     /\ (Workspaces # {} => Cached("task").auth.cwd \in Workspaces)
                     /\ Workspaces \subseteq Cached("task").auth.roots
                  THEN Cached("task") ELSE Refused

(***************************************************************************)
(* Steps of native Codex                                                    *)
(***************************************************************************)
EnvInit == /\ codex \in Version /\ auths = << >> /\ hist = << >> /\ answered = TRUE
           /\ file = [at |-> 0, torn |-> FALSE]
           /\ kept = [t \in Turns |-> Nothing]
           /\ store = [loaded |-> FALSE, mem |-> NoEntries, disk |-> "none", saved |-> NoEntries, aside |-> FALSE]
           /\ used = [d \in Threads |-> Nothing] /\ skipped = FALSE /\ faults = 0

\* A native step ends the answer of the request before it.
Asked == used' = [d \in Threads |-> Nothing]
Room(n) == Len(hist) + n <= MAX_ITEMS

\* A turn starts: the preamble only when something changed, its instruction, its turn_context.
\* A bare follow-up leaves out the history, to the model that answered the turn before.
Begin ==
  /\ answered /\ currentTurn < MAX_TURNS
  /\ \E a \in Authority, gap \in BOOLEAN, bare \in BOOLEAN, k \in {"say", "goal"}, torn \in BOOLEAN :
       LET new == currentTurn > 0 => a # native
           put(x, there) == IF there THEN <<Item(x, Tagged(currentTurn + 1), currentTurn + 1, IF x = "env" THEN codex.style ELSE "")>>
                            ELSE << >> IN
       /\ bare => hist # << >> /\ Last(hist).style = "ours"
       /\ gap => new
       /\ torn => currentTurn > 0
       /\ auths' = Append(auths, a)
       /\ hist' = (IF bare THEN << >> ELSE hist) \o put("env", new) \o put("dev", gap) \o put(k, TRUE)
       /\ Len(hist') <= MAX_ITEMS
       /\ file' = IF ~codex.ids THEN file
                  ELSE IF torn THEN [file EXCEPT !.torn = TRUE] ELSE [at |-> currentTurn + 1, torn |-> FALSE]
  /\ answered' = FALSE /\ Asked
  /\ UNCHANGED <<codex, skipped, kept, store, faults>>

Flush == /\ file.torn /\ file' = [at |-> currentTurn, torn |-> FALSE]
         /\ Asked /\ UNCHANGED <<codex, skipped, auths, hist, answered, kept, store, faults>>

\* The daemon's model answers the request it accepted; another model may answer instead.
Answer == /\ currentTurn > 0 /\ Room(1) /\ ~answered /\ answered' = TRUE
          /\ \E by \in {"ours", "other"} :
               /\ by = "ours" => used["task"] # Nothing /\ used["task"].ok
               /\ hist' = Append(hist, Item("out", Tagged(currentTurn), currentTurn, by))
          /\ Asked /\ UNCHANGED <<codex, skipped, auths, file, kept, store, faults>>

\* The envelope of an interrupted turn follows an older one and no answer follows it.
PassedOver == \E i, j \in 1 .. Len(hist) : /\ i < j /\ Fragment(hist[i]) /\ Fragment(hist[j])
                                            /\ hist[j].born = currentTurn /\ hist[j].style # "date"

\* Bound of the model: only a turn that another follows, for which alone the end matters.
Interrupt == /\ currentTurn \in 1 .. MAX_TURNS - 1 /\ ~answered /\ answered' = TRUE
             /\ skipped' = (skipped \/ PassedOver)
             /\ Asked /\ UNCHANGED <<codex, auths, hist, file, kept, store, faults>>

SteerTurn == /\ currentTurn > 0 /\ Room(1) /\ ~\E i \in 1 .. Len(hist) : hist[i].k = "more" /\ hist[i].born = currentTurn
             /\ hist' = Append(hist, Item("more", Tagged(currentTurn), currentTurn, ""))
             /\ Asked /\ UNCHANGED <<codex, skipped, auths, answered, file, kept, store, faults>>

Midnight == /\ currentTurn > 0 /\ Room(1) /\ ~\E i \in 1 .. Len(hist) : hist[i].style = "date" /\ hist[i].born = currentTurn
            /\ hist' = Append(hist, Item("env", Tagged(currentTurn), currentTurn, "date"))
            /\ Asked /\ UNCHANGED <<codex, skipped, auths, answered, file, kept, store, faults>>

Retained == SelectSeq(hist, LAMBDA x : x.k \in {"say", "more"})
Sources(x) == {Revision(x)} \cup (IF Retained = << >> THEN {} ELSE {Revision(Last(Retained))})

\* The daemon returns a checkpoint and Codex installs the replacement history.
Compact == /\ currentTurn > 0 /\ hist # << >> /\ ~\E i \in 1 .. Len(hist) : Summary(hist[i])
           /\ Len(Retained) + 2 <= MAX_ITEMS
           /\ \E x \in {LatestRevision(hist, currentTurn)} \ {Nothing} :
                kept' = [kept EXCEPT ![currentTurn] = [gen |-> "first", sources |-> Sources(x), source |-> x,
                                                        synthetic |-> x.k = "goal"]]
           /\ hist' = <<Item("env", Tagged(currentTurn), currentTurn, codex.style)>> \o Retained \o <<Item("sum", Tagged(currentTurn), currentTurn, "first")>>
           /\ Asked /\ UNCHANGED <<codex, skipped, auths, answered, file, store, faults>>

\* A turn that opens with a compaction, the daemon's or native Codex's own.
BeginCompacted ==
  /\ answered /\ currentTurn > 0 /\ currentTurn < MAX_TURNS /\ Len(Retained) + 3 <= MAX_ITEMS
  /\ \E x \in {LatestRevision(hist, currentTurn)} \ {Nothing}, a \in Authority, k \in {"sum", "blob"} :
       /\ auths' = Append(auths, a)
       /\ kept' = IF k = "blob" THEN kept
                  ELSE [kept EXCEPT ![currentTurn + 1] = [gen |-> "opening", source |-> x, synthetic |-> x.k = "goal",
                          sources |-> Sources(x)]]
       /\ hist' = <<Item("env", Tagged(currentTurn + 1), currentTurn + 1, codex.style)>> \o Retained
                    \o <<Item(k, Tagged(currentTurn + 1), currentTurn + 1, IF k = "sum" THEN "opening" ELSE ""), Item("say", Tagged(currentTurn + 1), currentTurn + 1, "")>>
       /\ file' = IF codex.ids THEN [at |-> currentTurn + 1, torn |-> FALSE] ELSE file
  /\ answered' = FALSE /\ Asked /\ UNCHANGED <<codex, skipped, store, faults>>

(***************************************************************************)
(* Steps of the daemon                                                      *)
(***************************************************************************)
RespondsWith(d, r) == /\ used' = [used EXCEPT ![d] = r]
                      /\ UNCHANGED <<codex, skipped, auths, hist, answered, file, kept, faults>>

\* previous_response_id names the latest response; the daemon restores its input and output,
\* if the response was its own and is still kept (ResponseHistory).
Restorable(h) == LET i == SelectLastInSeq(h, Output) IN IF i > 0 /\ h[i].style = "ours" THEN i ELSE 0

\* A cache read remembers nothing; every other answer is written before it is used.
RequestTurn ==
  /\ currentTurn > 0
  /\ \E p \in {0, Restorable(hist)} :
     \E q \in {Reading(hist, currentTurn, RawText(hist, currentTurn, p))} :
     \E right \in {RightOf(q.claim)} :
     \E compact \in BOOLEAN :
     \E r \in {Resolve(hist, currentTurn, compact, q, right)} :
       IF ~r.ok THEN RespondsWith("task", Refused) /\ UNCHANGED store
       ELSE IF q.text = NoClaim /\ ~OwnsRollout
       THEN /\ RespondsWith("task", r)
            /\ store' = [store EXCEPT !.loaded = TRUE, !.mem = Loads(FALSE)]
       ELSE \E w \in {Remember("task", r.auth)} :
              IF w.ok THEN RespondsWith("task", r) /\ store' = w.store
              ELSE RespondsWith("task", Refused) /\ UNCHANGED store

\* A child spawned by the current turn, whose Codex wrote no envelope of its own.
SpawnedChild == /\ currentTurn > 0 /\ ~codex.ids /\ used["task"] # Nothing /\ used["task"].ok
                /\ store.mem["child"] = Nothing /\ store.saved["child"] = Nothing
                /\ LET r == Inherited IN
                   IF ~r.ok THEN RespondsWith("child", Refused) /\ UNCHANGED store
                   ELSE RespondsWith("child", r) /\ store' = Remember("child", r.auth).store

Fault == faults < MAX_FAULTS /\ faults' = faults + 1

\* The checkpoints live in the process only; the store is read again when it is next needed.
RestartDaemon == /\ Fault /\ kept' = [t \in Turns |-> Nothing]
                 /\ \E d \in {store.disk, "garbled", "unfamiliar"} :
                      /\ store.disk = "none" => d = "none"
                      /\ store' = [store EXCEPT !.loaded = FALSE, !.mem = NoEntries, !.disk = d,
                                                !.saved = IF d = "whole" THEN @ ELSE NoEntries]
                 /\ <<kept, store>>' # <<kept, store>>
                 /\ UNCHANGED <<codex, skipped, auths, hist, answered, file, used>>

\* Thirty days pass.
Age == /\ Fault
       /\ LET aged(m) == [d \in Threads |-> IF m[d] = Nothing THEN Nothing ELSE [m[d] EXCEPT !.old = TRUE]] IN
          store' = [store EXCEPT !.mem = aged(@), !.saved = aged(@)]
       /\ store' # store
       /\ UNCHANGED <<codex, skipped, auths, hist, answered, file, kept, used>>

EnvNext == \/ Begin \/ Flush \/ Answer \/ Interrupt \/ SteerTurn \/ Midnight \/ Compact \/ BeginCompacted
           \/ RequestTurn \/ SpawnedChild \/ RestartDaemon \/ Age

EnvSpec == EnvInit /\ [][EnvNext]_envVars

(***************************************************************************)
(* Properties                                                               *)
(***************************************************************************)
\* No turn runs under an authority that is not native Codex's current one: whatever the
\* history was compacted, replayed or resumed into, and whatever the store held, the working
\* directory, the policy and the network access of an answer are those of the turn it is for,
\* and its roots and write grants are among the ones Codex gave.  The exceptions: a turn that
\* changed the authority was interrupted before the model answered, and its envelope is passed
\* over for an older one; and a Codex whose envelopes are complete but attributed to no turn.
Current(a, d) == /\ a.cwd = d.cwd /\ a.policy = d.policy
                 /\ d.policy # "full" => a.net = d.net
                 /\ a.roots \subseteq d.roots \cup d.extra
                 /\ d.policy # "full" => a.writable \subseteq {d.cwd} \cup d.roots \cup d.extra
Unattributable == ~codex.tagged /\ codex.style = "legacy" /\ codex.homes = 1
AuthorityIsCurrent ==
  ~skipped /\ ~Unattributable =>
  \A d \in Threads : used[d] # Nothing /\ used[d].ok => Current(used[d].auth, native)

\* A task whose native record is in order is never turned away: when Codex attributes its items
\* and its rollout holds the current turn's whole context, every request of the turn gets an
\* authority, however its history was steered, compacted, resumed or cut, and whatever the store
\* lost.  The exceptions: steering after the midnight fragment leaves two competing claims; a
\* restarted daemon does not invent the handoff of a checkpoint it no longer remembers; a store
\* of another schema is left alone at the price of the turn.
SteeredAfterMidnight == \E i, j \in 1 .. Len(hist) : i < j /\ hist[i].style = "date" /\ hist[j].k = "more"
LostCheckpoint == \E i \in 1 .. Len(hist) : hist[i].k = "sum" /\ hist[i].own = currentTurn /\ kept[currentTurn] = Nothing
CurrentTaskIsServed ==
  /\ used["task"] # Nothing
  /\ codex.tagged /\ codex.ids /\ ~file.torn
  /\ store.disk # "unfamiliar" /\ ~SteeredAfterMidnight /\ ~LostCheckpoint
  => used["task"].ok
=============================================================================
