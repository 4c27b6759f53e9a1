--------------------------- MODULE Sessions_proofs ---------------------------
(***************************************************************************)
(* Proofs about the sessions of browser turns (TurnSessions), for any      *)
(* requests, owners and conversations and any number of browser turns, and *)
(* about the compactions of a thread (Compaction), for any requests, keys  *)
(* and native turns and any number of runs.                                *)
(***************************************************************************)
EXTENDS TurnSessions, Compaction, SequenceTheorems, FiniteSetTheorems, TLAPS

-----------------------------------------------------------------------------
(* The invariant                                                           *)

RegistryType ==
    /\ sess \in Seq(SessionRecord) /\ Len(sess) <= MAX_SESSIONS
    /\ entries \in [Key -> Session \cup {NoSession}]
    /\ heads \in [Conversation -> Session \cup {NoSession}]
    /\ retirements \in [Key -> SUBSET Session]
    /\ ownerRetirements \in [Owner -> SUBSET Session]
    /\ closing \in [Conversation -> SUBSET Session]

ObserverType ==
    /\ tail \in [Session -> Seq(Requests \X BOOLEAN)]
    /\ barrier \in [Session -> SUBSET Requests]
    /\ pc \in [Requests -> {"new", "waiting", "attached", "done", "aborted", "refused"}]
    /\ waitFor \in [Requests -> SUBSET Session]
    /\ at \in [Requests -> Session \cup {NoSession}]
    /\ cancels \in 0..MAX_CANCELS

\* A key is registered for a session of that key.
EntryInv ==
    \A k \in Key : entries[k] # NoSession => entries[k] \in Sessions /\ sess[entries[k]].key = k

RegistryInv == RegistryType /\ EntryInv /\ HeadIsLive

\* Who was admitted before the browser settled is waited for by its capability, and who is
\* attached to a session is in its queue.
ObserverInv ==
    /\ ObserverType
    /\ \A s \in Sessions : sess[s].capability = "retired" => sess[s].settled
    /\ \A s \in Sessions : sess[s].settled =>
          \A i \in DOMAIN tail[s] : tail[s][i][2] => tail[s][i][1] \in barrier[s]
    /\ \A r \in Requests : pc[r] = "attached" =>
          at[r] \in Sessions /\ \E i \in DOMAIN tail[at[r]] : tail[at[r]][i][1] = r
    /\ CapabilityOutlivesObservers

\* What waits for a key waits for the session that the key is registered for, if it is, and
\* the owner waits for it too; an unsettled session is registered or waited for.
RetirementInv ==
    /\ \A k \in Key : \A s \in retirements[k] :
          /\ s \in Sessions /\ sess[s].key = k /\ s \in ownerRetirements[sess[s].owner]
          /\ entries[k] # NoSession => entries[k] = s
    /\ \A s \in Unsettled(Sessions) : s \in Registered \/ s \in ownerRetirements[sess[s].owner]
    /\ OneBrowserPerOwner

-----------------------------------------------------------------------------
(* The records of sessions                                                 *)

\* Cancelling sessions changes neither who they are nor how far their browser is.
Kept ==
    /\ sess' \in Seq(SessionRecord) /\ Len(sess') = Len(sess)
    /\ \A s \in Sessions :
          /\ sess'[s].key = sess[s].key /\ sess'[s].owner = sess[s].owner
          /\ sess'[s].settled = sess[s].settled /\ sess'[s].capability = sess[s].capability

LEMMA SessionsOf ==
    ASSUME RegistryType
    PROVE  /\ Sessions = DOMAIN sess /\ Sessions = 1..Len(sess) /\ Sessions \subseteq Session
           /\ Len(sess) \in Nat
           /\ \A s \in Sessions : sess[s] \in SessionRecord /\ s # NoSession /\ s \in Nat
<1>1. Len(sess) \in Nat /\ Len(sess) <= MAX_SESSIONS /\ MAX_SESSIONS \in Nat
  BY SessionAssumption DEF RegistryType
<1>2. DOMAIN sess = 1..Len(sess) /\ \A s \in 1..Len(sess) : sess[s] \in SessionRecord
  BY DEF RegistryType
<1>3. 1..Len(sess) \subseteq 1..MAX_SESSIONS
  BY <1>1
<1>4. \A s \in 1..Len(sess) : s \in Nat /\ s # NoSession
  BY <1>1, SessionAssumption
<1> QED
  BY <1>1, <1>2, <1>3, <1>4 DEF Sessions, Session

\* A sequence made record by record.
LEMMA RecordByRecord ==
    ASSUME RegistryType, NEW f, f \in [Sessions -> SessionRecord]
    PROVE  f \in Seq(SessionRecord) /\ Len(f) = Len(sess) /\ DOMAIN f = Sessions
<1>1. Sessions = 1..Len(sess) /\ Len(sess) \in Nat
  BY SessionsOf
<1>2. f \in Seq(SessionRecord)
  BY <1>1, SeqDef
<1> QED
  BY <1>1, <1>2, LenProperties

LEMMA CancelledRecord ==
    ASSUME NEW rec \in SessionRecord, NEW how
    PROVE  /\ Cancelled(rec, how) \in SessionRecord
           /\ Cancelled(rec, how).key = rec.key /\ Cancelled(rec, how).owner = rec.owner
           /\ Cancelled(rec, how).settled = rec.settled /\ Cancelled(rec, how).capability = rec.capability
           /\ Cancelled(rec, how).conversation = rec.conversation
           /\ how # "superseded" => Cancelled(rec, how).superseded = rec.superseded
<1>1. (rec.superseded \/ how = "superseded") \in BOOLEAN
  OBVIOUS
<1> QED
  BY <1>1 DEF Cancelled, SessionRecord

LEMMA CancelKeeps ==
    ASSUME RegistryType, NEW S, NEW how, CancelSessions(S, how)
    PROVE  /\ Kept
           /\ \A s \in Sessions : sess'[s].conversation = sess[s].conversation
           /\ \A s \in Sessions \ S : sess'[s] = sess[s]
           /\ how # "superseded" => \A s \in Sessions : sess'[s].superseded = sess[s].superseded
<1>1. \A s \in Sessions : sess'[s] = IF s \in S THEN Cancelled(sess[s], how) ELSE sess[s]
  BY DEF CancelSessions
<1>2. \A s \in Sessions : sess[s] \in SessionRecord
  BY SessionsOf
<1>3. sess' \in [Sessions -> SessionRecord]
  BY <1>2, CancelledRecord DEF CancelSessions
<1>4. sess' \in Seq(SessionRecord) /\ Len(sess') = Len(sess)
  BY <1>3, RecordByRecord
<1>5. \A s \in Sessions : /\ sess'[s].key = sess[s].key /\ sess'[s].owner = sess[s].owner
                          /\ sess'[s].settled = sess[s].settled /\ sess'[s].capability = sess[s].capability
                          /\ sess'[s].conversation = sess[s].conversation
  BY <1>1, <1>2, CancelledRecord
<1>6. how # "superseded" => \A s \in Sessions : sess'[s].superseded = sess[s].superseded
  BY <1>1, <1>2, CancelledRecord
<1> QED
  BY <1>1, <1>4, <1>5, <1>6 DEF Kept

-----------------------------------------------------------------------------
(* The registry                                                            *)

Same(S) == \A s \in S : /\ sess'[s].conversation = sess[s].conversation
                       /\ sess'[s].superseded = sess[s].superseded

LEMMA SessionsKept ==
    ASSUME RegistryType, Kept
    PROVE  Sessions' = Sessions /\ Len(sess)' <= MAX_SESSIONS
BY SessionsOf DEF Kept, Sessions, RegistryType

LEMMA RegistryRests ==
    ASSUME RegistryInv, Kept, Same(Sessions), UNCHANGED <<entries, heads>>,
           retirements' \in [Key -> SUBSET Session], ownerRetirements' \in [Owner -> SUBSET Session],
           closing' \in [Conversation -> SUBSET Session]
    PROVE  RegistryInv'
<1>1. Sessions' = Sessions /\ Len(sess)' <= MAX_SESSIONS
  BY SessionsKept DEF RegistryInv
<1>2. EntryInv'
  BY <1>1 DEF RegistryInv, EntryInv, Kept
<1>3. Registered' = Registered
  BY <1>1 DEF Registered, Kept
<1>4. HeadIsLive'
  BY <1>1, <1>3 DEF RegistryInv, HeadIsLive, Same, Registered
<1>5. RegistryType'
  BY <1>1 DEF RegistryInv, RegistryType, Kept
<1> QED
  BY <1>2, <1>4, <1>5 DEF RegistryInv

\* Sessions leave the registry with their heads.
LEMMA RegistryForgets ==
    ASSUME RegistryInv, NEW S, Forget(S), Kept, Same(Sessions),
           retirements' \in [Key -> SUBSET Session], ownerRetirements' \in [Owner -> SUBSET Session],
           closing' \in [Conversation -> SUBSET Session]
    PROVE  RegistryInv'
<1>1. Sessions' = Sessions /\ Len(sess)' <= MAX_SESSIONS
  BY SessionsKept DEF RegistryInv
<1>2. /\ entries' = [k \in Key |-> IF entries[k] \in S THEN NoSession ELSE entries[k]]
      /\ heads' = [c \in Conversation |-> IF heads[c] \in S THEN NoSession ELSE heads[c]]
  BY DEF Forget, ForgetHeads
<1>3. EntryInv'
  BY <1>1, <1>2 DEF RegistryInv, EntryInv, Kept
<1>4. HeadIsLive'
  <2> SUFFICES ASSUME NEW c \in Conversation, heads'[c] # NoSession
               PROVE  /\ heads'[c] \in Registered'
                      /\ sess'[heads'[c]].conversation = c /\ ~sess'[heads'[c]].superseded
    BY DEF HeadIsLive
  <2> DEFINE h == heads[c]
  <2>1. heads'[c] = h /\ h \notin S /\ h # NoSession
    BY <1>2
  <2>2. h \in Sessions /\ entries[sess[h].key] = h /\ sess[h].conversation = c /\ ~sess[h].superseded
    BY <2>1 DEF RegistryInv, HeadIsLive, Registered
  <2>3. sess[h].key \in Key
    BY <2>2, SessionsOf DEF RegistryInv, SessionRecord
  <2>4. entries'[sess'[h].key] = h
    BY <1>2, <2>1, <2>2, <2>3 DEF Kept
  <2> QED
    BY <1>1, <2>1, <2>2, <2>4 DEF Registered, Same
<1>5. RegistryType'
  BY <1>1, <1>2 DEF RegistryInv, RegistryType, Kept
<1> QED
  BY <1>3, <1>4, <1>5 DEF RegistryInv

\* Those of S whose key has no pending retirement; the unsettled ones of a key, of an owner.
Fresh(S) == {s \in S : retirements[sess[s].key] = {}}
OfKey(S, k) == {s \in Unsettled(S) : sess[s].key = k}
OfOwner(S, o) == {s \in Unsettled(S) : sess[s].owner = o}

\* What a retirement of S adds to what is waited for.
LEMMA Retires ==
    ASSUME RegistryType, NEW S \in SUBSET Sessions, NEW how, BeginRetirement(S, how)
    PROVE  /\ Kept
           /\ \A s \in Sessions : sess'[s].conversation = sess[s].conversation
           /\ \A s \in Sessions \ Fresh(S) : sess'[s] = sess[s]
           /\ how # "superseded" => \A s \in Sessions : sess'[s].superseded = sess[s].superseded
           /\ retirements' \in [Key -> SUBSET Session]
           /\ ownerRetirements' \in [Owner -> SUBSET Session]
           /\ closing' \in [Conversation -> SUBSET Session]
           /\ \A k \in Key : retirements'[k] = retirements[k] \cup OfKey(Fresh(S), k)
           /\ \A o \in Owner : ownerRetirements'[o] = ownerRetirements[o] \cup OfOwner(Fresh(S), o)
<1> DEFINE fresh == Fresh(S)
<1>1. CancelSessions(fresh, how)
  BY DEF BeginRetirement, Fresh
<1>2. Unsettled(fresh) \subseteq Session
  BY SessionsOf DEF Unsettled, Fresh
<1>3. /\ retirements' = [k \in Key |-> retirements[k] \cup {s \in Unsettled(fresh) : sess[s].key = k}]
      /\ ownerRetirements' = [o \in Owner |-> ownerRetirements[o] \cup {s \in Unsettled(fresh) : sess[s].owner = o}]
      /\ closing' = [c \in Conversation |-> closing[c] \cup {s \in Unsettled(fresh) : sess[s].conversation = c}]
  BY DEF BeginRetirement, Fresh
<1> HIDE DEF fresh
<1>4. /\ retirements' \in [Key -> SUBSET Session]
      /\ ownerRetirements' \in [Owner -> SUBSET Session]
      /\ closing' \in [Conversation -> SUBSET Session]
  BY <1>2, <1>3 DEF RegistryType
<1>5. /\ \A k \in Key : retirements'[k] = retirements[k] \cup OfKey(fresh, k)
      /\ \A o \in Owner : ownerRetirements'[o] = ownerRetirements[o] \cup OfOwner(fresh, o)
  BY <1>3 DEF OfKey, OfOwner
<1>6. /\ Kept
      /\ \A s \in Sessions : sess'[s].conversation = sess[s].conversation
      /\ \A s \in Sessions \ fresh : sess'[s] = sess[s]
      /\ how # "superseded" => \A s \in Sessions : sess'[s].superseded = sess[s].superseded
  BY <1>1, CancelKeeps
<1> QED
  BY <1>4, <1>5, <1>6 DEF fresh

\* Registered sessions are retired and leave the registry.
LEMMA RetireRegistered ==
    ASSUME RegistryInv, NEW S \in SUBSET Registered, NEW how, how # "superseded",
           Forget(S), BeginRetirement(S, how)
    PROVE  RegistryInv' /\ Kept /\ (RetirementInv => RetirementInv')
<1>0. S \in SUBSET Sessions /\ RegistryType
  BY DEF Registered, RegistryInv
<1>a. /\ Kept
      /\ \A s \in Sessions : sess'[s].conversation = sess[s].conversation
      /\ how # "superseded" => \A s \in Sessions : sess'[s].superseded = sess[s].superseded
      /\ retirements' \in [Key -> SUBSET Session]
      /\ ownerRetirements' \in [Owner -> SUBSET Session]
      /\ closing' \in [Conversation -> SUBSET Session]
      /\ \A k \in Key : retirements'[k] = retirements[k] \cup OfKey(Fresh(S), k)
      /\ \A o \in Owner : ownerRetirements'[o] = ownerRetirements[o] \cup OfOwner(Fresh(S), o)
  BY <1>0, Retires
<1>1. /\ Kept /\ Same(Sessions)
      /\ retirements' \in [Key -> SUBSET Session]
      /\ ownerRetirements' \in [Owner -> SUBSET Session]
      /\ closing' \in [Conversation -> SUBSET Session]
      /\ \A k \in Key : retirements'[k] = retirements[k] \cup OfKey(Fresh(S), k)
      /\ \A o \in Owner : ownerRetirements'[o] = ownerRetirements[o] \cup OfOwner(Fresh(S), o)
  BY <1>a DEF Same
<1>2. RegistryInv'
  BY <1>1, RegistryForgets
<1>3. ASSUME RetirementInv PROVE RetirementInv'
  <2>1. Sessions' = Sessions
    BY <1>1, SessionsKept DEF RegistryInv
  <2>2. \A s \in Sessions : sess[s].key \in Key /\ sess[s].owner \in Owner /\ s # NoSession
    BY SessionsOf DEF RegistryInv, SessionRecord
  <2>3. \A k \in Key : entries'[k] = IF entries[k] \in S THEN NoSession ELSE entries[k]
    BY DEF Forget
  <2>4. ASSUME NEW k \in Key, NEW s \in retirements'[k]
        PROVE  /\ s \in Sessions' /\ sess'[s].key = k /\ s \in ownerRetirements'[sess'[s].owner]
               /\ entries'[k] # NoSession => entries'[k] = s
    <3>1. CASE s \in retirements[k]
      <4>1. /\ s \in Sessions /\ sess[s].key = k /\ s \in ownerRetirements[sess[s].owner]
            /\ entries[k] # NoSession => entries[k] = s
        BY <3>1, <1>3 DEF RetirementInv
      <4>2. sess'[s].key = k /\ sess'[s].owner = sess[s].owner
        BY <4>1, <1>1 DEF Kept
      <4>3. s \in ownerRetirements'[sess[s].owner]
        BY <4>1, <1>1, <2>2
      <4> QED
        BY <4>1, <4>2, <4>3, <2>1, <2>3
    <3>2. CASE s \in OfKey(Fresh(S), k)
      <4>1. s \in S /\ s \in Sessions /\ entries[k] = s /\ sess[s].key = k /\ s \in OfOwner(Fresh(S), sess[s].owner)
        BY <3>2, <1>0 DEF Unsettled, Registered, OfKey, OfOwner, Fresh
      <4> QED
        BY <3>2, <4>1, <1>1, <2>1, <2>2, <2>3 DEF Kept
    <3> QED
      BY <2>4, <1>1, <3>1, <3>2
  <2>5. ASSUME NEW s \in Unsettled(Sessions)' PROVE s \in Registered' \/ s \in ownerRetirements'[sess'[s].owner]
    <3>1. s \in Sessions /\ ~sess[s].settled /\ sess'[s].owner = sess[s].owner /\ sess'[s].key = sess[s].key
      BY <2>1, <2>5, <1>1 DEF Unsettled, Kept
    <3>2. CASE s \in Registered /\ s \notin S
      BY <3>1, <3>2, <2>1, <2>2, <2>3 DEF Registered
    <3>3. CASE s \in Fresh(S)
      BY <3>1, <3>3, <1>1, <2>2 DEF Unsettled, OfOwner
    <3>4. CASE s \in S /\ s \notin Fresh(S)
      <4>1. retirements[sess[s].key] # {} /\ entries[sess[s].key] = s
        BY <3>4 DEF Registered, Fresh
      <4>2. s \in ownerRetirements[sess[s].owner]
        BY <3>1, <4>1, <1>3, <2>2 DEF RetirementInv
      <4> QED
        BY <3>1, <4>2, <1>1, <2>2
    <3>5. CASE s \notin Registered
      BY <3>1, <3>5, <1>1, <1>3, <2>2 DEF RetirementInv, Unsettled
    <3> QED
      BY <3>2, <3>3, <3>4, <3>5
  <2>6. OneBrowserPerOwner'
    BY <1>1, <1>3, <2>1 DEF RetirementInv, OneBrowserPerOwner, Unsettled, Kept
  <2> QED
    BY <2>4, <2>5, <2>6 DEF RetirementInv
<1> QED
  BY <1>1, <1>2, <1>3

\* A session is superseded: its entry stays.
LEMMA SupersedeKeeps ==
    ASSUME RegistryInv, NEW s \in Registered, BeginRetirement({s}, "superseded"), ForgetHeads({s}),
           UNCHANGED entries
    PROVE  RegistryInv' /\ Kept /\ (RetirementInv => RetirementInv')
<1>0. s \in Sessions /\ {s} \in SUBSET Sessions /\ Fresh({s}) \subseteq {s} /\ RegistryType
  BY DEF Registered, Fresh, RegistryInv
<1>1. /\ Kept
      /\ \A t \in Sessions : sess'[t].conversation = sess[t].conversation
      /\ \A t \in Sessions \ {s} : sess'[t] = sess[t]
      /\ retirements' \in [Key -> SUBSET Session]
      /\ ownerRetirements' \in [Owner -> SUBSET Session]
      /\ closing' \in [Conversation -> SUBSET Session]
      /\ \A k \in Key : retirements'[k] = retirements[k] \cup OfKey(Fresh({s}), k)
      /\ \A o \in Owner : ownerRetirements'[o] = ownerRetirements[o] \cup OfOwner(Fresh({s}), o)
  BY <1>0, Retires
<1>2. Sessions' = Sessions /\ Len(sess)' <= MAX_SESSIONS
  BY <1>1, SessionsKept DEF RegistryInv
<1>3. heads' = [c \in Conversation |-> IF heads[c] \in {s} THEN NoSession ELSE heads[c]]
  BY DEF ForgetHeads
<1>4. Registered' = Registered
  BY <1>1, <1>2 DEF Registered, Kept
<1>5. HeadIsLive'
  BY <1>1, <1>3, <1>4 DEF RegistryInv, HeadIsLive, Registered
<1>6. EntryInv'
  BY <1>1, <1>2 DEF RegistryInv, EntryInv, Kept
<1>7. RegistryType'
  BY <1>1, <1>2, <1>3 DEF RegistryInv, RegistryType, Kept
<1>8. \A t \in Sessions : sess[t].key \in Key /\ sess[t].owner \in Owner
  BY SessionsOf DEF RegistryInv, SessionRecord
<1>9. ASSUME RetirementInv PROVE RetirementInv'
  <2>1. ASSUME NEW k \in Key, NEW t \in retirements'[k]
        PROVE  /\ t \in Sessions' /\ sess'[t].key = k /\ t \in ownerRetirements'[sess'[t].owner]
               /\ entries'[k] # NoSession => entries'[k] = t
    <3>1. CASE t \in retirements[k]
      <4>1. /\ t \in Sessions /\ sess[t].key = k /\ t \in ownerRetirements[sess[t].owner]
            /\ entries[k] # NoSession => entries[k] = t
        BY <3>1, <1>9 DEF RetirementInv
      <4>2. sess'[t].key = k /\ sess'[t].owner = sess[t].owner
        BY <4>1, <1>1 DEF Kept
      <4>3. t \in ownerRetirements'[sess[t].owner]
        BY <4>1, <1>1, <1>8
      <4> QED
        BY <4>1, <4>2, <4>3, <1>2
    <3>2. CASE t \in OfKey(Fresh({s}), k)
      <4>1. t = s /\ entries[k] = s /\ sess[s].key = k /\ t \in OfOwner(Fresh({s}), sess[s].owner)
        BY <3>2 DEF Unsettled, Registered, OfKey, OfOwner, Fresh
      <4> QED
        BY <3>2, <4>1, <1>0, <1>1, <1>2, <1>8 DEF Kept
    <3> QED
      BY <2>1, <1>1, <3>1, <3>2
  <2>2. \A t \in Unsettled(Sessions)' : t \in Registered' \/ t \in ownerRetirements'[sess'[t].owner]
    BY <1>1, <1>2, <1>4, <1>8, <1>9 DEF RetirementInv, Unsettled, Kept
  <2>3. OneBrowserPerOwner'
    BY <1>1, <1>2, <1>9 DEF RetirementInv, OneBrowserPerOwner, Unsettled, Kept
  <2> QED
    BY <2>1, <2>2, <2>3 DEF RetirementInv
<1> QED
  BY <1>1, <1>5, <1>6, <1>7, <1>9 DEF RegistryInv

\* Neither the registry nor what is waited for changes.
LEMMA RetirementRests ==
    ASSUME RegistryInv, RetirementInv, Kept, UNCHANGED <<entries, retirements, ownerRetirements>>
    PROVE  RetirementInv'
<1>1. Sessions' = Sessions
  BY SessionsKept DEF RegistryInv
<1>2. Registered' = Registered
  BY <1>1 DEF Registered, Kept
<1>3. \A k \in Key : \A s \in retirements[k] :
          /\ s \in Sessions' /\ sess'[s].key = k /\ s \in ownerRetirements[sess'[s].owner]
          /\ entries[k] # NoSession => entries[k] = s
  BY <1>1 DEF RetirementInv, Kept
<1>4. \A s \in Unsettled(Sessions)' : s \in Registered' \/ s \in ownerRetirements[sess'[s].owner]
  BY <1>1, <1>2 DEF RetirementInv, Unsettled, Kept
<1>5. OneBrowserPerOwner'
  BY <1>1 DEF RetirementInv, OneBrowserPerOwner, Unsettled, Kept
<1> QED
  BY <1>3, <1>4, <1>5 DEF RetirementInv

LEMMA SameRecords ==
    ASSUME RegistryType, UNCHANGED sess
    PROVE  Kept /\ Same(Sessions)
BY DEF RegistryType, Kept, Same

\* Sessions whose browser has settled are pruned.
LEMMA PruneKeeps ==
    ASSUME RegistryInv, NEW old \in SUBSET Prunable, Forget(old), UNCHANGED <<sess, pending>>
    PROVE  RegistryInv' /\ (RetirementInv => RetirementInv')
<1>1. Kept /\ Same(Sessions)
  BY SameRecords DEF RegistryInv
<1>2. RegistryInv'
  <2>1. /\ retirements' \in [Key -> SUBSET Session] /\ ownerRetirements' \in [Owner -> SUBSET Session]
        /\ closing' \in [Conversation -> SUBSET Session]
    BY DEF pending, RegistryInv, RegistryType
  <2> QED
    BY <1>1, <2>1, RegistryForgets
<1>3. ASSUME RetirementInv PROVE RetirementInv'
  <2>1. Sessions' = Sessions
    BY DEF Sessions
  <2>2. \A k \in Key : entries'[k] = IF entries[k] \in old THEN NoSession ELSE entries[k]
    BY DEF Forget
  <2>3. \A k \in Key : \A s \in retirements[k] :
            /\ s \in Sessions' /\ sess'[s].key = k /\ s \in ownerRetirements[sess'[s].owner]
            /\ entries'[k] # NoSession => entries'[k] = s
    BY <1>3, <2>1, <2>2 DEF RetirementInv
  <2>4. ASSUME NEW s \in Unsettled(Sessions)' PROVE s \in Registered' \/ s \in ownerRetirements[sess'[s].owner]
    <3>1. s \in Sessions /\ ~sess[s].settled /\ s \in Unsettled(Sessions)
      BY <2>1, <2>4 DEF Unsettled
    <3>2. s \notin old
      BY <3>1 DEF Prunable
    <3>3. sess[s].key \in Key
      BY <3>1, SessionsOf DEF RegistryInv, SessionRecord
    <3> QED
      BY <1>3, <2>1, <2>2, <3>1, <3>2, <3>3 DEF RetirementInv, Registered
  <2>5. OneBrowserPerOwner'
    BY <1>3, <2>1 DEF RetirementInv, OneBrowserPerOwner, Unsettled
  <2> QED
    BY <2>3, <2>4, <2>5 DEF RetirementInv, pending
<1> QED
  BY <1>2, <1>3

-----------------------------------------------------------------------------
(* Requests and observers                                                  *)

\* The requests that are attached stay where they are.
Attached == /\ pc' \in [Requests -> {"new", "waiting", "attached", "done", "aborted", "refused"}]
            /\ waitFor' \in [Requests -> SUBSET Session]
            /\ at' \in [Requests -> Session \cup {NoSession}]
            /\ \A q \in Requests : pc'[q] = "attached" => pc[q] = "attached" /\ at'[q] = at[q]

LEMMA ObserversRest ==
    ASSUME RegistryInv, ObserverInv, Kept, Attached, UNCHANGED observers, cancels' \in 0..MAX_CANCELS
    PROVE  ObserverInv'
<1>1. Sessions' = Sessions
  BY SessionsKept DEF RegistryInv
<1>2. ObserverType'
  BY DEF ObserverInv, ObserverType, Attached, observers
<1>3. tail' = tail /\ barrier' = barrier
  BY DEF observers
<1>4. /\ \A s \in Sessions' : sess'[s].capability = "retired" => sess'[s].settled
      /\ \A s \in Sessions' : sess'[s].settled =>
            \A i \in DOMAIN tail'[s] : tail'[s][i][2] => tail'[s][i][1] \in barrier'[s]
  BY <1>1, <1>3 DEF ObserverInv, Kept
<1>5. \A r \in Requests : pc'[r] = "attached" =>
          at'[r] \in Sessions' /\ \E i \in DOMAIN tail'[at'[r]] : tail'[at'[r]][i][1] = r
  BY <1>1, <1>3 DEF ObserverInv, Attached
<1>6. CapabilityOutlivesObservers'
  BY <1>1, <1>3 DEF ObserverInv, CapabilityOutlivesObservers, Kept
<1> QED
  BY <1>2, <1>4, <1>5, <1>6 DEF ObserverInv

LEMMA AwaitAttached ==
    ASSUME ObserverType, NEW r \in Requests, NEW S \in SUBSET Session, Await(r, S)
    PROVE  Attached
<1>1. Unsettled(S) \in SUBSET Session
  BY DEF Unsettled
<1> QED
  BY <1>1 DEF ObserverType, Await, Attached

LEMMA EndAttached ==
    ASSUME ObserverType, NEW r \in Requests, NEW how \in {"done", "aborted", "refused"}, EndRequest(r, how)
    PROVE  Attached
BY DEF ObserverType, EndRequest, Attached

LEMMA RequestRests ==
    ASSUME ObserverType, UNCHANGED request
    PROVE  Attached
BY DEF ObserverType, request, Attached

\* The observer at the head of a queue leaves it.
LEMMA LeaveKeeps ==
    ASSUME RegistryInv, ObserverInv, Kept, NEW r \in Requests, Observing(r),
           NEW how \in {"done", "aborted"}, Leave(r, how), UNCHANGED cancels
    PROVE  ObserverInv'
<1> DEFINE s == at[r]
           q == tail[s]
<1>1. Sessions' = Sessions
  BY SessionsKept DEF RegistryInv
<1>2. pc[r] = "attached" /\ Head(q)[1] = r
  BY DEF Observing
<1>3. s \in Sessions /\ \E i \in DOMAIN q : q[i][1] = r
  BY <1>2 DEF ObserverInv
<1>4. s \in Session
  BY <1>3, SessionsOf DEF RegistryInv
<1>5. q \in Seq(Requests \X BOOLEAN) /\ tail \in [Session -> Seq(Requests \X BOOLEAN)]
  BY <1>4 DEF ObserverInv, ObserverType
<1>6. q # <<>>
  BY <1>3, <1>5
<1>7. /\ Tail(q) \in Seq(Requests \X BOOLEAN)
      /\ \A i \in DOMAIN Tail(q) : i + 1 \in DOMAIN q /\ Tail(q)[i] = q[i + 1]
      /\ \A i \in DOMAIN q : i = 1 \/ (i - 1 \in DOMAIN Tail(q) /\ Tail(q)[i - 1] = q[i])
      /\ Head(q) = q[1]
  <2>1. Len(q) \in Nat /\ DOMAIN q = 1..Len(q) /\ Len(q) > 0
    BY <1>5, <1>6
  <2>2. Tail(q) \in Seq(Requests \X BOOLEAN) /\ Len(Tail(q)) = Len(q) - 1
        /\ \A i \in 1..(Len(q) - 1) : Tail(q)[i] = q[i + 1]
    BY <1>5, <1>6
  <2>3. DOMAIN Tail(q) = 1..(Len(q) - 1)
    BY <2>2
  <2> QED
    BY <2>1, <2>2, <2>3, <1>5
<1>8. tail' = [tail EXCEPT ![s] = Tail(q)] /\ barrier' = barrier
  BY DEF Leave
<1> HIDE DEF q
<1>9. tail' \in [Session -> Seq(Requests \X BOOLEAN)] /\ tail'[s] = Tail(q)
      /\ \A t \in Session \ {s} : tail'[t] = tail[t]
  BY <1>4, <1>5, <1>7, <1>8
<1>10. Attached
  BY EndAttached DEF Leave, ObserverInv
<1>11. ObserverType'
  BY <1>8, <1>9, <1>10 DEF ObserverInv, ObserverType, Attached
<1>12. \A t \in Sessions : t \in Session
  BY SessionsOf DEF RegistryInv
<1>13. \A t \in Sessions : \A i \in DOMAIN tail'[t] : \E j \in DOMAIN tail[t] : tail'[t][i] = tail[t][j]
  <2>1. \A i \in DOMAIN tail'[s] : tail'[s][i] = tail[s][i + 1] /\ i + 1 \in DOMAIN tail[s]
    BY <1>7, <1>9 DEF q
  <2>2. \A t \in Sessions : t # s => tail'[t] = tail[t]
    BY <1>9, <1>12
  <2> QED
    BY <2>1, <2>2
<1>14. \A t \in Sessions' : sess'[t].capability = "retired" => sess'[t].settled
  BY <1>1 DEF ObserverInv, Kept
<1>15. \A t \in Sessions' : sess'[t].settled =>
          \A i \in DOMAIN tail'[t] : tail'[t][i][2] => tail'[t][i][1] \in barrier'[t]
  BY <1>1, <1>8, <1>13 DEF ObserverInv, Kept
<1>16. CapabilityOutlivesObservers'
  BY <1>1, <1>13 DEF ObserverInv, CapabilityOutlivesObservers, Kept
<1>17. ASSUME NEW p \in Requests, pc'[p] = "attached"
       PROVE  at'[p] \in Sessions' /\ \E i \in DOMAIN tail'[at'[p]] : tail'[at'[p]][i][1] = p
  <2>1. pc[p] = "attached" /\ at'[p] = at[p] /\ p # r
    BY <1>17, <1>10 DEF Attached, Leave, EndRequest, ObserverInv, ObserverType
  <2>2. PICK i \in DOMAIN tail[at[p]] : tail[at[p]][i][1] = p
    BY <2>1 DEF ObserverInv
  <2>3. at[p] \in Sessions
    BY <2>1 DEF ObserverInv
  <2>4. CASE at[p] = s
    <3>1. i # 1
      BY <1>2, <1>7, <2>1, <2>2, <2>4 DEF q
    <3>2. i - 1 \in DOMAIN Tail(q) /\ Tail(q)[i - 1][1] = p
      BY <1>7, <2>2, <2>4, <3>1 DEF q
    <3> QED
      BY <1>1, <1>9, <2>1, <2>3, <2>4, <3>2
  <2>5. CASE at[p] # s
    BY <1>1, <1>9, <1>12, <2>1, <2>2, <2>3, <2>5
  <2> QED
    BY <2>4, <2>5
<1> QED
  BY <1>11, <1>14, <1>15, <1>16, <1>17 DEF ObserverInv

\* A request joins the queue of a session that exists.
LEMMA AdmitKeeps ==
    ASSUME RegistryInv, ObserverInv, NEW r \in Requests, NEW s \in Sessions, Admit(r, s),
           UNCHANGED <<sess, cancels>>
    PROVE  ObserverInv'
<1> DEFINE q == tail[s]
           e == <<r, ~sess[s].settled>>
<1>1. Sessions' = Sessions /\ s \in Session /\ \A t \in Sessions : t \in Session
  BY SessionsOf DEF RegistryInv, Sessions
<1>2. q \in Seq(Requests \X BOOLEAN) /\ tail \in [Session -> Seq(Requests \X BOOLEAN)]
  BY <1>1 DEF ObserverInv, ObserverType
<1>3. e \in Requests \X BOOLEAN /\ e[1] = r /\ e[2] = (~sess[s].settled)
  <2>1. sess[s].settled \in BOOLEAN
    BY SessionsOf DEF RegistryInv, SessionRecord
  <2> QED
    BY <2>1
<1> HIDE DEF e
<1>4. /\ Append(q, e) \in Seq(Requests \X BOOLEAN)
      /\ \A i \in DOMAIN Append(q, e) : i \in DOMAIN q \/ Append(q, e)[i] = e
      /\ \A i \in DOMAIN q : i \in DOMAIN Append(q, e) /\ Append(q, e)[i] = q[i]
      /\ \E i \in DOMAIN Append(q, e) : Append(q, e)[i] = e
  <2>1. Len(q) \in Nat /\ DOMAIN q = 1..Len(q)
    BY <1>2
  <2>2. /\ Append(q, e) \in Seq(Requests \X BOOLEAN) /\ Len(Append(q, e)) = Len(q) + 1
        /\ \A i \in 1..Len(q) : Append(q, e)[i] = q[i]
        /\ Append(q, e)[Len(q) + 1] = e
    BY <1>2, <1>3, AppendProperties
  <2>3. DOMAIN Append(q, e) = 1..(Len(q) + 1)
    BY <2>2
  <2>4. Len(q) + 1 \in 1..(Len(q) + 1)
    BY <2>1
  <2>5. \A i \in 1..(Len(q) + 1) : i \in 1..Len(q) \/ i = Len(q) + 1
    BY <2>1
  <2> QED
    BY <2>1, <2>2, <2>3, <2>4, <2>5
<1>5. /\ tail' = [tail EXCEPT ![s] = Append(q, e)] /\ barrier' = barrier
      /\ pc' = [pc EXCEPT ![r] = "attached"] /\ waitFor' = [waitFor EXCEPT ![r] = {}]
      /\ at' = [at EXCEPT ![r] = s]
  BY DEF Admit, e
<1> HIDE DEF q
<1>6. tail' \in [Session -> Seq(Requests \X BOOLEAN)] /\ tail'[s] = Append(q, e)
      /\ \A t \in Session \ {s} : tail'[t] = tail[t]
  BY <1>1, <1>2, <1>4, <1>5
<1>7. ObserverType'
  BY <1>1, <1>5, <1>6 DEF ObserverInv, ObserverType
<1>8. \A t \in Sessions : \A i \in DOMAIN tail'[t] :
          (i \in DOMAIN tail[t] /\ tail'[t][i] = tail[t][i]) \/ (t = s /\ tail'[t][i] = e)
  BY <1>1, <1>4, <1>6 DEF q
<1>9. \A t \in Sessions : \A i \in DOMAIN tail[t] : i \in DOMAIN tail'[t] /\ tail'[t][i] = tail[t][i]
  BY <1>1, <1>4, <1>6 DEF q
<1>10. \A t \in Sessions' : sess'[t].capability = "retired" => sess'[t].settled
  BY <1>1 DEF ObserverInv
<1>11. \A t \in Sessions' : sess'[t].settled =>
          \A i \in DOMAIN tail'[t] : tail'[t][i][2] => tail'[t][i][1] \in barrier'[t]
  BY <1>1, <1>3, <1>5, <1>8 DEF ObserverInv
<1>12. CapabilityOutlivesObservers'
  BY <1>1, <1>3, <1>8 DEF ObserverInv, CapabilityOutlivesObservers
<1>13. ASSUME NEW p \in Requests, pc'[p] = "attached"
       PROVE  at'[p] \in Sessions' /\ \E i \in DOMAIN tail'[at'[p]] : tail'[at'[p]][i][1] = p
  <2>1. CASE p = r
    <3>1. at'[p] = s
      BY <1>5, <2>1 DEF ObserverInv, ObserverType
    <3> QED
      BY <1>1, <1>3, <1>4, <1>6, <2>1, <3>1
  <2>2. CASE p # r
    <3>1. pc[p] = "attached" /\ at'[p] = at[p]
      BY <1>5, <1>13, <2>2 DEF ObserverInv, ObserverType
    <3>2. at[p] \in Sessions /\ \E i \in DOMAIN tail[at[p]] : tail[at[p]][i][1] = p
      BY <3>1 DEF ObserverInv
    <3> QED
      BY <1>1, <1>9, <3>1, <3>2
  <2> QED
    BY <2>1, <2>2
<1> QED
  BY <1>7, <1>10, <1>11, <1>12, <1>13 DEF ObserverInv

-----------------------------------------------------------------------------
(* The steps that change the registry                                      *)

\* A compaction request that belongs to a retained conversation closes it, and does not tell
\* the owner: only RegistryInv is kept.
LEMMA CloseKeeps ==
    ASSUME RegistryInv, NEW r, NEW c \in Conversation, CloseConversation(r, c)
    PROVE  RegistryInv' /\ Kept
<1> DEFINE matches == {s \in Registered : sess[s].conversation = c}
           closed == [s \in Sessions |->
                        IF s \notin matches THEN sess[s]
                        ELSE [(IF Active(s) THEN Cancelled(sess[s], "silently") ELSE sess[s])
                                 EXCEPT !.conversation = NoConversation]]
<1>1. CASE closing[c] # {}
  <2>1. UNCHANGED <<sess, registry, pending>>
    BY <1>1 DEF CloseConversation
  <2>2. Kept /\ Same(Sessions)
    BY <2>1, SameRecords DEF RegistryInv
  <2>3. RegistryInv'
    BY <2>1, <2>2, RegistryRests DEF RegistryInv, RegistryType, registry, pending
  <2> QED
    BY <2>2, <2>3
<1>2. CASE closing[c] = {}
  <2>1. /\ entries' = [k \in Key |-> IF entries[k] \in matches THEN NoSession ELSE entries[k]]
        /\ heads' = [heads EXCEPT ![c] = NoSession]
        /\ sess' = closed
        /\ closing' = [closing EXCEPT ![c] = Unsettled(matches)]
        /\ UNCHANGED <<retirements, ownerRetirements>>
    BY <1>2 DEF CloseConversation
  <2>2. \A s \in Sessions : sess[s] \in SessionRecord /\ s \in Session /\ s # NoSession
    BY SessionsOf DEF RegistryInv
  <2>3. \A s \in Sessions :
          LET rec == IF Active(s) THEN Cancelled(sess[s], "silently") ELSE sess[s] IN
          /\ rec \in SessionRecord /\ rec.key = sess[s].key /\ rec.owner = sess[s].owner
          /\ rec.settled = sess[s].settled /\ rec.capability = sess[s].capability
    BY <2>2, CancelledRecord
  <2>4. \A rec \in SessionRecord :
          /\ [rec EXCEPT !.conversation = NoConversation] \in SessionRecord
          /\ [rec EXCEPT !.conversation = NoConversation].key = rec.key
          /\ [rec EXCEPT !.conversation = NoConversation].owner = rec.owner
          /\ [rec EXCEPT !.conversation = NoConversation].settled = rec.settled
          /\ [rec EXCEPT !.conversation = NoConversation].capability = rec.capability
    BY DEF SessionRecord
  <2>5. \A s \in Sessions : /\ closed[s] \in SessionRecord
                            /\ closed[s].key = sess[s].key /\ closed[s].owner = sess[s].owner
                            /\ closed[s].settled = sess[s].settled
                            /\ closed[s].capability = sess[s].capability
    BY <2>2, <2>3, <2>4
  <2>6. \A s \in Sessions : s \notin matches => closed[s] = sess[s]
    OBVIOUS
  <2>7. closed \in [Sessions -> SessionRecord]
    BY <2>5
  <2> HIDE DEF closed
  <2>8. Kept /\ Sessions' = Sessions /\ Len(sess)' <= MAX_SESSIONS
    <3>1. closed \in Seq(SessionRecord) /\ Len(closed) = Len(sess)
      BY <2>7, RecordByRecord DEF RegistryInv
    <3>2. Kept
      BY <2>1, <2>5, <3>1 DEF Kept
    <3> QED
      BY <3>2, SessionsKept DEF RegistryInv
  <2>9. matches \subseteq Sessions /\ Unsettled(matches) \in SUBSET Session
    BY <2>2 DEF Registered, Unsettled
  <2>10. RegistryType'
    BY <2>1, <2>8, <2>9 DEF RegistryInv, RegistryType, Kept
  <2>11. EntryInv'
    BY <2>1, <2>8 DEF RegistryInv, EntryInv, Kept
  <2>12. HeadIsLive'
    <3> SUFFICES ASSUME NEW d \in Conversation, heads'[d] # NoSession
                 PROVE  /\ heads'[d] \in Registered'
                        /\ sess'[heads'[d]].conversation = d /\ ~sess'[heads'[d]].superseded
      BY DEF HeadIsLive
    <3> DEFINE h == heads[d]
    <3>1. d # c /\ heads'[d] = h
      BY <2>1 DEF RegistryInv, RegistryType
    <3>2. h \in Registered /\ sess[h].conversation = d /\ ~sess[h].superseded
      BY <3>1 DEF RegistryInv, HeadIsLive
    <3>3. h \in Sessions /\ h \notin matches
      BY <3>1, <3>2 DEF Registered
    <3>4. sess'[h] = sess[h] /\ sess[h].key \in Key /\ entries[sess[h].key] = h
      BY <2>1, <2>2, <2>6, <3>2, <3>3 DEF SessionRecord, Registered
    <3>5. entries'[sess[h].key] = h
      BY <2>1, <3>3, <3>4
    <3> QED
      BY <2>8, <3>1, <3>2, <3>3, <3>4, <3>5 DEF Registered
  <2> QED
    BY <2>8, <2>10, <2>11, <2>12 DEF RegistryInv
<1> QED
  BY <1>1, <1>2

LEMMA RetireAndWaitKeeps ==
    ASSUME RegistryInv, NEW r, NEW k \in Key, RetireAndWait(r, k)
    PROVE  RegistryInv' /\ Kept /\ (RetirementInv => RetirementInv')
<1>1. CASE UNCHANGED <<sess, registry, pending>>
  <2>1. Kept /\ Same(Sessions)
    BY <1>1, SameRecords DEF RegistryInv
  <2>2. RegistryInv'
    BY <1>1, <2>1, RegistryRests DEF RegistryInv, RegistryType, registry, pending
  <2> QED
    BY <1>1, <2>1, <2>2, RetirementRests DEF registry, pending
<1>2. CASE entries[k] # NoSession /\ Forget({entries[k]}) /\ BeginRetirement({entries[k]}, "silently")
  <2>1. entries[k] \in Registered
    BY <1>2 DEF RegistryInv, EntryInv, Registered
  <2> QED
    BY <1>2, <2>1, RetireRegistered
<1> QED
  BY <1>1, <1>2 DEF RetireAndWait

\* A new browser turn of an owner that has no other.
LEMMA StartKeeps ==
    ASSUME RegistryInv, ObserverInv, NEW r \in Requests, Start(r)
    PROVE  RegistryInv' /\ ObserverInv' /\ (RetirementInv => RetirementInv')
<1> DEFINE s == Len(sess) + 1
           new == NewSession(Info[r])
<1>1. /\ new \in SessionRecord /\ new.key = Info[r].key /\ new.owner = Info[r].owner
      /\ ~new.settled /\ ~new.superseded /\ new.capability = "live"
      /\ new.key \in Key /\ new.owner \in Owner
  BY InfoAssumption DEF NewSession, RequestInfo, SessionRecord
<1>2. PICK old \in SUBSET Prunable : PruneAndRegister(old, new.key, new.conversation, s)
  BY DEF Start
<1>3. /\ NoRetirement(r) /\ ActiveOwner(r) = {} /\ s \in Session /\ sess' = Append(sess, new)
      /\ tail' = [tail EXCEPT ![s] = <<<<r, TRUE>>>>]
      /\ pc' = [pc EXCEPT ![r] = "attached"] /\ waitFor' = [waitFor EXCEPT ![r] = {}]
      /\ at' = [at EXCEPT ![r] = s]
      /\ UNCHANGED <<pending, barrier, cancels>>
  BY DEF Start
<1>4. /\ entries' = [x \in Key |-> IF x = new.key THEN s ELSE IF entries[x] \in old THEN NoSession ELSE entries[x]]
      /\ heads' = [x \in Conversation |-> IF x = new.conversation THEN s
                                          ELSE IF heads[x] \in old THEN NoSession ELSE heads[x]]
  BY <1>2 DEF PruneAndRegister
<1>5. entries[new.key] = NoSession /\ retirements[new.key] = {} /\ ownerRetirements[new.owner] = {}
  BY <1>1, <1>3 DEF NoRetirement, PendingFor
<1>6. \A t \in Unsettled(Registered) : sess[t].owner # new.owner
  BY <1>1, <1>3 DEF ActiveOwner
<1> HIDE DEF new
<1>7. /\ sess' \in Seq(SessionRecord) /\ Len(sess') = s /\ sess'[s] = new /\ s <= MAX_SESSIONS
      /\ \A t \in Sessions : sess'[t] = sess[t] /\ t # s /\ t \in Session
      /\ Sessions' = Sessions \cup {s} /\ s \notin Sessions /\ s # NoSession
  <2>1. /\ Sessions = 1..Len(sess) /\ Len(sess) \in Nat /\ sess \in Seq(SessionRecord)
        /\ \A t \in Sessions : t \in Session /\ t # NoSession
    BY SessionsOf DEF RegistryInv, RegistryType
  <2>2. /\ sess' \in Seq(SessionRecord) /\ Len(sess') = Len(sess) + 1
        /\ \A t \in 1..Len(sess) : sess'[t] = sess[t]
        /\ sess'[Len(sess) + 1] = new
    BY <1>1, <1>3, <2>1, AppendProperties
  <2>3. 1..(Len(sess) + 1) = 1..Len(sess) \cup {Len(sess) + 1}
    BY <2>1
  <2>4. s \in Nat /\ s <= MAX_SESSIONS /\ s # NoSession
    BY <1>3, <2>1, SessionAssumption DEF Session
  <2>5. Sessions' = Sessions \cup {s}
    BY <2>1, <2>2, <2>3 DEF Sessions
  <2>6. s \notin 1..Len(sess)
    BY <2>1
  <2> QED
    BY <2>1, <2>2, <2>4, <2>5, <2>6
<1> HIDE DEF s
<1>8. \A t \in Registered : sess[t].key # new.key
  BY <1>5, <1>7, SessionsOf DEF Registered, RegistryInv
<1>9. s \in Registered' /\ \A t \in Registered \ old : t \in Registered'
  <2>1. s \in Registered'
    BY <1>1, <1>4, <1>7 DEF Registered
  <2>2. ASSUME NEW t \in Registered, t \notin old PROVE t \in Registered'
    <3>1. t \in Sessions /\ entries[sess[t].key] = t /\ sess[t].key \in Key /\ sess[t].key # new.key
      BY <1>8, SessionsOf DEF Registered, RegistryInv, SessionRecord
    <3>2. entries'[sess[t].key] = t
      BY <1>4, <2>2, <3>1
    <3> QED
      BY <1>7, <3>1, <3>2 DEF Registered
  <2> QED
    BY <2>1, <2>2
<1>10. RegistryInv'
  <2>1. RegistryType'
    BY <1>3, <1>4, <1>7 DEF RegistryInv, RegistryType, pending
  <2>2. EntryInv'
    <3> SUFFICES ASSUME NEW k \in Key, entries'[k] # NoSession
                 PROVE  entries'[k] \in Sessions' /\ sess'[entries'[k]].key = k
      BY DEF EntryInv
    <3>1. CASE k = new.key
      BY <1>4, <1>7, <3>1
    <3>2. CASE k # new.key
      BY <1>4, <1>7, <3>2 DEF RegistryInv, EntryInv
    <3> QED
      BY <3>1, <3>2
  <2>3. HeadIsLive'
    <3> SUFFICES ASSUME NEW c \in Conversation, heads'[c] # NoSession
                 PROVE  /\ heads'[c] \in Registered'
                        /\ sess'[heads'[c]].conversation = c /\ ~sess'[heads'[c]].superseded
      BY DEF HeadIsLive
    <3>1. CASE c = new.conversation
      BY <1>1, <1>4, <1>7, <1>9, <3>1
    <3>2. CASE c # new.conversation
      <4>1. heads'[c] = heads[c] /\ heads[c] \notin old
        BY <1>4, <3>2
      <4>2. heads[c] \in Registered /\ sess[heads[c]].conversation = c /\ ~sess[heads[c]].superseded
        BY <4>1 DEF RegistryInv, HeadIsLive
      <4>3. heads[c] \in Sessions
        BY <4>2 DEF Registered
      <4> QED
        BY <1>7, <1>9, <4>1, <4>2, <4>3
    <3> QED
      BY <3>1, <3>2
  <2> QED
    BY <2>1, <2>2, <2>3 DEF RegistryInv
<1>11. ObserverInv'
  <2> DEFINE q == <<<<r, TRUE>>>>
  <2>1. q \in Seq(Requests \X BOOLEAN) /\ 1 \in DOMAIN q /\ q[1][1] = r
    <3> DEFINE e == <<r, TRUE>>
    <3>1. e \in Requests \X BOOLEAN /\ e[1] = r
      OBVIOUS
    <3> HIDE DEF e
    <3>2. <<e>> \in Seq(Requests \X BOOLEAN) /\ 1 \in DOMAIN <<e>> /\ <<e>>[1] = e
      BY <3>1
    <3> QED
      BY <3>1, <3>2 DEF e
  <2> HIDE DEF q
  <2>2. tail' \in [Session -> Seq(Requests \X BOOLEAN)] /\ tail'[s] = q
        /\ \A t \in Session \ {s} : tail'[t] = tail[t]
    BY <1>3, <2>1 DEF ObserverInv, ObserverType, q
  <2>3. ObserverType'
    BY <1>3, <2>2 DEF ObserverInv, ObserverType
  <2>4. \A t \in Sessions : tail'[t] = tail[t] /\ barrier'[t] = barrier[t] /\ sess'[t] = sess[t]
    BY <1>3, <1>7, <2>2
  <2>5. ~sess'[s].settled /\ sess'[s].capability # "retired"
    BY <1>1, <1>7
  <2>6. \A t \in Sessions' : sess'[t].capability = "retired" => sess'[t].settled
    BY <1>7, <2>4, <2>5 DEF ObserverInv
  <2>7. \A t \in Sessions' : sess'[t].settled =>
            \A i \in DOMAIN tail'[t] : tail'[t][i][2] => tail'[t][i][1] \in barrier'[t]
    BY <1>7, <2>4, <2>5 DEF ObserverInv
  <2>8. CapabilityOutlivesObservers'
    BY <1>7, <2>4, <2>5 DEF ObserverInv, CapabilityOutlivesObservers
  <2>9. ASSUME NEW p \in Requests, pc'[p] = "attached"
        PROVE  at'[p] \in Sessions' /\ \E i \in DOMAIN tail'[at'[p]] : tail'[at'[p]][i][1] = p
    <3>1. CASE p = r
      <4>1. at'[p] = s
        BY <1>3, <3>1 DEF ObserverInv, ObserverType
      <4> QED
        BY <1>7, <2>1, <2>2, <3>1, <4>1
    <3>2. CASE p # r
      <4>1. pc[p] = "attached" /\ at'[p] = at[p]
        BY <1>3, <2>9, <3>2 DEF ObserverInv, ObserverType
      <4>2. at[p] \in Sessions /\ \E i \in DOMAIN tail[at[p]] : tail[at[p]][i][1] = p
        BY <4>1 DEF ObserverInv
      <4> QED
        BY <1>7, <2>4, <4>1, <4>2
    <3> QED
      BY <3>1, <3>2
  <2> QED
    BY <2>3, <2>6, <2>7, <2>8, <2>9 DEF ObserverInv
<1>12. ASSUME RetirementInv PROVE RetirementInv'
  <2>1. \A t \in old : sess[t].settled
    BY DEF Prunable
  <2>2. \A t \in Unsettled(Sessions) : sess[t].owner # new.owner
    <3> SUFFICES ASSUME NEW t \in Unsettled(Sessions), sess[t].owner = new.owner PROVE FALSE
      OBVIOUS
    <3>1. t \in Registered
      BY <1>5, <1>12 DEF RetirementInv
    <3> QED
      BY <1>6, <3>1 DEF Unsettled
  <2>3. \A t \in Unsettled(Sessions)' : t = s \/ (t \in Unsettled(Sessions) /\ sess'[t] = sess[t] /\ t \notin old)
    BY <1>7, <2>1 DEF Unsettled
  <2>4. ASSUME NEW k \in Key, NEW t \in retirements'[k]
        PROVE  /\ t \in Sessions' /\ sess'[t].key = k /\ t \in ownerRetirements'[sess'[t].owner]
               /\ entries'[k] # NoSession => entries'[k] = t
    <3>1. t \in retirements[k] /\ k # new.key
      BY <1>3, <1>5, <2>4 DEF pending
    <3>2. /\ t \in Sessions /\ sess[t].key = k /\ t \in ownerRetirements[sess[t].owner]
          /\ entries[k] # NoSession => entries[k] = t
      BY <1>12, <3>1 DEF RetirementInv
    <3>3. entries'[k] # NoSession => entries'[k] = entries[k]
      BY <1>4, <3>1
    <3> QED
      BY <1>3, <1>7, <3>2, <3>3 DEF pending
  <2>5. ASSUME NEW t \in Unsettled(Sessions)' PROVE t \in Registered' \/ t \in ownerRetirements'[sess'[t].owner]
    BY <1>3, <1>9, <1>12, <2>3 DEF RetirementInv, pending
  <2>6. OneBrowserPerOwner'
    <3> SUFFICES ASSUME NEW t \in Unsettled(Sessions)', NEW u \in Unsettled(Sessions)',
                        sess'[t].owner = sess'[u].owner
                 PROVE  t = u
      BY DEF OneBrowserPerOwner
    <3>1. sess'[s].owner = new.owner
      BY <1>7
    <3> QED
      BY <1>12, <2>2, <2>3, <3>1 DEF RetirementInv, OneBrowserPerOwner
  <2> QED
    BY <2>4, <2>5, <2>6 DEF RetirementInv
<1> QED
  BY <1>10, <1>11, <1>12

-----------------------------------------------------------------------------
(* The steps of a browser                                                  *)

LEMMA SettleKeeps ==
    ASSUME RegistryInv, ObserverInv, NEW s \in Sessions, NEW outcome \in {"final", "error"},
           Settle(s, outcome)
    PROVE  RegistryInv' /\ ObserverInv' /\ (RetirementInv => RetirementInv')
<1> DEFINE rec == [sess[s] EXCEPT !.settled = TRUE, !.outcome = IF @ = "none" THEN outcome ELSE @]
<1>1. /\ Sessions = 1..Len(sess) /\ Len(sess) \in Nat /\ sess \in Seq(SessionRecord)
      /\ sess[s] \in SessionRecord /\ \A t \in Sessions : t \in Session /\ sess[t] \in SessionRecord
  BY SessionsOf DEF RegistryInv, RegistryType
<1>2. /\ rec \in SessionRecord /\ rec.settled /\ rec.key = sess[s].key /\ rec.owner = sess[s].owner
      /\ rec.conversation = sess[s].conversation /\ rec.superseded = sess[s].superseded
      /\ rec.capability = sess[s].capability
  BY <1>1 DEF SessionRecord
<1>3. sess' = [sess EXCEPT ![s] = rec]
  BY DEF Settle
<1> HIDE DEF rec
<1>4. /\ sess' \in Seq(SessionRecord) /\ Len(sess') = Len(sess) /\ sess'[s] = rec
      /\ \A t \in Sessions : t # s => sess'[t] = sess[t]
  BY <1>1, <1>2, <1>3
<1>5. /\ Sessions' = Sessions
      /\ \A t \in Sessions : /\ sess'[t].key = sess[t].key /\ sess'[t].owner = sess[t].owner
                             /\ sess'[t].conversation = sess[t].conversation
                             /\ sess'[t].superseded = sess[t].superseded
                             /\ sess'[t].capability = sess[t].capability
                             /\ sess'[t].settled = (sess[t].settled \/ t = s)
  <2>1. Sessions' = Sessions
    BY <1>1, <1>4 DEF Sessions
  <2>2. \A t \in Sessions : sess[t].settled \in BOOLEAN
    BY <1>1 DEF SessionRecord
  <2> QED
    BY <1>2, <1>4, <2>1, <2>2
<1>6. /\ retirements' = [k \in Key |-> retirements[k] \ {s}]
      /\ ownerRetirements' = [o \in Owner |-> ownerRetirements[o] \ {s}]
      /\ closing' = [c \in Conversation |-> closing[c] \ {s}]
      /\ barrier' = [barrier EXCEPT ![s] = {tail[s][i][1] : i \in DOMAIN tail[s]}]
      /\ UNCHANGED <<registry, tail, request, cancels>>
  BY DEF Settle
<1>7. Registered' = Registered
  BY <1>5, <1>6 DEF Registered, registry
<1>8. RegistryInv'
  <2>1. RegistryType'
    BY <1>4, <1>6 DEF RegistryInv, RegistryType, registry
  <2>2. EntryInv'
    BY <1>5, <1>6 DEF RegistryInv, EntryInv, registry
  <2>3. HeadIsLive'
    BY <1>5, <1>6, <1>7 DEF RegistryInv, HeadIsLive, registry, Registered
  <2> QED
    BY <2>1, <2>2, <2>3 DEF RegistryInv
<1>9. ObserverInv'
  <2>1. tail[s] \in Seq(Requests \X BOOLEAN)
    BY <1>1 DEF ObserverInv, ObserverType
  <2>2. \A i \in DOMAIN tail[s] : tail[s][i][1] \in Requests
    BY <2>1
  <2>3. /\ barrier' \in [Session -> SUBSET Requests]
        /\ \A i \in DOMAIN tail[s] : tail[s][i][1] \in barrier'[s]
        /\ \A t \in Sessions : t # s => barrier'[t] = barrier[t]
    BY <1>1, <1>6, <2>2 DEF ObserverInv, ObserverType
  <2>4. ObserverType'
    BY <1>6, <2>3 DEF ObserverInv, ObserverType, request
  <2>5. \A t \in Sessions' : sess'[t].capability = "retired" => sess'[t].settled
    BY <1>5 DEF ObserverInv
  <2>6. \A t \in Sessions' : sess'[t].settled =>
            \A i \in DOMAIN tail'[t] : tail'[t][i][2] => tail'[t][i][1] \in barrier'[t]
    BY <1>5, <1>6, <2>3 DEF ObserverInv
  <2>7. CapabilityOutlivesObservers'
    BY <1>5, <1>6 DEF ObserverInv, CapabilityOutlivesObservers
  <2>8. \A p \in Requests : pc'[p] = "attached" =>
            at'[p] \in Sessions' /\ \E i \in DOMAIN tail'[at'[p]] : tail'[at'[p]][i][1] = p
    BY <1>5, <1>6 DEF ObserverInv, request
  <2> QED
    BY <2>4, <2>5, <2>6, <2>7, <2>8 DEF ObserverInv
<1>10. ASSUME RetirementInv PROVE RetirementInv'
  <2>1. \A t \in Sessions : sess[t].owner \in Owner
    BY <1>1 DEF SessionRecord
  <2>2. ASSUME NEW k \in Key, NEW t \in retirements'[k]
        PROVE  /\ t \in Sessions' /\ sess'[t].key = k /\ t \in ownerRetirements'[sess'[t].owner]
               /\ entries'[k] # NoSession => entries'[k] = t
    <3>1. t \in retirements[k] /\ t # s
      BY <1>6, <2>2
    <3>2. /\ t \in Sessions /\ sess[t].key = k /\ t \in ownerRetirements[sess[t].owner]
          /\ entries[k] # NoSession => entries[k] = t
      BY <1>10, <3>1 DEF RetirementInv
    <3> QED
      BY <1>5, <1>6, <2>1, <3>1, <3>2 DEF registry
  <2>3. ASSUME NEW t \in Unsettled(Sessions)' PROVE t \in Registered' \/ t \in ownerRetirements'[sess'[t].owner]
    <3>1. t \in Unsettled(Sessions) /\ t # s /\ t \in Sessions
      BY <1>5, <2>3 DEF Unsettled
    <3> QED
      BY <1>5, <1>6, <1>7, <1>10, <2>1, <3>1 DEF RetirementInv
  <2>4. OneBrowserPerOwner'
    <3>1. \A t \in Unsettled(Sessions)' : t \in Unsettled(Sessions) /\ sess'[t].owner = sess[t].owner
      BY <1>5 DEF Unsettled
    <3> QED
      BY <1>10, <3>1 DEF RetirementInv, OneBrowserPerOwner
  <2> QED
    BY <2>2, <2>3, <2>4 DEF RetirementInv
<1> QED
  BY <1>8, <1>9, <1>10

\* The capability goes once those the browser's end had to wait for have left.
LEMMA CapabilityKeeps ==
    ASSUME RegistryInv, ObserverInv, NEW s \in Sessions, RetireCapability(s)
    PROVE  RegistryInv' /\ ObserverInv' /\ (RetirementInv => RetirementInv')
<1> DEFINE rec == [sess[s] EXCEPT !.capability = "retired"]
<1>1. /\ Sessions = 1..Len(sess) /\ Len(sess) \in Nat /\ sess \in Seq(SessionRecord)
      /\ sess[s] \in SessionRecord
  BY SessionsOf DEF RegistryInv, RegistryType
<1>2. /\ rec \in SessionRecord /\ rec.settled = sess[s].settled /\ rec.key = sess[s].key
      /\ rec.owner = sess[s].owner /\ rec.conversation = sess[s].conversation
      /\ rec.superseded = sess[s].superseded
  BY <1>1 DEF SessionRecord
<1>3. /\ sess' = [sess EXCEPT ![s] = rec] /\ sess[s].settled
      /\ \A i \in DOMAIN tail[s] : tail[s][i][1] \notin barrier[s]
      /\ UNCHANGED <<registry, pending, observers, request, cancels>>
  BY DEF RetireCapability
<1> HIDE DEF rec
<1>4. /\ sess' \in Seq(SessionRecord) /\ Len(sess') = Len(sess) /\ sess'[s] = rec
      /\ \A t \in Sessions : t # s => sess'[t] = sess[t]
  BY <1>1, <1>2, <1>3
<1>5. /\ Sessions' = Sessions /\ Len(sess)' <= MAX_SESSIONS
      /\ \A t \in Sessions : /\ sess'[t].key = sess[t].key /\ sess'[t].owner = sess[t].owner
                             /\ sess'[t].conversation = sess[t].conversation
                             /\ sess'[t].superseded = sess[t].superseded
                             /\ sess'[t].settled = sess[t].settled
  BY <1>1, <1>2, <1>4 DEF Sessions, RegistryInv, RegistryType
<1>6. Registered' = Registered
  BY <1>3, <1>5 DEF Registered, registry
<1>7. RegistryInv'
  <2>1. RegistryType'
    BY <1>3, <1>4, <1>5 DEF RegistryInv, RegistryType, registry, pending
  <2>2. EntryInv'
    BY <1>3, <1>5 DEF RegistryInv, EntryInv, registry
  <2>3. HeadIsLive'
    BY <1>3, <1>5, <1>6 DEF RegistryInv, HeadIsLive, registry, Registered
  <2> QED
    BY <2>1, <2>2, <2>3 DEF RegistryInv
<1>8. ObserverInv'
  <2>1. ObserverType' /\ tail' = tail /\ barrier' = barrier /\ pc' = pc /\ at' = at
    BY <1>3 DEF ObserverInv, ObserverType, observers, request
  <2>2. \A t \in Sessions' : sess'[t].capability = "retired" => sess'[t].settled
    BY <1>3, <1>4, <1>5 DEF ObserverInv
  <2>3. \A t \in Sessions' : sess'[t].settled =>
            \A i \in DOMAIN tail'[t] : tail'[t][i][2] => tail'[t][i][1] \in barrier'[t]
    BY <1>5, <2>1 DEF ObserverInv
  <2>4. CapabilityOutlivesObservers'
    <3>1. \A i \in DOMAIN tail[s] : ~tail[s][i][2]
      BY <1>3 DEF ObserverInv
    <3> QED
      BY <1>4, <1>5, <2>1, <3>1 DEF ObserverInv, CapabilityOutlivesObservers
  <2> QED
    BY <1>5, <2>1, <2>2, <2>3, <2>4 DEF ObserverInv
<1>9. ASSUME RetirementInv PROVE RetirementInv'
  <2>1. \A k \in Key : \A t \in retirements[k] :
          /\ t \in Sessions' /\ sess'[t].key = k /\ t \in ownerRetirements[sess'[t].owner]
          /\ entries[k] # NoSession => entries[k] = t
    BY <1>5, <1>9 DEF RetirementInv
  <2>2. \A t \in Unsettled(Sessions)' : t \in Registered' \/ t \in ownerRetirements[sess'[t].owner]
    BY <1>5, <1>6, <1>9 DEF RetirementInv, Unsettled
  <2>3. OneBrowserPerOwner'
    BY <1>5, <1>9 DEF RetirementInv, OneBrowserPerOwner, Unsettled
  <2> QED
    BY <1>3, <2>1, <2>2, <2>3 DEF RetirementInv, registry, pending
<1> QED
  BY <1>7, <1>8, <1>9

-----------------------------------------------------------------------------
(* The theorems                                                            *)

\* No compaction request belongs to a retained conversation.
NoRetainedCompaction == \A r \in Requests : Info[r].compacts # {} => Info[r].conversation = NoConversation

SessionIInv == RegistryInv /\ ObserverInv

LEMMA InitKeeps == Init => SessionIInv /\ RetirementInv
<1> SUFFICES ASSUME Init PROVE SessionIInv /\ RetirementInv
  OBVIOUS
<1>1. sess = <<>> /\ Len(sess) = 0 /\ Sessions = {}
  <2>1. sess = <<>> /\ Len(sess) = 0
    BY DEF Init
  <2> QED
    BY <2>1 DEF Sessions
<1>2. RegistryType
  BY <1>1, SessionAssumption DEF Init, RegistryType
<1>3. ObserverType
  BY SessionAssumption DEF Init, ObserverType
<1>4. EntryInv /\ HeadIsLive
  BY DEF Init, EntryInv, HeadIsLive
<1>5. ObserverInv
  BY <1>1, <1>3 DEF Init, ObserverInv, CapabilityOutlivesObservers
<1>6. RetirementInv
  BY <1>1 DEF Init, RetirementInv, OneBrowserPerOwner, Unsettled
<1> QED
  BY <1>2, <1>4, <1>5, <1>6 DEF SessionIInv, RegistryInv

\* A step leaves the registry and the browsers alone.
LEMMA NothingMoves ==
    ASSUME SessionIInv, UNCHANGED <<sess, registry, pending>>
    PROVE  RegistryInv' /\ Kept /\ (RetirementInv => RetirementInv')
<1>1. Kept /\ Same(Sessions)
  BY SameRecords DEF SessionIInv, RegistryInv
<1>2. RegistryInv'
  BY <1>1, RegistryRests DEF SessionIInv, RegistryInv, RegistryType, registry, pending
<1> QED
  BY <1>1, <1>2, RetirementRests DEF SessionIInv, registry, pending

\* Sessions are cancelled and nothing else changes.
LEMMA CancelRests ==
    ASSUME SessionIInv, NEW S, NEW how \in {"silently", "reasoned"}, CancelSessions(S, how),
           UNCHANGED <<registry, pending>>
    PROVE  RegistryInv' /\ Kept /\ (RetirementInv => RetirementInv')
<1>1. Kept /\ Same(Sessions)
  BY CancelKeeps DEF SessionIInv, RegistryInv, Same
<1>2. RegistryInv'
  BY <1>1, RegistryRests DEF SessionIInv, RegistryInv, RegistryType, registry, pending
<1> QED
  BY <1>1, <1>2, RetirementRests DEF SessionIInv, registry, pending

LEMMA NextKeeps ==
    ASSUME SessionIInv, [Next]_vars
    PROVE  SessionIInv' /\ (NoRetainedCompaction /\ RetirementInv => RetirementInv')
<1> USE DEF SessionIInv
<1>0. cancels \in 0..MAX_CANCELS /\ ObserverType
  BY DEF ObserverInv, ObserverType
<1>1. ASSUME NEW r \in Requests, RetireSource(r)
      PROVE  SessionIInv' /\ (NoRetainedCompaction /\ RetirementInv => RetirementInv')
  <2>1. PICK k \in Info[r].compacts :
           IF Info[r].conversation # NoConversation /\ heads[Info[r].conversation] # NoSession
           THEN CloseConversation(r, Info[r].conversation)
           ELSE RetireAndWait(r, k)
    BY <1>1 DEF RetireSource
  <2>2. k \in Key /\ Info[r].conversation \in Conversation \cup {NoConversation}
    BY <2>1, InfoAssumption DEF RequestInfo
  <2>3. UNCHANGED <<observers, cancels>>
    BY <1>1 DEF RetireSource
  <2>4. CASE Info[r].conversation # NoConversation /\ CloseConversation(r, Info[r].conversation)
    <3> DEFINE c == Info[r].conversation
               m == {s \in Registered : sess[s].conversation = c}
    <3>1. RegistryInv' /\ Kept
      BY <2>2, <2>4, CloseKeeps
    <3>2. Await(r, closing[c]) \/ Await(r, m)
      BY <2>4 DEF CloseConversation
    <3>3. closing[c] \in SUBSET Session /\ m \in SUBSET Session
      BY <2>2, <2>4, SessionsOf DEF RegistryInv, RegistryType, Registered
    <3> HIDE DEF m, c
    <3>4. Attached
      BY <1>0, <3>2, <3>3, AwaitAttached
    <3>5. ObserverInv'
      BY <1>0, <2>3, <3>1, <3>4, ObserversRest
    <3>6. ~NoRetainedCompaction
      BY <2>1, <2>4 DEF NoRetainedCompaction
    <3> QED
      BY <3>1, <3>5, <3>6
  <2>5. CASE RetireAndWait(r, k)
    <3>1. RegistryInv' /\ Kept /\ (RetirementInv => RetirementInv')
      BY <2>2, <2>5, RetireAndWaitKeeps
    <3>2. PICK S \in SUBSET Session : Await(r, S)
      <4>1. CASE Await(r, retirements[k])
        BY <2>2, <4>1 DEF RegistryInv, RegistryType
      <4>2. CASE Await(r, {})
        BY <4>2
      <4>3. CASE entries[k] # NoSession /\ Await(r, {entries[k]})
        <5>1. {entries[k]} \in SUBSET Session
          BY <2>2, <4>3 DEF RegistryInv, RegistryType
        <5> QED
          BY <4>3, <5>1
      <4> QED
        BY <2>5, <4>1, <4>2, <4>3 DEF RetireAndWait
    <3>3. Attached
      BY <1>0, <3>2, AwaitAttached
    <3>4. ObserverInv'
      BY <1>0, <2>3, <3>1, <3>3, ObserversRest
    <3> QED
      BY <3>1, <3>4
  <2> QED
    BY <2>1, <2>4, <2>5
<1>2. ASSUME NEW r \in Requests, AttachExisting(r)
      PROVE  SessionIInv' /\ (NoRetainedCompaction /\ RetirementInv => RetirementInv')
  <2>1. Info[r].key \in Key
    BY InfoAssumption DEF RequestInfo
  <2>2. entries[Info[r].key] \in Sessions
    BY <1>2, <2>1 DEF AttachExisting, RegistryInv, EntryInv
  <2>3. Admit(r, entries[Info[r].key]) /\ UNCHANGED <<sess, registry, pending, cancels>>
    BY <1>2 DEF AttachExisting
  <2>4. RegistryInv' /\ (RetirementInv => RetirementInv')
    BY <2>3, NothingMoves
  <2>5. ObserverInv'
    BY <2>2, <2>3, AdmitKeeps
  <2> QED
    BY <2>4, <2>5
<1>3. ASSUME NEW r \in Requests, UNCHANGED <<sess, registry, pending, observers, cancels>>,
             NEW how \in {"done", "aborted", "refused"}, EndRequest(r, how)
      PROVE  SessionIInv' /\ (NoRetainedCompaction /\ RetirementInv => RetirementInv')
  <2>1. RegistryInv' /\ Kept /\ (RetirementInv => RetirementInv')
    BY <1>3, NothingMoves
  <2>2. Attached
    BY <1>0, <1>3, EndAttached
  <2>3. ObserverInv'
    BY <1>0, <1>3, <2>1, <2>2, ObserversRest
  <2> QED
    BY <2>1, <2>3
<1>4. ASSUME NEW r \in Requests, UNCHANGED <<sess, registry, pending, observers, cancels>>,
             NEW S \in SUBSET Session, Await(r, S)
      PROVE  SessionIInv' /\ (NoRetainedCompaction /\ RetirementInv => RetirementInv')
  <2>1. RegistryInv' /\ Kept /\ (RetirementInv => RetirementInv')
    BY <1>4, NothingMoves
  <2>2. Attached
    BY <1>0, <1>4, AwaitAttached
  <2>3. ObserverInv'
    BY <1>0, <1>4, <2>1, <2>2, ObserversRest
  <2> QED
    BY <2>1, <2>3
<1>5. ASSUME NEW r \in Requests, RefuseSuperseded(r) \/ RefuseOutdated(r) \/ AbortWait(r)
      PROVE  SessionIInv' /\ (NoRetainedCompaction /\ RetirementInv => RetirementInv')
  BY <1>3, <1>5 DEF RefuseSuperseded, RefuseOutdated, AbortWait
<1>6. ASSUME NEW r \in Requests, AwaitRetirement(r)
      PROVE  SessionIInv' /\ (NoRetainedCompaction /\ RetirementInv => RetirementInv')
  <2>1. PendingFor(r) \in SUBSET Session
    BY InfoAssumption DEF PendingFor, RequestInfo, RegistryInv, RegistryType
  <2> QED
    BY <1>4, <1>6, <2>1 DEF AwaitRetirement
<1>7. \A r \in Requests : ActiveOwner(r) \subseteq Registered /\ ActiveOwner(r) \subseteq Session
  <2>1. \A r \in Requests : ActiveOwner(r) \subseteq Registered
    BY DEF ActiveOwner, Unsettled
  <2>2. Registered \subseteq Session
    BY SessionsOf DEF Registered, RegistryInv
  <2> QED
    BY <2>1, <2>2
<1>8. ASSUME NEW r \in Requests, AwaitOwner(r)
      PROVE  SessionIInv' /\ (NoRetainedCompaction /\ RetirementInv => RetirementInv')
  <2>1. PICK s \in ActiveOwner(r) : Await(r, {s})
    BY <1>8 DEF AwaitOwner
  <2>2. {s} \in SUBSET Session
    BY <1>7
  <2> QED
    BY <1>4, <1>8, <2>1, <2>2 DEF AwaitOwner
<1>9. ASSUME NEW r \in Requests, Supersede(r)
      PROVE  SessionIInv' /\ (NoRetainedCompaction /\ RetirementInv => RetirementInv')
  <2>1. PICK s \in ActiveOwner(r) :
           BeginRetirement({s}, "superseded") /\ ForgetHeads({s}) /\ Await(r, {s})
    BY <1>9 DEF Supersede
  <2>2. s \in Registered /\ {s} \in SUBSET Session
    BY <1>7
  <2>3. UNCHANGED <<entries, observers, cancels>>
    BY <1>9 DEF Supersede
  <2>4. RegistryInv' /\ Kept /\ (RetirementInv => RetirementInv')
    BY <2>1, <2>2, <2>3, SupersedeKeeps
  <2>5. Attached
    BY <1>0, <2>1, <2>2, AwaitAttached
  <2>6. ObserverInv'
    BY <1>0, <2>3, <2>4, <2>5, ObserversRest
  <2> QED
    BY <2>4, <2>6
<1>10. ASSUME NEW r \in Requests, Start(r)
       PROVE  SessionIInv' /\ (NoRetainedCompaction /\ RetirementInv => RetirementInv')
  BY <1>10, StartKeeps
<1>11. ASSUME NEW r \in Requests, RefuseTab(r)
       PROVE  SessionIInv' /\ (NoRetainedCompaction /\ RetirementInv => RetirementInv')
  <2>1. PICK old \in SUBSET Prunable : Forget(old)
    BY <1>11 DEF RefuseTab
  <2>2. EndRequest(r, "refused") /\ UNCHANGED <<sess, pending, observers, cancels>>
    BY <1>11 DEF RefuseTab
  <2>3. RegistryInv' /\ (RetirementInv => RetirementInv')
    BY <2>1, <2>2, PruneKeeps
  <2>4. Kept
    BY <2>2, SameRecords DEF RegistryInv
  <2>5. Attached
    BY <1>0, <2>2, EndAttached
  <2>6. ObserverInv'
    BY <1>0, <2>2, <2>4, <2>5, ObserversRest
  <2> QED
    BY <2>3, <2>6
<1>12. ASSUME NEW r \in Requests, Observing(r), NEW how \in {"done", "aborted"}, Leave(r, how),
              UNCHANGED cancels, RegistryInv' /\ Kept /\ (RetirementInv => RetirementInv')
       PROVE  SessionIInv' /\ (NoRetainedCompaction /\ RetirementInv => RetirementInv')
  BY <1>12, LeaveKeeps
<1>13. ASSUME NEW r \in Requests, FinishRound(r) \/ Disconnect(r)
       PROVE  SessionIInv' /\ (NoRetainedCompaction /\ RetirementInv => RetirementInv')
  <2>1. UNCHANGED <<sess, registry, pending, cancels>>
    BY <1>13 DEF FinishRound, Disconnect
  <2>2. RegistryInv' /\ Kept /\ (RetirementInv => RetirementInv')
    BY <2>1, NothingMoves
  <2> QED
    BY <1>12, <1>13, <2>1, <2>2 DEF FinishRound, Disconnect
<1>14. ASSUME NEW r \in Requests, FailRetryable(r)
       PROVE  SessionIInv' /\ (NoRetainedCompaction /\ RetirementInv => RetirementInv')
  <2>1. RegistryInv' /\ Kept /\ (RetirementInv => RetirementInv')
    <3>1. CASE at[r] \in Registered
      <4>1. Forget({at[r]}) /\ BeginRetirement({at[r]}, "silently")
        BY <1>14, <3>1 DEF FailRetryable
      <4>2. {at[r]} \in SUBSET Registered
        BY <3>1
      <4> QED
        BY <4>1, <4>2, RetireRegistered
    <3>2. CASE at[r] \notin Registered
      <4>1. UNCHANGED <<sess, registry, pending>>
        BY <1>14, <3>2 DEF FailRetryable
      <4> QED
        BY <4>1, NothingMoves
    <3> QED
      BY <3>1, <3>2
  <2> QED
    BY <1>12, <1>14, <2>1 DEF FailRetryable
<1>15. ASSUME NEW r \in Requests, FailTerminal(r)
       PROVE  SessionIInv' /\ (NoRetainedCompaction /\ RetirementInv => RetirementInv')
  <2>1. CancelSessions({at[r]}, "silently") /\ UNCHANGED <<registry, pending, cancels>>
    BY <1>15 DEF FailTerminal
  <2>2. RegistryInv' /\ Kept /\ (RetirementInv => RetirementInv')
    BY <2>1, CancelRests
  <2> QED
    BY <1>12, <1>15, <2>1, <2>2 DEF FailTerminal
<1>16. ASSUME NEW s \in Sessions, BrowserAnswers(s) \/ BrowserUnwinds(s)
       PROVE  SessionIInv' /\ (NoRetainedCompaction /\ RetirementInv => RetirementInv')
  <2>1. PICK outcome \in {"final", "error"} : Settle(s, outcome)
    BY <1>16 DEF BrowserAnswers, BrowserUnwinds
  <2> QED
    BY <2>1, SettleKeeps
<1>17. ASSUME NEW s \in Sessions, RetireCapability(s)
       PROVE  SessionIInv' /\ (NoRetainedCompaction /\ RetirementInv => RetirementInv')
  BY <1>17, CapabilityKeeps
<1>18. ASSUME UNCHANGED <<observers, request>>, Budget,
              RegistryInv' /\ Kept /\ (RetirementInv => RetirementInv')
       PROVE  SessionIInv' /\ (NoRetainedCompaction /\ RetirementInv => RetirementInv')
  <2>1. Attached
    BY <1>0, <1>18, RequestRests
  <2>2. cancels' \in 0..MAX_CANCELS
    BY <1>0, <1>18, SessionAssumption DEF Budget
  <2> QED
    BY <1>18, <2>1, <2>2, ObserversRest
<1>19. ASSUME NEW s \in Sessions, CancelTrace(s)
       PROVE  SessionIInv' /\ (NoRetainedCompaction /\ RetirementInv => RetirementInv')
  <2>1. RegistryInv' /\ Kept /\ (RetirementInv => RetirementInv')
    BY <1>19, CancelRests DEF CancelTrace
  <2> QED
    BY <1>18, <1>19, <2>1 DEF CancelTrace
<1>20. ASSUME NEW t \in NativeTurn, CancelNativeTurn(t)
       PROVE  SessionIInv' /\ (NoRetainedCompaction /\ RetirementInv => RetirementInv')
  <2> DEFINE m == {s \in Registered : sess[s].turn = t}
  <2>1. m \in SUBSET Registered
    OBVIOUS
  <2>2. Forget(m) /\ BeginRetirement(m, "reasoned")
    BY <1>20 DEF CancelNativeTurn
  <2> HIDE DEF m
  <2>3. RegistryInv' /\ Kept /\ (RetirementInv => RetirementInv')
    BY <2>1, <2>2, RetireRegistered
  <2> QED
    BY <1>18, <1>20, <2>3 DEF CancelNativeTurn
<1>21. ASSUME Clear
       PROVE  SessionIInv' /\ (NoRetainedCompaction /\ RetirementInv => RetirementInv')
  <2>1. Registered \in SUBSET Registered
    OBVIOUS
  <2>2. RegistryInv' /\ Kept /\ (RetirementInv => RetirementInv')
    BY <1>21, <2>1, RetireRegistered DEF Clear
  <2> QED
    BY <1>18, <1>21, <2>2 DEF Clear
<1>22. CASE UNCHANGED vars
  <2>1. UNCHANGED <<sess, registry, pending, observers, request, cancels>>
    BY <1>22 DEF vars
  <2>2. RegistryInv' /\ Kept /\ (RetirementInv => RetirementInv')
    BY <2>1, NothingMoves
  <2>3. Attached
    BY <1>0, <2>1, RequestRests
  <2>4. ObserverInv'
    BY <1>0, <2>1, <2>2, <2>3, ObserversRest
  <2> QED
    BY <2>2, <2>4
<1> HIDE DEF SessionIInv
<1> QED
  BY <1>1, <1>2, <1>5, <1>6, <1>8, <1>9, <1>10, <1>11, <1>13, <1>14, <1>15, <1>16, <1>17, <1>19,
     <1>20, <1>21, <1>22 DEF Next, Acquire

\* The heads of conversations can be resumed, and a capability outlives the observers it was
\* made for, whatever the requests are, also where a compaction closes a retained
\* conversation: for any number of requests, owners, keys, conversations and browser turns.
THEOREM HeadsCorrect == Spec => [](TypeOK /\ HeadIsLive /\ CapabilityOutlivesObservers)
<1>1. Init => SessionIInv
  BY InitKeeps
<1>2. SessionIInv /\ [Next]_vars => SessionIInv'
  BY NextKeeps
<1>3. SessionIInv => TypeOK /\ HeadIsLive /\ CapabilityOutlivesObservers
  BY DEF SessionIInv, RegistryInv, ObserverInv, RegistryType, ObserverType, TypeOK
<1> QED
  BY <1>1, <1>2, <1>3, PTL DEF Spec

\* Where no compaction closes a retained conversation, an owner has at most one browser that
\* has not settled: every unsettled one is either registered or waited for by its owner.
THEOREM SessionsCorrect ==
    ASSUME NoRetainedCompaction
    PROVE  Spec => []SessionInv
<1>1. Init => SessionIInv /\ RetirementInv
  BY InitKeeps
<1>2. SessionIInv /\ RetirementInv /\ [Next]_vars => (SessionIInv /\ RetirementInv)'
  BY NextKeeps
<1>3. SessionIInv /\ RetirementInv => SessionInv
  BY DEF SessionIInv, RegistryInv, ObserverInv, RegistryType, ObserverType, TypeOK, RetirementInv, SessionInv
<1> QED
  BY <1>1, <1>2, <1>3, PTL DEF Spec

-----------------------------------------------------------------------------
(* The compactions of a thread                                             *)

\* Runs are numbered as they come, and what names a run names one that has come.
RunsAreNumbered ==
    /\ runs \in [Started -> RunRecord]
    /\ \E n \in 0..MAX_RUNS : Started = 1..n
    /\ \A r \in Run \ Started : tx[r] = "none" /\ ~Live(tab[r].fresh)
    /\ gate # NoRun => gate \in Started
    /\ \A r \in Started : runs[r].prev # NoRun => runs[r].prev \in Started
    /\ \A k \in CompactKey : cached[k] # NoRun => cached[k] \in Started /\ runs[cached[k]].key = k
    /\ \A q \in Compacts : asks[q].at \in {"waiting", "summary"} =>
          asks[q].run \in Started /\ runs[asks[q].run].key = KeyOf[q]

\* The owners of the thread form a queue: the gate is its last one, and before each owner
\* stands the one that was the last when it came.
Owners == {r \in Started : runs[r].active}
OwnersQueue ==
    /\ gate = NoRun => Owners = {}
    /\ gate # NoRun => gate \in Owners /\ \A s \in Owners : s <= gate
    /\ \A r, s \in Owners : s < r => runs[r].prev \in Owners /\ s <= runs[r].prev

\* A run that works is an owner and the first of the queue.
AtWork(r) == runs[r].phase \notin {"gated", "done", "failed"} \/ Live(tab[r].fresh)
WorkersOwn ==
    \A r \in Started :
        /\ ~Ended(r) => runs[r].active
        /\ AtWork(r) => runs[r].active /\ GateOpen(r)

\* The source is cancelled only together with its head, and then somebody waits for it.
SourceBooks ==
    /\ source.settled => source.out # "active"
    /\ source.out = "final" => source.settled
    /\ source.out = "active" => source.entry \/ source.cancelled
    /\ source.head => mode # "fresh" /\ ~source.cancelled /\ (source.out = "error" => source.settled)
    /\ mode # "fresh" /\ ~source.head /\ ~source.settled =>
          \E r \in Started : runs[r].phase \in {"catching", "retiring"}

\* What a run knows of the source at each of its places.
RunBook(r) ==
    /\ runs[r].phase \in {"inspect", "settling"} => mode # "fresh"
    /\ runs[r].phase = "releasing" => mode = "fresh"
    /\ runs[r].phase \in {"settling", "begin", "handoff", "closing", "accepted"} => source.head
    /\ runs[r].phase \in {"begin", "handoff", "closing", "accepted", "fresh"} /\ source.head =>
          /\ source.out # "active"
          /\ source.out = "final" /\ ~source.instructed => runs[r].preserve
    /\ runs[r].phase \in {"catching", "retiring"} => ~source.head
    /\ Live(tab[r].fresh) => source.settled
    /\ tx[r] = "open" => runs[r].phase = "handoff"
RunBooks == \A r \in Started : RunBook(r)

CompactionIInv ==
    /\ CompactionTypeOK /\ RunsAreNumbered /\ OwnersQueue /\ WorkersOwn /\ SourceBooks /\ RunBooks
    /\ InterruptionHolds /\ SummaryHasItsSource /\ FinalAnswerSurvives

LEMMA Numbers ==
    ASSUME NEW n \in 0..MAX_RUNS, Started = 1..n
    PROVE  Cardinality(Started) = n
<1>1. n \in Nat
  BY CompactionAssumption
<1> QED
  BY <1>1, FS_Interval

\* Two runs at work are one.
LEMMA WorkIsAlone ==
    ASSUME RunsAreNumbered, OwnersQueue, WorkersOwn,
           NEW r \in Started, NEW s \in Started, AtWork(r), AtWork(s)
    PROVE  r = s
<1>1. r \in Owners /\ s \in Owners /\ GateOpen(r) /\ GateOpen(s)
  BY DEF WorkersOwn, Owners
<1>2. r \in Nat /\ s \in Nat
  BY CompactionAssumption DEF RunsAreNumbered
<1>3. ~(s < r) /\ ~(r < s)
  BY <1>1, CompactionAssumption DEF OwnersQueue, GateOpen, Owners, RunsAreNumbered
<1> QED
  BY <1>2, <1>3

TabRecord == [handoff: TabState, fresh: TabState]

\* What every step leaves of the source: it may end and lose its head, no more.
SourceMoves ==
    /\ source' \in SourceRecord /\ mode' = mode
    /\ source.settled => source'.settled
    /\ source'.head => source.head
    /\ source'.head /\ source.out # "active" =>
          source'.out = source.out /\ source'.instructed = source.instructed

\* The runs of a set go on, in the state they may reach; the others are left alone.
RunsMove(hit) ==
    /\ runs' \in [Started -> RunRecord]
    /\ tab' \in [Run -> TabRecord] /\ tx' \in [Run -> {"none", "beginning", "open"}]
    /\ \A s \in Started : /\ runs'[s].key = runs[s].key /\ runs'[s].prev = runs[s].prev
                          /\ runs'[s].active = runs[s].active
                          /\ runs[s].aborted => runs'[s].aborted
    /\ \A s \in Started \ hit : runs'[s] = runs[s]
    /\ \A s \in Run \ hit : /\ tab'[s].fresh = tab[s].fresh \/ ~Live(tab'[s].fresh)
                            /\ tx'[s] = tx[s] \/ tx'[s] = "none"
    /\ \A s \in hit : /\ ~Ended(s)
                      /\ AtWork(s) \/ runs'[s].phase \in {"done", "failed"} \/ GateOpen(s)
                      /\ Live(tab'[s].fresh) => Live(tab[s].fresh) \/ AtWork(s)
                      /\ tx'[s] = "open" => runs'[s].phase = "handoff"
    /\ UNCHANGED books

\* The head is taken by a run at work.
HeadHeld(hit) == source.head /\ ~source'.head => \E s \in hit : AtWork(s)

Quarantined == {"catching", "retiring"}

LEMMA RunsMoveKeeps ==
    ASSUME CompactionIInv, NEW hit \in SUBSET Started, RunsMove(hit), UNCHANGED asks
    PROVE  /\ RunsAreNumbered' /\ OwnersQueue' /\ WorkersOwn' /\ SummaryHasItsSource'
           /\ Started' = Started
<1> USE CompactionAssumption DEF books
<1>0. /\ CompactionTypeOK /\ RunsAreNumbered /\ OwnersQueue /\ WorkersOwn /\ RunBooks /\ SummaryHasItsSource
  BY DEF CompactionIInv
<1>1. Started' = Started
  BY DEF RunsMove, Started
<1>2. Started \subseteq Run
  BY <1>0 DEF CompactionTypeOK, Started
<1>3. RunsAreNumbered'
  <2>1. runs' \in [Started' -> RunRecord] /\ \E n \in 0..MAX_RUNS : Started' = 1..n
    BY <1>0, <1>1 DEF RunsAreNumbered, RunsMove
  <2>2. \A r \in Run \ Started' : tx'[r] = "none" /\ ~Live(tab'[r].fresh)
    BY <1>0, <1>1 DEF RunsAreNumbered, RunsMove
  <2>3. /\ gate' # NoRun => gate' \in Started'
        /\ \A r \in Started' : runs'[r].prev # NoRun => runs'[r].prev \in Started'
        /\ \A k \in CompactKey : cached'[k] # NoRun => cached'[k] \in Started' /\ runs'[cached'[k]].key = k
        /\ \A q \in Compacts : asks'[q].at \in {"waiting", "summary"} =>
              asks'[q].run \in Started' /\ runs'[asks'[q].run].key = KeyOf[q]
    BY <1>0, <1>1 DEF RunsAreNumbered, RunsMove
  <2> QED
    BY <2>1, <2>2, <2>3 DEF RunsAreNumbered
<1>4. Owners' = Owners
  BY <1>1 DEF Owners, RunsMove
<1>5. OwnersQueue'
  BY <1>0, <1>1, <1>4 DEF OwnersQueue, RunsMove, Owners
<1>6. \A s \in Started : GateOpen(s)' <=> GateOpen(s)
  BY <1>0, <1>1 DEF GateOpen, RunsMove, RunsAreNumbered
<1>7. WorkersOwn'
  BY <1>0, <1>1, <1>2, <1>6 DEF WorkersOwn, RunsMove, AtWork, Ended, Live
<1>8. SummaryHasItsSource'
  <2>1. ASSUME NEW q \in Compacts, asks'[q].at = "summary"
        PROVE  runs'[asks'[q].run].key = KeyOf[q] /\ runs'[asks'[q].run].phase = "done"
    BY <1>0, <2>1 DEF SummaryHasItsSource, RunsAreNumbered, RunsMove, Ended
  <2>2. ASSUME NEW r \in Started, Ended(r)' PROVE tx'[r] # "open"
    <3>1. CASE r \in hit
      BY <2>2, <3>1 DEF RunsMove, Ended
    <3>2. CASE r \notin hit
      BY <1>0, <1>2, <2>2, <3>2 DEF RunsMove, Ended, SummaryHasItsSource
    <3> QED
      BY <3>1, <3>2
  <2> QED
    BY <1>1, <2>1, <2>2 DEF SummaryHasItsSource
<1> QED
  BY <1>1, <1>3, <1>5, <1>7, <1>8

\* A step keeps the invariant if it keeps the books of the source and of the runs that move.
LEMMA StepKeeps ==
    ASSUME CompactionIInv, NEW hit \in SUBSET Started, RunsMove(hit), SourceMoves, UNCHANGED asks,
           HeadHeld(hit), \A s \in hit : RunBook(s)', SourceBooks', FinalAnswerSurvives',
           interrupted' \subseteq NativeTurns,
           \A s \in Started : TurnOf[runs[s].key] \in interrupted' \ interrupted =>
              runs'[s].aborted \/ Ended(s),
           aborts' \in 0..MAX_ABORTS, calls' \in 0..MAX_CALLS
    PROVE  CompactionIInv'
<1>0. /\ CompactionTypeOK /\ RunsAreNumbered /\ OwnersQueue /\ WorkersOwn /\ RunBooks
      /\ InterruptionHolds
  BY DEF CompactionIInv
<1>1. /\ RunsAreNumbered' /\ OwnersQueue' /\ WorkersOwn' /\ SummaryHasItsSource' /\ Started' = Started
  BY RunsMoveKeeps
<1>2. Started \subseteq Run
  BY <1>0 DEF CompactionTypeOK, Started
<1>3. RunBooks'
  <2>1. ASSUME NEW s \in Started \ hit PROVE RunBook(s)'
    <3>1. RunBook(s) /\ runs'[s] = runs[s] /\ s \in Run \ hit
      BY <1>0, <1>2, <2>1 DEF RunBooks, RunsMove
    <3>2. AtWork(s) /\ source.head => source'.head
      BY <1>0, <2>1, WorkIsAlone DEF HeadHeld
    <3>3. runs[s].phase \in {"settling", "begin", "handoff", "closing", "accepted"} => source'.head
      BY <3>1, <3>2 DEF RunBook, AtWork
    <3> QED
      BY <1>0, <3>1, <3>3 DEF RunBook, RunsMove, SourceMoves
  <2> QED
    BY <1>1, <2>1 DEF RunBooks
<1>4. InterruptionHolds'
  BY <1>0, <1>1 DEF InterruptionHolds, RunsMove, Ended
<1>5. CompactionTypeOK'
  BY <1>0, <1>1, <1>2 DEF CompactionTypeOK, RunsMove, SourceMoves, SourceRecord, TabRecord, books, Started
<1> QED
  BY <1>1, <1>3, <1>4, <1>5 DEF CompactionIInv

\* A source that stays, or is retired by a run which then waits for it.
LEMMA SourceStays ==
    ASSUME CompactionIInv, NEW hit \in SUBSET Started, RunsMove(hit), source' = source, mode' = mode,
           \A s \in hit : runs[s].phase \in Quarantined => runs'[s].phase \in Quarantined \/ source.settled
    PROVE  SourceMoves /\ SourceBooks' /\ FinalAnswerSurvives' /\ HeadHeld(hit)
<1>0. CompactionTypeOK /\ SourceBooks /\ FinalAnswerSurvives
  BY DEF CompactionIInv
<1>1. SourceMoves
  BY <1>0 DEF SourceMoves, CompactionTypeOK, SourceRecord
<1>2. FinalAnswerSurvives'
  BY <1>0 DEF FinalAnswerSurvives
<1>3. Started' = Started
  BY DEF RunsMove, Started
<1>4. ASSUME mode # "fresh", ~source.head, ~source.settled
      PROVE  \E r \in Started : runs'[r].phase \in Quarantined
  <2>1. PICK r \in Started : runs[r].phase \in Quarantined
    BY <1>0, <1>4 DEF SourceBooks, Quarantined
  <2> QED
    BY <1>4, <2>1 DEF RunsMove
<1>5. SourceBooks'
  BY <1>0, <1>3, <1>4 DEF SourceBooks, Quarantined
<1> QED
  BY <1>1, <1>2, <1>5 DEF HeadHeld

RetiredFrom(next, p) ==
    /\ next \in SourceRecord /\ ~next.head /\ next.settled = source.settled
    /\ IF source.out = "active" THEN next.out \in {"active", "error"} /\ next.cancelled
       ELSE next.out = source.out /\ next.cancelled = source.cancelled
    /\ next.instructed = source.instructed /\ (next.entry <=> source.entry /\ p)

LEMMA RetiredIs ==
    ASSUME source \in SourceRecord, NEW ended \in {source, FailSource(source)}, NEW p \in BOOLEAN
    PROVE  RetiredFrom(Retired(ended, p), p)
<1>1. /\ ended \in SourceRecord /\ ended.settled = source.settled
      /\ \/ ended.out = source.out /\ ended.cancelled = source.cancelled
         \/ source.out = "active" /\ ended.out = "error" /\ ended.cancelled = TRUE
      /\ ended.instructed = source.instructed /\ ended.entry = source.entry
  <2>1. CASE source.out # "active"
    BY <2>1 DEF FailSource
  <2>2. CASE source.out = "active"
    <3> DEFINE aborted == CancelSource(source)
    <3>1. /\ aborted \in SourceRecord /\ aborted.settled = source.settled /\ aborted.cancelled = TRUE
          /\ aborted.instructed = source.instructed /\ aborted.entry = source.entry
      BY <2>2 DEF SourceRecord, CancelSource
    <3>2. ended = source \/ ended = [aborted EXCEPT !.out = "error"]
      BY <2>2 DEF FailSource
    <3> HIDE DEF aborted
    <3> QED
      BY <2>2, <3>1, <3>2 DEF SourceRecord
  <2> QED
    BY <2>1, <2>2
<1> DEFINE next == Retired(ended, p)
<1>2. /\ next \in SourceRecord /\ next.head = FALSE /\ next.settled = ended.settled
      /\ next.out = ended.out /\ next.instructed = ended.instructed
      /\ next.cancelled = (IF ended.out = "active" THEN TRUE ELSE ended.cancelled)
  BY <1>1 DEF SourceRecord, Retired, CancelSource
<1>3. next.entry <=> ended.entry /\ p
  BY <1>1 DEF SourceRecord, Retired, CancelSource
<1> HIDE DEF next
<1>4. RetiredFrom(next, p)
  BY <1>1, <1>2, <1>3 DEF RetiredFrom
<1> QED
  BY <1>4 DEF next

LEMMA SourceRetires ==
    ASSUME CompactionIInv, NEW hit \in SUBSET Started, RunsMove(hit), mode' = mode,
           NEW ended \in {source, FailSource(source)},
           NEW p \in BOOLEAN, source' = Retired(ended, p),
           source.out = "final" /\ ~source.instructed => p,
           \E s \in hit : AtWork(s) /\ runs'[s].phase \in Quarantined
    PROVE  SourceMoves /\ SourceBooks' /\ FinalAnswerSurvives' /\ HeadHeld(hit) /\ ~source'.head
<1>0. CompactionTypeOK /\ SourceBooks /\ FinalAnswerSurvives /\ source \in SourceRecord
  BY DEF CompactionIInv, CompactionTypeOK, SourceRecord
<1>1. /\ source' \in SourceRecord /\ ~source'.head /\ source'.settled = source.settled
      /\ IF source.out = "active" THEN source'.out \in {"active", "error"} /\ source'.cancelled
         ELSE source'.out = source.out /\ source'.cancelled = source.cancelled
      /\ source'.instructed = source.instructed /\ (source'.entry <=> source.entry /\ p)
  BY <1>0, RetiredIs DEF RetiredFrom
<1>2. SourceMoves
  BY <1>1 DEF SourceMoves
<1>3. FinalAnswerSurvives'
  BY <1>0, <1>1 DEF FinalAnswerSurvives
<1>4. Started' = Started
  BY DEF RunsMove, Started
<1>5. SourceBooks'
  BY <1>0, <1>1, <1>4 DEF SourceBooks, Quarantined, SourceRecord
<1> QED
  BY <1>1, <1>2, <1>3, <1>5 DEF HeadHeld

\* What the pieces of the code do to the run that executes them.
LEMMA BecomesIs ==
    ASSUME runs \in [Started -> RunRecord], NEW r \in Started, NEW phase,
           phase \in {"inspect", "settling", "releasing", "begin", "handoff", "closing",
                      "accepted", "retiring", "catching", "fresh", "done", "failed"},
           Becomes(r, phase)
    PROVE  /\ runs' \in [Started -> RunRecord]
           /\ \A s \in Started : /\ runs'[s].key = runs[s].key /\ runs'[s].prev = runs[s].prev
                                 /\ runs'[s].active = runs[s].active /\ runs'[s].aborted = runs[s].aborted
           /\ \A s \in Started \ {r} : runs'[s] = runs[s]
           /\ runs'[r].phase = phase
           /\ phase \notin {"done", "failed"} => runs'[r].preserve = runs[r].preserve
<1> DEFINE new == [runs[r] EXCEPT !.phase = phase,
                                   !.preserve = IF phase \in {"done", "failed"} THEN FALSE ELSE @]
<1>1. runs' = [runs EXCEPT ![r] = new] /\ runs[r] \in RunRecord
  BY DEF Becomes
<1>2. /\ new.key = runs[r].key /\ new.prev = runs[r].prev /\ new.active = runs[r].active
      /\ new.aborted = runs[r].aborted /\ new.phase = phase
  BY <1>1 DEF RunRecord
<1>3. new.preserve = IF phase \in {"done", "failed"} THEN FALSE ELSE runs[r].preserve
  BY <1>1 DEF RunRecord
<1>4. new \in RunRecord
  <2>1. CASE phase \in {"done", "failed"}
    BY <1>1, <2>1 DEF RunRecord
  <2>2. CASE phase \notin {"done", "failed"}
    BY <1>1, <2>2 DEF RunRecord
  <2> QED
    BY <2>1, <2>2
<1> HIDE DEF new
<1> QED
  BY <1>1, <1>2, <1>3, <1>4

LEMMA PreservesIs ==
    ASSUME runs \in [Started -> RunRecord], NEW r \in Started, NEW phase \in {"begin", "fresh"},
           NEW kept \in BOOLEAN,
           runs' = [runs EXCEPT ![r].phase = phase, ![r].preserve = kept]
    PROVE  /\ runs' \in [Started -> RunRecord]
           /\ \A s \in Started : /\ runs'[s].key = runs[s].key /\ runs'[s].prev = runs[s].prev
                                 /\ runs'[s].active = runs[s].active /\ runs'[s].aborted = runs[s].aborted
           /\ \A s \in Started \ {r} : runs'[s] = runs[s]
           /\ runs'[r].phase = phase /\ runs'[r].preserve = kept
<1> DEFINE new == [runs[r] EXCEPT !.phase = phase, !.preserve = kept]
<1>1. runs' = [runs EXCEPT ![r] = new] /\ runs[r] \in RunRecord
  OBVIOUS
<1>2. /\ new.key = runs[r].key /\ new.prev = runs[r].prev /\ new.active = runs[r].active
      /\ new.aborted = runs[r].aborted /\ new.phase = phase /\ new.preserve = kept
      /\ new \in RunRecord
  BY <1>1 DEF RunRecord
<1> HIDE DEF new
<1> QED
  BY <1>1, <1>2

LEMMA CatchIs ==
    ASSUME runs \in [Started -> RunRecord], NEW r \in Started,
           NEW error \in {"unavailable", "oversized", "other"}, Catch(r, error)
    PROVE  /\ runs' \in [Started -> RunRecord]
           /\ \A s \in Started : /\ runs'[s].key = runs[s].key /\ runs'[s].prev = runs[s].prev
                                 /\ runs'[s].active = runs[s].active /\ runs'[s].aborted = runs[s].aborted
           /\ \A s \in Started \ {r} : runs'[s] = runs[s]
           /\ runs'[r].phase = (IF source.head THEN "catching" ELSE "failed")
           /\ source' = (IF source.head THEN Retired(source, runs[r].preserve) ELSE source)
           /\ runs[r].preserve \in BOOLEAN
<1> DEFINE new == [runs[r] EXCEPT !.phase = IF source.head THEN "catching" ELSE "failed",
                                   !.error = error, !.preserve = FALSE]
<1>1. runs' = [runs EXCEPT ![r] = new] /\ runs[r] \in RunRecord
  BY DEF Catch
<1>2. source' = IF source.head THEN Retired(source, runs[r].preserve) ELSE source
  BY DEF Catch
<1>3. /\ new.key = runs[r].key /\ new.prev = runs[r].prev /\ new.active = runs[r].active
      /\ new.aborted = runs[r].aborted /\ new.phase = (IF source.head THEN "catching" ELSE "failed")
      /\ new \in RunRecord /\ runs[r].preserve \in BOOLEAN
  BY <1>1 DEF RunRecord
<1> HIDE DEF new
<1> QED
  BY <1>1, <1>2, <1>3

LEMMA AbortIs ==
    ASSUME CompactionTypeOK, runs \in [Started -> RunRecord], NEW hit \in SUBSET Started, Abort(hit)
    PROVE  /\ runs' \in [Started -> RunRecord] /\ tab' \in [Run -> TabRecord]
           /\ tx' \in [Run -> {"none", "beginning", "open"}]
           /\ \A s \in Started : /\ runs'[s].key = runs[s].key /\ runs'[s].prev = runs[s].prev
                                 /\ runs'[s].active = runs[s].active
                                 /\ runs[s].aborted => runs'[s].aborted
           /\ \A s \in Started \ hit : runs'[s] = runs[s]
           /\ \A s \in Run \ hit : tab'[s] = tab[s] /\ tx'[s] = tx[s]
           /\ \A s \in hit :
                 /\ runs'[s].aborted
                 /\ runs'[s].phase =
                       IF \/ runs[s].phase \in {"catching", "retiring"}
                          \/ source.head /\ runs[s].phase \in
                                {"settling", "begin", "handoff", "closing", "accepted", "fresh"}
                       THEN "catching" ELSE "failed"
                 /\ Live(tab'[s].fresh) <=> Live(tab[s].fresh)
                 /\ tx'[s] # "open"
<1>0. /\ source \in SourceRecord /\ tab \in [Run -> TabRecord] /\ tx \in [Run -> {"none", "beginning", "open"}]
      /\ Started \subseteq Run
  BY DEF CompactionTypeOK, SourceRecord, TabRecord, Started
<1> DEFINE Catches(r) == source.head /\ runs[r].phase \in
               {"settling", "begin", "handoff", "closing", "accepted", "fresh"}
           Onward(r) == IF runs[r].phase \in {"catching", "retiring"} \/ Catches(r) THEN "catching" ELSE "failed"
           Aborted(r) == [runs[r] EXCEPT
               !.aborted = TRUE, !.preserve = FALSE,
               !.error = IF runs[r].phase = "catching" THEN @ ELSE "other",
               !.phase = Onward(r)]
           Stopped(t) == IF t = "running" THEN "aborting" ELSE t
<1>1. /\ runs' = [r \in Started |-> IF r \in hit THEN Aborted(r) ELSE runs[r]]
      /\ tab' = [r \in Run |-> IF r \notin hit THEN tab[r]
                     ELSE [handoff |-> Stopped(tab[r].handoff), fresh |-> Stopped(tab[r].fresh)]]
      /\ tx' = [r \in Run |-> IF r \in hit THEN AbortTx(r) ELSE tx[r]]
  BY DEF Abort
<1>2. ASSUME NEW r \in Started
      PROVE  /\ Aborted(r) \in RunRecord /\ Aborted(r).phase = Onward(r) /\ Aborted(r).aborted
             /\ Aborted(r).key = runs[r].key /\ Aborted(r).prev = runs[r].prev
             /\ Aborted(r).active = runs[r].active
  <2>1. runs[r] \in RunRecord
    BY <1>2
  <2>2. Onward(r) \in {"catching", "failed"}
    OBVIOUS
  <2> HIDE DEF Onward
  <2> QED
    BY <2>1, <2>2 DEF RunRecord
<1> HIDE DEF Aborted
<1>3. runs' \in [Started -> RunRecord]
  BY <1>1, <1>2
<1>4. tab' \in [Run -> TabRecord]
  <2>1. \A t \in TabState : Stopped(t) \in TabState /\ (Live(Stopped(t)) <=> Live(t))
    BY DEF TabState, Live
  <2> HIDE DEF Stopped
  <2> QED
    BY <1>0, <1>1, <2>1 DEF TabRecord
<1>5. tx' \in [Run -> {"none", "beginning", "open"}] /\ \A s \in hit : tx'[s] # "open"
  BY <1>0, <1>1 DEF AbortTx
<1>6. \A s \in hit : Live(tab'[s].fresh) <=> Live(tab[s].fresh)
  BY <1>0, <1>1 DEF Live
<1>7. \A s \in Started : IF s \in hit THEN runs'[s] = Aborted(s) ELSE runs'[s] = runs[s]
  BY <1>1
<1>8. \A s \in Run \ hit : tab'[s] = tab[s] /\ tx'[s] = tx[s]
  BY <1>1
<1>9. \A s \in Started : /\ runs'[s].key = runs[s].key /\ runs'[s].prev = runs[s].prev
                         /\ runs'[s].active = runs[s].active
                         /\ runs[s].aborted => runs'[s].aborted
  BY <1>2, <1>7
<1>10. \A s \in hit : runs'[s].aborted /\ runs'[s].phase = Onward(s)
  BY <1>2, <1>7
<1> QED
  BY <1>3, <1>4, <1>5, <1>6, <1>7, <1>8, <1>9, <1>10

\* The abort of runs that may be aborted keeps the invariant.
LEMMA AbortKeeps ==
    ASSUME CompactionIInv, NEW hit \in SUBSET Started, \A r \in hit : Abortable(r), ~Continuing,
           Abort(hit), UNCHANGED <<mode, books, asks>>,
           interrupted' \subseteq NativeTurns,
           \A s \in Started : TurnOf[runs[s].key] \in interrupted' \ interrupted =>
              s \in hit \/ Ended(s) \/ runs[s].aborted,
           aborts' \in 0..MAX_ABORTS, calls' \in 0..MAX_CALLS
    PROVE  CompactionIInv'
<1>0. /\ CompactionTypeOK /\ RunsAreNumbered /\ OwnersQueue /\ WorkersOwn /\ SourceBooks /\ RunBooks
      /\ source \in SourceRecord
  BY DEF CompactionIInv, CompactionTypeOK, SourceRecord
<1>1. /\ runs' \in [Started -> RunRecord] /\ tab' \in [Run -> TabRecord]
      /\ tx' \in [Run -> {"none", "beginning", "open"}]
      /\ \A s \in Started : /\ runs'[s].key = runs[s].key /\ runs'[s].prev = runs[s].prev
                            /\ runs'[s].active = runs[s].active
                            /\ runs[s].aborted => runs'[s].aborted
      /\ \A s \in Started \ hit : runs'[s] = runs[s]
      /\ \A s \in Run \ hit : tab'[s] = tab[s] /\ tx'[s] = tx[s]
      /\ \A s \in hit :
            /\ runs'[s].aborted
            /\ runs'[s].phase =
                  IF \/ runs[s].phase \in {"catching", "retiring"}
                     \/ source.head /\ runs[s].phase \in
                           {"settling", "begin", "handoff", "closing", "accepted", "fresh"}
                  THEN "catching" ELSE "failed"
            /\ Live(tab'[s].fresh) <=> Live(tab[s].fresh)
            /\ tx'[s] # "open"
  BY <1>0, AbortIs DEF RunsAreNumbered
<1>2. RunsMove(hit)
  BY <1>0, <1>1 DEF RunsMove, Abortable, AtWork, Ended
<1> DEFINE Catches(r) == source.head /\ runs[r].phase \in
               {"settling", "begin", "handoff", "closing", "accepted", "fresh"}
<1>3. \A s \in hit : runs[s].phase \in Quarantined => runs'[s].phase \in Quarantined
  BY <1>1 DEF Quarantined
<1>4. /\ SourceMoves /\ SourceBooks' /\ FinalAnswerSurvives' /\ HeadHeld(hit)
      /\ (\A s \in hit : Catches(s) => ~source'.head)
  <2>1. CASE ~\E r \in hit : Catches(r)
    <3>1. source' = source
      BY <2>1 DEF Abort
    <3> QED
      BY <1>2, <1>3, <2>1, <3>1, SourceStays
  <2>2. CASE \E r \in hit : Catches(r)
    <3> DEFINE p == \A r \in hit : Catches(r) => runs[r].preserve
    <3>1. PICK ended \in {source, FailSource(source)} : source' = Retired(ended, p)
      BY <2>2 DEF Abort
    <3>2. p \in BOOLEAN
      OBVIOUS
    <3>3. ASSUME source.out = "final", ~source.instructed PROVE p
      <4>1. ASSUME NEW r \in hit, Catches(r) PROVE runs[r].preserve
        BY <1>0, <3>3, <4>1 DEF RunBooks, RunBook, Continuing
      <4> QED
        BY <4>1
    <3>4. \E s \in hit : AtWork(s) /\ runs'[s].phase \in Quarantined
      BY <1>1, <2>2 DEF Quarantined, AtWork
    <3> HIDE DEF p
    <3> QED
      BY <1>2, <3>1, <3>2, <3>3, <3>4, SourceRetires
  <2> QED
    BY <2>1, <2>2
<1>5. \A s \in hit : RunBook(s)'
  BY <1>0, <1>1, <1>4 DEF RunBooks, RunBook, SourceMoves
<1>6. \A s \in Started : TurnOf[runs[s].key] \in interrupted' \ interrupted => runs'[s].aborted \/ Ended(s)
  BY <1>1
<1> QED
  BY <1>2, <1>4, <1>5, <1>6, StepKeeps

\* The steps of the source, of a timer or of an unwinding tab move no run.
LEMMA NobodyMoves ==
    ASSUME CompactionIInv, runs' = runs,
           tab' \in [Run -> TabRecord], tx' \in [Run -> {"none", "beginning", "open"}],
           \A s \in Run : /\ tab'[s].fresh = tab[s].fresh \/ ~Live(tab'[s].fresh)
                          /\ tx'[s] = tx[s] \/ tx'[s] = "none",
           UNCHANGED books
    PROVE  RunsMove({})
BY DEF RunsMove, CompactionIInv, RunsAreNumbered

LEMMA SourceSteps ==
    ASSUME CompactionIInv, SourceCalls \/ CallDelivered \/ OrdinaryRound \/ SourceEnds \/ SourceUnwinds
    PROVE  CompactionIInv'
<1>0. /\ CompactionTypeOK /\ SourceBooks /\ FinalAnswerSurvives /\ source \in SourceRecord
      /\ UNCHANGED <<mode, runs, books, tx, tab, interrupted, asks, aborts>>
  BY DEF CompactionIInv, CompactionTypeOK, SourceRecord, SourceCalls, CallDelivered,
         OrdinaryRound, SourceEnds, SourceUnwinds, outside
<1>1. RunsMove({})
  <2>1. /\ tab' \in [Run -> TabRecord] /\ tx' \in [Run -> {"none", "beginning", "open"}]
        /\ runs' = runs /\ tab' = tab /\ tx' = tx /\ UNCHANGED books
    BY <1>0 DEF CompactionTypeOK, TabRecord
  <2> QED
    BY <2>1, NobodyMoves
<1>2. /\ source' \in SourceRecord /\ source'.head = source.head /\ source'.entry = source.entry
      /\ source.settled => source'.settled
      /\ source.out # "active" => source'.out = source.out /\ source'.instructed = source.instructed
      /\ source'.cancelled = source.cancelled
      /\ \/ source'.out = source.out /\ source'.settled = source.settled
         \/ source.out = "active" /\ source'.out # "active" /\ source'.settled
         \/ source.out = "error" /\ source'.out = "error" /\ source'.settled
  <2>1. CASE SourceCalls
    BY <1>0, <2>1 DEF SourceCalls, SourceRecord
  <2>2. CASE CallDelivered
    BY <1>0, <2>2 DEF CallDelivered, SourceRecord
  <2>3. CASE OrdinaryRound
    BY <1>0, <2>3 DEF OrdinaryRound, SourceRecord
  <2>4. CASE SourceEnds
    BY <1>0, <2>4 DEF SourceEnds, SourceRecord
  <2>5. CASE SourceUnwinds
    <3>1. PICK out \in {"final", "error"} :
             source' = [source EXCEPT !.out = IF @ = "active" THEN out ELSE @,
                                      !.settled = TRUE, !.call = "none", !.requested = FALSE]
      BY <2>5 DEF SourceUnwinds
    <3>2. ~source.settled /\ (source.out = "error" \/ source.cancelled)
      BY <2>5 DEF SourceUnwinds
    <3> DEFINE end == IF source.out = "active" THEN out ELSE source.out
    <3>3. end \in {"active", "final", "error"}
      BY <1>0 DEF SourceRecord
    <3>4. source' = [source EXCEPT !.out = end, !.settled = TRUE, !.call = "none", !.requested = FALSE]
      BY <3>1
    <3>5. IF source.out = "active" THEN end \in {"final", "error"} ELSE end = source.out
      OBVIOUS
    <3> HIDE DEF end
    <3>6. /\ source' \in SourceRecord /\ source'.head = source.head /\ source'.entry = source.entry
          /\ source'.out = end /\ source'.settled = TRUE
          /\ source'.instructed = source.instructed /\ source'.cancelled = source.cancelled
      BY <1>0, <3>3, <3>4 DEF SourceRecord
    <3>7. source.out = "final" => source.settled
      BY <1>0 DEF SourceBooks
    <3> QED
      BY <1>0, <3>2, <3>5, <3>6, <3>7 DEF SourceRecord
  <2> QED
    BY <2>1, <2>2, <2>3, <2>4, <2>5
<1>3. SourceMoves /\ HeadHeld({})
  BY <1>0, <1>2 DEF SourceMoves, HeadHeld
<1>4. SourceBooks' /\ FinalAnswerSurvives'
  BY <1>0, <1>2 DEF SourceBooks, FinalAnswerSurvives, SourceRecord, Started
<1>5. aborts' \in 0..MAX_ABORTS /\ calls' \in 0..MAX_CALLS /\ interrupted' \subseteq NativeTurns
  <2>1. CASE SourceCalls
    <3>1. calls \in 0..MAX_CALLS /\ aborts \in 0..MAX_ABORTS /\ interrupted \subseteq NativeTurns
      BY <1>0 DEF CompactionTypeOK
    <3>2. calls < MAX_CALLS /\ calls' = calls + 1 /\ aborts' = aborts /\ interrupted' = interrupted
      BY <2>1 DEF SourceCalls
    <3> QED
      BY <3>1, <3>2, CompactionAssumption
  <2>2. CASE CallDelivered \/ OrdinaryRound \/ SourceEnds \/ SourceUnwinds
    BY <1>0, <2>2 DEF CompactionTypeOK, CallDelivered, OrdinaryRound, SourceEnds, SourceUnwinds, outside
  <2> QED
    BY <2>1, <2>2
<1> QED
  BY <1>0, <1>1, <1>3, <1>4, <1>5, StepKeeps

LEMMA AsksSteps ==
    ASSUME CompactionIInv, NEW q \in Compacts, Join(q) \/ Refuse(q) \/ Observe(q) \/ Detach(q)
    PROVE  CompactionIInv'
<1> USE CompactionAssumption
<1>0. /\ CompactionTypeOK /\ RunsAreNumbered /\ SummaryHasItsSource /\ KeyOf[q] \in CompactKey
      /\ UNCHANGED <<source, runs, books, tx, tab, interrupted, outside>>
  BY DEF CompactionIInv, Join, Refuse, Observe, Detach, books
<1> DEFINE Ask == [at: {"new", "waiting", "summary", "error"}, run: Run \cup {NoRun}]
<1>1. asks \in [Compacts -> Ask]
  BY <1>0 DEF CompactionTypeOK
<1>2. PICK new \in Ask :
         /\ asks' = [asks EXCEPT ![q] = new]
         /\ new.at \in {"waiting", "summary"} => new.run \in Started /\ runs[new.run].key = KeyOf[q]
         /\ new.at = "summary" => runs[new.run].phase = "done"
  <2>1. CASE Join(q)
    <3> DEFINE new == [at |-> "waiting", run |-> cached[KeyOf[q]]]
    <3>1. /\ asks' = [asks EXCEPT ![q] = new]
          /\ cached[KeyOf[q]] \in Started /\ runs[cached[KeyOf[q]]].key = KeyOf[q]
          /\ cached[KeyOf[q]] \in Run \cup {NoRun}
      BY <1>0, <2>1 DEF Join, Attach, RunsAreNumbered, CompactionTypeOK
    <3>2. new \in Ask /\ new.at = "waiting" /\ new.run = cached[KeyOf[q]]
      BY <3>1
    <3> HIDE DEF new
    <3> QED
      BY <3>1, <3>2
  <2>2. CASE Refuse(q)
    <3> DEFINE new == [asks[q] EXCEPT !.at = "error"]
    <3>1. asks' = [asks EXCEPT ![q] = new]
      BY <2>2 DEF Refuse
    <3>2. new \in Ask /\ new.at = "error"
      BY <1>1
    <3> HIDE DEF new
    <3> QED
      BY <3>1, <3>2
  <2>3. CASE Observe(q)
    <3> DEFINE end == IF runs[asks[q].run].phase = "done" THEN "summary" ELSE "error"
               new == [asks[q] EXCEPT !.at = end]
    <3>1. asks' = [asks EXCEPT ![q] = new]
      BY <2>3 DEF Observe
    <3>2. asks[q].run \in Started /\ runs[asks[q].run].key = KeyOf[q]
      BY <1>0, <2>3 DEF Observe, RunsAreNumbered
    <3>3. end \in {"summary", "error"} /\ (end = "summary" => runs[asks[q].run].phase = "done")
      OBVIOUS
    <3> HIDE DEF end
    <3>4. new \in Ask /\ new.at = end /\ new.run = asks[q].run
      BY <1>1, <3>3
    <3> HIDE DEF new
    <3> QED
      BY <3>1, <3>2, <3>3, <3>4
  <2>4. CASE Detach(q)
    <3> DEFINE new == [at |-> "new", run |-> NoRun]
    <3>1. asks' = [asks EXCEPT ![q] = new]
      BY <2>4 DEF Detach
    <3>2. new \in Ask /\ new.at = "new"
      OBVIOUS
    <3> HIDE DEF new
    <3> QED
      BY <3>1, <3>2
  <2> QED
    BY <1>0, <2>1, <2>2, <2>3, <2>4
<1>3. asks' \in [Compacts -> Ask]
  BY <1>1, <1>2
<1>4. RunsAreNumbered'
  BY <1>0, <1>1, <1>2 DEF RunsAreNumbered, books, Started
<1>5. SummaryHasItsSource'
  BY <1>0, <1>1, <1>2 DEF SummaryHasItsSource, Ended, Started
<1>6. CompactionTypeOK'
  BY <1>0, <1>3 DEF CompactionTypeOK, books, outside
<1>7. /\ OwnersQueue' /\ WorkersOwn' /\ SourceBooks' /\ RunBooks' /\ InterruptionHolds'
      /\ FinalAnswerSurvives'
  BY <1>0 DEF CompactionIInv, OwnersQueue, Owners, WorkersOwn, AtWork, GateOpen, SourceBooks,
         RunBooks, RunBook, InterruptionHolds, FinalAnswerSurvives, Ended, Started, books, outside
<1> QED
  BY <1>4, <1>5, <1>6, <1>7 DEF CompactionIInv

LEMMA ForgetSteps ==
    ASSUME CompactionIInv,
           \/ \E k \in CompactKey : ForgetRun(k)
           \/ \E t \in NativeTurns : ForgetInterruption(t)
    PROVE  CompactionIInv'
<1>0. /\ CompactionTypeOK /\ RunsAreNumbered
      /\ UNCHANGED <<source, runs, gate, tx, tab, asks, outside>>
      /\ interrupted' \subseteq interrupted
      /\ \A k \in CompactKey : cached'[k] \in {cached[k], NoRun}
      /\ cached' \in [CompactKey -> Run \cup {NoRun}]
  BY DEF CompactionIInv, ForgetRun, ForgetInterruption, CompactionTypeOK, books
<1>1. RunsAreNumbered'
  BY <1>0 DEF RunsAreNumbered, Started
<1>2. CompactionTypeOK'
  BY <1>0 DEF CompactionTypeOK, outside
<1>3. InterruptionHolds'
  BY <1>0 DEF CompactionIInv, InterruptionHolds, Ended, Started
<1>4. /\ OwnersQueue' /\ WorkersOwn' /\ SourceBooks' /\ RunBooks'
      /\ SummaryHasItsSource' /\ FinalAnswerSurvives'
  BY <1>0 DEF CompactionIInv, OwnersQueue, Owners, WorkersOwn, AtWork, GateOpen, SourceBooks,
         RunBooks, RunBook, SummaryHasItsSource, FinalAnswerSurvives, Ended, Started, outside
<1> QED
  BY <1>1, <1>2, <1>3, <1>4 DEF CompactionIInv

\* A new run is the last of the queue.
LEMMA RegisterKeeps ==
    ASSUME CompactionIInv, NEW q \in Compacts, Register(q)
    PROVE  CompactionIInv'
<1> USE CompactionAssumption
<1> DEFINE k == KeyOf[q]
<1>0. /\ CompactionTypeOK /\ RunsAreNumbered /\ OwnersQueue /\ WorkersOwn /\ SourceBooks /\ RunBooks
      /\ InterruptionHolds /\ SummaryHasItsSource /\ FinalAnswerSurvives
      /\ k \in CompactKey
  BY DEF CompactionIInv
<1>1. PICK n \in 0..MAX_RUNS : Started = 1..n
  BY <1>0 DEF RunsAreNumbered
<1> DEFINE r == n + 1
<1>2. Cardinality(Started) = n
  BY <1>1, Numbers
<1>3. /\ runs' = [i \in Started \cup {r} |-> IF i = r THEN NewRun(k) ELSE runs[i]]
      /\ r \in Run /\ cached' = [cached EXCEPT ![k] = r] /\ gate' = r
      /\ asks' = [asks EXCEPT ![q] = [at |-> "waiting", run |-> r]]
      /\ ~Interrupted(k)
      /\ UNCHANGED <<source, tx, tab, interrupted, mode, aborts, calls>>
  BY <1>2 DEF Register, Attach, outside
<1>4. /\ n \in Nat /\ r \in Nat /\ r \notin Started /\ Started \cup {r} = 1..r /\ r \in 0..MAX_RUNS
      /\ \A s \in Started : s \in Nat /\ s < r
  BY <1>1, <1>3 DEF Run
<1>5. NewRun(k) \in RunRecord
  BY <1>0 DEF NewRun, RunRecord, CompactionTypeOK
<1>6. Started' = Started \cup {r}
  BY <1>3 DEF Started
<1>7. /\ \A s \in Started : runs'[s] = runs[s]
      /\ runs'[r] = NewRun(k) /\ runs' \in [Started' -> RunRecord]
  BY <1>0, <1>3, <1>4, <1>5, <1>6 DEF RunsAreNumbered
<1>8. /\ runs'[r].key = k /\ runs'[r].prev = gate /\ runs'[r].active /\ ~runs'[r].aborted
      /\ runs'[r].phase = "gated"
  BY <1>7 DEF NewRun
<1>9. tx[r] = "none" /\ ~Live(tab[r].fresh)
  BY <1>0, <1>3, <1>4 DEF RunsAreNumbered
<1> HIDE DEF k, r
<1>10. CompactionTypeOK'
  <2>1. cached' \in [CompactKey -> Run \cup {NoRun}] /\ gate' \in Run \cup {NoRun}
        /\ asks' \in [Compacts -> [at: {"new", "waiting", "summary", "error"}, run: Run \cup {NoRun}]]
    BY <1>0, <1>3 DEF CompactionTypeOK
  <2>2. DOMAIN runs' \subseteq Run /\ \A i \in DOMAIN runs' : runs'[i] \in RunRecord
    BY <1>0, <1>3, <1>6, <1>7 DEF CompactionTypeOK, Started
  <2> QED
    BY <1>0, <1>3, <2>1, <2>2 DEF CompactionTypeOK
<1>11. RunsAreNumbered'
  <2>1. \E m \in 0..MAX_RUNS : Started' = 1..m
    BY <1>4, <1>6
  <2>2. /\ \A s \in Run \ Started' : tx'[s] = "none" /\ ~Live(tab'[s].fresh)
        /\ gate' # NoRun => gate' \in Started'
    BY <1>0, <1>3, <1>6 DEF RunsAreNumbered
  <2>3. \A s \in Started' : runs'[s].prev # NoRun => runs'[s].prev \in Started'
    BY <1>0, <1>6, <1>7, <1>8 DEF RunsAreNumbered
  <2>4. \A c \in CompactKey : cached'[c] # NoRun => cached'[c] \in Started' /\ runs'[cached'[c]].key = c
    <3>1. ASSUME NEW c \in CompactKey, c # k, cached'[c] # NoRun
          PROVE  cached'[c] \in Started /\ runs'[cached'[c]].key = c
      BY <1>0, <1>3, <1>7, <3>1 DEF RunsAreNumbered, CompactionTypeOK
    <3>2. cached'[k] = r
      BY <1>0, <1>3 DEF CompactionTypeOK
    <3> QED
      BY <1>6, <1>8, <3>1, <3>2
  <2>5. \A p \in Compacts : asks'[p].at \in {"waiting", "summary"} =>
           asks'[p].run \in Started' /\ runs'[asks'[p].run].key = KeyOf[p]
    <3>1. ASSUME NEW p \in Compacts, p # q, asks'[p].at \in {"waiting", "summary"}
          PROVE  asks'[p].run \in Started /\ runs'[asks'[p].run].key = KeyOf[p]
      BY <1>0, <1>3, <1>7, <3>1 DEF RunsAreNumbered, CompactionTypeOK
    <3>2. asks'[q].run = r /\ k = KeyOf[q]
      BY <1>0, <1>3 DEF CompactionTypeOK, k
    <3> QED
      BY <1>6, <1>8, <3>1, <3>2
  <2> QED
    BY <1>7, <2>1, <2>2, <2>3, <2>4, <2>5 DEF RunsAreNumbered
<1>12. Owners' = Owners \cup {r}
  BY <1>4, <1>6, <1>7, <1>8 DEF Owners
<1>13. OwnersQueue'
  <2>1. gate' # NoRun /\ gate' \in Owners' /\ \A s \in Owners' : s <= gate'
    <3>1. Owners \subseteq Started
      BY DEF Owners
    <3>2. gate' = r /\ r # NoRun
      BY <1>3, <1>4
    <3> QED
      BY <1>4, <1>12, <3>1, <3>2
  <2>2. ASSUME NEW u \in Owners', NEW s \in Owners', s < u
        PROVE  runs'[u].prev \in Owners' /\ s <= runs'[u].prev
    <3>1. CASE u = r
      BY <1>0, <1>4, <1>8, <1>12, <2>2, <3>1 DEF OwnersQueue, Owners
    <3>2. CASE u # r
      BY <1>0, <1>4, <1>7, <1>12, <2>2, <3>2 DEF OwnersQueue, Owners
    <3> QED
      BY <3>1, <3>2
  <2> QED
    BY <2>1, <2>2 DEF OwnersQueue
<1>14. \A s \in Started : GateOpen(s)' <=> GateOpen(s)
  BY <1>0, <1>7 DEF GateOpen, RunsAreNumbered
<1>15. WorkersOwn'
  BY <1>0, <1>3, <1>6, <1>7, <1>8, <1>9, <1>14 DEF WorkersOwn, AtWork, Ended
<1>16. SourceBooks' /\ FinalAnswerSurvives'
  BY <1>0, <1>3, <1>6, <1>7 DEF SourceBooks, FinalAnswerSurvives
<1>17. RunBooks'
  <2>1. ASSUME NEW s \in Started PROVE RunBook(s)'
    BY <1>0, <1>3, <1>7, <2>1 DEF RunBooks, RunBook
  <2>2. RunBook(r)'
    BY <1>3, <1>8, <1>9 DEF RunBook
  <2> QED
    BY <1>6, <2>1, <2>2 DEF RunBooks
<1>18. InterruptionHolds'
  <2>1. ASSUME NEW s \in Started, TurnOf[runs'[s].key] \in interrupted'
        PROVE  runs'[s].aborted \/ Ended(s)'
    BY <1>0, <1>3, <1>7, <2>1 DEF InterruptionHolds, Ended
  <2>2. TurnOf[runs'[r].key] \notin interrupted'
    BY <1>3, <1>8 DEF Interrupted
  <2> QED
    BY <1>6, <2>1, <2>2 DEF InterruptionHolds
<1>19. SummaryHasItsSource'
  <2>1. ASSUME NEW p \in Compacts, asks'[p].at = "summary"
        PROVE  runs'[asks'[p].run].key = KeyOf[p] /\ runs'[asks'[p].run].phase = "done"
    <3>1. asks \in [Compacts -> [at: {"new", "waiting", "summary", "error"}, run: Run \cup {NoRun}]]
      BY <1>0 DEF CompactionTypeOK
    <3>2. p # q /\ asks'[p] = asks[p]
      BY <1>3, <2>1, <3>1
    <3>3. asks[p].run \in Started
      BY <1>0, <2>1, <3>2 DEF RunsAreNumbered
    <3> QED
      BY <1>0, <1>7, <2>1, <3>2, <3>3 DEF SummaryHasItsSource
  <2>2. ASSUME NEW s \in Started', Ended(s)' PROVE tx'[s] # "open"
    BY <1>0, <1>3, <1>6, <1>7, <1>8, <2>2 DEF SummaryHasItsSource, Ended
  <2> QED
    BY <2>1, <2>2 DEF SummaryHasItsSource
<1> QED
  BY <1>10, <1>11, <1>13, <1>15, <1>16, <1>17, <1>18, <1>19 DEF CompactionIInv

\* The first of the queue leaves it when its predecessor has.
LEMMA OwnerLeavesKeeps ==
    ASSUME CompactionIInv, NEW r \in Started, SettleOwnership(r)
    PROVE  CompactionIInv'
<1> USE CompactionAssumption
<1>0. /\ CompactionTypeOK /\ RunsAreNumbered /\ OwnersQueue /\ WorkersOwn /\ SourceBooks /\ RunBooks
      /\ InterruptionHolds /\ SummaryHasItsSource /\ FinalAnswerSurvives
      /\ runs \in [Started -> RunRecord] /\ \A s \in Started : s \in Nat
  <2>1. RunsAreNumbered
    BY DEF CompactionIInv
  <2>2. runs \in [Started -> RunRecord] /\ \A s \in Started : s \in Nat
    BY <2>1 DEF RunsAreNumbered
  <2> QED
    BY <2>2 DEF CompactionIInv
<1>1. /\ runs' = [runs EXCEPT ![r].active = FALSE]
      /\ gate' = (IF gate = r THEN NoRun ELSE gate)
      /\ UNCHANGED <<source, tx, tab, interrupted, asks, mode, aborts, calls>>
      /\ Ended(r) /\ runs[r].active /\ GateOpen(r) /\ ~Live(tab[r].fresh)
  BY DEF SettleOwnership, RetainedSettled, outside
<1>2. \A k \in CompactKey : cached'[k] \in {cached[k], NoRun}
  BY DEF SettleOwnership
<1>3. cached' \in [CompactKey -> Run \cup {NoRun}]
  BY <1>0 DEF SettleOwnership, CompactionTypeOK
<1>4. /\ runs' \in [Started -> RunRecord] /\ Started' = Started
      /\ \A s \in Started : /\ runs'[s].key = runs[s].key /\ runs'[s].prev = runs[s].prev
                            /\ runs'[s].aborted = runs[s].aborted /\ runs'[s].phase = runs[s].phase
                            /\ runs'[s].preserve = runs[s].preserve
      /\ \A s \in Started : runs'[s].active <=> runs[s].active /\ s # r
  <2> DEFINE new == [runs[r] EXCEPT !.active = FALSE]
  <2>1. runs' = [runs EXCEPT ![r] = new] /\ runs[r] \in RunRecord
    BY <1>0, <1>1
  <2>2. /\ new.key = runs[r].key /\ new.prev = runs[r].prev /\ ~new.active
        /\ new.aborted = runs[r].aborted /\ new.phase = runs[r].phase
        /\ new.preserve = runs[r].preserve /\ new \in RunRecord
    BY <2>1 DEF RunRecord
  <2> HIDE DEF new
  <2>3. DOMAIN runs' = DOMAIN runs
    BY <2>1
  <2> QED
    BY <1>0, <2>1, <2>2, <2>3 DEF Started
<1>5. RunsAreNumbered'
  <2>1. \A k \in CompactKey : cached'[k] # NoRun => cached'[k] \in Started' /\ runs'[cached'[k]].key = k
    BY <1>0, <1>2, <1>4 DEF RunsAreNumbered
  <2>2. \A q \in Compacts : asks'[q].at \in {"waiting", "summary"} =>
           asks'[q].run \in Started' /\ runs'[asks'[q].run].key = KeyOf[q]
    BY <1>0, <1>1, <1>4 DEF RunsAreNumbered
  <2> QED
    BY <1>0, <1>1, <1>4, <2>1, <2>2 DEF RunsAreNumbered
<1>6. Owners' = Owners \ {r} /\ r \in Owners
  BY <1>1, <1>4 DEF Owners
<1>7. \A s \in Owners : ~(s < r)
  BY <1>0, <1>1, <1>6 DEF OwnersQueue, GateOpen, RunsAreNumbered, Owners
<1>8. OwnersQueue'
  <2>1. gate' = NoRun => Owners' = {}
    <3>1. \A s \in Owners : gate # NoRun /\ s <= gate
      BY <1>0 DEF OwnersQueue
    <3>2. ASSUME gate = r, NEW s \in Owners PROVE s = r
      BY <1>0, <1>6, <1>7, <3>1, <3>2 DEF Owners
    <3> QED
      BY <1>1, <1>6, <3>1, <3>2
  <2>2. gate' # NoRun => gate' \in Owners' /\ \A s \in Owners' : s <= gate'
    BY <1>0, <1>1, <1>6 DEF OwnersQueue
  <2>3. ASSUME NEW u \in Owners', NEW s \in Owners', s < u
        PROVE  runs'[u].prev \in Owners' /\ s <= runs'[u].prev
    <3>1. /\ u \in Owners /\ s \in Owners /\ s # r /\ u \in Started /\ s \in Started
          /\ runs[u].prev \in Owners /\ s <= runs[u].prev /\ runs'[u].prev = runs[u].prev
      BY <1>0, <1>4, <1>6, <2>3 DEF OwnersQueue, Owners
    <3>2. runs[u].prev # r
      BY <1>0, <1>7, <3>1
    <3> QED
      BY <1>6, <3>1, <3>2
  <2> QED
    BY <2>1, <2>2, <2>3 DEF OwnersQueue
<1>9. WorkersOwn'
  <2>1. ASSUME NEW s \in Started PROVE (~Ended(s)' => runs'[s].active) /\ (AtWork(s)' => runs'[s].active /\ GateOpen(s)')
    <3>1. CASE s = r
      BY <1>1, <1>4, <3>1 DEF AtWork, Ended
    <3>2. CASE s # r
      BY <1>0, <1>1, <1>4, <3>2 DEF WorkersOwn, AtWork, Ended, GateOpen, RunsAreNumbered
    <3> QED
      BY <3>1, <3>2
  <2> QED
    BY <1>4, <2>1 DEF WorkersOwn
<1>10. SourceBooks' /\ FinalAnswerSurvives'
  BY <1>0, <1>1, <1>4 DEF SourceBooks, FinalAnswerSurvives
<1>11. RunBooks'
  BY <1>0, <1>1, <1>4 DEF RunBooks, RunBook
<1>12. InterruptionHolds' /\ SummaryHasItsSource'
  BY <1>0, <1>1, <1>4 DEF InterruptionHolds, SummaryHasItsSource, Ended, RunsAreNumbered
<1>13. CompactionTypeOK'
  <2>1. DOMAIN runs' \subseteq Run /\ \A i \in DOMAIN runs' : runs'[i] \in RunRecord
    BY <1>0, <1>4 DEF CompactionTypeOK, Started
  <2>2. gate' \in Run \cup {NoRun}
    BY <1>0, <1>1 DEF CompactionTypeOK
  <2> QED
    BY <1>0, <1>1, <1>3, <2>1, <2>2 DEF CompactionTypeOK
<1> QED
  BY <1>5, <1>8, <1>9, <1>10, <1>11, <1>12, <1>13 DEF CompactionIInv

\* One run goes on: what is left to show is its own book.
LEMMA RunKeeps ==
    ASSUME CompactionIInv, NEW r \in Started, RunsMove({r}), SourceMoves, HeadHeld({r}), RunBook(r)',
           SourceBooks', FinalAnswerSurvives', UNCHANGED <<asks, interrupted, aborts, calls>>
    PROVE  CompactionIInv'
<1>1. interrupted' \subseteq NativeTurns /\ aborts' \in 0..MAX_ABORTS /\ calls' \in 0..MAX_CALLS
  BY DEF CompactionIInv, CompactionTypeOK
<1>2. \A s \in {r} : RunBook(s)'
  OBVIOUS
<1> QED
  BY <1>1, <1>2, StepKeeps

\* A run that goes on with the source as it is.
LEMMA RunAlone ==
    ASSUME CompactionIInv, NEW r \in Started, RunsMove({r}), source' = source,
           RunBook(r)', runs[r].phase \in Quarantined => source.settled,
           UNCHANGED <<mode, asks, interrupted, aborts, calls>>
    PROVE  CompactionIInv'
<1>1. SourceMoves /\ SourceBooks' /\ FinalAnswerSurvives' /\ HeadHeld({r})
  BY SourceStays
<1> QED
  BY <1>1, RunKeeps

\* A run that retires the source, whose answer stays unless it is no answer.
LEMMA RunRetires ==
    ASSUME CompactionIInv, NEW r \in Started, RunsMove({r}), AtWork(r),
           NEW p \in BOOLEAN, source' = Retired(source, p),
           source.out = "final" /\ ~source.instructed => p,
           runs'[r].phase \in Quarantined, tx'[r] # "open",
           Live(tab'[r].fresh) => Live(tab[r].fresh),
           UNCHANGED <<mode, asks, interrupted, aborts, calls>>
    PROVE  CompactionIInv'
<1>1. SourceMoves /\ SourceBooks' /\ FinalAnswerSurvives' /\ HeadHeld({r}) /\ ~source'.head
  BY SourceRetires
<1>2. RunBook(r)'
  BY <1>1 DEF RunBook, Quarantined, CompactionIInv, RunBooks, SourceMoves
<1> QED
  BY <1>1, <1>2, RunKeeps

\* The catch block of a run at work, whatever it does to its tab and its transaction.
LEMMA CatchKeeps ==
    ASSUME CompactionIInv, NEW r \in Started,
           runs[r].phase \in {"inspect", "settling", "handoff", "closing", "accepted", "fresh"},
           source.head /\ source.out = "final" /\ ~source.instructed => runs[r].preserve,
           NEW error \in {"unavailable", "oversized", "other"}, Catch(r, error),
           tab' \in [Run -> TabRecord], tx' \in [Run -> {"none", "beginning", "open"}],
           \A s \in Run \ {r} : tab'[s] = tab[s] /\ tx'[s] = tx[s],
           tx'[r] # "open", Live(tab'[r].fresh) => Live(tab[r].fresh),
           UNCHANGED <<mode, books, asks, interrupted, aborts, calls>>
    PROVE  CompactionIInv'
<1>1. /\ runs' \in [Started -> RunRecord]
      /\ \A s \in Started : /\ runs'[s].key = runs[s].key /\ runs'[s].prev = runs[s].prev
                            /\ runs'[s].active = runs[s].active /\ runs'[s].aborted = runs[s].aborted
      /\ \A s \in Started \ {r} : runs'[s] = runs[s]
      /\ runs'[r].phase = (IF source.head THEN "catching" ELSE "failed")
      /\ source' = (IF source.head THEN Retired(source, runs[r].preserve) ELSE source)
      /\ runs[r].preserve \in BOOLEAN
  BY CatchIs DEF CompactionIInv, RunsAreNumbered
<1>2. AtWork(r) /\ ~Ended(r)
  BY DEF AtWork, Ended
<1>3. RunsMove({r})
  BY <1>1, <1>2 DEF RunsMove
<1>4. CASE source.head
  BY <1>1, <1>2, <1>3, <1>4, RunRetires DEF Quarantined
<1>5. CASE ~source.head
  <2>1. RunBook(r)'
    BY <1>1, <1>5 DEF RunBook, CompactionIInv, RunBooks
  <2> QED
    BY <1>1, <1>3, <1>5, <2>1, RunAlone DEF Quarantined
<1> QED
  BY <1>4, <1>5

\* What the steps of a run start from.
LEMMA RunFacts ==
    ASSUME CompactionIInv, NEW r \in Started
    PROVE  /\ runs \in [Started -> RunRecord] /\ Started \subseteq Run /\ r \in Run
           /\ source \in SourceRecord /\ tab \in [Run -> TabRecord]
           /\ tx \in [Run -> {"none", "beginning", "open"}]
           /\ RunBook(r) /\ SourceBooks /\ FinalAnswerSurvives
BY DEF CompactionIInv, CompactionTypeOK, RunsAreNumbered, SourceRecord, TabRecord, RunBooks, Started

LEMMA StartFreshIs ==
    ASSUME tab \in [Run -> TabRecord], NEW r \in Run, StartFresh(r)
    PROVE  tab' \in [Run -> TabRecord] /\ \A s \in Run \ {r} : tab'[s] = tab[s]
BY DEF StartFresh, TabRecord, TabState

\* A step that only gives the run its next phase, or settles its tab or its transaction.
LEMMA SimpleSteps ==
    ASSUME CompactionIInv, NEW r \in Started,
           \/ Begin(r) \/ BeginLate(r) \/ Submit(r) \/ TxExpires(r) \/ TabUnwinds(r) \/ Conclude(r)
    PROVE  CompactionIInv'
<1>0. /\ runs \in [Started -> RunRecord] /\ Started \subseteq Run /\ r \in Run
      /\ source \in SourceRecord /\ tab \in [Run -> TabRecord]
      /\ tx \in [Run -> {"none", "beginning", "open"}]
      /\ RunBook(r) /\ SourceBooks /\ FinalAnswerSurvives
      /\ UNCHANGED <<source, books, interrupted, asks, mode, aborts, calls>>
  BY RunFacts DEF Begin, BeginLate, Submit, TxExpires, TabUnwinds, Conclude, outside
<1>1. ASSUME BeginLate(r) \/ TabUnwinds(r) PROVE CompactionIInv'
  <2>1. /\ runs' = runs /\ tab' \in [Run -> TabRecord] /\ tx' \in [Run -> {"none", "beginning", "open"}]
    BY <1>0, <1>1 DEF BeginLate, TabUnwinds, TabRecord, TabState
  <2>2. \A s \in Run : /\ tab'[s].fresh = tab[s].fresh \/ ~Live(tab'[s].fresh)
                       /\ tx'[s] = tx[s] \/ tx'[s] = "none"
    BY <1>0, <1>1 DEF BeginLate, TabUnwinds, TabRecord, Live
  <2>3. RunsMove({})
    BY <1>0, <2>1, <2>2, NobodyMoves
  <2>4. SourceMoves /\ SourceBooks' /\ FinalAnswerSurvives' /\ HeadHeld({})
    BY <1>0, <2>3, SourceStays
  <2>5. interrupted' \subseteq NativeTurns /\ aborts' \in 0..MAX_ABORTS /\ calls' \in 0..MAX_CALLS
    BY <1>0 DEF CompactionIInv, CompactionTypeOK
  <2> QED
    BY <1>0, <2>3, <2>4, <2>5, StepKeeps
<1>2. ASSUME NEW next \in {"handoff", "accepted", "closing", "done"}, Becomes(r, next),
             runs[r].phase \in {"begin", "handoff", "retiring"},
             runs[r].phase = "retiring" => source.settled /\ next = "done",
             tab' \in [Run -> TabRecord], tx' \in [Run -> {"none", "beginning", "open"}],
             \A s \in Run \ {r} : tab'[s] = tab[s] /\ tx'[s] = tx[s],
             tab'[r].fresh = tab[r].fresh, tx'[r] = "open" => next = "handoff",
             next = "done" => runs[r].phase = "retiring"
      PROVE  CompactionIInv'
  <2>1. /\ runs' \in [Started -> RunRecord]
        /\ \A s \in Started : /\ runs'[s].key = runs[s].key /\ runs'[s].prev = runs[s].prev
                              /\ runs'[s].active = runs[s].active /\ runs'[s].aborted = runs[s].aborted
        /\ \A s \in Started \ {r} : runs'[s] = runs[s]
        /\ runs'[r].phase = next
        /\ next \notin {"done", "failed"} => runs'[r].preserve = runs[r].preserve
    BY <1>0, <1>2, BecomesIs
  <2>2. AtWork(r) /\ ~Ended(r)
    BY <1>2 DEF AtWork, Ended
  <2>3. RunsMove({r})
    BY <1>0, <1>2, <2>1, <2>2 DEF RunsMove
  <2>4. RunBook(r)'
    BY <1>0, <1>2, <2>1 DEF RunBook
  <2>5. runs[r].phase \in Quarantined => source.settled
    BY <1>2 DEF Quarantined
  <2> QED
    BY <1>0, <2>3, <2>4, <2>5, RunAlone
<1>3. CASE Begin(r)
  <2>1. /\ tab' \in [Run -> TabRecord] /\ tx' \in [Run -> {"none", "beginning", "open"}]
        /\ \A s \in Run \ {r} : tab'[s] = tab[s] /\ tx'[s] = tx[s]
        /\ tab'[r].fresh = tab[r].fresh
    BY <1>0, <1>3 DEF Begin, TabRecord, TabState
  <2> QED
    BY <1>2, <1>3, <2>1 DEF Begin
<1>4. CASE Submit(r)
  <2>1. /\ tab' \in [Run -> TabRecord] /\ tx' \in [Run -> {"none", "beginning", "open"}]
        /\ \A s \in Run \ {r} : tab'[s] = tab[s] /\ tx'[s] = tx[s]
        /\ tab'[r].fresh = tab[r].fresh /\ tx'[r] = "none"
    BY <1>0, <1>4 DEF Submit, TabRecord, TabState
  <2> QED
    BY <1>2, <1>4, <2>1 DEF Submit
<1>5. CASE TxExpires(r)
  <2>1. /\ tab' \in [Run -> TabRecord] /\ tx' \in [Run -> {"none", "beginning", "open"}]
        /\ \A s \in Run \ {r} : tab'[s] = tab[s] /\ tx'[s] = tx[s]
        /\ tab'[r].fresh = tab[r].fresh /\ tx'[r] = "none"
    BY <1>0, <1>5 DEF TxExpires, TabRecord, TabState
  <2> QED
    BY <1>2, <1>5, <2>1 DEF TxExpires
<1>6. CASE Conclude(r)
  <2>1. tab' = tab /\ tx' = tx /\ tx[r] # "open"
    BY <1>0, <1>6 DEF Conclude, RunBook
  <2> QED
    BY <1>0, <1>2, <1>6, <2>1 DEF Conclude
<1> QED
  BY <1>1, <1>3, <1>4, <1>5, <1>6

LEMMA PassGateKeeps ==
    ASSUME CompactionIInv, NEW r \in Started, PassGate(r)
    PROVE  CompactionIInv'
<1>0. /\ runs \in [Started -> RunRecord] /\ Started \subseteq Run /\ r \in Run
      /\ source \in SourceRecord /\ tab \in [Run -> TabRecord]
      /\ tx \in [Run -> {"none", "beginning", "open"}]
      /\ RunBook(r) /\ SourceBooks /\ FinalAnswerSurvives
      /\ UNCHANGED <<books, tx, tab, interrupted, asks, mode, aborts, calls>>
      /\ runs[r].phase = "gated" /\ GateOpen(r)
  BY RunFacts DEF PassGate, outside
<1> DEFINE next == IF mode = "fresh" THEN "releasing" ELSE "inspect"
<1>1. /\ runs' \in [Started -> RunRecord]
      /\ \A s \in Started : /\ runs'[s].key = runs[s].key /\ runs'[s].prev = runs[s].prev
                            /\ runs'[s].active = runs[s].active /\ runs'[s].aborted = runs[s].aborted
      /\ \A s \in Started \ {r} : runs'[s] = runs[s]
      /\ runs'[r].phase = next
  <2>1. Becomes(r, next) /\ next \in {"releasing", "inspect"}
    BY DEF PassGate
  <2> HIDE DEF next
  <2> QED
    BY <1>0, <2>1, BecomesIs
<1>2. tx[r] # "open"
  BY <1>0 DEF RunBook
<1>3. RunsMove({r})
  BY <1>0, <1>1, <1>2 DEF RunsMove, Ended
<1>4. CASE source' = source
  <2>1. RunBook(r)'
    BY <1>0, <1>1, <1>2, <1>4 DEF RunBook
  <2> QED
    BY <1>0, <1>3, <1>4, <2>1, RunAlone DEF Quarantined
<1>5. CASE source' # source
  <2>1. /\ mode = "fresh" /\ source.out # "final"
        /\ source' = [CancelSource(source) EXCEPT !.entry = FALSE, !.head = FALSE]
    BY <1>5 DEF PassGate
  <2>2. /\ source' \in SourceRecord /\ ~source'.head /\ source'.settled = source.settled
        /\ IF source.out = "active" THEN source'.out = "active" /\ source'.cancelled
           ELSE source'.out = "error"
    BY <1>0, <2>1 DEF SourceRecord, CancelSource
  <2>3. ~source.head
    BY <1>0, <2>1 DEF SourceBooks
  <2>4. SourceMoves /\ HeadHeld({r})
    BY <1>0, <2>2, <2>3 DEF SourceMoves, HeadHeld
  <2>5. SourceBooks' /\ FinalAnswerSurvives'
    BY <1>0, <2>1, <2>2 DEF SourceBooks, FinalAnswerSurvives
  <2>6. RunBook(r)'
    BY <1>0, <1>1, <1>2, <2>1, <2>2 DEF RunBook
  <2> QED
    BY <1>0, <1>3, <2>4, <2>5, <2>6, RunKeeps
<1> QED
  BY <1>4, <1>5

\* The run opens its fresh tab, on a source that has settled.
LEMMA FreshKeeps ==
    ASSUME CompactionIInv, NEW r \in Started, AtWork(r), ~Ended(r), StartFresh(r), tx' = tx, tx[r] # "open",
           NEW next \in {"fresh", "failed"},
           runs' \in [Started -> RunRecord],
           \A s \in Started : /\ runs'[s].key = runs[s].key /\ runs'[s].prev = runs[s].prev
                              /\ runs'[s].active = runs[s].active /\ runs'[s].aborted = runs[s].aborted,
           \A s \in Started \ {r} : runs'[s] = runs[s],
           runs'[r].phase = next, source.settled, source' = source,
           next = "fresh" /\ source.head /\ source.out = "final" /\ ~source.instructed =>
              runs'[r].preserve,
           UNCHANGED <<mode, books, asks, interrupted, aborts, calls>>
    PROVE  CompactionIInv'
<1>0. /\ Started \subseteq Run /\ r \in Run /\ tab \in [Run -> TabRecord]
      /\ tx \in [Run -> {"none", "beginning", "open"}] /\ SourceBooks
  BY RunFacts
<1>1. tab' \in [Run -> TabRecord] /\ \A s \in Run \ {r} : tab'[s] = tab[s]
  BY <1>0, StartFreshIs
<1>2. RunsMove({r})
  BY <1>0, <1>1 DEF RunsMove
<1>3. RunBook(r)'
  BY <1>0 DEF RunBook, SourceBooks
<1> QED
  BY <1>0, <1>2, <1>3, RunAlone

LEMMA ReleasedKeeps ==
    ASSUME CompactionIInv, NEW r \in Started, Released(r)
    PROVE  CompactionIInv'
<1>0. /\ runs \in [Started -> RunRecord] /\ RunBook(r) /\ SourceBooks
  BY RunFacts
<1>1. /\ runs' \in [Started -> RunRecord]
      /\ \A s \in Started : /\ runs'[s].key = runs[s].key /\ runs'[s].prev = runs[s].prev
                            /\ runs'[s].active = runs[s].active /\ runs'[s].aborted = runs[s].aborted
      /\ \A s \in Started \ {r} : runs'[s] = runs[s]
      /\ runs'[r].phase = "fresh"
  BY <1>0, BecomesIs DEF Released
<1>2. AtWork(r) /\ ~Ended(r) /\ ~source.head /\ tx[r] # "open"
  BY <1>0 DEF Released, AtWork, Ended, RunBook, SourceBooks
<1> QED
  BY <1>1, <1>2, FreshKeeps DEF Released, outside

LEMMA CaughtKeeps ==
    ASSUME CompactionIInv, NEW r \in Started, Caught(r)
    PROVE  CompactionIInv'
<1>0. /\ runs \in [Started -> RunRecord] /\ Started \subseteq Run /\ r \in Run
      /\ tab \in [Run -> TabRecord] /\ tx \in [Run -> {"none", "beginning", "open"}]
      /\ RunBook(r) /\ runs[r].phase = "catching" /\ source.settled
      /\ UNCHANGED <<source, books, tx, interrupted, asks, mode, aborts, calls>>
  BY RunFacts DEF Caught, outside
<1>1. AtWork(r) /\ ~Ended(r) /\ ~source.head /\ tx[r] # "open"
  BY <1>0 DEF AtWork, Ended, RunBook
<1>2. CASE runs[r].error = "unavailable"
  <2> DEFINE next == IF runs[r].aborted THEN "failed" ELSE "fresh"
  <2>1. StartFresh(r) /\ Becomes(r, next) /\ next \in {"failed", "fresh"}
    BY <1>2 DEF Caught
  <2> HIDE DEF next
  <2>2. /\ runs' \in [Started -> RunRecord]
        /\ \A s \in Started : /\ runs'[s].key = runs[s].key /\ runs'[s].prev = runs[s].prev
                              /\ runs'[s].active = runs[s].active /\ runs'[s].aborted = runs[s].aborted
        /\ \A s \in Started \ {r} : runs'[s] = runs[s]
        /\ runs'[r].phase = next
    BY <1>0, <2>1, BecomesIs
  <2> QED
    BY <1>0, <1>1, <2>1, <2>2, FreshKeeps
<1>3. CASE runs[r].error # "unavailable"
  <2>1. Becomes(r, "failed") /\ tab' = tab
    BY <1>3 DEF Caught
  <2>2. /\ runs' \in [Started -> RunRecord]
        /\ \A s \in Started : /\ runs'[s].key = runs[s].key /\ runs'[s].prev = runs[s].prev
                              /\ runs'[s].active = runs[s].active /\ runs'[s].aborted = runs[s].aborted
        /\ \A s \in Started \ {r} : runs'[s] = runs[s]
        /\ runs'[r].phase = "failed"
    BY <1>0, <2>1, BecomesIs
  <2>3. RunsMove({r})
    BY <1>0, <1>1, <2>1, <2>2 DEF RunsMove
  <2>4. RunBook(r)'
    BY <1>0, <1>1, <2>1, <2>2 DEF RunBook
  <2> QED
    BY <1>0, <2>3, <2>4, RunAlone
<1> QED
  BY <1>2, <1>3

LEMMA InspectKeeps ==
    ASSUME CompactionIInv, NEW r \in Started, Inspect(r)
    PROVE  CompactionIInv'
<1>0. /\ runs \in [Started -> RunRecord] /\ Started \subseteq Run /\ r \in Run
      /\ source \in SourceRecord /\ tab \in [Run -> TabRecord]
      /\ tx \in [Run -> {"none", "beginning", "open"}]
      /\ RunBook(r) /\ SourceBooks /\ FinalAnswerSurvives
      /\ UNCHANGED <<books, interrupted, asks, mode, aborts, calls>>
      /\ runs[r].phase = "inspect"
  BY RunFacts DEF Inspect, outside
<1>1. AtWork(r) /\ ~Ended(r) /\ mode # "fresh" /\ tx[r] # "open"
  BY <1>0 DEF AtWork, Ended, RunBook
<1>2. CASE ~source.head
  <2>1. Becomes(r, "fresh") /\ StartFresh(r) /\ source' = source /\ tx' = tx
    BY <1>2 DEF Inspect
  <2>2. source.settled
    <3>1. SUFFICES ASSUME ~source.settled PROVE FALSE
      OBVIOUS
    <3>2. PICK s \in Started : runs[s].phase \in {"catching", "retiring"}
      BY <1>0, <1>1, <1>2, <3>1 DEF SourceBooks
    <3>3. AtWork(s)
      BY <3>2 DEF AtWork
    <3>4. s = r
      BY <1>1, <3>3, WorkIsAlone DEF CompactionIInv
    <3> QED
      BY <1>0, <3>2, <3>4
  <2>3. /\ runs' \in [Started -> RunRecord]
        /\ \A s \in Started : /\ runs'[s].key = runs[s].key /\ runs'[s].prev = runs[s].prev
                              /\ runs'[s].active = runs[s].active /\ runs'[s].aborted = runs[s].aborted
        /\ \A s \in Started \ {r} : runs'[s] = runs[s]
        /\ runs'[r].phase = "fresh"
    BY <1>0, <2>1, BecomesIs
  <2> QED
    BY <1>0, <1>1, <1>2, <2>1, <2>2, <2>3, FreshKeeps
<1>3. CASE source.head /\ source.out = "active"
  <2>1. /\ Becomes(r, "settling") /\ tx' = tx /\ tab' = tab
        /\ source' = [source EXCEPT !.requested = TRUE,
              !.instructed = @ \/ source.call = "queued"
                               \/ (mode = "zero risk" /\ source.call = "journaled"),
              !.call = IF @ = "delivered" THEN @ ELSE "none"]
    BY <1>3 DEF Inspect
  <2>2. /\ runs' \in [Started -> RunRecord]
        /\ \A s \in Started : /\ runs'[s].key = runs[s].key /\ runs'[s].prev = runs[s].prev
                              /\ runs'[s].active = runs[s].active /\ runs'[s].aborted = runs[s].aborted
        /\ \A s \in Started \ {r} : runs'[s] = runs[s]
        /\ runs'[r].phase = "settling"
    BY <1>0, <2>1, BecomesIs
  <2>3. RunsMove({r})
    BY <1>0, <1>1, <2>1, <2>2 DEF RunsMove
  <2>4. /\ source' \in SourceRecord /\ source'.head = source.head /\ source'.out = source.out
        /\ source'.settled = source.settled /\ source'.entry = source.entry
        /\ source'.cancelled = source.cancelled
    <3> DEFINE instructed == source.instructed \/ source.call = "queued"
                                \/ (mode = "zero risk" /\ source.call = "journaled")
               call == IF source.call = "delivered" THEN source.call ELSE "none"
    <3>1. source' = [source EXCEPT !.requested = TRUE, !.instructed = instructed, !.call = call]
      BY <2>1
    <3>2. instructed \in BOOLEAN
      OBVIOUS
    <3>3. call \in {"none", "queued", "delivered", "journaled"}
      OBVIOUS
    <3> HIDE DEF instructed, call
    <3> QED
      BY <1>0, <3>1, <3>2, <3>3 DEF SourceRecord
  <2>5. SourceMoves /\ HeadHeld({r})
    BY <1>0, <1>3, <2>4 DEF SourceMoves, HeadHeld
  <2>6. SourceBooks' /\ FinalAnswerSurvives'
    BY <1>0, <1>3, <2>4 DEF SourceBooks, FinalAnswerSurvives
  <2>7. RunBook(r)'
    BY <1>0, <1>1, <1>3, <2>1, <2>2, <2>4 DEF RunBook
  <2> QED
    BY <1>0, <2>3, <2>5, <2>6, <2>7, RunKeeps
<1>4. CASE source.head /\ source.out # "active"
  <2> DEFINE kept == source.out = "final"
  <2>1. PICK next \in {"fresh", "begin"} :
           /\ runs' = [runs EXCEPT ![r].phase = next, ![r].preserve = kept]
           /\ next = "fresh" => StartFresh(r) /\ tx' = tx
           /\ next = "begin" => tx' = [tx EXCEPT ![r] = "beginning"] /\ tab' = tab
           /\ source' = source
    <3>1. CASE mode = "zero risk"
      BY <1>4, <3>1 DEF Inspect
    <3>2. CASE mode # "zero risk"
      BY <1>4, <3>2 DEF Inspect
    <3> QED
      BY <3>1, <3>2
  <2>2. kept \in BOOLEAN /\ source.settled
    BY <1>0, <1>4 DEF SourceBooks, SourceRecord
  <2>3. kept <=> source.out = "final"
    OBVIOUS
  <2> HIDE DEF kept
  <2>4. /\ runs' \in [Started -> RunRecord]
        /\ \A s \in Started : /\ runs'[s].key = runs[s].key /\ runs'[s].prev = runs[s].prev
                              /\ runs'[s].active = runs[s].active /\ runs'[s].aborted = runs[s].aborted
        /\ \A s \in Started \ {r} : runs'[s] = runs[s]
        /\ runs'[r].phase = next /\ runs'[r].preserve = kept
    BY <1>0, <2>1, <2>2, PreservesIs
  <2>5. CASE next = "fresh"
    BY <1>0, <1>1, <2>1, <2>2, <2>3, <2>4, <2>5, FreshKeeps
  <2>6. CASE next = "begin"
    <3>1. /\ tx' \in [Run -> {"none", "beginning", "open"}] /\ tx'[r] = "beginning"
          /\ \A s \in Run \ {r} : tx'[s] = tx[s]
      BY <1>0, <2>1, <2>6
    <3>2. RunsMove({r})
      BY <1>0, <1>1, <2>1, <2>4, <2>6, <3>1 DEF RunsMove
    <3>3. RunBook(r)'
      BY <1>0, <1>1, <1>4, <2>1, <2>2, <2>3, <2>4, <2>6, <3>1 DEF RunBook
    <3> QED
      BY <1>0, <2>1, <2>2, <3>2, <3>3, RunAlone
  <2> QED
    BY <2>5, <2>6
<1> QED
  BY <1>2, <1>3, <1>4

LEMMA SettledKeeps ==
    ASSUME CompactionIInv, NEW r \in Started, SourceSettled(r)
    PROVE  CompactionIInv'
<1>0. /\ runs \in [Started -> RunRecord] /\ Started \subseteq Run /\ r \in Run
      /\ source \in SourceRecord /\ tab \in [Run -> TabRecord]
      /\ tx \in [Run -> {"none", "beginning", "open"}]
      /\ RunBook(r) /\ SourceBooks /\ FinalAnswerSurvives
      /\ UNCHANGED <<books, interrupted, asks, mode, aborts, calls>>
      /\ runs[r].phase = "settling" /\ source.out = "final" /\ source.settled
  BY RunFacts DEF SourceSettled, outside
<1>1. AtWork(r) /\ ~Ended(r) /\ mode # "fresh" /\ tx[r] # "open" /\ source.head
      /\ mode \in {"retained", "zero risk"}
  BY <1>0 DEF AtWork, Ended, RunBook, CompactionIInv, CompactionTypeOK
<1> DEFINE kept == ~source.instructed
<1>2. kept \in BOOLEAN /\ (kept <=> ~source.instructed)
  OBVIOUS
<1>3. CASE mode = "retained"
  <2>1. /\ runs' = [runs EXCEPT ![r].phase = "begin", ![r].preserve = kept]
        /\ tx' = [tx EXCEPT ![r] = "beginning"] /\ source' = source /\ tab' = tab
    BY <1>3 DEF SourceSettled
  <2> HIDE DEF kept
  <2>2. /\ runs' \in [Started -> RunRecord]
        /\ \A s \in Started : /\ runs'[s].key = runs[s].key /\ runs'[s].prev = runs[s].prev
                              /\ runs'[s].active = runs[s].active /\ runs'[s].aborted = runs[s].aborted
        /\ \A s \in Started \ {r} : runs'[s] = runs[s]
        /\ runs'[r].phase = "begin" /\ runs'[r].preserve = kept
    BY <1>0, <1>2, <2>1, PreservesIs
  <2>3. /\ tx' \in [Run -> {"none", "beginning", "open"}] /\ tx'[r] = "beginning"
        /\ \A s \in Run \ {r} : tx'[s] = tx[s]
    BY <1>0, <2>1
  <2>4. RunsMove({r})
    <3>1. tab' = tab /\ UNCHANGED books /\ tx'[r] # "open"
      BY <1>0, <2>1, <2>3
    <3> QED
      BY <1>0, <1>1, <2>2, <2>3, <3>1 DEF RunsMove
  <2>5. RunBook(r)'
    BY <1>0, <1>1, <1>2, <2>1, <2>2, <2>3 DEF RunBook
  <2> QED
    BY <1>0, <2>1, <2>4, <2>5, RunAlone
<1>4. CASE mode = "zero risk" /\ kept
  <2>1. /\ runs' = [runs EXCEPT ![r].phase = "fresh", ![r].preserve = TRUE]
        /\ StartFresh(r) /\ source' = source /\ tx' = tx
    BY <1>4 DEF SourceSettled
  <2> HIDE DEF kept
  <2>2. /\ runs' \in [Started -> RunRecord]
        /\ \A s \in Started : /\ runs'[s].key = runs[s].key /\ runs'[s].prev = runs[s].prev
                              /\ runs'[s].active = runs[s].active /\ runs'[s].aborted = runs[s].aborted
        /\ \A s \in Started \ {r} : runs'[s] = runs[s]
        /\ runs'[r].phase = "fresh" /\ runs'[r].preserve
    BY <1>0, <2>1, PreservesIs
  <2> QED
    BY <1>0, <1>1, <2>1, <2>2, FreshKeeps
<1>5. CASE mode = "zero risk" /\ ~kept
  <2>1. Becomes(r, "retiring") /\ source' = Retired(source, FALSE) /\ tab' = tab /\ tx' = tx
    BY <1>5 DEF SourceSettled
  <2>2. /\ runs' \in [Started -> RunRecord]
        /\ \A s \in Started : /\ runs'[s].key = runs[s].key /\ runs'[s].prev = runs[s].prev
                              /\ runs'[s].active = runs[s].active /\ runs'[s].aborted = runs[s].aborted
        /\ \A s \in Started \ {r} : runs'[s] = runs[s]
        /\ runs'[r].phase = "retiring"
    BY <1>0, <2>1, BecomesIs
  <2>3. RunsMove({r})
    BY <1>0, <1>1, <2>1, <2>2 DEF RunsMove
  <2> QED
    BY <1>0, <1>1, <1>5, <2>1, <2>2, <2>3, RunRetires DEF Quarantined
<1> QED
  BY <1>1, <1>3, <1>4, <1>5

\* A run that has its summary and retires the conversation.
LEMMA RetiringKeeps ==
    ASSUME CompactionIInv, NEW r \in Started, runs[r].phase \in {"accepted", "fresh"},
           source.head, Becomes(r, "retiring"), source' = Retired(source, runs[r].preserve),
           tab' \in [Run -> TabRecord], \A s \in Run \ {r} : tab'[s] = tab[s],
           Live(tab'[r].fresh) => Live(tab[r].fresh), tx' = tx,
           UNCHANGED <<mode, books, asks, interrupted, aborts, calls>>
    PROVE  CompactionIInv'
<1>0. /\ runs \in [Started -> RunRecord] /\ Started \subseteq Run /\ r \in Run
      /\ tx \in [Run -> {"none", "beginning", "open"}] /\ RunBook(r)
  BY RunFacts
<1>1. AtWork(r) /\ ~Ended(r) /\ tx[r] # "open" /\ runs[r].preserve \in BOOLEAN
  BY <1>0 DEF AtWork, Ended, RunBook, RunRecord
<1>2. /\ runs' \in [Started -> RunRecord]
      /\ \A s \in Started : /\ runs'[s].key = runs[s].key /\ runs'[s].prev = runs[s].prev
                            /\ runs'[s].active = runs[s].active /\ runs'[s].aborted = runs[s].aborted
      /\ \A s \in Started \ {r} : runs'[s] = runs[s]
      /\ runs'[r].phase = "retiring"
  BY <1>0, BecomesIs
<1>3. RunsMove({r})
  BY <1>0, <1>1, <1>2 DEF RunsMove
<1>4. source.out = "final" /\ ~source.instructed => runs[r].preserve
  BY <1>0 DEF RunBook
<1> QED
  BY <1>0, <1>1, <1>2, <1>3, <1>4, RunRetires DEF Quarantined

LEMMA CatchSteps ==
    ASSUME CompactionIInv, NEW r \in Started,
           ResultsMissing(r) \/ SourceFailed(r) \/ NoHandoff(r) \/ Closed(r)
    PROVE  CompactionIInv'
<1>0. /\ runs \in [Started -> RunRecord] /\ Started \subseteq Run /\ r \in Run
      /\ tab \in [Run -> TabRecord] /\ tx \in [Run -> {"none", "beginning", "open"}]
      /\ RunBook(r) /\ UNCHANGED <<mode, books, asks, interrupted, aborts, calls>>
  BY RunFacts DEF ResultsMissing, SourceFailed, NoHandoff, Closed, outside
<1>1. CASE ResultsMissing(r)
  BY <1>0, <1>1, CatchKeeps DEF ResultsMissing, RunBook
<1>2. CASE SourceFailed(r)
  BY <1>0, <1>2, CatchKeeps DEF SourceFailed, RunBook
<1>3. CASE NoHandoff(r)
  <2>1. PICK error \in {"unavailable", "oversized", "other"} : Catch(r, error)
    BY <1>3 DEF NoHandoff
  <2>2. /\ tab' \in [Run -> TabRecord] /\ tx' \in [Run -> {"none", "beginning", "open"}]
        /\ \A s \in Run \ {r} : tab'[s] = tab[s] /\ tx'[s] = tx[s]
        /\ tx'[r] # "open" /\ tab'[r].fresh = tab[r].fresh
    BY <1>0, <1>3 DEF NoHandoff, AbortTx, TabRecord, TabState
  <2>3. runs[r].phase = "handoff"
    BY <1>3 DEF NoHandoff
  <2>4. source.head /\ source.out = "final" /\ ~source.instructed => runs[r].preserve
    BY <1>0, <2>3 DEF RunBook
  <2> QED
    BY <1>0, <2>1, <2>2, <2>3, <2>4, CatchKeeps
<1>4. CASE Closed(r)
  BY <1>0, <1>4, CatchKeeps DEF Closed, RunBook
<1> QED
  BY <1>1, <1>2, <1>3, <1>4

LEMMA AcceptedKeeps ==
    ASSUME CompactionIInv, NEW r \in Started, Accepted(r)
    PROVE  CompactionIInv'
<1>0. /\ runs \in [Started -> RunRecord] /\ Started \subseteq Run /\ r \in Run
      /\ tab \in [Run -> TabRecord] /\ tx \in [Run -> {"none", "beginning", "open"}]
      /\ RunBook(r) /\ runs[r].phase = "accepted"
      /\ UNCHANGED <<mode, books, asks, interrupted, aborts, calls, tab, tx>>
  BY RunFacts DEF Accepted, outside
<1>1. source.head /\ tx[r] # "open"
      /\ (source.out = "final" /\ ~source.instructed => runs[r].preserve)
  BY <1>0 DEF RunBook
<1>2. CASE Becomes(r, "retiring") /\ source' = Retired(source, runs[r].preserve)
  BY <1>0, <1>1, <1>2, RetiringKeeps
<1>3. CASE Catch(r, "other")
  BY <1>0, <1>1, <1>3, CatchKeeps
<1> QED
  BY <1>2, <1>3 DEF Accepted

LEMMA FreshEndsKeeps ==
    ASSUME CompactionIInv, NEW r \in Started, FreshEnds(r)
    PROVE  CompactionIInv'
<1>0. /\ runs \in [Started -> RunRecord] /\ Started \subseteq Run /\ r \in Run
      /\ tab \in [Run -> TabRecord] /\ tx \in [Run -> {"none", "beginning", "open"}]
      /\ RunBook(r) /\ runs[r].phase = "fresh"
      /\ UNCHANGED <<mode, books, asks, interrupted, aborts, calls, tx>>
  BY RunFacts DEF FreshEnds, outside
<1>1. tx[r] # "open" /\ (source.head /\ source.out = "final" /\ ~source.instructed => runs[r].preserve)
  BY <1>0 DEF RunBook
<1>2. /\ tab' \in [Run -> TabRecord] /\ \A s \in Run \ {r} : tab'[s] = tab[s]
      /\ ~Live(tab'[r].fresh)
  BY <1>0 DEF FreshEnds, TabRecord, TabState, Live
<1>3. CASE source.head /\ Becomes(r, "retiring") /\ source' = Retired(source, runs[r].preserve)
  BY <1>0, <1>2, <1>3, RetiringKeeps
<1>4. CASE ~source.head /\ Becomes(r, "done") /\ source' = source
  <2>1. /\ runs' \in [Started -> RunRecord]
        /\ \A s \in Started : /\ runs'[s].key = runs[s].key /\ runs'[s].prev = runs[s].prev
                              /\ runs'[s].active = runs[s].active /\ runs'[s].aborted = runs[s].aborted
        /\ \A s \in Started \ {r} : runs'[s] = runs[s]
        /\ runs'[r].phase = "done"
    BY <1>0, <1>4, BecomesIs
  <2>2. RunsMove({r})
    BY <1>0, <1>1, <1>2, <2>1 DEF RunsMove, AtWork, Ended
  <2>3. RunBook(r)'
    BY <1>0, <1>1, <1>2, <1>4, <2>1 DEF RunBook
  <2> QED
    BY <1>0, <1>4, <2>2, <2>3, RunAlone DEF Quarantined
<1>5. ASSUME NEW error \in {"oversized", "other"}, Catch(r, error) PROVE CompactionIInv'
  BY <1>0, <1>1, <1>2, <1>5, CatchKeeps
<1> QED
  BY <1>3, <1>4, <1>5 DEF FreshEnds

LEMMA AbortSteps ==
    ASSUME CompactionIInv,
           \/ \E r \in Started : Deadline(r) \/ CancelCompactingTrace(r)
           \/ \E t \in NativeTurns : Interrupt(t)
    PROVE  CompactionIInv'
<1>0. /\ interrupted \subseteq NativeTurns /\ aborts \in 0..MAX_ABORTS /\ calls \in 0..MAX_CALLS
  BY DEF CompactionIInv, CompactionTypeOK
<1>1. ASSUME NEW r \in Started, Deadline(r) PROVE CompactionIInv'
  <2>1. /\ \A s \in {r} : Abortable(s)
        /\ ~Continuing /\ Abort({r}) /\ UNCHANGED <<mode, books, asks, interrupted, aborts, calls>>
    BY <1>1 DEF Deadline, outside
  <2> QED
    BY <1>0, <2>1, AbortKeeps
<1>2. ASSUME NEW r \in Started, CancelCompactingTrace(r) PROVE CompactionIInv'
  <2>1. /\ \A s \in {r} : Abortable(s)
        /\ ~Continuing /\ Abort({r}) /\ UNCHANGED <<mode, books, asks, interrupted, calls>>
        /\ aborts < MAX_ABORTS /\ aborts' = aborts + 1
    BY <1>2 DEF CancelCompactingTrace
  <2>2. aborts' \in 0..MAX_ABORTS
    BY <1>0, <2>1, CompactionAssumption
  <2> QED
    BY <1>0, <2>1, <2>2, AbortKeeps
<1>3. ASSUME NEW t \in NativeTurns, Interrupt(t) PROVE CompactionIInv'
  <2> DEFINE hit == {s \in Started : Abortable(s) /\ TurnOf[runs[s].key] = t}
  <2>1. /\ hit \in SUBSET Started /\ \A s \in hit : Abortable(s)
        /\ ~Continuing /\ Abort(hit) /\ UNCHANGED <<mode, books, asks, calls>>
        /\ aborts < MAX_ABORTS /\ aborts' = aborts + 1 /\ interrupted' = interrupted \cup {t}
    BY <1>3 DEF Interrupt
  <2>2. aborts' \in 0..MAX_ABORTS /\ interrupted' \subseteq NativeTurns
    BY <1>0, <2>1, CompactionAssumption
  <2>3. \A s \in Started : TurnOf[runs[s].key] \in interrupted' \ interrupted =>
           s \in hit \/ Ended(s) \/ runs[s].aborted
    BY <2>1 DEF Abortable
  <2> HIDE DEF hit
  <2> QED
    BY <1>0, <2>1, <2>2, <2>3, AbortKeeps
<1> QED
  BY <1>1, <1>2, <1>3

LEMMA CompactionStep == CompactionIInv /\ [CompactionNext]_compactionVars => CompactionIInv'
<1> SUFFICES ASSUME CompactionIInv, [CompactionNext]_compactionVars PROVE CompactionIInv'
  OBVIOUS
<1>1. CASE SourceCalls \/ CallDelivered \/ OrdinaryRound \/ SourceEnds \/ SourceUnwinds
  BY <1>1, SourceSteps
<1>2. ASSUME NEW q \in Compacts, Join(q) \/ Refuse(q) \/ Register(q) \/ Observe(q) \/ Detach(q)
      PROVE  CompactionIInv'
  BY <1>2, AsksSteps, RegisterKeeps
<1>3. ASSUME NEW r \in Started, RunNext(r) PROVE CompactionIInv'
  BY <1>3, PassGateKeeps, ReleasedKeeps, InspectKeeps, CatchSteps, SettledKeeps, SimpleSteps,
     AcceptedKeeps, CaughtKeeps, FreshEndsKeeps, OwnerLeavesKeeps, AbortSteps DEF RunNext
<1>4. ASSUME NEW t \in NativeTurns, Interrupt(t) \/ ForgetInterruption(t) PROVE CompactionIInv'
  BY <1>4, AbortSteps, ForgetSteps
<1>5. ASSUME NEW k \in CompactKey, ForgetRun(k) PROVE CompactionIInv'
  BY <1>5, ForgetSteps
<1>6. CASE UNCHANGED compactionVars
  <2>0. /\ CompactionTypeOK /\ RunsAreNumbered /\ OwnersQueue /\ WorkersOwn /\ SourceBooks /\ RunBooks
        /\ InterruptionHolds /\ SummaryHasItsSource /\ FinalAnswerSurvives
        /\ UNCHANGED compactionVars
    BY <1>6 DEF CompactionIInv
  <2>1. CompactionTypeOK'
    BY <2>0 DEF CompactionTypeOK, compactionVars
  <2>2. RunsAreNumbered'
    BY <2>0 DEF RunsAreNumbered, compactionVars, Started
  <2>3. OwnersQueue' /\ WorkersOwn' /\ SourceBooks'
    BY <2>0 DEF OwnersQueue, Owners, WorkersOwn, AtWork, GateOpen, SourceBooks, Ended, Started, compactionVars
  <2>4. RunBooks' /\ InterruptionHolds' /\ SummaryHasItsSource' /\ FinalAnswerSurvives'
    BY <2>0 DEF RunBooks, RunBook, InterruptionHolds, SummaryHasItsSource, FinalAnswerSurvives, Ended,
           Started, compactionVars
  <2> QED
    BY <2>1, <2>2, <2>3, <2>4 DEF CompactionIInv
<1> QED
  BY <1>1, <1>2, <1>3, <1>4, <1>5, <1>6 DEF CompactionNext

LEMMA CompactionStarts == CompactionInit => CompactionIInv
<1> SUFFICES ASSUME CompactionInit PROVE CompactionIInv
  OBVIOUS
<1> USE CompactionAssumption
<1>1. Started = {} /\ 0 \in 0..MAX_RUNS /\ 1..0 = {} /\ runs \in [Started -> RunRecord]
  <2>1. runs = <<>>
    BY DEF CompactionInit
  <2>2. DOMAIN runs = 1..0 /\ 1..0 = {}
    BY <2>1
  <2>3. runs = [i \in DOMAIN runs |-> runs[i]]
    BY <2>1, EmptySeq, LenProperties
  <2> QED
    BY <2>2, <2>3 DEF Started
<1>2. /\ tx = [r \in Run |-> "none"] /\ tab = [r \in Run |-> [handoff |-> "none", fresh |-> "none"]]
      /\ cached = [k \in CompactKey |-> NoRun] /\ gate = NoRun /\ interrupted = {}
      /\ asks = [q \in Compacts |-> [at |-> "new", run |-> NoRun]] /\ aborts = 0 /\ calls = 0
  BY DEF CompactionInit
<1>3. PICK out \in {"active", "final"} :
         source = [out |-> out, settled |-> out = "final", head |-> mode # "fresh", entry |-> TRUE,
                   instructed |-> FALSE, requested |-> FALSE, cancelled |-> FALSE,
                   call |-> "none"]
  BY DEF CompactionInit
<1>4. /\ source.out = out /\ (source.settled <=> out = "final") /\ (source.head <=> mode # "fresh")
      /\ source.entry /\ source.cancelled = FALSE /\ source \in SourceRecord /\ mode \in {"retained", "zero risk", "fresh"}
  BY <1>3 DEF SourceRecord, CompactionInit
<1>5. CompactionTypeOK
  <2>1. /\ tx \in [Run -> {"none", "beginning", "open"}]
        /\ tab \in [Run -> [handoff: TabState, fresh: TabState]]
        /\ cached \in [CompactKey -> Run \cup {NoRun}] /\ gate \in Run \cup {NoRun}
        /\ asks \in [Compacts -> [at: {"new", "waiting", "summary", "error"}, run: Run \cup {NoRun}]]
    BY <1>2 DEF TabState
  <2>2. interrupted \subseteq NativeTurns /\ aborts \in 0..MAX_ABORTS /\ calls \in 0..MAX_CALLS
    BY <1>2
  <2>3. DOMAIN runs \subseteq Run /\ \A r \in DOMAIN runs : runs[r] \in RunRecord
    BY <1>1 DEF Started
  <2> QED
    BY <1>4, <2>1, <2>2, <2>3 DEF CompactionTypeOK, SourceRecord
<1>6. RunsAreNumbered
  BY <1>1, <1>2 DEF RunsAreNumbered, Live
<1>7. OwnersQueue /\ WorkersOwn /\ RunBooks /\ InterruptionHolds /\ SummaryHasItsSource
  BY <1>1, <1>2 DEF OwnersQueue, Owners, WorkersOwn, RunBooks, InterruptionHolds, SummaryHasItsSource
<1>8. SourceBooks /\ FinalAnswerSurvives
  BY <1>3, <1>4 DEF SourceBooks, FinalAnswerSurvives
<1> QED
  BY <1>5, <1>6, <1>7, <1>8 DEF CompactionIInv

\* The invariant keeps fresh tabs alone: what lives is at work.
LEMMA CompactionHolds == CompactionIInv => CompactionInv
<1> SUFFICES ASSUME CompactionIInv PROVE CompactionInv
  OBVIOUS
<1>1. /\ CompactionTypeOK /\ RunsAreNumbered /\ OwnersQueue /\ WorkersOwn /\ RunBooks
  BY DEF CompactionIInv
<1>2. ASSUME NEW r \in Run, Live(tab[r].fresh) PROVE r \in Started /\ AtWork(r) /\ source.settled
  BY <1>1, <1>2 DEF RunsAreNumbered, RunBooks, RunBook, AtWork
<1>3. FreshTabAlone
  BY <1>1, <1>2, WorkIsAlone DEF FreshTabAlone
<1> QED
  BY <1>1, <1>3 DEF CompactionIInv, CompactionInv

\* The compaction of a thread is correct (compaction-handoff.ts, runStructuredCompactionOnce):
\* for any requests, keys, turns and bounds, at most one fresh tab is alive and only on a settled
\* source, the runs of an interrupted turn do no work, a summary belongs to the input that asked
\* for it and no transaction outlives its run, and a final answer is never thrown away.
THEOREM CompactionCorrect == CompactionMoves => []CompactionInv
BY CompactionStarts, CompactionStep, CompactionHolds, PTL DEF CompactionMoves
=============================================================================
