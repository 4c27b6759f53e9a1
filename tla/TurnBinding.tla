---------------------------- MODULE TurnBinding ----------------------------
(***************************************************************************)
(* Which answer on a ChatGPT page belongs to the message just sent.  The   *)
(* page names every exchange (a user bubble and its answer) by a key, but  *)
(* it gives an exchange a new key when it is saved, takes bubbles and      *)
(* answers out of the DOM while they are off screen, and may show a        *)
(* message somebody typed into the tab.  The worker knows the keys it saw  *)
(* before Send, the staged exchanges it verified, the user turn that       *)
(* acknowledged Send, and must never read another exchange's answer.       *)
(*                                                                         *)
(* One reading of the page (snap) is compared with the live page only      *)
(* where the code reads again: the page moves in between.                  *)
(***************************************************************************)
EXTENDS Naturals, FiniteSets

CONSTANTS
    Exchange,     \* "stage", "mine", "foreign", "old": a set of its keys each
    Scrolls       \* may an exchange leave the view between two readings of one probe?

ASSUME TurnBindingAssumption ==
    /\ Scrolls \in BOOLEAN
    /\ DOMAIN Exchange = {"stage", "mine", "foreign", "old"}
    /\ \A a, b \in DOMAIN Exchange : a # b => Exchange[a] \cap Exchange[b] = {}
    /\ \A a \in DOMAIN Exchange : IsFiniteSet(Exchange[a]) /\ Exchange[a] \subseteq Nat \ {0}

Keys == UNION {Exchange[e] : e \in DOMAIN Exchange}

VARIABLES
    dom,     \* the page: keys present, with a user bubble, with an answer, done
    snap,    \* the last reading of the page (submissionDomState)
    turn     \* the worker: phase, known keys, the stage's keys, accepted, bound

bindVars == <<dom, snap, turn>>

NoReading == [keys |-> {}, users |-> {}, answers |-> {}, done |-> {}]
Owner(k) == CHOOSE e \in DOMAIN Exchange : k \in Exchange[e]
Lives(e) == dom.keys \cap Exchange[e]
Failed == [turn EXCEPT !.phase = "failed"]

\* The stage was acknowledged under one of its keys.  The history keeps its keys
\* on the page, with or without its contents.
BindInit ==
    \E k \in Exchange["stage"] :
      /\ dom = [keys |-> {k} \union Exchange["old"], users |-> {k}, answers |-> {k},
                done |-> {k} \union Exchange["old"]]
      /\ snap = NoReading
      /\ turn = [phase |-> "baseline", known |-> {}, stage |-> {k}, accepted |-> 0,
                 bound |-> 0, seen |-> {}]

\* One probe of the page: keys, bubbles and answers at one moment.
Read ==
    /\ turn.phase \in {"baseline", "sent", "bound"}
    /\ snap' = dom
    /\ UNCHANGED <<dom, turn>>

----------------------------------------------------------------------------
(* reconcileMultipartHistory.                                              *)

\* An acknowledged stage is on the page twice, or the page turned over while a
\* candidate was verified.
Duplicated == Cardinality(snap.keys \cap turn.stage) > 1
Candidates == (snap.keys \ turn.known) \ turn.stage

\* What the live page says of a candidate: one that has left the page since cannot
\* be looked at (the probe times out; a caller that tries again reads again); an
\* exchange with neither a finished answer nor a stage's acknowledgement proves
\* nothing and is passed over; one that has the stage's text and acknowledgement is
\* the stage under a new key.
Gone(k) == k \notin dom.keys
Verified(k) ==
    /\ k \in dom.keys \cap dom.done \cap dom.users
    /\ Owner(k) = "stage"
Turned == dom.keys # snap.keys
Restored == snap.keys \cap turn.stage # {}
Contradicts(k) == k \in Exchange["stage"] /\ ~(k \in dom.users /\ k \in dom.done)

\* The keys the stage is known by, the page's known keys, or a failure.
Reconciled ==
    LET again == {k \in Candidates : Verified(k)} IN
    IF \/ Duplicated
       \/ \E k \in Candidates : Gone(k) \/ (k \in dom.answers /\ Contradicts(k))
       \/ again # {} /\ (Turned \/ Restored)
      THEN Failed
      ELSE [turn EXCEPT !.stage = @ \union again,
                        !.known = @ \union again \union (snap.keys \cap turn.stage)]

\* captureSubmissionBaseline: every key on the page, and every key the stage was
\* ever verified under, even if all of it is out of the DOM now.
Baseline ==
    /\ turn.phase = "baseline"
    /\ snap.keys # {}
    /\ LET r == Reconciled IN
       turn' = IF r.phase = "failed" THEN r
               ELSE [r EXCEPT !.phase = "sent", !.known = snap.keys \union r.stage]
    /\ snap' = NoReading
    /\ UNCHANGED dom

----------------------------------------------------------------------------
(* currentSubmissionEvidence and waitForNewAssistantTurn.                  *)

New(keys, known) == keys \ known

\* The new user turn that acknowledges Send; its key must not change after.
Acknowledged ==
    /\ turn.phase = "sent"
    /\ snap.keys # {}
    /\ LET r == Reconciled
           users == New(snap.users \cap snap.keys, r.known)
       IN /\ users # {}
          /\ turn' = IF r.phase = "failed" \/ Cardinality(users) > 1
                        \/ turn.accepted \notin users \union {0}
                       THEN Failed
                       ELSE [r EXCEPT !.accepted = CHOOSE k \in users : TRUE]
    /\ snap' = NoReading
    /\ UNCHANGED dom

\* The one answer that was not there before Send.
Bind ==
    /\ turn.phase = "sent"
    /\ snap.keys # {}
    /\ LET r == Reconciled
           answers == New(snap.answers \cap snap.keys, r.known)
       IN /\ answers # {}
          /\ turn' = IF r.phase = "failed" \/ Cardinality(answers) > 1 THEN Failed
                     ELSE [r EXCEPT !.phase = "bound", !.seen = snap.keys,
                                    !.bound = CHOOSE k \in answers : TRUE]
    /\ snap' = NoReading
    /\ UNCHANGED dom

----------------------------------------------------------------------------
(* reconcileAssistantTurnBinding: the bound answer is out of the DOM.      *)

\* The one new exchange may replace the bound one if its user bubble is the one
\* that acknowledged Send or, when none was seen, carries the submitted text, and
\* nothing else appeared, before that reading and after it.
Replaces(k, r) ==
    /\ turn.bound \notin snap.keys
    /\ snap.keys \subseteq turn.seen \union r.known \union {k}
    /\ IF turn.accepted # 0 THEN k = turn.accepted
       ELSE k \in dom.users /\ Owner(k) = "mine"
    /\ k \in dom.users \cap dom.answers
    /\ turn.bound \notin dom.keys
    /\ dom.keys \subseteq turn.seen \union r.known \union {k}

Rebound(matches(_, _)) ==
    LET r == Reconciled
        answers == New(snap.answers \cap snap.keys, r.known)
        users == (snap.users \cap snap.keys) \ (turn.seen \union r.known)
    IN IF r.phase = "failed" THEN r
       ELSE IF turn.bound \in snap.answers THEN r
       ELSE IF Cardinality(answers) > 1 THEN Failed
       ELSE IF users # {} /\ ~(\E k \in users : users = {k} /\ answers = {k} /\ matches(k, r)) THEN Failed
       ELSE IF answers = {} THEN r
       ELSE [r EXCEPT !.bound = CHOOSE k \in answers : TRUE, !.seen = snap.keys]

\* Mutant: any user message beside the candidate is taken for ours.
RebindAnything ==
    /\ turn.phase = "bound"
    /\ turn.bound \notin dom.answers
    /\ snap.keys # {}
    /\ turn' = Rebound(LAMBDA k, r : TRUE)
    /\ snap' = NoReading
    /\ UNCHANGED dom

Rebind ==
    /\ turn.phase = "bound"
    /\ turn.bound \notin dom.answers
    /\ snap.keys # {}
    /\ turn' = Rebound(Replaces)
    /\ snap' = NoReading
    /\ UNCHANGED dom

----------------------------------------------------------------------------
(* The page.                                                               *)

\* Our message is on the page, under its first key.
Sent ==
    /\ turn.phase # "baseline"
    /\ Lives("mine") = {} /\ dom.done \cap Exchange["mine"] = {}
    /\ \E k \in Exchange["mine"] :
         dom' = [dom EXCEPT !.keys = @ \union {k}, !.users = @ \union {k}]
    /\ UNCHANGED <<snap, turn>>

\* Its answer is mounted, the bubble may give way to the activity it shows.
AnswerShown ==
    \E k \in Lives("mine") :
        /\ k \notin dom.answers
        /\ \E hidden \in BOOLEAN :
             dom' = [dom EXCEPT !.answers = @ \union {k},
                                !.users = IF hidden THEN @ \ {k} ELSE @]
        /\ UNCHANGED <<snap, turn>>
AnswerFinished ==
    \E k \in Lives("mine") \cap dom.answers :
        /\ dom' = [dom EXCEPT !.done = @ \union {k}, !.users = @ \union {k}]
        /\ UNCHANGED <<snap, turn>>

\* Somebody types into the tab.  The probes are much closer together than that:
\* the answer to our own message has been bound by then.
Typed ==
    /\ turn.phase = "bound"
    /\ \E k \in Exchange["foreign"] \ dom.keys, shown \in BOOLEAN :
         dom' = [dom EXCEPT !.keys = @ \union {k}, !.users = @ \union {k},
                            !.answers = IF shown THEN @ \union {k} ELSE @]
    /\ UNCHANGED <<snap, turn>>

\* An exchange is saved under another key.
Saved(e) ==
    /\ e \in {"stage", "mine"}
    /\ \E k \in Lives(e), n \in Exchange[e] :
         /\ n > k /\ n \notin dom.keys
         /\ dom' = [keys |-> (dom.keys \ {k}) \union {n},
                    users |-> IF k \in dom.users THEN (dom.users \ {k}) \union {n} ELSE dom.users,
                    answers |-> IF k \in dom.answers THEN (dom.answers \ {k}) \union {n} ELSE dom.answers,
                    done |-> IF k \in dom.done THEN (dom.done \ {k}) \union {n} ELSE dom.done]
    /\ UNCHANGED <<snap, turn>>

\* Off screen: an exchange loses its contents, or a stage leaves the page
\* altogether, and comes back.
Hidden ==
    /\ Scrolls \/ snap.keys = {}
    /\ \E k \in dom.keys :
        /\ k \in dom.answers \cap dom.done
        /\ \E gone \in BOOLEAN :
             dom' = [dom EXCEPT !.keys = IF gone /\ Owner(k) = "stage" THEN @ \ {k} ELSE @,
                                !.users = @ \ {k}, !.answers = @ \ {k}]
    /\ UNCHANGED <<snap, turn>>
Shown ==
    \E k \in dom.done \ dom.answers :
        /\ dom' = [dom EXCEPT !.keys = @ \union {k}, !.users = @ \union {k}, !.answers = @ \union {k}]
        /\ UNCHANGED <<snap, turn>>

BindNext ==
    \/ Read \/ Baseline \/ Acknowledged \/ Bind \/ Rebind
    \/ Sent \/ AnswerShown \/ AnswerFinished \/ Typed \/ Hidden \/ Shown
    \/ \E e \in {"stage", "mine"} : Saved(e)

BindSpec == BindInit /\ [][BindNext]_bindVars

\* The answer a turn reads is the answer to the message it sent: never that of a
\* staged part, of the history, or of a message somebody typed into the tab, in
\* whatever order the page shows, hides and renames them (chatGptNewTurnIdentity,
\* reconcileMultipartHistory, reconcileAssistantTurnBinding 3023-3084).
ReadsItsOwnAnswer == turn.bound # 0 => Owner(turn.bound) = "mine"
============================================================================
