------------------------------- MODULE Limits -------------------------------
(* The launcher's local count of the messages sent to the Pro models.

   limits-store.cjs keeps, per ChatGPT account, the receipts of the last WEEK in one file;
   limits-controller.cjs wraps it with the interaction mode and one sticky error;
   limits.ts reads the account and the plan off the signed-in page; the browser worker
   (browser-worker.ts) posts one receipt per physical Send through the control server; the
   launcher window reads snapshots and asks for plan checks.

   Time is the wall clock, which the user can set back and forth. Accounts, subscriptions
   and model families are the data; everything else is control. A launcher restart loses
   the store in memory, the error and the turn, and may find the file damaged. *)
EXTENDS Integers, FiniteSets

CONSTANTS
    Account,            \* ChatGPT accounts the user has
    Family,             \* families of Pro models that have a window of their own
    WeeklyFamily,       \* those of them whose own window is a week long (gpt-6-pro)
    DAY, WEEK,          \* the two window lengths; WEEK is also the retention
    EVENT_CAP,          \* STORE_BOUNDS.maxEvents
    ACCOUNT_CAP,        \* STORE_BOUNDS.maxAccounts
    MAX_TIME,           \* bound: the clock
    MAX_SENDS,          \* bound: physical messages
    MAX_CHECKS,         \* bound: successful plan checks
    MAX_LIMIT_FAULTS    \* bound: restarts, damaged files, failed writes, clocks set back,
                        \* and changes of the account, the subscription and the mode

ASSUME LimitsBounds ==
    /\ {DAY, WEEK, EVENT_CAP, ACCOUNT_CAP, MAX_TIME, MAX_SENDS, MAX_CHECKS} \subseteq Nat \ {0}
    /\ MAX_LIMIT_FAULTS \in Nat /\ DAY <= WEEK

VARIABLES
    wall,       \* Date.now()
    signedIn,   \* the account and the subscription ChatGPT's own session reports
    lmode,      \* browserInteractionMode in the launcher's state
    limitsFile, \* limits.json: whether it parses, and what it says
    limits,     \* LimitsStore#state, and whether a store was built at all
    gap,        \* LimitsController#error is set
    checking,   \* LimitsController#settingUp: a plan check is running
    sending,    \* the browser turn: "none", or whether its lease says trackUsage
    sends,      \* history: every physical Send
    receipts,   \* notifyLauncherTurn("usage") requests on their way
    excused,    \* history: sends no count is owed for (see GapIsShown)
    pruned,     \* history: the latest time the store has seen
    checks,     \* plan checks that succeeded (bounded)
    limitFaults

limitsVars == <<wall, signedIn, lmode, limitsFile, limits, gap, checking, sending, sends,
                receipts, excused, pruned, checks, limitFaults>>

Never == -1
NoOne == "nobody"
Plan == {"pro_100", "pro_200", "unsupported"}
UsageModel == Family \cup {"pro-unknown", "other"}
ASSUME LimitsNames ==
    /\ Account # {} /\ NoOne \notin Account /\ WeeklyFamily \subseteq Family
    /\ Family \cap {"pro-unknown", "other"} = {}

Empty == [active |-> NoOne, book |-> [a \in {} |-> 0]]

Opened(s) == DOMAIN s.book
PlanOf(s) == IF s.active = NoOne THEN "none" ELSE s.book[s.active].plan
Enabled(s) == PlanOf(s) \in {"pro_100", "pro_200"}
Counted(s) == UNION {s.book[a].events : a \in Opened(s)}

(* retainHistory: every account forgets the receipts older than the retention. *)
Retain(s, now) ==
    [s EXCEPT !.book = [a \in Opened(s) |->
        [s.book[a] EXCEPT !.events = {e \in @ : e.at > now - WEEK}]]]

(* OFFICIAL_LIMITS: the windows of each plan, as the models and the length they count. *)
Windows(plan) ==
    CASE plan = "pro_100" -> {[models |-> Family \cup {"pro-unknown"}, length |-> WEEK]}
      [] plan = "pro_200" -> {[models |-> Family \cup {"pro-unknown"}, length |-> DAY]}
                              \cup {[models |-> {f}, length |-> IF f \in WeeklyFamily THEN WEEK ELSE DAY] : f \in Family}
      [] OTHER -> {}

(* snapshotAt: what one window counts, and the unclassified Pro messages beside it. *)
Recent(s, now, length) ==
    IF s.active = NoOne THEN {}
    ELSE {e \in s.book[s.active].events :
            e.at > now - WEEK /\ e.at <= now /\ e.at > now - length /\ e.model # "other"}
Used(s, now, w) == Cardinality({e \in Recent(s, now, w.length) : e.model \in w.models})
Uncertain(s, now, w) ==
    Cardinality({e \in Recent(s, now, w.length) : e.model = "pro-unknown"})

(* #getStore: the store is built on first use; a file that does not parse throws and
   leaves no store, so that a repaired file is read by a later call. *)
CanOpen == limits.built \/ limitsFile.ok
StoreState == IF limits.built THEN limits.state ELSE limitsFile.state
Opens(s) == limits' = [built |-> TRUE, state |-> s]

(* #commit: the file is written before the state in memory changes; an unchanged state is
   not written. A failed write leaves both alone and throws. *)
CommitTo(s) ==
    /\ limitsFile' = [ok |-> TRUE, state |-> s]
    /\ Opens(s)
    /\ UNCHANGED limitFaults
(* Mutant: the state in memory changes although the write failed. *)
HistoryWriteFailsAhead(s) ==
    /\ s # StoreState /\ limitFaults < MAX_LIMIT_FAULTS
    /\ limitFaults' = limitFaults + 1
    /\ Opens(s) /\ UNCHANGED limitsFile
HistoryWriteFails(s) ==
    /\ s # StoreState /\ limitFaults < MAX_LIMIT_FAULTS
    /\ limitFaults' = limitFaults + 1
    /\ Opens(StoreState) /\ UNCHANGED limitsFile
Seen == pruned' = IF wall > pruned THEN wall ELSE pruned
StoreIdle == UNCHANGED <<limitsFile, limits, pruned, limitFaults>>

(* LimitsController.snapshot: any failure becomes the sticky error and an empty answer.
   tracks is what enabled() answers. *)
Snapshot(tracks) ==
    \/ /\ CanOpen /\ CommitTo(Retain(StoreState, wall)) /\ Seen /\ UNCHANGED gap
       /\ tracks = (lmode = "automatic" /\ Enabled(StoreState))
    \/ /\ CanOpen /\ HistoryWriteFails(Retain(StoreState, wall)) /\ Seen /\ gap' = TRUE
       /\ tracks = FALSE
    \/ /\ ~CanOpen /\ gap' = TRUE /\ tracks = FALSE /\ StoreIdle

LMInit ==
    /\ wall = 0 /\ lmode = "automatic"
    /\ \E a \in {CHOOSE x \in Account : TRUE} :       \* all accounts are alike
          signedIn \in [who : {a}, tier : {"pro", "prolite", "free"}]
    /\ limitsFile = [ok |-> TRUE, state |-> Empty]
    /\ limits = [built |-> FALSE, state |-> Empty]
    /\ gap = FALSE /\ checking = FALSE /\ sending = "none"
    /\ sends = {} /\ receipts = {} /\ excused = {} /\ pruned = 0 /\ limitFaults = 0
    /\ checks = 0

PageIdle == UNCHANGED <<wall, signedIn, lmode>>
TurnIdle == UNCHANGED <<sending, sends, receipts>>

\* ------------------------------------------------------------------ the turn
(* control-server "/v1/turn/start" answers trackUsage from limits.enabled(). A turn and a
   manual browser operation exclude each other (BrowserHost). *)
TrackedTurn ==
    /\ sending = "none" /\ ~checking /\ lmode = "automatic"
    /\ \E tracks \in BOOLEAN :
          Snapshot(tracks) /\ sending' = IF tracks THEN "tracked" ELSE "untracked"
    /\ PageIdle /\ UNCHANGED <<checking, sends, receipts, excused, checks>>

(* readChatGptUsageAccount and usageSubmission: the account is read before the Send; a
   failed read, or a plan that is not tracked, posts account-unavailable. The family comes
   from the picker: a Pro model whose announcement cannot be read is pro-unknown. *)
AccountRead ==
    IF signedIn.tier \in {"pro", "prolite"} THEN {signedIn.who, NoOne} ELSE {NoOne}
ModelRead(model) == IF model = "other" THEN {"other"} ELSE {model, "pro-unknown"}

Send(model) ==
    /\ sending # "none" /\ Cardinality(sends) < MAX_SENDS
    /\ LET id == Cardinality(sends) + 1
           told == IF sending = "tracked"
                   THEN {[id |-> id, key |-> k, model |-> m, at |-> wall] :
                            k \in AccountRead, m \in ModelRead(model)}
                   ELSE {}
       IN /\ sends' = sends \cup {[id |-> id, who |-> signedIn.who, model |-> model, at |-> wall]}
          /\ IF told = {} THEN UNCHANGED receipts
             ELSE \E r \in told : receipts' = receipts \cup {r}
    /\ PageIdle /\ StoreIdle /\ UNCHANGED <<gap, checking, sending, excused, checks>>

(* LimitsStore.record: the receipts it takes. *)
Accepts(s, r) ==
    /\ r.key = s.active /\ s.book[r.key].plan # "unsupported"
    /\ r.at >= s.book[r.key].since /\ r.at > wall - WEEK
    /\ \A e \in s.book[r.key].events : e.id # r.id
Add(s, r) ==
    [s EXCEPT !.book[r.key].events = @ \cup {[id |-> r.id, model |-> r.model, at |-> r.at]}]
Skewed(s, r) == r.at > wall \/ wall < s.book[s.active].since

(* LimitsController.record, as the control server calls it under the turn's owner check.
   Every failure becomes the sticky error; the turn never sees one. *)
Record(r) ==
    LET s == Retain(StoreState, wall)
    IN \/ /\ lmode # "automatic" /\ StoreIdle /\ UNCHANGED gap
       \/ /\ lmode = "automatic" /\ ~CanOpen /\ StoreIdle /\ gap' = TRUE
       \/ /\ lmode = "automatic" /\ CanOpen /\ ~Enabled(s) /\ CommitTo(s) /\ Seen
          /\ UNCHANGED gap
       \/ /\ lmode = "automatic" /\ CanOpen /\ Enabled(s) /\ Seen
          /\ IF r.key = s.active /\ ~Skewed(s, r)
             THEN \/ /\ Accepts(s, r) /\ Cardinality(Counted(s)) < EVENT_CAP
                     /\ CommitTo(Add(s, r)) /\ UNCHANGED gap
                  \/ /\ Accepts(s, r) /\ Cardinality(Counted(s)) >= EVENT_CAP
                     /\ CommitTo(s) /\ gap' = TRUE
                  \/ Accepts(s, r) /\ HistoryWriteFails(Add(s, r)) /\ gap' = TRUE
                  \/ ~Accepts(s, r) /\ CommitTo(s) /\ UNCHANGED gap
             ELSE CommitTo(s) /\ gap' = TRUE
       \/ /\ lmode = "automatic" /\ CanOpen /\ HistoryWriteFails(s) /\ Seen /\ gap' = TRUE

ReceiptArrives ==
    /\ \E r \in receipts : Record(r) /\ receipts' = receipts \ {r}
    /\ PageIdle /\ UNCHANGED <<checking, sending, sends, excused, checks>>

(* The request fails or times out: the worker only logs it. *)
ReceiptLost ==
    /\ \E r \in receipts : receipts' = receipts \ {r} /\ excused' = excused \cup {r.id}
    /\ PageIdle /\ StoreIdle /\ UNCHANGED <<gap, checking, sending, sends, checks>>

(* The worker drains its receipts before it releases the lease. *)
TrackedTurnEnds ==
    /\ sending # "none" /\ receipts = {} /\ sending' = "none"
    /\ PageIdle /\ StoreIdle /\ UNCHANGED <<gap, checking, sends, receipts, excused, checks>>

\* --------------------------------------------------- the window and the checks
(* The window reads a snapshot every ten seconds ("launcher:limits"). *)
PanelReads ==
    /\ \E tracks \in BOOLEAN : Snapshot(tracks)
    /\ PageIdle /\ TurnIdle /\ UNCHANGED <<checking, checks, excused>>

(* The "launcher:limits-setup" handler and LimitsController.setup up to detectPlan:
   withManualOperation refuses while a turn runs. *)
CheckFails == gap' = TRUE /\ checking' = FALSE /\ UNCHANGED checks
CheckBegins ==
    /\ ~checking
    /\ \/ /\ lmode = "automatic" /\ CanOpen /\ Opens(StoreState) /\ sending = "none"
          /\ checking' = TRUE /\ UNCHANGED <<gap, checks>>
       \/ lmode = "automatic" /\ CanOpen /\ Opens(StoreState) /\ sending # "none" /\ CheckFails
       \/ ~(lmode = "automatic" /\ CanOpen) /\ UNCHANGED limits /\ CheckFails
    /\ PageIdle /\ TurnIdle /\ UNCHANGED <<limitsFile, pruned, limitFaults, excused>>

(* configure: the checked account becomes the active one; it keeps the receipts and the
   start it already had. *)
DetectedPlan ==
    CASE signedIn.tier = "pro" -> "pro_200" [] signedIn.tier = "prolite" -> "pro_100"
      [] OTHER -> "unsupported"
Configured(s) ==
    LET a == signedIn.who
        old == IF a \in Opened(s) THEN s.book[a] ELSE [since |-> Never, events |-> {}]
        new == [plan |-> DetectedPlan,
                since |-> IF old.since # Never THEN old.since
                          ELSE IF DetectedPlan = "unsupported" THEN Never ELSE wall,
                events |-> old.events]
    IN [active |-> a,
        book |-> [b \in Opened(s) \cup {a} |-> IF b = a THEN new ELSE s.book[b]]]

(* The detector answers: detectChatGptLimitsPlan reads the account twice and fails when it
   changed in between or reports a payment problem; the mode is required again. *)
CheckEnds ==
    LET s == Retain(StoreState, wall)
        full == signedIn.who \notin Opened(s) /\ Cardinality(Opened(s)) >= ACCOUNT_CAP
    IN /\ checking
       /\ \/ /\ lmode = "automatic" /\ ~full /\ checks < MAX_CHECKS
             /\ CommitTo(Configured(s)) /\ Seen
             /\ gap' = FALSE /\ checking' = FALSE
             /\ excused' = {e.id : e \in sends}
             /\ checks' = checks + 1
          \/ /\ lmode = "automatic" /\ ~full /\ HistoryWriteFails(Configured(s)) /\ Seen
             /\ CheckFails /\ UNCHANGED excused
          \/ CheckFails /\ StoreIdle /\ UNCHANGED excused
       /\ PageIdle /\ TurnIdle
\* --------------------------------------------------------------- the user's moves
(* Signing in as someone else and changing the mode are refused while a turn or an
   operation runs. *)
UserChanges ==
    /\ sending = "none" /\ ~checking
    /\ limitFaults < MAX_LIMIT_FAULTS /\ limitFaults' = limitFaults + 1
    /\ \/ /\ signedIn' \in [who : Account, tier : {"pro", "prolite", "free"}]
          /\ signedIn' # signedIn /\ UNCHANGED lmode
       \/ lmode' \in {"automatic", "manual"} \ {lmode} /\ UNCHANGED signedIn
    /\ UNCHANGED <<wall, limitsFile, limits, pruned>>
    /\ TurnIdle /\ UNCHANGED <<gap, checking, excused, checks>>

ClockMoves ==
    /\ \/ wall < MAX_TIME /\ wall' = wall + 1 /\ UNCHANGED limitFaults
       \/ /\ wall > 0 /\ limitFaults < MAX_LIMIT_FAULTS /\ limitFaults' = limitFaults + 1
          /\ wall' \in 0..(wall - 1)
    /\ UNCHANGED <<signedIn, lmode, limitsFile, limits, pruned>>
    /\ TurnIdle /\ UNCHANGED <<gap, checking, excused, checks>>

(* The launcher restarts: the turn, its receipts, the check and the error are gone; the file may be damaged. A damaged file is repaired, or deleted, by hand. *)
LauncherRestarts ==
    /\ limitFaults < MAX_LIMIT_FAULTS /\ limitFaults' = limitFaults + 1
    /\ limitsFile' \in {limitsFile, [limitsFile EXCEPT !.ok = FALSE]}
    /\ limits' = [built |-> FALSE, state |-> Empty]
    /\ gap' = FALSE /\ checking' = FALSE /\ sending' = "none" /\ receipts' = {}
    /\ excused' = {e.id : e \in sends}
    /\ UNCHANGED <<wall, signedIn, lmode, sends, pruned, checks>>
FileRepaired ==
    /\ ~limitsFile.ok /\ limitsFile' \in {[ok |-> TRUE, state |-> s] : s \in {limitsFile.state, Empty}}
    /\ PageIdle /\ TurnIdle /\ UNCHANGED <<limits, pruned, limitFaults, gap, checking, excused, checks>>

LMNext ==
    \/ TrackedTurn \/ ReceiptArrives \/ ReceiptLost \/ TrackedTurnEnds
    \/ \E model \in UsageModel \ {"pro-unknown"} : Send(model)
    \/ PanelReads \/ CheckBegins \/ CheckEnds
    \/ UserChanges \/ ClockMoves \/ LauncherRestarts \/ FileRepaired

LMSpec == LMInit /\ [][LMNext]_limitsVars

\* -------------------------------------------------------------------- properties
LimitsTypeOK ==
    /\ wall \in 0..MAX_TIME /\ pruned \in 0..MAX_TIME
    /\ lmode \in {"automatic", "manual"} /\ sending \in {"none", "tracked", "untracked"}
    /\ gap \in BOOLEAN /\ checking \in BOOLEAN
    /\ \A e \in Counted(limits.state) : e.id \in 1..MAX_SENDS /\ e.model \in UsageModel

(* Memory never runs ahead of the file: what the store answers from is what a restart
   reads, and a file that did not parse was not replaced. *)
MemoryIsTheFile == limits.built => limitsFile = [ok |-> TRUE, state |-> limits.state]

(* Every receipt kept is one physical Send, made by that account, at that time, since the
   account was first checked, and is kept once. *)
BooksAreReal ==
    \A a \in Opened(limitsFile.state) : LET b == limitsFile.state.book[a] IN
        \A e \in b.events :
            /\ e.at >= b.since
            /\ \E x \in sends : x.id = e.id /\ x.who = a /\ x.at = e.at
                                  /\ e.model \in {x.model, "pro-unknown"}
            /\ \A f \in b.events : f.id = e.id => f = e

(* A message the user sent from the checked account is counted or the panel says that the
   history may be incomplete. Not owed: what was sent before the last successful check or
   the last restart, a receipt lost on its way (the worker only logs it), one on its way,
   and one older than the retention seen from the latest time the store was used. *)
Owed(x) ==
    /\ x.who = limits.state.active /\ x.id \notin excused
    /\ \A r \in receipts : r.id # x.id
    /\ x.at >= limits.state.book[x.who].since /\ x.at > pruned - WEEK
GapIsShown ==
    limits.built /\ Enabled(limits.state) /\ ~gap =>
        \A x \in sends : Owed(x) => \E e \in limits.state.book[x.who].events : e.id = x.id

(* A window never counts more than was sent, and with its unclassified Pro messages it
   counts every message owed. *)
WindowsAreHonest ==
    limits.built /\ Enabled(limits.state) =>
        \A w \in Windows(PlanOf(limits.state)) :
            LET mine == {x \in sends : x.who = limits.state.active /\ x.model \in w.models
                                        /\ x.at > wall - w.length /\ x.at <= wall}
                sure == Used(limits.state, wall, w)
                unsure == Uncertain(limits.state, wall, w)
            IN /\ sure <= Cardinality(mine)
               /\ ~gap => Cardinality({x \in mine : Owed(x)}) <= sure + unsure

(* The counter never claims more, or hides more, than it knows. *)
LimitsInv ==
    /\ LimitsTypeOK /\ MemoryIsTheFile /\ BooksAreReal
    /\ GapIsShown /\ WindowsAreHonest
=============================================================================
