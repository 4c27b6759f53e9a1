--------------------------- MODULE Browser_proofs ---------------------------
(***************************************************************************)
(* Proofs about the Launcher's browser: the registry of turn tabs          *)
(* (BrowserHost) and the sign-in of the primary view (SignIn).             *)
(***************************************************************************)
EXTENDS BrowserHost, SignIn, SequenceTheorems, FiniteSetTheorems, TLAPS

-----------------------------------------------------------------------------
(* BrowserHost: what is kept of tabs, leases and owners *)

Active == {"acquiring", "running", "ending", "orphan"}
\* The worker has a lease, and no page of its trace was left without a mark.
Tidy(t) == workers[t].phase \in Active /\ workers[t].excuse # "unmarked"

\* A tab was created, a failed one is an error, and nothing is loaded before the document
\* is there (createTurnTab, endTurn).
TabBooks ==
    /\ \A i \in Open : /\ i <= created
                       /\ tabs[i].failed => tabs[i].status = "error"
                       /\ tabs[i].initializing => ~tabs[i].loaded
    /\ \A c \in cancels : c.id <= created

\* The tab of a worker with a lease is still leased to it.
LeaseBooks ==
    \A t \in Trace : workers[t].phase \in Active /\ workers[t].id \in Open =>
        /\ tabs[workers[t].id].trace = t
        /\ tabs[workers[t].id].helper = workers[t].helper
        /\ tabs[workers[t].id].status # "ready"
        /\ workers[t].phase = "acquiring" => tabs[workers[t].id].initializing

\* Unless a mark has failed, the worker owns no other tab, its tab is running, and a tab
\* that went away is remembered in its name; one that is not being closed is there.
OwnerBooks ==
    \A t \in Trace : Tidy(t) =>
        /\ Owned(t) \subseteq {workers[t].id}
        /\ workers[t].id \in Open => Running(workers[t].id)
        /\ workers[t].id \in Open \/ /\ t \in DOMAIN closedOwners
                                     /\ closedOwners[t] = workers[t].helper
        /\ workers[t].excuse = "none" => ~BeingClosed(workers[t].id)
        /\ workers[t].excuse = "none" /\ workers[t].phase = "running" =>
             workers[t].id \in Open

\* The retained tab of a conversation is the only one, and no turn that may still be taken
\* up has another.
Current(t) == workers[t].phase \notin {"new", "past"}
ConversationBooks ==
    /\ \A t \in Trace : workers[t].phase = "new" => Owned(t) = {}
    /\ \A s, t \in Trace : /\ Current(s) /\ Current(t)
                           /\ ConversationOf[s] = ConversationOf[t]
                           /\ ConversationOf[t] # NoConversation
                           => s = t
    /\ \A t \in Trace : \A j \in Reusable(ConversationOf[t]) :
          Current(t) /\ Owned(t) # {} => j \in Found(t)
    /\ \A c \in Conversation : \A i, j \in Reusable(c) : i = j

\* The deadline of a turn that beats passes only while the machine sleeps.
AgeBooks ==
    \A t \in Trace : /\ Live(t) /\ workers[t].id \in Open
                     /\ tabs[workers[t].id].loaded /\ tabs[workers[t].id].aged
                     => asleep

HostIInv == /\ HostTypeOK /\ OperationIsAlone /\ TabBooks /\ LeaseBooks /\ OwnerBooks
            /\ ConversationBooks /\ AgeBooks

\* No worker holds the id of a tab that is yet to be created.
IdBooks == \A t \in Trace : workers[t].id <= created

-----------------------------------------------------------------------------
(* Records, and steps that change one of them *)

\* A tab with some fields changed is a tab.
LEMMA TabsAreRecords ==
    ASSUME NEW r \in Tab
    PROVE  /\ \A s \in {"running", "ready", "error"} : [r EXCEPT !.status = s] \in Tab
           /\ \A b \in BOOLEAN : /\ [r EXCEPT !.initializing = b] \in Tab
                                 /\ [r EXCEPT !.signIn = b] \in Tab
                                 /\ [r EXCEPT !.aged = b] \in Tab
                                 /\ [r EXCEPT !.loaded = b] \in Tab
                                 /\ [r EXCEPT !.failed = b] \in Tab
           /\ \A h \in Helper : [r EXCEPT !.helper = h] \in Tab
           /\ \A t \in Trace : [r EXCEPT !.trace = t] \in Tab
BY SMTT(20) DEF Tab

LEMMA WorkersAreRecords ==
    ASSUME NEW r \in Worker
    PROVE  /\ \A p \in {"new", "idle", "acquiring", "running", "ending", "orphan", "past"} :
                 [r EXCEPT !.phase = p] \in Worker
           /\ \A s \in Statuses : [r EXCEPT !.status = s] \in Worker
           /\ \A e \in {"none", "lost", "unmarked"} : [r EXCEPT !.excuse = e] \in Worker
BY SMTT(20) DEF Worker, Statuses

LEMMA RestingIsAWorker ==
    /\ Resting \in Worker /\ Resting.phase = "idle" /\ Resting.id = 0
    /\ New \in Worker /\ New.phase = "new"
<1>1. Nobody \in Helper
  BY BrowserHostAssumption, Zenon DEF Nobody
<1>2. Resting \in Worker /\ Resting.phase = "idle" /\ Resting.id = 0
  BY <1>1, SMT DEF Resting, Worker, Statuses
<1>3. New \in Worker
  BY <1>2, WorkersAreRecords, Zenon DEF New
<1>4. New.phase = "new"
  BY SMT DEF New, Resting
<1> QED
  BY <1>2, <1>3, <1>4

\* removeTurnTab takes the tabs of S and leaves the others as they are.
LEMMA Discarding ==
    ASSUME HostTypeOK, NEW S \in SUBSET Open, NEW b \in BOOLEAN, Discard(S, b)
    PROVE  /\ DOMAIN tabs' = Open \ S
           /\ \A i \in Open \ S : tabs'[i] = tabs[i]
           /\ DOMAIN tabs' \subseteq Ids
           /\ \A i \in DOMAIN tabs' : tabs'[i] \in Tab
           /\ blocking' \in BOOLEAN
           /\ ~b => closedOwners' = closedOwners
<1>1. tabs' = Without(S)
  BY Zenon DEF Discard
<1>2. DOMAIN tabs' = Open \ S /\ \A i \in Open \ S : tabs'[i] = tabs[i]
  BY <1>1, SMTT(10) DEF Without
<1>3. blocking' \in BOOLEAN
  BY Zenon DEF Discard, AnyRunning, HostTypeOK
<1>4. ~b => closedOwners' = closedOwners
  BY Zenon DEF Discard
<1> QED
  BY <1>2, <1>3, <1>4, SMTT(10) DEF HostTypeOK, Open

\* The owner of a running tab is remembered when the tab goes.
LEMMA Remembering ==
    ASSUME HostTypeOK, NEW S \in SUBSET Open
    PROVE  /\ DOMAIN Remember(S) \subseteq Trace
           /\ \A t \in DOMAIN Remember(S) : Remember(S)[t] \in Helper
           /\ \A t \in DOMAIN Remember(S) :
                 \/ \E i \in S : Running(i) /\ tabs[i].trace = t /\ Remember(S)[t] = tabs[i].helper
                 \/ t \in DOMAIN closedOwners /\ Remember(S)[t] = closedOwners[t]
           /\ \A t \in DOMAIN closedOwners : t \in DOMAIN Remember(S)
           /\ \A i \in S : Running(i) =>
                 /\ tabs[i].trace \in DOMAIN Remember(S)
                 /\ \E j \in S : /\ Running(j) /\ tabs[j].trace = tabs[i].trace
                                 /\ Remember(S)[tabs[i].trace] = tabs[j].helper
<1> DEFINE Takes(t) == \E i \in S : Running(i) /\ tabs[i].trace = t
           The(t) == CHOOSE i \in S : Running(i) /\ tabs[i].trace = t
           All == DOMAIN closedOwners \cup {tabs[i].trace : i \in {j \in S : Running(j)}}
<1>1. Remember(S) = [t \in All |-> IF Takes(t) THEN tabs[The(t)].helper ELSE closedOwners[t]]
  BY Zenon DEF Remember
<1>2. \A t : Takes(t) => The(t) \in S /\ Running(The(t)) /\ tabs[The(t)].trace = t
  BY Zenon
<1>3. \A t \in All : Takes(t) \/ t \in DOMAIN closedOwners
  BY Zenon
<1>4. \A i \in S : tabs[i].trace \in Trace /\ tabs[i].helper \in Helper
  BY SMTT(10) DEF HostTypeOK, Open, Tab
<1>5. DOMAIN closedOwners \subseteq Trace /\ \A t \in DOMAIN closedOwners : closedOwners[t] \in Helper
  BY Zenon DEF HostTypeOK
<1>6. \A i \in S : Running(i) => tabs[i].trace \in All /\ Takes(tabs[i].trace)
  BY Zenon
<1>7. \A t \in All : Takes(t) => Remember(S)[t] = tabs[The(t)].helper
  BY <1>1, Zenon
<1>8. \A t \in All : ~Takes(t) => Remember(S)[t] = closedOwners[t]
  BY <1>1, Zenon
<1>9. DOMAIN Remember(S) = All
  BY <1>1, Zenon
<1> HIDE DEF Takes, The
<1> QED
  BY <1>2, <1>3, <1>4, <1>5, <1>6, <1>7, <1>8, <1>9, ZenonT(30)

LEMMA DiscardTypes ==
    ASSUME HostTypeOK, NEW S \in SUBSET Open, NEW b \in BOOLEAN, Discard(S, b)
    PROVE  DOMAIN closedOwners' \subseteq Trace
           /\ \A t \in DOMAIN closedOwners' : closedOwners'[t] \in Helper
BY Remembering, ZenonT(20) DEF Discard, HostTypeOK

\* A worker that has let go, and the excuses of the workers of a tab.
LEMMA LettingGo ==
    ASSUME HostTypeOK, NEW t \in Trace, Over(t)
    PROVE  /\ workers' \in [Trace -> Worker]
           /\ workers'[t].phase = "idle"
           /\ \A s \in Trace \ {t} : workers'[s] = workers[s]
BY RestingIsAWorker, SMTT(20) DEF Over, HostTypeOK

LEMMA Excusing ==
    ASSUME HostTypeOK, NEW i, NEW why \in {"lost", "unmarked"}, Excuse(i, why)
    PROVE  /\ workers' \in [Trace -> Worker]
           /\ \A t \in Trace : /\ workers'[t].phase = workers[t].phase
                               /\ workers'[t].id = workers[t].id
                               /\ workers'[t].helper = workers[t].helper
                               /\ workers'[t].excuse =
                                    IF workers[t].id = i /\ workers[t].excuse # "unmarked"
                                    THEN why ELSE workers[t].excuse
<1>1. \A t \in Trace : workers'[t] = IF workers[t].id = i /\ workers[t].excuse # "unmarked"
                                     THEN [workers[t] EXCEPT !.excuse = why] ELSE workers[t]
  BY Zenon DEF Excuse
<1>2. \A t \in Trace : workers[t] \in Worker
  BY SMT DEF HostTypeOK
<1>3. \A t \in Trace : workers'[t] \in Worker
  <2>1. why \in {"none", "lost", "unmarked"}
    OBVIOUS
  <2>2. \A w \in Worker : [w EXCEPT !.excuse = why] \in Worker
    BY <2>1, WorkersAreRecords, Zenon
  <2> QED
    BY <1>1, <1>2, <2>2, Zenon
<1>4. workers' \in [Trace -> Worker]
  BY <1>3, SMT DEF Excuse
<1>5. \A w \in Worker : /\ [w EXCEPT !.excuse = why].phase = w.phase
                        /\ [w EXCEPT !.excuse = why].id = w.id
                        /\ [w EXCEPT !.excuse = why].helper = w.helper
                        /\ [w EXCEPT !.excuse = why].excuse = why
  BY SMT DEF Worker
<1> QED
  BY <1>1, <1>2, <1>4, <1>5, ZenonT(30)

LEMMA HelperLeaves ==
    ASSUME HostTypeOK, NEW h \in Helper, HelperExits(h)
    PROVE  /\ workers' \in [Trace -> Worker]
           /\ \A t \in Trace : /\ workers'[t].phase \in {workers[t].phase, "orphan"}
                               /\ workers'[t].phase # workers[t].phase =>
                                    workers[t].phase \in {"running", "ending"}
                               /\ workers'[t].id = workers[t].id
                               /\ workers'[t].helper = workers[t].helper
                               /\ workers'[t].excuse = workers[t].excuse
<1>1. \A t \in Trace :
        workers'[t] = IF workers[t].helper = h /\ workers[t].phase \in {"running", "ending"}
                      THEN [workers[t] EXCEPT !.phase = "orphan", !.status = "failed"]
                      ELSE workers[t]
  BY Zenon DEF HelperExits
<1>2. \A t \in Trace : workers[t] \in Worker
  BY SMT DEF HostTypeOK
<1>3. \A w \in Worker : LET v == [w EXCEPT !.phase = "orphan", !.status = "failed"]
                        IN  /\ v.phase = "orphan" /\ v.id = w.id
                            /\ v.helper = w.helper /\ v.excuse = w.excuse
  BY SMT DEF Worker
<1>4. \A w \in Worker : [w EXCEPT !.phase = "orphan", !.status = "failed"] \in Worker
  <2> TAKE w \in Worker
  <2>1. [w EXCEPT !.phase = "orphan"] \in Worker
    BY WorkersAreRecords, Zenon
  <2>2. [[w EXCEPT !.phase = "orphan"] EXCEPT !.status = "failed"] \in Worker
    BY <2>1, WorkersAreRecords, Zenon DEF Statuses
  <2> QED
    BY <2>2, Zenon
<1>5. \A t \in Trace : workers'[t] \in Worker
  BY <1>1, <1>2, <1>4, ZenonT(20)
<1>6. workers' \in [Trace -> Worker]
  <2> DEFINE W(t) == IF workers[t].helper = h /\ workers[t].phase \in {"running", "ending"}
                     THEN [workers[t] EXCEPT !.phase = "orphan", !.status = "failed"]
                     ELSE workers[t]
  <2>1. workers' = [t \in Trace |-> W(t)]
    BY Zenon DEF HelperExits
  <2> HIDE DEF W
  <2> QED
    BY <1>5, <2>1, SMT
<1> QED
  BY <1>1, <1>2, <1>3, <1>6, ZenonT(30)

LEMMA SomeAreRefreshed ==
    ASSUME HostTypeOK, tabs' = Refreshed
    PROVE  /\ DOMAIN tabs' = Open
           /\ \A i \in Open : /\ tabs'[i] \in Tab
                              /\ tabs'[i].trace = tabs[i].trace
                              /\ tabs'[i].helper = tabs[i].helper
                              /\ tabs'[i].status = tabs[i].status
                              /\ tabs'[i].failed = tabs[i].failed
                              /\ tabs'[i].loaded = tabs[i].loaded
                              /\ tabs'[i].initializing = tabs[i].initializing
                              /\ Running(i) => ~tabs'[i].aged
<1>1. \A i \in Open : tabs[i] \in Tab
  BY Zenon DEF HostTypeOK, Open
<1>2. DOMAIN tabs' = Open
  BY SMT DEF Refreshed
<1>3. \A i \in Open : tabs'[i] = IF Running(i) THEN [tabs[i] EXCEPT !.aged = FALSE] ELSE tabs[i]
  BY SMT DEF Refreshed
<1>4. \A r \in Tab : LET q == [r EXCEPT !.aged = FALSE]
                     IN  /\ q.trace = r.trace /\ q.helper = r.helper /\ q.status = r.status
                         /\ q.failed = r.failed /\ q.loaded = r.loaded
                         /\ q.initializing = r.initializing /\ ~q.aged
  BY SMT DEF Tab
<1>5. \A i \in Open : [tabs[i] EXCEPT !.aged = FALSE] \in Tab
  BY <1>1, TabsAreRecords, Zenon
<1>6. \A i \in Open : tabs'[i] \in Tab
  BY <1>1, <1>3, <1>5, Zenon
<1>7. ASSUME NEW i \in Open
      PROVE  /\ tabs'[i].trace = tabs[i].trace /\ tabs'[i].helper = tabs[i].helper
             /\ tabs'[i].status = tabs[i].status /\ tabs'[i].failed = tabs[i].failed
             /\ tabs'[i].loaded = tabs[i].loaded
             /\ tabs'[i].initializing = tabs[i].initializing
             /\ Running(i) => ~tabs'[i].aged
  <2>1. CASE Running(i)
    <3>1. tabs'[i] = [tabs[i] EXCEPT !.aged = FALSE] /\ tabs[i] \in Tab
      BY <1>1, <1>3, <2>1, Zenon
    <3> QED
      BY <1>4, <3>1, Zenon
  <2>2. CASE ~Running(i)
    BY <1>3, <2>2, Zenon
  <2> QED
    BY <2>1, <2>2
<1> QED
  BY <1>2, <1>6, <1>7, Zenon

\* One tab or one worker changes, and the types of the steps that change one.
LEMMA OneTabChanges ==
    ASSUME HostTypeOK, NEW i \in Open, NEW r \in Tab, tabs' = [tabs EXCEPT ![i] = r]
    PROVE  /\ DOMAIN tabs' = Open /\ DOMAIN tabs' \subseteq Ids
           /\ \A j \in DOMAIN tabs' : tabs'[j] \in Tab
           /\ tabs'[i] = r /\ \A j \in Open \ {i} : tabs'[j] = tabs[j]
BY SMT DEF HostTypeOK, Open

LEMMA OneWorkerChanges ==
    ASSUME HostTypeOK, NEW t \in Trace, NEW w \in Worker, workers' = [workers EXCEPT ![t] = w]
    PROVE  /\ workers' \in [Trace -> Worker] /\ workers'[t] = w
           /\ \A s \in Trace \ {t} : workers'[s] = workers[s]
BY SMT DEF HostTypeOK

\* What the type invariant says of one tab, and of one worker.
LEMMA TabsAreTyped == HostTypeOK => \A i \in Open : tabs[i] \in Tab
BY Zenon DEF HostTypeOK, Open

LEMMA WorkersAreTyped == HostTypeOK => \A t \in Trace : workers[t] \in Worker
BY SMT DEF HostTypeOK

\* The types of the steps that change one tab or one worker.
LEMMA InitializedTypes ==
    ASSUME HostTypeOK, NEW t \in Trace, Initialized(t)
    PROVE  HostTypeOK'
<1> DEFINE i == workers[t].id
<1>1. i \in Open
  BY Zenon DEF Initialized
<1>2. [tabs[i] EXCEPT !.initializing = FALSE] \in Tab
  BY <1>1, TabsAreTyped, TabsAreRecords, Zenon
<1>3. tabs' = [tabs EXCEPT ![i] = [tabs[i] EXCEPT !.initializing = FALSE]]
  BY SMT DEF Initialized
<1>4. DOMAIN tabs' \subseteq Ids /\ \A j \in DOMAIN tabs' : tabs'[j] \in Tab
  BY <1>1, <1>2, <1>3, OneTabChanges, Zenon
<1>5. workers' \in [Trace -> Worker]
  <2>1. CASE workers' = [workers EXCEPT ![t].phase = "running"]
    <3>1. [workers[t] EXCEPT !.phase = "running"] \in Worker
      BY WorkersAreRecords, WorkersAreTyped, Zenon
    <3>2. workers' = [workers EXCEPT ![t] = [workers[t] EXCEPT !.phase = "running"]]
      BY <2>1, SMT
    <3> QED
      BY <3>1, <3>2, OneWorkerChanges, Zenon
  <2>2. CASE Over(t)
    BY <2>2, LettingGo, Zenon
  <2> QED
    BY <2>1, <2>2, Zenon DEF Initialized
<1>6. faults' \in 0..MaxFaults
  BY BrowserHostAssumption, SMT DEF Initialized, Fault, HostTypeOK
<1> QED
  BY <1>4, <1>5, <1>6, Zenon DEF Initialized, hostOnly, HostTypeOK

LEMMA SignInRequiredTypes ==
    ASSUME HostTypeOK, NEW i \in Ids, SignInRequired(i)
    PROVE  HostTypeOK'
<1>1. i \in Open
  BY Zenon DEF SignInRequired
<1>2. [tabs[i] EXCEPT !.signIn = TRUE] \in Tab
  BY <1>1, TabsAreTyped, TabsAreRecords, Zenon
<1>3. tabs' = [tabs EXCEPT ![i] = [tabs[i] EXCEPT !.signIn = TRUE]]
  BY SMT DEF SignInRequired
<1>4. DOMAIN tabs' \subseteq Ids /\ \A j \in DOMAIN tabs' : tabs'[j] \in Tab
  BY <1>1, <1>2, <1>3, OneTabChanges, Zenon
<1>5. faults' \in 0..MaxFaults
  BY BrowserHostAssumption, SMT DEF SignInRequired, Fault, HostTypeOK
<1> QED
  BY <1>4, <1>5, Zenon DEF SignInRequired, hostOnly, HostTypeOK

LEMMA AgeTypes ==
    ASSUME HostTypeOK, NEW i \in Ids, Age(i)
    PROVE  HostTypeOK'
<1>1. i \in Open
  BY Zenon DEF Age
<1>2. [tabs[i] EXCEPT !.aged = TRUE] \in Tab
  BY <1>1, TabsAreTyped, TabsAreRecords, Zenon
<1>3. tabs' = [tabs EXCEPT ![i] = [tabs[i] EXCEPT !.aged = TRUE]]
  BY SMT DEF Age
<1>4. DOMAIN tabs' \subseteq Ids /\ \A j \in DOMAIN tabs' : tabs'[j] \in Tab
  BY <1>1, <1>2, <1>3, OneTabChanges, Zenon
<1> QED
  BY <1>4, Zenon DEF Age, hostOnly, HostTypeOK

LEMMA MarkFailsTypes ==
    ASSUME HostTypeOK, NEW i \in Ids, MarkFails(i)
    PROVE  HostTypeOK'
<1>1. i \in Open
  BY Zenon DEF MarkFails
<1>2. [tabs[i] EXCEPT !.status = "error"] \in Tab
  BY <1>1, TabsAreTyped, TabsAreRecords, Zenon
<1>3. tabs' = [tabs EXCEPT ![i] = [tabs[i] EXCEPT !.status = "error"]]
  BY SMT DEF MarkFails
<1>4. DOMAIN tabs' \subseteq Ids /\ \A j \in DOMAIN tabs' : tabs'[j] \in Tab
  BY <1>1, <1>2, <1>3, OneTabChanges, Zenon
<1>5. faults' \in 0..MaxFaults
  BY BrowserHostAssumption, SMT DEF MarkFails, Fault, HostTypeOK
<1>6. workers' \in [Trace -> Worker] /\ blocking' \in BOOLEAN
  <2>1. Excuse(i, "unmarked")
    BY Zenon DEF MarkFails
  <2>2. workers' \in [Trace -> Worker]
    BY <2>1, Excusing, Zenon
  <2> QED
    BY <2>2, Zenon DEF MarkFails, AnyRunning
<1> QED
  BY <1>4, <1>5, <1>6, Zenon DEF MarkFails, hostOnly, HostTypeOK

LEMMA HeartbeatTypes ==
    ASSUME HostTypeOK, NEW t \in Trace, Heartbeat(t)
    PROVE  HostTypeOK'
<1>1. PICK i \in Found(t) : tabs' = [tabs EXCEPT ![i].aged = FALSE]
  BY Zenon DEF Heartbeat
<1>2. i \in Open
  BY Zenon DEF Found, Owned
<1>3. [tabs[i] EXCEPT !.aged = FALSE] \in Tab
  BY <1>2, TabsAreTyped, TabsAreRecords, Zenon
<1>4. tabs' = [tabs EXCEPT ![i] = [tabs[i] EXCEPT !.aged = FALSE]]
  BY <1>1, SMT
<1>5. DOMAIN tabs' \subseteq Ids /\ \A j \in DOMAIN tabs' : tabs'[j] \in Tab
  BY <1>2, <1>3, <1>4, OneTabChanges, Zenon
<1> QED
  BY <1>5, Zenon DEF Heartbeat, hostOnly, HostTypeOK

LEMMA BootstrappedTypes ==
    ASSUME HostTypeOK, NEW i \in Ids, Bootstrapped(i)
    PROVE  HostTypeOK'
<1> DEFINE a == tabs[i].aged /\ (asleep \/ ~Beating(i))
<1>1. i \in Open
  BY Zenon DEF Bootstrapped
<1>2. [tabs[i] EXCEPT !.loaded = TRUE] \in Tab
  BY <1>1, TabsAreTyped, TabsAreRecords, Zenon
<1>3. [[tabs[i] EXCEPT !.loaded = TRUE] EXCEPT !.aged = a] \in Tab
  <2>1. a \in BOOLEAN
    BY Zenon
  <2> QED
    BY <1>2, <2>1, TabsAreRecords, Zenon
<1>4. tabs' = [tabs EXCEPT ![i] = [tabs[i] EXCEPT !.loaded = TRUE, !.aged = a]]
  BY Zenon DEF Bootstrapped
<1>5. [tabs[i] EXCEPT !.loaded = TRUE, !.aged = a] \in Tab
  BY <1>3, Zenon
<1> HIDE DEF a
<1>6. DOMAIN tabs' \subseteq Ids /\ \A j \in DOMAIN tabs' : tabs'[j] \in Tab
  BY <1>1, <1>4, <1>5, OneTabChanges, Zenon
<1> QED
  BY <1>6, Zenon DEF Bootstrapped, hostOnly, HostTypeOK

LEMMA FinishTypes ==
    ASSUME HostTypeOK, NEW t \in Trace, NEW status \in Statuses, Finish(t, status)
    PROVE  HostTypeOK'
<1>1. [[workers[t] EXCEPT !.phase = "ending"] EXCEPT !.status = status] \in Worker
  <2>1. [workers[t] EXCEPT !.phase = "ending"] \in Worker
    BY WorkersAreTyped, WorkersAreRecords, Zenon
  <2> QED
    BY <2>1, WorkersAreRecords, Zenon
<1>2. [workers[t] EXCEPT !.phase = "ending", !.status = status] \in Worker
  BY <1>1, Zenon
<1>3. workers' \in [Trace -> Worker]
  BY <1>2, OneWorkerChanges, Zenon DEF Finish
<1> QED
  BY <1>3, Zenon DEF Finish, hostOnly, HostTypeOK

LEMMA CancelReachesTypes ==
    ASSUME HostTypeOK, NEW c \in cancels, CancelReaches(c)
    PROVE  HostTypeOK'
<1>1. c.trace \in Trace
  BY SMT DEF HostTypeOK, Cancel
<1>2. [[workers[c.trace] EXCEPT !.phase = "ending"] EXCEPT !.status = "aborted"] \in Worker
  <2>1. [workers[c.trace] EXCEPT !.phase = "ending"] \in Worker
    BY <1>1, WorkersAreTyped, WorkersAreRecords, Zenon
  <2> QED
    BY <2>1, WorkersAreRecords, Zenon DEF Statuses
<1>3. [workers[c.trace] EXCEPT !.phase = "ending", !.status = "aborted"] \in Worker
  BY <1>2, Zenon
<1>4. workers' \in [Trace -> Worker]
  BY <1>1, <1>3, OneWorkerChanges, Zenon DEF CancelReaches
<1> QED
  BY <1>4, Zenon DEF CancelReaches, hostOnly, HostTypeOK

LEMMA SleepTypes ==
    ASSUME HostTypeOK, Sleep
    PROVE  /\ HostTypeOK' /\ DOMAIN tabs' = Open
           /\ \A i \in Open : tabs'[i] = [tabs[i] EXCEPT !.aged = TRUE]
<1>1. DOMAIN tabs' = Open /\ \A i \in Open : tabs'[i] = [tabs[i] EXCEPT !.aged = TRUE]
  BY Zenon DEF Sleep
<1>2. \A i \in Open : tabs'[i] \in Tab
  BY <1>1, TabsAreTyped, TabsAreRecords, Zenon
<1>3. DOMAIN tabs' \subseteq Ids
  BY <1>1, Zenon DEF HostTypeOK, Open
<1> QED
  BY <1>1, <1>2, <1>3, Zenon DEF Sleep, hostOnly, HostTypeOK

LEMMA SystemResumeTypes ==
    ASSUME HostTypeOK, SystemResume
    PROVE  HostTypeOK'
<1>1. tabs' = Refreshed
  BY Zenon DEF SystemResume
<1>2. DOMAIN tabs' \subseteq Ids /\ \A i \in DOMAIN tabs' : tabs'[i] \in Tab
  BY <1>1, SomeAreRefreshed, Zenon DEF HostTypeOK, Open
<1> QED
  BY <1>2, Zenon DEF SystemResume, hostOnly, HostTypeOK

LEMMA EndOperationTypes ==
    ASSUME HostTypeOK, EndOperation \/ BeginOperation
    PROVE  HostTypeOK'
BY Zenon DEF EndOperation, BeginOperation, HostTypeOK

LEMMA SweepTypes ==
    ASSUME HostTypeOK, Sweep
    PROVE  HostTypeOK'
<1> DEFINE S == {i \in Open : tabs[i].aged /\ (tabs[i].failed \/ tabs[i].status = "ready")}
<1>1. CASE asleep
  <2>1. tabs' = Refreshed
    BY <1>1, Zenon DEF Sweep
  <2>2. DOMAIN tabs' \subseteq Ids /\ \A i \in DOMAIN tabs' : tabs'[i] \in Tab
    BY <2>1, SomeAreRefreshed, Zenon DEF HostTypeOK, Open
  <2> QED
    BY <1>1, <2>2, Zenon DEF Sweep, hostOnly, HostTypeOK
<1>2. CASE ~asleep
  <2>1. S \in SUBSET Open /\ Discard(S, FALSE)
    BY <1>2, Zenon DEF Sweep
  <2> HIDE DEF S
  <2>2. DOMAIN tabs' \subseteq Ids /\ (\A i \in DOMAIN tabs' : tabs'[i] \in Tab)
        /\ blocking' \in BOOLEAN /\ closedOwners' = closedOwners
    BY <2>1, Discarding, Zenon
  <2>3. cancels' \subseteq Cancel
    <3>1. \A i \in Open : [why |-> "expire", id |-> i, trace |-> tabs[i].trace,
                           helper |-> tabs[i].helper] \in Cancel
      BY SMT DEF HostTypeOK, Open, Tab, Cancel
    <3>2. \A i : Expiring(i) => i \in Open
      BY Zenon DEF Expiring
    <3>3. \A c \in cancels' : c \in cancels \/ \E i \in Open :
             Expiring(i) /\ c = [why |-> "expire", id |-> i, trace |-> tabs[i].trace,
                                helper |-> tabs[i].helper]
      BY <1>2, SMT DEF Sweep
    <3> QED
      BY <3>1, <3>3, Zenon DEF HostTypeOK
  <2> QED
    BY <1>2, <2>2, <2>3, Zenon DEF Sweep, HostTypeOK
<1> QED
  BY <1>1, <1>2

-----------------------------------------------------------------------------
(* Parts of the registry that a step leaves alone *)

\* What the conversations are worth survives a step that creates no tab, retains none, and
\* begins no turn.
LEMMA ConversationsKeep ==
    ASSUME HostTypeOK, ConversationBooks,
           DOMAIN tabs' \subseteq Open,
           \A i \in DOMAIN tabs' : /\ tabs'[i].trace = tabs[i].trace
                                   /\ tabs'[i].status = "ready" => tabs[i].status = "ready",
           \A t \in Trace : /\ workers'[t].phase = "new" => workers[t].phase = "new"
                            /\ workers'[t].phase \notin {"new", "past"} => Current(t)
    PROVE  ConversationBooks'
<1>1. \A t : Owned(t)' \subseteq Owned(t)
  BY SMT DEF Owned, Open
<1>2. \A c : Reusable(c)' \subseteq Reusable(c)
  BY SMT DEF Reusable, Open
<1>3. \A t : \A j \in Found(t) : j \in Open' => j \in Found(t)'
  BY <1>1, SMT DEF Found, Owned, Open
<1>4. \A c : Reusable(c)' \subseteq Open'
  BY Zenon DEF Reusable
<1>5. \A t \in Trace : workers'[t].phase = "new" => Owned(t)' = {}
  BY <1>1, Zenon DEF ConversationBooks
<1>6. \A s, t \in Trace : /\ Current(s)' /\ Current(t)'
                          /\ ConversationOf[s] = ConversationOf[t]
                          /\ ConversationOf[t] # NoConversation
                          => s = t
  BY Zenon DEF ConversationBooks, Current
<1>7. ASSUME NEW t \in Trace, NEW j \in Reusable(ConversationOf[t])', Current(t)', Owned(t)' # {}
      PROVE  j \in Found(t)'
  <2>1. Owned(t) # {} /\ Current(t) /\ j \in Reusable(ConversationOf[t]) /\ j \in Open'
    BY <1>1, <1>2, <1>4, <1>7, Zenon DEF Current
  <2> QED
    BY <1>3, <2>1, Zenon DEF ConversationBooks
<1>8. \A c \in Conversation : \A i, j \in Reusable(c)' : i = j
  BY <1>2, Zenon DEF ConversationBooks
<1> QED
  BY <1>5, <1>6, <1>7, <1>8, Zenon DEF ConversationBooks

\* What the leases are worth survives a step that takes the tabs of S, when an owner that
\* loses its tab is remembered, and a worker that runs loses none without an excuse.
LEMMA LeasesKeep ==
    ASSUME HostTypeOK, LeaseBooks, OwnerBooks, NEW S,
           DOMAIN tabs' = Open \ S,
           \A i \in Open \ S : tabs'[i] = tabs[i],
           \A t \in Trace : workers'[t].phase \in Active =>
                /\ workers'[t].phase = workers[t].phase /\ workers'[t].id = workers[t].id
                /\ workers'[t].helper = workers[t].helper
                /\ workers'[t].excuse # "unmarked" => workers[t].excuse # "unmarked"
                /\ workers'[t].excuse = "none" =>
                     /\ workers[t].excuse = "none" /\ ~BeingClosed(workers[t].id)'
                     /\ workers[t].phase = "running" => workers[t].id \notin S,
           \A t \in Trace : Tidy(t)' =>
                /\ workers[t].id \in S \cap Open => /\ t \in DOMAIN closedOwners'
                                                    /\ closedOwners'[t] = workers[t].helper
                /\ t \in DOMAIN closedOwners /\ closedOwners[t] = workers[t].helper =>
                     t \in DOMAIN closedOwners' /\ closedOwners'[t] = workers[t].helper
    PROVE  LeaseBooks' /\ OwnerBooks'
<1>1. LeaseBooks'
  BY SMTT(10) DEF LeaseBooks, Open
<1>2. ASSUME NEW t \in Trace, Tidy(t)'
      PROVE  /\ (Owned(t) \subseteq {workers[t].id})'
             /\ (workers[t].id \in Open => Running(workers[t].id))'
             /\ (workers[t].id \in Open \/ /\ t \in DOMAIN closedOwners
                                           /\ closedOwners[t] = workers[t].helper)'
             /\ (workers[t].excuse = "none" => ~BeingClosed(workers[t].id))'
             /\ (workers[t].excuse = "none" /\ workers[t].phase = "running" =>
                   workers[t].id \in Open)'
  <2>1. workers'[t].phase \in Active /\ workers'[t].excuse # "unmarked"
    BY <1>2, Zenon DEF Tidy
  <2>2. Tidy(t) /\ workers'[t].id = workers[t].id /\ workers'[t].helper = workers[t].helper
    BY <2>1, Zenon DEF Tidy
  <2>3. /\ Owned(t) \subseteq {workers[t].id}
        /\ workers[t].id \in Open => Running(workers[t].id)
        /\ workers[t].id \in Open \/ /\ t \in DOMAIN closedOwners
                                     /\ closedOwners[t] = workers[t].helper
        /\ workers[t].excuse = "none" /\ workers[t].phase = "running" => workers[t].id \in Open
    BY <2>2, Zenon DEF OwnerBooks
  <2>4. Owned(t)' \subseteq Owned(t)
    BY SMT DEF Owned, Open
  <2>5. (workers[t].id \in Open => Running(workers[t].id))'
    BY <2>2, <2>3, SMT DEF Running, Open
  <2>6. (workers[t].id \in Open \/ /\ t \in DOMAIN closedOwners
                                   /\ closedOwners[t] = workers[t].helper)'
    <3>1. /\ workers[t].id \in S \cap Open => /\ t \in DOMAIN closedOwners'
                                              /\ closedOwners'[t] = workers[t].helper
          /\ t \in DOMAIN closedOwners /\ closedOwners[t] = workers[t].helper =>
               t \in DOMAIN closedOwners' /\ closedOwners'[t] = workers[t].helper
      BY <1>2, Zenon
    <3>2. workers[t].id \in Open /\ workers[t].id \notin S => workers'[t].id \in Open'
      BY <2>2, Zenon DEF Open
    <3> QED
      BY <2>2, <2>3, <3>1, <3>2, SMT
  <2>7. (workers[t].excuse = "none" => ~BeingClosed(workers[t].id))'
    BY <2>1, Zenon
  <2>8. (workers[t].excuse = "none" /\ workers[t].phase = "running" => workers[t].id \in Open)'
    BY <2>1, <2>2, <2>3, SMT DEF Open
  <2> QED
    BY <2>2, <2>3, <2>4, <2>5, <2>6, <2>7, <2>8, Zenon
<1>3. OwnerBooks'
  BY <1>2, Zenon DEF OwnerBooks
<1> QED
  BY <1>1, <1>3

\* The owners of the tabs that go, when the host remembers them.
LEMMA OwnersAreRemembered ==
    ASSUME HostTypeOK, LeaseBooks, OwnerBooks, NEW S \in SUBSET Open, closedOwners' = Remember(S),
           NEW t \in Trace, Tidy(t)
    PROVE  /\ workers[t].id \in S => /\ t \in DOMAIN closedOwners'
                                     /\ closedOwners'[t] = workers[t].helper
           /\ t \in DOMAIN closedOwners /\ closedOwners[t] = workers[t].helper =>
                t \in DOMAIN closedOwners' /\ closedOwners'[t] = workers[t].helper
<1>1. \A i \in S : tabs[i].trace = t => i = workers[t].id
  BY SMT DEF OwnerBooks, Owned
<1>2. workers[t].id \in S => tabs[workers[t].id].trace = t /\ Running(workers[t].id)
                             /\ tabs[workers[t].id].helper = workers[t].helper
  BY SMT DEF LeaseBooks, OwnerBooks, Tidy
<1>3. \A i \in S : tabs[i].trace = t => tabs[i].helper = workers[t].helper
  BY <1>1, <1>2, Zenon
<1>4. CASE workers[t].id \in S
  <2>1. t \in DOMAIN Remember(S)
    BY <1>2, <1>4, Remembering, SMT
  <2>2. \E j \in S : tabs[j].trace = t /\ Remember(S)[t] = tabs[j].helper
    BY <1>2, <1>4, Remembering, SMT
  <2> QED
    BY <1>3, <2>1, <2>2, Zenon
<1>5. CASE workers[t].id \notin S
  BY <1>3, <1>5, Remembering, ZenonT(20)
<1> QED
  BY <1>4, <1>5

\* The deadlines and the tabs, when tabs go and nothing else about them changes.
LEMMA ShrinkKeeps ==
    ASSUME HostTypeOK, TabBooks, OperationIsAlone, AgeBooks, NEW S,
           DOMAIN tabs' = Open \ S,
           \A i \in Open \ S : tabs'[i] = tabs[i],
           \A t \in Trace : Live(t)' => Live(t) /\ workers'[t].id = workers[t].id,
           asleep => asleep', operation' => operation, created' = created,
           \A c \in cancels' : c \in cancels \/ c.id \in Open
    PROVE  TabBooks' /\ OperationIsAlone' /\ AgeBooks'
<1>1. TabBooks'
  BY SMTT(10) DEF TabBooks, Open
<1>2. OperationIsAlone'
  BY SMT DEF OperationIsAlone, AnyRunning, Open
<1>3. AgeBooks'
  BY SMT DEF AgeBooks, Open
<1> QED
  BY <1>1, <1>2, <1>3

-----------------------------------------------------------------------------
(* Steps that change a field of a tab or a worker *)

\* The steps that change single fields: each part of the registry is kept.
LEMMA HeartbeatKeeps ==
    ASSUME HostIInv, NEW t \in Trace, Heartbeat(t)
    PROVE  HostIInv'
<1>1. HostTypeOK'
  BY HeartbeatTypes DEF HostIInv
<1>2. OperationIsAlone'
  BY SMTT(10) DEF Heartbeat, OperationIsAlone, hostOnly, AnyRunning, HostIInv
<1>3. TabBooks'
  BY SMTT(10) DEF Heartbeat, TabBooks, hostOnly, Open, HostIInv
<1>4. LeaseBooks'
  BY SMTT(10) DEF Heartbeat, LeaseBooks, Open, HostIInv
<1>5. OwnerBooks'
  BY SMTT(10) DEF Heartbeat, OwnerBooks, Running, hostOnly, Tidy, Owned, Open, BeingClosed, HostIInv
<1>6. ConversationBooks'
  <2>1. /\ DOMAIN tabs' \subseteq Open
        /\ \A j \in DOMAIN tabs' : /\ tabs'[j].trace = tabs[j].trace
                                   /\ tabs'[j].status = "ready" => tabs[j].status = "ready"
    BY SMTT(10) DEF Heartbeat, Open
  <2>2. \A s \in Trace : workers'[s].phase = workers[s].phase
    BY SMTT(10) DEF Heartbeat
  <2>3. \A s \in Trace : /\ workers'[s].phase = "new" => workers[s].phase = "new"
                         /\ workers'[s].phase \notin {"new", "past"} => Current(s)
    BY <2>2, SMT DEF Current
  <2>4. HostTypeOK /\ ConversationBooks
    BY Zenon DEF HostIInv
  <2> QED
    BY <2>1, <2>3, <2>4, ConversationsKeep
<1>7. AgeBooks'
  BY SMTT(10) DEF Heartbeat, AgeBooks, Live, Open, HostIInv
<1> QED
  BY <1>1, <1>2, <1>3, <1>4, <1>5, <1>6, <1>7 DEF HostIInv

LEMMA FinishKeeps ==
    ASSUME HostIInv, NEW t \in Trace, NEW status \in Statuses, Finish(t, status)
    PROVE  HostIInv'
<1>1. HostTypeOK'
  BY FinishTypes DEF HostIInv
<1>2. OperationIsAlone'
  BY SMTT(10) DEF Finish, OperationIsAlone, hostOnly, HostIInv
<1>3. TabBooks'
  BY SMTT(10) DEF Finish, TabBooks, hostOnly, Open, HostIInv
<1>4. LeaseBooks'
  BY SMTT(10) DEF Finish, LeaseBooks, Active, Open, HostIInv
<1>5. OwnerBooks'
  BY SMTT(10) DEF Finish, OwnerBooks, hostOnly, Tidy, Owned, Open, Running, BeingClosed, Active,
     HostIInv
<1>6. ConversationBooks'
  BY SMTT(10) DEF Finish, ConversationBooks, Owned, Current, Reusable, Found, Open, HostIInv
<1>7. AgeBooks'
  BY SMTT(10) DEF Finish, AgeBooks, Live, Open, HostIInv
<1> QED
  BY <1>1, <1>2, <1>3, <1>4, <1>5, <1>6, <1>7 DEF HostIInv

LEMMA EndIsLostKeeps ==
    ASSUME HostIInv, NEW t \in Trace, EndIsLost(t)
    PROVE  HostIInv'
<1>1. HostTypeOK'
  BY BrowserHostAssumption, SMTT(10) DEF EndIsLost, HostTypeOK, Fault, Over, hostOnly, Worker,
     Resting, Statuses, Nobody, HostIInv
<1>2. OperationIsAlone'
  BY SMTT(10) DEF EndIsLost, OperationIsAlone, hostOnly, HostIInv
<1>3. TabBooks'
  BY SMTT(10) DEF EndIsLost, TabBooks, hostOnly, Open, HostIInv
<1>4. LeaseBooks'
  BY SMTT(10) DEF EndIsLost, LeaseBooks, Over, Active, Open, Resting, HostIInv
<1>5. OwnerBooks'
  BY SMTT(10) DEF EndIsLost, OwnerBooks, Over, hostOnly, Tidy, Owned, Open, Running, BeingClosed,
     Resting, Active, HostIInv
<1>6. ConversationBooks'
  BY SMTT(10) DEF EndIsLost, ConversationBooks, Over, Owned, Current, Reusable, Found, Resting,
     Open, HostIInv
<1>7. AgeBooks'
  BY SMTT(10) DEF EndIsLost, AgeBooks, Over, Live, Open, Resting, HostIInv
<1> QED
  BY <1>1, <1>2, <1>3, <1>4, <1>5, <1>6, <1>7 DEF HostIInv

LEMMA MarkFailsKeeps ==
    ASSUME HostIInv, NEW i \in Ids, MarkFails(i)
    PROVE  HostIInv'
<1>1. HostTypeOK'
  BY MarkFailsTypes DEF HostIInv
<1>2. OperationIsAlone'
  BY SMTT(10) DEF MarkFails, OperationIsAlone, AnyRunning, HostIInv
<1>3. TabBooks'
  BY SMTT(10) DEF MarkFails, TabBooks, Open, HostIInv
<1>4. LeaseBooks'
  BY SMTT(10) DEF MarkFails, LeaseBooks, Open, Excuse, HostIInv
<1>5. OwnerBooks'
  BY SMTT(10) DEF MarkFails, OwnerBooks, Open, Excuse, Tidy, Owned, Running, BeingClosed, HostIInv
<1>6. ConversationBooks'
  <2>1. /\ DOMAIN tabs' \subseteq Open
        /\ \A j \in DOMAIN tabs' : /\ tabs'[j].trace = tabs[j].trace
                                   /\ tabs'[j].status = "ready" => tabs[j].status = "ready"
    BY SMTT(10) DEF MarkFails, Open
  <2>2. \A s \in Trace : workers'[s].phase = workers[s].phase
    BY SMTT(10) DEF MarkFails, Excuse
  <2>3. \A s \in Trace : /\ workers'[s].phase = "new" => workers[s].phase = "new"
                         /\ workers'[s].phase \notin {"new", "past"} => Current(s)
    BY <2>2, SMT DEF Current
  <2>4. HostTypeOK /\ ConversationBooks
    BY Zenon DEF HostIInv
  <2> QED
    BY <2>1, <2>3, <2>4, ConversationsKeep
<1>7. AgeBooks'
  BY SMTT(10) DEF MarkFails, AgeBooks, Open, Excuse, Live, HostIInv
<1> QED
  BY <1>1, <1>2, <1>3, <1>4, <1>5, <1>6, <1>7 DEF HostIInv

LEMMA SignInRequiredKeeps ==
    ASSUME HostIInv, NEW i \in Ids, SignInRequired(i)
    PROVE  HostIInv'
<1>1. HostTypeOK'
  BY SignInRequiredTypes DEF HostIInv
<1>2. OperationIsAlone'
  BY SMTT(10) DEF SignInRequired, OperationIsAlone, hostOnly, AnyRunning, HostIInv
<1>3. TabBooks'
  BY SMTT(10) DEF SignInRequired, TabBooks, Open, hostOnly, HostIInv
<1>4. LeaseBooks'
  BY SMTT(10) DEF SignInRequired, LeaseBooks, Open, HostIInv
<1>5. OwnerBooks'
  BY SMTT(10) DEF SignInRequired, OwnerBooks, Open, Running, hostOnly, Tidy, Owned, BeingClosed,
     HostIInv
<1>6. ConversationBooks'
  <2>1. /\ DOMAIN tabs' \subseteq Open
        /\ \A j \in DOMAIN tabs' : /\ tabs'[j].trace = tabs[j].trace
                                   /\ tabs'[j].status = "ready" => tabs[j].status = "ready"
    BY SMTT(10) DEF SignInRequired, Open
  <2>2. \A s \in Trace : workers'[s].phase = workers[s].phase
    BY SMTT(10) DEF SignInRequired
  <2>3. \A s \in Trace : /\ workers'[s].phase = "new" => workers[s].phase = "new"
                         /\ workers'[s].phase \notin {"new", "past"} => Current(s)
    BY <2>2, SMT DEF Current
  <2>4. HostTypeOK /\ ConversationBooks
    BY Zenon DEF HostIInv
  <2> QED
    BY <2>1, <2>3, <2>4, ConversationsKeep
<1>7. AgeBooks'
  BY SMTT(10) DEF SignInRequired, AgeBooks, Open, Live, HostIInv
<1> QED
  BY <1>1, <1>2, <1>3, <1>4, <1>5, <1>6, <1>7 DEF HostIInv

LEMMA SystemResumeKeeps ==
    ASSUME HostIInv, SystemResume
    PROVE  HostIInv'
<1>1. HostTypeOK'
  BY SystemResumeTypes DEF HostIInv
<1>2. OperationIsAlone'
  BY SMTT(10) DEF SystemResume, OperationIsAlone, Refreshed, hostOnly, AnyRunning, Open, HostIInv
<1>3. TabBooks'
  BY SMTT(10) DEF SystemResume, TabBooks, Refreshed, hostOnly, Open, HostIInv
<1>4. LeaseBooks'
  BY SMTT(10) DEF SystemResume, LeaseBooks, Refreshed, Open, HostIInv
<1>5. OwnerBooks'
  BY SMTT(10) DEF SystemResume, OwnerBooks, Refreshed, hostOnly, Tidy, Owned, Open, Running,
     BeingClosed, HostIInv
<1>6. ConversationBooks'
  BY SMTT(10) DEF SystemResume, ConversationBooks, Refreshed, Owned, Current, Reusable, Found,
     Open, HostIInv
<1>7. AgeBooks'
  BY SMTT(10) DEF SystemResume, AgeBooks
<1> QED
  BY <1>1, <1>2, <1>3, <1>4, <1>5, <1>6, <1>7 DEF HostIInv

LEMMA CancelReachesKeeps ==
    ASSUME HostIInv, NEW c \in cancels, CancelReaches(c)
    PROVE  HostIInv'
<1>1. HostTypeOK'
  BY CancelReachesTypes DEF HostIInv
<1>2. OperationIsAlone'
  BY SMTT(10) DEF CancelReaches, OperationIsAlone, hostOnly, HostIInv
<1>3. TabBooks'
  BY SMTT(10) DEF CancelReaches, TabBooks, hostOnly, Open, HostIInv
<1>4. LeaseBooks'
  BY SMTT(10) DEF CancelReaches, LeaseBooks, Active, Open, HostIInv
<1>5. OwnerBooks'
  BY SMTT(10) DEF CancelReaches, OwnerBooks, hostOnly, Tidy, Owned, Open, Running, BeingClosed,
     Active, HostIInv
<1>6. ConversationBooks'
  BY SMTT(10) DEF CancelReaches, ConversationBooks, Owned, Current, Reusable, Found, Open, HostIInv
<1>7. AgeBooks'
  BY SMTT(10) DEF CancelReaches, AgeBooks, Live, Open, HostIInv
<1> QED
  BY <1>1, <1>2, <1>3, <1>4, <1>5, <1>6, <1>7 DEF HostIInv

LEMMA CancelFailsKeeps ==
    ASSUME HostIInv, NEW c \in cancels, CancelFails(c)
    PROVE  HostIInv'
<1>1. HostTypeOK'
  BY BrowserHostAssumption, SMTT(10) DEF CancelFails, HostTypeOK, HostIInv
<1>2. OperationIsAlone'
  BY SMTT(10) DEF CancelFails, OperationIsAlone, HostIInv
<1>3. TabBooks'
  BY SMTT(10) DEF CancelFails, TabBooks, Open, HostIInv
<1>4. LeaseBooks'
  BY SMTT(10) DEF CancelFails, LeaseBooks, Open, HostIInv
<1>5. OwnerBooks'
  BY SMTT(10) DEF CancelFails, OwnerBooks, Tidy, Owned, Open, Running, BeingClosed, HostIInv
<1>6. ConversationBooks'
  BY SMTT(10) DEF CancelFails, ConversationBooks, Owned, Current, Reusable, Found, Open, HostIInv
<1>7. AgeBooks'
  BY SMTT(10) DEF CancelFails, AgeBooks, Live, Open, HostIInv
<1> QED
  BY <1>1, <1>2, <1>3, <1>4, <1>5, <1>6, <1>7 DEF HostIInv

LEMMA HelperSticksKeeps ==
    ASSUME HostIInv, NEW h \in Helper, HelperSticks(h)
    PROVE  HostIInv'
<1>1. HostTypeOK'
  BY BrowserHostAssumption, SMTT(10) DEF HelperSticks, HostTypeOK, Fault, hostOnly, HostIInv
<1>2. OperationIsAlone'
  BY SMTT(10) DEF HelperSticks, OperationIsAlone, hostOnly, HostIInv
<1>3. TabBooks'
  BY SMTT(10) DEF HelperSticks, TabBooks, hostOnly, Open, HostIInv
<1>4. LeaseBooks'
  BY SMTT(10) DEF HelperSticks, LeaseBooks, Open, HostIInv
<1>5. OwnerBooks'
  BY SMTT(10) DEF HelperSticks, OwnerBooks, hostOnly, Tidy, Owned, Open, Running, BeingClosed,
     HostIInv
<1>6. ConversationBooks'
  BY SMTT(10) DEF HelperSticks, ConversationBooks, Owned, Current, Reusable, Found, Open, HostIInv
<1>7. AgeBooks'
  BY SMTT(10) DEF HelperSticks, AgeBooks, Live, Open, HostIInv
<1> QED
  BY <1>1, <1>2, <1>3, <1>4, <1>5, <1>6, <1>7 DEF HostIInv

LEMMA BeginOperationKeeps ==
    ASSUME HostIInv, BeginOperation
    PROVE  HostIInv'
<1>1. HostTypeOK'
  BY EndOperationTypes DEF HostIInv
<1>2. OperationIsAlone'
  BY SMTT(10) DEF BeginOperation, OperationIsAlone
<1>3. TabBooks'
  BY SMTT(10) DEF BeginOperation, TabBooks, Open, HostIInv
<1>4. LeaseBooks'
  BY SMTT(10) DEF BeginOperation, LeaseBooks, Open, HostIInv
<1>5. OwnerBooks'
  BY SMTT(10) DEF BeginOperation, OwnerBooks, Tidy, Owned, Open, Running, BeingClosed, HostIInv
<1>6. ConversationBooks'
  BY SMTT(10) DEF BeginOperation, ConversationBooks, Owned, Current, Reusable, Found, Open, HostIInv
<1>7. AgeBooks'
  BY SMTT(10) DEF BeginOperation, AgeBooks, Live, Open, HostIInv
<1> QED
  BY <1>1, <1>2, <1>3, <1>4, <1>5, <1>6, <1>7 DEF HostIInv

LEMMA EndOperationKeeps ==
    ASSUME HostIInv, EndOperation
    PROVE  HostIInv'
<1>1. HostTypeOK'
  BY EndOperationTypes DEF HostIInv
<1>2. OperationIsAlone'
  BY SMTT(10) DEF EndOperation, OperationIsAlone
<1>3. TabBooks'
  BY SMTT(10) DEF EndOperation, TabBooks, Open, HostIInv
<1>4. LeaseBooks'
  BY SMTT(10) DEF EndOperation, LeaseBooks, Open, HostIInv
<1>5. OwnerBooks'
  BY SMTT(10) DEF EndOperation, OwnerBooks, Tidy, Owned, Open, Running, BeingClosed, HostIInv
<1>6. ConversationBooks'
  BY SMTT(10) DEF EndOperation, ConversationBooks, Owned, Current, Reusable, Found, Open, HostIInv
<1>7. AgeBooks'
  BY SMTT(10) DEF EndOperation, AgeBooks, Live, Open, HostIInv
<1> QED
  BY <1>1, <1>2, <1>3, <1>4, <1>5, <1>6, <1>7 DEF HostIInv

\* What is left of the registry when some fields of tabs change and nothing else: the
\* leases, the status and the failure of every tab stay as they are.
LEMMA LeasesStay ==
    ASSUME HostIInv, HostTypeOK',
           DOMAIN tabs' = Open,
           \A i \in Open : /\ tabs'[i].trace = tabs[i].trace /\ tabs'[i].helper = tabs[i].helper
                           /\ tabs'[i].status = tabs[i].status
                           /\ tabs'[i].failed = tabs[i].failed
                           /\ tabs'[i].initializing = tabs[i].initializing
                           /\ tabs'[i].initializing => ~tabs'[i].loaded,
           UNCHANGED <<created, cancels, closedOwners, operation, workers>>,
           AgeBooks'
    PROVE  HostIInv'
<1>1. TabBooks'
  BY SMTT(10) DEF TabBooks, Open, HostIInv
<1>2. OperationIsAlone'
  BY SMTT(10) DEF OperationIsAlone, AnyRunning, Open, HostIInv
<1>3. LeaseBooks'
  BY SMTT(10) DEF LeaseBooks, Open, HostIInv
<1>4. \A t : Owned(t)' = Owned(t)
  BY SMTT(10) DEF Owned, Open
<1>5. OwnerBooks'
  BY <1>4, SMTT(10) DEF OwnerBooks, Tidy, Open, Running, BeingClosed, HostIInv
<1>6. ConversationBooks'
  <2>1. HostTypeOK /\ ConversationBooks
    BY Zenon DEF HostIInv
  <2>2. \A s \in Trace : /\ workers'[s].phase = "new" => workers[s].phase = "new"
                         /\ workers'[s].phase \notin {"new", "past"} => Current(s)
    BY SMT DEF Current
  <2>3. DOMAIN tabs' \subseteq Open
    BY Zenon
  <2>4. \A i \in DOMAIN tabs' : /\ tabs'[i].trace = tabs[i].trace
                                /\ tabs'[i].status = "ready" => tabs[i].status = "ready"
    BY Zenon
  <2> QED
    BY <2>1, <2>2, <2>3, <2>4, ConversationsKeep
<1> QED
  BY <1>1, <1>2, <1>3, <1>5, <1>6 DEF HostIInv

\* A deadline passes, but for a turn that beats only while the machine sleeps.
LEMMA AgeKeeps ==
    ASSUME HostIInv, NEW i \in Ids, Age(i)
    PROVE  HostIInv'
<1>1. HostTypeOK'
  BY AgeTypes DEF HostIInv
<1>2. i \in Open /\ tabs' = [tabs EXCEPT ![i].aged = TRUE]
  BY Zenon DEF Age
<1>3. /\ DOMAIN tabs' = Open
      /\ \A j \in Open : /\ tabs'[j].trace = tabs[j].trace /\ tabs'[j].helper = tabs[j].helper
                         /\ tabs'[j].status = tabs[j].status
                         /\ tabs'[j].failed = tabs[j].failed
                         /\ tabs'[j].initializing = tabs[j].initializing
                         /\ tabs'[j].loaded = tabs[j].loaded
                         /\ j # i => tabs'[j].aged = tabs[j].aged
  <2>1. [tabs[i] EXCEPT !.aged = TRUE] \in Tab
    BY <1>2, TabsAreTyped, TabsAreRecords, Zenon DEF HostIInv
  <2>2. tabs' = [tabs EXCEPT ![i] = [tabs[i] EXCEPT !.aged = TRUE]]
    BY <1>2, SMT
  <2>3. /\ DOMAIN tabs' = Open /\ \A j \in Open \ {i} : tabs'[j] = tabs[j]
        /\ tabs'[i] = [tabs[i] EXCEPT !.aged = TRUE]
    BY <1>2, <2>1, <2>2, OneTabChanges, Zenon DEF HostIInv
  <2>4. tabs[i] \in Tab
    BY <1>2, TabsAreTyped, Zenon DEF HostIInv
  <2> QED
    BY <2>3, <2>4, SMT DEF Tab
<1>4. \A j \in Open : tabs[j].initializing => ~tabs[j].loaded
  BY SMT DEF HostIInv, TabBooks
<1>5. UNCHANGED <<created, cancels, closedOwners, operation, workers, helpers, asleep>>
  BY Zenon DEF Age, hostOnly
<1>6. AgeBooks'
  <2> SUFFICES ASSUME NEW t \in Trace, Live(t)', (workers[t].id \in Open)',
                      (tabs[workers[t].id].loaded /\ tabs[workers[t].id].aged)'
               PROVE  asleep'
    BY DEF AgeBooks
  <2>1. Live(t) /\ workers[t].id \in Open /\ tabs[workers[t].id].loaded
    BY <1>3, <1>5, SMT DEF Live, Open
  <2>2. CASE workers[t].id = i
    <3>1. Running(i) /\ tabs[i].trace = t
      BY <2>1, <2>2, SMT DEF HostIInv, OwnerBooks, LeaseBooks, Live, Tidy, Active
    <3>2. Beating(i)
      BY <2>1, <2>2, <3>1, SMT DEF Live, Beating
    <3> QED
      BY <2>1, <2>2, <3>1, <3>2, Zenon DEF Age
  <2>3. CASE workers[t].id # i
    BY <1>3, <1>5, <2>1, <2>3, SMT DEF HostIInv, AgeBooks
  <2> QED
    BY <2>2, <2>3
<1> QED
  BY <1>1, <1>3, <1>4, <1>5, <1>6, LeasesStay

\* A document is loaded: the deadline is that of the heartbeats, which have come.
LEMMA BootstrappedKeeps ==
    ASSUME HostIInv, NEW i \in Ids, Bootstrapped(i)
    PROVE  HostIInv'
<1>1. HostTypeOK'
  BY BootstrappedTypes DEF HostIInv
<1>2. /\ i \in Open /\ ~tabs[i].initializing
      /\ tabs' = [tabs EXCEPT ![i] = [tabs[i] EXCEPT
                    !.loaded = TRUE, !.aged = tabs[i].aged /\ (asleep \/ ~Beating(i))]]
  BY Zenon DEF Bootstrapped
<1>3. /\ DOMAIN tabs' = Open
      /\ \A j \in Open : /\ tabs'[j].trace = tabs[j].trace /\ tabs'[j].helper = tabs[j].helper
                         /\ tabs'[j].status = tabs[j].status
                         /\ tabs'[j].failed = tabs[j].failed
                         /\ tabs'[j].initializing = tabs[j].initializing
                         /\ j # i => /\ tabs'[j].loaded = tabs[j].loaded
                                     /\ tabs'[j].aged = tabs[j].aged
      /\ tabs'[i].aged => asleep \/ ~Beating(i)
  <2> DEFINE a == tabs[i].aged /\ (asleep \/ ~Beating(i))
             r == [tabs[i] EXCEPT !.loaded = TRUE, !.aged = a]
  <2>1. tabs[i] \in Tab /\ a \in BOOLEAN /\ (a => asleep \/ ~Beating(i))
    BY <1>2, TabsAreTyped, Zenon DEF HostIInv
  <2>2. tabs' = [tabs EXCEPT ![i] = r]
    BY <1>2, Zenon
  <2> HIDE DEF a
  <2>3. [[tabs[i] EXCEPT !.loaded = TRUE] EXCEPT !.aged = a] \in Tab
    BY <2>1, TabsAreRecords, Zenon
  <2>4. r \in Tab
    BY <2>3, Zenon
  <2>5. /\ r.trace = tabs[i].trace /\ r.helper = tabs[i].helper /\ r.status = tabs[i].status
        /\ r.failed = tabs[i].failed /\ r.initializing = tabs[i].initializing /\ r.aged = a
    BY <2>1, SMT DEF Tab
  <2> HIDE DEF r
  <2>6. /\ DOMAIN tabs' = Open /\ \A j \in Open \ {i} : tabs'[j] = tabs[j]
        /\ tabs'[i] = r
    BY <1>2, <2>2, <2>4, OneTabChanges, Zenon DEF HostIInv
  <2> QED
    BY <2>1, <2>5, <2>6, SMT
<1>4. \A j \in Open : tabs'[j].initializing => ~tabs'[j].loaded
  BY <1>2, <1>3, SMT DEF HostIInv, TabBooks
<1>5. UNCHANGED <<created, cancels, closedOwners, operation, workers, helpers, asleep>>
  BY Zenon DEF Bootstrapped, hostOnly
<1>6. AgeBooks'
  <2> SUFFICES ASSUME NEW t \in Trace, Live(t)', (workers[t].id \in Open)',
                      (tabs[workers[t].id].loaded /\ tabs[workers[t].id].aged)'
               PROVE  asleep'
    BY DEF AgeBooks
  <2>1. Live(t) /\ workers[t].id \in Open
    BY <1>3, <1>5, SMT DEF Live, Open
  <2>2. CASE workers[t].id = i
    <3>1. tabs[i].trace = t
      BY <2>1, <2>2, SMT DEF HostIInv, LeaseBooks, Live, Active
    <3>2. Beating(i)
      BY <2>1, <2>2, <3>1, SMT DEF Live, Beating
    <3> QED
      BY <1>3, <1>5, <2>2, <3>2, SMT
  <2>3. CASE workers[t].id # i
    BY <1>3, <1>5, <2>1, <2>3, SMT DEF HostIInv, AgeBooks
  <2> QED
    BY <2>2, <2>3
<1> QED
  BY <1>1, <1>3, <1>4, <1>5, <1>6, LeasesStay

\* Every deadline passes while nothing is awake to see it.
LEMMA SleepKeeps ==
    ASSUME HostIInv, Sleep
    PROVE  HostIInv'
<1>1. /\ HostTypeOK' /\ DOMAIN tabs' = Open
      /\ \A i \in Open : tabs'[i] = [tabs[i] EXCEPT !.aged = TRUE]
  BY SleepTypes DEF HostIInv
<1>2. \A j \in Open : /\ tabs'[j].trace = tabs[j].trace /\ tabs'[j].helper = tabs[j].helper
                      /\ tabs'[j].status = tabs[j].status
                      /\ tabs'[j].failed = tabs[j].failed
                      /\ tabs'[j].initializing = tabs[j].initializing
                      /\ tabs'[j].loaded = tabs[j].loaded
  <2>1. \A r \in Tab : LET q == [r EXCEPT !.aged = TRUE]
                       IN  /\ q.trace = r.trace /\ q.helper = r.helper /\ q.status = r.status
                           /\ q.failed = r.failed /\ q.loaded = r.loaded
                           /\ q.initializing = r.initializing
    BY SMT DEF Tab
  <2> QED
    BY <1>1, <2>1, TabsAreTyped, Zenon DEF HostIInv
<1>3. \A j \in Open : tabs[j].initializing => ~tabs[j].loaded
  BY SMT DEF HostIInv, TabBooks
<1>4. UNCHANGED <<created, cancels, closedOwners, operation, workers, helpers>> /\ asleep'
  BY Zenon DEF Sleep, hostOnly
<1>5. AgeBooks'
  BY <1>4 DEF AgeBooks
<1> QED
  BY <1>1, <1>2, <1>3, <1>4, <1>5, LeasesStay

-----------------------------------------------------------------------------
(* Steps that take tabs away *)

\* The registry when the tabs of S go, every owner that loses one is remembered, and no
\* turn that runs loses one without an excuse.
LEMMA TabsGo ==
    ASSUME HostIInv, HostTypeOK', NEW S,
           DOMAIN tabs' = Open \ S,
           \A i \in Open \ S : tabs'[i] = tabs[i],
           \A t \in Trace : workers'[t].phase \in Active =>
                /\ workers'[t].phase = workers[t].phase /\ workers'[t].id = workers[t].id
                /\ workers'[t].helper = workers[t].helper
                /\ workers'[t].excuse # "unmarked" => workers[t].excuse # "unmarked"
                /\ workers'[t].excuse = "none" =>
                     /\ workers[t].excuse = "none" /\ ~BeingClosed(workers[t].id)'
                     /\ workers[t].phase = "running" => workers[t].id \notin S,
           \A t \in Trace : /\ workers'[t].phase = "new" => workers[t].phase = "new"
                            /\ workers'[t].phase \notin {"new", "past"} => Current(t),
           \A t \in Trace : Tidy(t)' =>
                /\ workers[t].id \in S \cap Open => /\ t \in DOMAIN closedOwners'
                                                    /\ closedOwners'[t] = workers[t].helper
                /\ t \in DOMAIN closedOwners /\ closedOwners[t] = workers[t].helper =>
                     t \in DOMAIN closedOwners' /\ closedOwners'[t] = workers[t].helper,
           asleep => asleep', UNCHANGED <<created, operation, helpers>>,
           \A c \in cancels' : c \in cancels \/ c.id \in Open
    PROVE  HostIInv'
<1>1. LeaseBooks' /\ OwnerBooks'
  BY LeasesKeep DEF HostIInv
<1>2. \A i \in DOMAIN tabs' : tabs'[i].trace = tabs[i].trace /\ tabs'[i].status = tabs[i].status
  BY Zenon
<1>3. ConversationBooks'
  <2>1. HostTypeOK /\ ConversationBooks /\ DOMAIN tabs' \subseteq Open
    BY Zenon DEF HostIInv
  <2>2. \A i \in DOMAIN tabs' : /\ tabs'[i].trace = tabs[i].trace
                                /\ tabs'[i].status = "ready" => tabs[i].status = "ready"
    BY <1>2, Zenon
  <2> QED
    BY <2>1, <2>2, ConversationsKeep
<1>4. \A t \in Trace : Live(t)' => Live(t) /\ workers'[t].id = workers[t].id
  BY SMT DEF Live, Active
<1>5. TabBooks' /\ OperationIsAlone' /\ AgeBooks'
  <2>1. HostTypeOK /\ TabBooks /\ OperationIsAlone /\ AgeBooks
    BY Zenon DEF HostIInv
  <2>2. (asleep => asleep') /\ (operation' => operation) /\ created' = created
    OBVIOUS
  <2> QED
    BY <1>4, <2>1, <2>2, ShrinkKeeps
<1> QED
  BY <1>1, <1>3, <1>5 DEF HostIInv

\* An acquisition that fails gives up the tab it was to have.
LEMMA InitializationFailsKeeps ==
    ASSUME HostIInv, NEW t \in Trace, InitializationFails(t)
    PROVE  HostIInv'
<1> DEFINE S == {workers[t].id} \cap Open
<1>1. HostTypeOK /\ S \in SUBSET Open /\ Discard(S, TRUE) /\ Over(t)
  BY Zenon DEF HostIInv, InitializationFails
<1>2. workers[t].phase \in Active /\ (workers[t].id \in Open => tabs[workers[t].id].trace = t)
  BY Zenon DEF HostIInv, LeaseBooks, InitializationFails, Active
<1>3. \A s \in Trace : workers[s].phase \in Active /\ workers[s].id \in S => s = t
  BY <1>2, SMT DEF HostIInv, LeaseBooks
<1> HIDE DEF S
<1>4. /\ DOMAIN tabs' = Open \ S /\ \A i \in Open \ S : tabs'[i] = tabs[i]
      /\ DOMAIN tabs' \subseteq Ids /\ \A i \in DOMAIN tabs' : tabs'[i] \in Tab
  BY <1>1, Discarding, Zenon
<1>5. /\ workers' \in [Trace -> Worker] /\ workers'[t].phase = "idle"
      /\ \A s \in Trace \ {t} : workers'[s] = workers[s]
  BY <1>1, LettingGo
<1>6. HostTypeOK'
  <2>1. blocking' \in BOOLEAN
    BY <1>1, Discarding, Zenon
  <2>2. DOMAIN closedOwners' \subseteq Trace /\ \A s \in DOMAIN closedOwners' : closedOwners'[s] \in Helper
    BY <1>1, DiscardTypes, Zenon
  <2>3. faults' \in 0..MaxFaults
    BY BrowserHostAssumption, <1>1, SMT DEF InitializationFails, Fault, HostTypeOK
  <2> QED
    BY <1>1, <1>4, <1>5, <2>1, <2>2, <2>3, Zenon DEF InitializationFails, HostTypeOK
<1>7. closedOwners' = Remember(S)
  BY <1>1, Zenon DEF Discard
<1>8. \A s \in Trace : Tidy(s)' => s # t /\ Tidy(s)
  BY <1>5, SMT DEF Tidy, Active
<1>9. UNCHANGED <<created, cancels, operation, helpers, asleep>>
  BY Zenon DEF InitializationFails
<1>10. \A s \in Trace : workers'[s].phase \in Active =>
                /\ workers'[s].phase = workers[s].phase /\ workers'[s].id = workers[s].id
                /\ workers'[s].helper = workers[s].helper
                /\ workers'[s].excuse # "unmarked" => workers[s].excuse # "unmarked"
                /\ workers'[s].excuse = "none" =>
                     /\ workers[s].excuse = "none" /\ ~BeingClosed(workers[s].id)'
                     /\ workers[s].phase = "running" => workers[s].id \notin S
  <2> SUFFICES ASSUME NEW s \in Trace, workers'[s].phase \in Active
               PROVE  /\ workers'[s] = workers[s] /\ workers[s].id \notin S
                      /\ workers[s].excuse = "none" => ~BeingClosed(workers[s].id)'
    BY Zenon
  <2>1. s # t
    BY <1>5, SMT DEF Active
  <2>2. workers'[s] = workers[s] /\ workers[s].id \notin S
    BY <1>3, <1>5, <2>1, Zenon
  <2>3. workers[s].excuse = "none" => ~BeingClosed(workers[s].id)
    BY <2>2, SMT DEF HostIInv, OwnerBooks, Tidy
  <2> QED
    BY <1>9, <2>2, <2>3, Zenon DEF BeingClosed
<1>11. \A s \in Trace : /\ workers'[s].phase = "new" => workers[s].phase = "new"
                        /\ workers'[s].phase \notin {"new", "past"} => Current(s)
  BY <1>2, <1>5, SMT DEF Current, Active
<1>12. \A s \in Trace : Tidy(s)' =>
                /\ workers[s].id \in S \cap Open => /\ s \in DOMAIN closedOwners'
                                                    /\ closedOwners'[s] = workers[s].helper
                /\ s \in DOMAIN closedOwners /\ closedOwners[s] = workers[s].helper =>
                     s \in DOMAIN closedOwners' /\ closedOwners'[s] = workers[s].helper
  BY <1>1, <1>7, <1>8, OwnersAreRemembered, ZenonT(20) DEF HostIInv
<1>13. \A c \in cancels' : c \in cancels \/ c.id \in Open
  BY <1>9
<1> QED
  BY <1>4, <1>6, <1>9, <1>10, <1>11, <1>12, <1>13, TabsGo

\* The same when every worker stays where it is: the host remembers the owners, or none of
\* the tabs is running.
LEMMA TabsGoFromWorkers ==
    ASSUME HostIInv, HostTypeOK', NEW S \in SUBSET Open,
           DOMAIN tabs' = Open \ S,
           \A i \in Open \ S : tabs'[i] = tabs[i],
           \/ closedOwners' = Remember(S)
           \/ closedOwners' = closedOwners /\ \A i \in S : ~Running(i),
           \A t \in Trace :
                /\ workers'[t].phase = workers[t].phase /\ workers'[t].id = workers[t].id
                /\ workers'[t].helper = workers[t].helper
                /\ workers'[t].excuse # "unmarked" => workers[t].excuse # "unmarked"
                /\ workers'[t].excuse = "none" => workers[t].excuse = "none",
           \A t \in Trace : workers[t].phase \in Active /\ workers'[t].excuse = "none" =>
                /\ ~BeingClosed(workers[t].id)'
                /\ workers[t].phase = "running" => workers[t].id \notin S,
           asleep => asleep', UNCHANGED <<created, operation, helpers>>,
           \A c \in cancels' : c \in cancels \/ c.id \in Open
    PROVE  HostIInv'
<1>1. \A t \in Trace : /\ workers'[t].phase = "new" => workers[t].phase = "new"
                       /\ workers'[t].phase \notin {"new", "past"} => Current(t)
  BY Zenon DEF Current
<1>2. \A t \in Trace : Tidy(t)' => Tidy(t)
  BY Zenon DEF Tidy
<1>3. HostTypeOK /\ LeaseBooks /\ OwnerBooks
  BY DEF HostIInv
<1>4. ASSUME NEW t \in Trace, Tidy(t)'
      PROVE  /\ workers[t].id \in S \cap Open => /\ t \in DOMAIN closedOwners'
                                                 /\ closedOwners'[t] = workers[t].helper
             /\ t \in DOMAIN closedOwners /\ closedOwners[t] = workers[t].helper =>
                  t \in DOMAIN closedOwners' /\ closedOwners'[t] = workers[t].helper
  <2>1. Tidy(t)
    BY <1>2, <1>4
  <2>2. CASE closedOwners' = Remember(S)
    BY <1>3, <2>1, <2>2, OwnersAreRemembered, Zenon
  <2>3. CASE closedOwners' = closedOwners /\ \A i \in S : ~Running(i)
    BY <1>3, <2>1, <2>3, Zenon DEF OwnerBooks
  <2> QED
    BY <2>2, <2>3
<1>5. \A t \in Trace : workers'[t].phase \in Active =>
                /\ workers'[t].phase = workers[t].phase /\ workers'[t].id = workers[t].id
                /\ workers'[t].helper = workers[t].helper
                /\ workers'[t].excuse # "unmarked" => workers[t].excuse # "unmarked"
                /\ workers'[t].excuse = "none" =>
                     /\ workers[t].excuse = "none" /\ ~BeingClosed(workers[t].id)'
                     /\ workers[t].phase = "running" => workers[t].id \notin S
  BY Zenon
<1> QED
  BY <1>1, <1>4, <1>5, TabsGo

\* A worker without an excuse holds a tab that is not being closed.
LEMMA NoneIsClosed ==
    ASSUME HostIInv, NEW t \in Trace, workers[t].phase \in Active, workers[t].excuse = "none"
    PROVE  ~BeingClosed(workers[t].id)
BY Zenon DEF HostIInv, OwnerBooks, Tidy

\* A page is lost: the owner is remembered, and excused.
LEMMA PageLostKeeps ==
    ASSUME HostIInv, NEW i \in Ids, PageLost(i)
    PROVE  HostIInv'
<1>1. HostTypeOK /\ {i} \in SUBSET Open /\ Discard({i}, TRUE) /\ Excuse(i, "lost")
  BY Zenon DEF HostIInv, PageLost
<1>2. /\ DOMAIN tabs' = Open \ {i} /\ \A j \in Open \ {i} : tabs'[j] = tabs[j]
      /\ DOMAIN tabs' \subseteq Ids /\ \A j \in DOMAIN tabs' : tabs'[j] \in Tab
      /\ blocking' \in BOOLEAN
  BY <1>1, Discarding, Zenon
<1>3. /\ workers' \in [Trace -> Worker]
      /\ \A t \in Trace : /\ workers'[t].phase = workers[t].phase
                          /\ workers'[t].id = workers[t].id
                          /\ workers'[t].helper = workers[t].helper
                          /\ workers'[t].excuse =
                               IF workers[t].id = i /\ workers[t].excuse # "unmarked"
                               THEN "lost" ELSE workers[t].excuse
  BY <1>1, Excusing
<1>4. HostTypeOK'
  <2>1. DOMAIN closedOwners' \subseteq Trace /\ \A s \in DOMAIN closedOwners' : closedOwners'[s] \in Helper
    BY <1>1, DiscardTypes, Zenon
  <2>2. faults' \in 0..MaxFaults
    BY BrowserHostAssumption, <1>1, SMT DEF PageLost, Fault, HostTypeOK
  <2> QED
    BY <1>1, <1>2, <1>3, <2>1, <2>2, Zenon DEF PageLost, HostTypeOK
<1>5. closedOwners' = Remember({i})
  BY <1>1, Zenon DEF Discard
<1>6. UNCHANGED <<created, cancels, operation, helpers, asleep>>
  BY Zenon DEF PageLost
<1>7. \A t \in Trace : /\ workers'[t].excuse # "unmarked" => workers[t].excuse # "unmarked"
                       /\ workers'[t].excuse = "none" => /\ workers[t].excuse = "none"
                                                         /\ workers[t].id # i
  BY <1>3, SMT
<1>8. ASSUME NEW t \in Trace, workers[t].phase \in Active, workers'[t].excuse = "none"
      PROVE  /\ ~BeingClosed(workers[t].id)'
             /\ workers[t].phase = "running" => workers[t].id \notin {i}
  <2>1. ~BeingClosed(workers[t].id)
    BY <1>7, <1>8, NoneIsClosed
  <2> QED
    BY <1>3, <1>6, <1>7, <1>8, <2>1, Zenon DEF BeingClosed
<1>9. \A t \in Trace :
                /\ workers'[t].phase = workers[t].phase /\ workers'[t].id = workers[t].id
                /\ workers'[t].helper = workers[t].helper
                /\ workers'[t].excuse # "unmarked" => workers[t].excuse # "unmarked"
                /\ workers'[t].excuse = "none" => workers[t].excuse = "none"
  BY <1>3, <1>7, Zenon
<1>10. \A c \in cancels' : c \in cancels \/ c.id \in Open
  BY <1>6
<1> QED
  BY <1>1, <1>2, <1>4, <1>5, <1>6, <1>8, <1>9, <1>10, TabsGoFromWorkers

\* A step that leaves the workers alone and takes tabs of no running turn.
LEMMA IdleTabsGo ==
    ASSUME HostIInv, HostTypeOK', NEW S \in SUBSET Open, Discard(S, FALSE),
           \A i \in S : ~Running(i),
           UNCHANGED <<created, operation, helpers, workers>>, asleep => asleep',
           \A c \in cancels' : c \in cancels \/ (c.why = "expire" /\ c.id \in Open)
    PROVE  HostIInv'
<1>1. /\ DOMAIN tabs' = Open \ S /\ \A i \in Open \ S : tabs'[i] = tabs[i]
      /\ closedOwners' = closedOwners
  BY Discarding, Zenon DEF HostIInv
<1>2. ASSUME NEW t \in Trace, workers[t].phase \in Active, workers'[t].excuse = "none"
      PROVE  /\ ~BeingClosed(workers[t].id)'
             /\ workers[t].phase = "running" => workers[t].id \notin S
  <2>1. ~BeingClosed(workers[t].id) /\ Tidy(t)
    BY <1>2, NoneIsClosed DEF Tidy
  <2>2. workers[t].id \in Open => Running(workers[t].id)
    BY <2>1, Zenon DEF HostIInv, OwnerBooks
  <2>3. ~BeingClosed(workers[t].id)'
    BY <2>1, SMT DEF BeingClosed
  <2> QED
    BY <2>2, <2>3, Zenon
<1>3. \A t \in Trace :
                /\ workers'[t].phase = workers[t].phase /\ workers'[t].id = workers[t].id
                /\ workers'[t].helper = workers[t].helper
                /\ workers'[t].excuse # "unmarked" => workers[t].excuse # "unmarked"
                /\ workers'[t].excuse = "none" => workers[t].excuse = "none"
  BY Zenon
<1>4. \A c \in cancels' : c \in cancels \/ c.id \in Open
  BY Zenon
<1> QED
  BY <1>1, <1>2, <1>3, <1>4, TabsGoFromWorkers

\* Superseded, cleared, expired and cancelled tabs go.
LEMMA ReleaseRetainedKeeps ==
    ASSUME HostIInv, NEW c \in Conversation, ReleaseRetained(c)
    PROVE  HostIInv'
<1>1. HostTypeOK /\ Reusable(c) \in SUBSET Open /\ Discard(Reusable(c), FALSE)
  BY Zenon DEF HostIInv, ReleaseRetained, Reusable
<1>2. /\ DOMAIN tabs' \subseteq Ids /\ \A j \in DOMAIN tabs' : tabs'[j] \in Tab
      /\ blocking' \in BOOLEAN /\ closedOwners' = closedOwners
  BY <1>1, Discarding, Zenon
<1>3. HostTypeOK'
  BY <1>1, <1>2, Zenon DEF ReleaseRetained, HostTypeOK
<1>4. \A i \in Reusable(c) : ~Running(i)
  BY SMT DEF Reusable, Running
<1>5. /\ UNCHANGED <<created, operation, helpers, workers>> /\ (asleep => asleep')
      /\ \A d \in cancels' : d \in cancels
  BY Zenon DEF ReleaseRetained
<1> QED
  BY <1>1, <1>3, <1>4, <1>5, IdleTabsGo

LEMMA ClearTabsKeeps ==
    ASSUME HostIInv, ClearTabs
    PROVE  HostIInv'
<1>1. HostTypeOK /\ Open \in SUBSET Open /\ Discard(Open, FALSE)
  BY Zenon DEF HostIInv, ClearTabs
<1>2. /\ DOMAIN tabs' \subseteq Ids /\ \A j \in DOMAIN tabs' : tabs'[j] \in Tab
      /\ blocking' \in BOOLEAN /\ closedOwners' = closedOwners
  BY <1>1, Discarding, Zenon
<1>3. HostTypeOK'
  BY <1>1, <1>2, Zenon DEF ClearTabs, HostTypeOK
<1>4. \A i \in Open : ~Running(i)
  BY Zenon DEF HostIInv, OperationIsAlone, AnyRunning, ClearTabs, Running, Open
<1>5. /\ UNCHANGED <<created, operation, helpers, workers>> /\ (asleep => asleep')
      /\ \A d \in cancels' : d \in cancels
  BY Zenon DEF ClearTabs
<1> QED
  BY <1>1, <1>3, <1>4, <1>5, IdleTabsGo

LEMMA SweepKeeps ==
    ASSUME HostIInv, Sweep
    PROVE  HostIInv'
<1> DEFINE S == {i \in Open : tabs[i].aged /\ (tabs[i].failed \/ tabs[i].status = "ready")}
<1>1. HostTypeOK /\ HostTypeOK' /\ S \in SUBSET Open
  BY SweepTypes DEF HostIInv
<1>2. UNCHANGED <<created, operation, helpers, workers>>
  BY Zenon DEF Sweep, hostOnly
<1>3. CASE asleep
  <2>1. tabs' = Refreshed /\ UNCHANGED <<created, cancels, closedOwners, operation, workers, helpers>>
    BY <1>2, <1>3, Zenon DEF Sweep, hostOnly
  <2>2. /\ DOMAIN tabs' = Open
        /\ \A i \in Open : /\ tabs'[i].trace = tabs[i].trace /\ tabs'[i].helper = tabs[i].helper
                           /\ tabs'[i].status = tabs[i].status
                           /\ tabs'[i].failed = tabs[i].failed
                           /\ tabs'[i].loaded = tabs[i].loaded
                           /\ tabs'[i].initializing = tabs[i].initializing
                           /\ Running(i) => ~tabs'[i].aged
    BY <1>1, <2>1, SomeAreRefreshed
  <2>3. \A i \in Open : tabs'[i].initializing => ~tabs'[i].loaded
    BY <2>2, SMT DEF HostIInv, TabBooks
  <2>4. AgeBooks'
    <3> SUFFICES ASSUME NEW t \in Trace, Live(t)', (workers[t].id \in Open)'
                 PROVE  ~(tabs[workers[t].id].aged)'
      BY Zenon DEF AgeBooks
    <3>1. Live(t) /\ workers[t].id \in Open
      BY <2>1, <2>2, SMT DEF Live, Open
    <3>2. Running(workers[t].id)
      BY <3>1, SMT DEF HostIInv, OwnerBooks, Live, Tidy, Active
    <3> QED
      BY <2>1, <2>2, <3>1, <3>2, Zenon
  <2> QED
    BY <1>1, <2>1, <2>2, <2>3, <2>4, LeasesStay
<1>4. CASE ~asleep
  <2>1. Discard(S, FALSE)
    BY <1>4, Zenon DEF Sweep
  <2>2. \A i \in S : ~Running(i)
    BY SMT DEF HostIInv, TabBooks, Running
  <2> HIDE DEF S
  <2>3. \A c \in cancels' : c \in cancels \/ (c.why = "expire" /\ c.id \in Open)
    <3>1. \A c \in cancels' : c \in cancels \/ \E i \in Open :
             Expiring(i) /\ c = [why |-> "expire", id |-> i, trace |-> tabs[i].trace,
                                helper |-> tabs[i].helper]
      BY <1>4, SMT DEF Sweep
    <3> SUFFICES ASSUME NEW c \in cancels', c \notin cancels
                 PROVE  c.why = "expire" /\ c.id \in Open
      BY Zenon
    <3>2. PICK i \in Open : c = [why |-> "expire", id |-> i, trace |-> tabs[i].trace,
                                helper |-> tabs[i].helper]
      BY <3>1, Zenon
    <3> QED
      BY <3>2, SMT
  <2>4. asleep => asleep'
    BY <1>4
  <2> QED
    BY <1>1, <1>2, <2>1, <2>2, <2>3, <2>4, IdleTabsGo
<1> QED
  BY <1>3, <1>4

LEMMA CancelledKeeps ==
    ASSUME HostIInv, NEW c \in cancels, Cancelled(c)
    PROVE  HostIInv'
<1> DEFINE S == IF IF c.why = "expire" THEN StillOwned(c) ELSE StillOpen(c) THEN {c.id} ELSE {}
<1>1. HostTypeOK /\ S \in SUBSET Open
  BY Zenon DEF HostIInv, StillOwned, StillOpen
<1>2. /\ cancels' \subseteq cancels
      /\ UNCHANGED <<created, cancelledOwners, operation, workers, helpers, asleep, faults>>
  BY Zenon DEF Cancelled
<1>3. /\ DOMAIN tabs' = Open \ S /\ \A i \in Open \ S : tabs'[i] = tabs[i]
      /\ DOMAIN tabs' \subseteq Ids /\ \A i \in DOMAIN tabs' : tabs'[i] \in Tab
      /\ blocking' \in BOOLEAN
      /\ DOMAIN closedOwners' \subseteq Trace /\ \A s \in DOMAIN closedOwners' : closedOwners'[s] \in Helper
      /\ \/ closedOwners' = Remember(S)
         \/ closedOwners' = closedOwners /\ \A i \in S : ~Running(i)
  <2>1. CASE S = {c.id}
    <3>1. Discard(S, TRUE)
      BY <2>1, Zenon DEF Cancelled
    <3> HIDE DEF S
    <3>2. closedOwners' = Remember(S)
      BY <3>1, Zenon DEF Discard
    <3>3. DOMAIN closedOwners' \subseteq Trace /\ \A s \in DOMAIN closedOwners' : closedOwners'[s] \in Helper
      BY <1>1, <3>1, DiscardTypes, Zenon
    <3> QED
      BY <1>1, <3>1, <3>2, <3>3, Discarding, Zenon
  <2>2. CASE S = {}
    <3>1. UNCHANGED <<tabs, blocking, closedOwners>>
      BY <2>2, Zenon DEF Cancelled
    <3> HIDE DEF S
    <3> QED
      BY <1>1, <2>2, <3>1, SMT DEF HostTypeOK, Open
  <2> QED
    BY <2>1, <2>2, Zenon
<1>4. HostTypeOK'
  <2> HIDE DEF S
  <2> QED
    BY <1>1, <1>2, <1>3, Zenon DEF HostTypeOK
<1>5. ASSUME NEW t \in Trace, workers[t].phase \in Active, workers'[t].excuse = "none"
      PROVE  /\ ~BeingClosed(workers[t].id)'
             /\ workers[t].phase = "running" => workers[t].id \notin S
  <2>1. ~BeingClosed(workers[t].id) /\ Tidy(t)
    BY <1>2, <1>5, NoneIsClosed, Zenon DEF Tidy
  <2>2. ~BeingClosed(workers[t].id)'
    BY <1>2, <2>1, Zenon DEF BeingClosed
  <2>3. ASSUME workers[t].phase = "running", workers[t].id \in S
        PROVE  FALSE
    <3>1. c.id = workers[t].id /\ c.why \in {"close", "expire"}
      BY <1>1, <2>3, SMT DEF HostTypeOK, Cancel
    <3>2. CASE c.why = "close"
      BY <2>1, <3>1, <3>2, Zenon DEF BeingClosed
    <3>3. CASE c.why = "expire"
      <4>1. c.id \in Open /\ tabs[c.id].trace = c.trace
        BY <2>3, <3>3, Zenon DEF StillOwned
      <4>2. c.trace = t
        BY <1>5, <3>1, <4>1, Zenon DEF HostIInv, LeaseBooks
      <4> QED
        BY <2>3, <4>2, Zenon DEF Cancelled
    <3> QED
      BY <3>1, <3>2, <3>3, Zenon
  <2> QED
    BY <2>2, <2>3
<1>6. \A t \in Trace :
                /\ workers'[t].phase = workers[t].phase /\ workers'[t].id = workers[t].id
                /\ workers'[t].helper = workers[t].helper
                /\ workers'[t].excuse # "unmarked" => workers[t].excuse # "unmarked"
                /\ workers'[t].excuse = "none" => workers[t].excuse = "none"
  BY <1>2, Zenon
<1>7. \A d \in cancels' : d \in cancels \/ d.id \in Open
  BY <1>2, Zenon
<1> HIDE DEF S
<1> QED
  BY <1>1, <1>2, <1>3, <1>4, <1>5, <1>6, <1>7, TabsGoFromWorkers

\* The memory of cancelled turns holds each of them once, and never more than it may.
LEMMA CancelledAreTyped ==
    ASSUME HostTypeOK, NEW t \in Trace, RememberCancelled(t)
    PROVE  cancelledOwners' \in Seq(Trace) /\ Len(cancelledOwners') <= MaxCancelled
<1> DEFINE at == CHOOSE n \in DOMAIN cancelledOwners : cancelledOwners[n] = t
           others == IF UserCancelled(t) THEN RemoveAt(cancelledOwners, at) ELSE cancelledOwners
           kept == Append(others, t)
<1>1. /\ cancelledOwners \in Seq(Trace) /\ Len(cancelledOwners) <= MaxCancelled
      /\ MaxCancelled \in Nat \ {0}
  BY BrowserHostAssumption, Zenon DEF HostTypeOK
<1>2. cancelledOwners' = IF Len(kept) > MaxCancelled THEN Tail(kept) ELSE kept
  BY Zenon DEF RememberCancelled
<1>3. UserCancelled(t) => at \in 1..Len(cancelledOwners)
  <2>1. SUFFICES ASSUME UserCancelled(t)
                 PROVE  \E n \in DOMAIN cancelledOwners : cancelledOwners[n] = t
    BY <1>1, SMT
  <2> QED
    BY <1>1, <2>1, SMT DEF UserCancelled, Contains
<1>4. others \in Seq(Trace) /\ Len(others) <= Len(cancelledOwners)
  <2>1. CASE UserCancelled(t)
    <3>1. PICK n \in 1..Len(cancelledOwners) : n = at
      BY <1>3, <2>1
    <3>2. \A j \in 1..Len(cancelledOwners) : cancelledOwners[j] \in Trace
      BY <1>1, ElementOfSeq
    <3>3. /\ n \in Nat \ {0} /\ Len(cancelledOwners) \in Nat /\ n <= Len(cancelledOwners)
      BY <1>1, SMT
    <3>4. SubSeq(cancelledOwners, 1, n - 1) \in Seq(Trace)
          /\ Len(SubSeq(cancelledOwners, 1, n - 1)) = n - 1
      <4>1. \A j \in 1..(n - 1) : cancelledOwners[j] \in Trace
        BY <3>2, <3>3, SMT
      <4>2. n - 1 \in Int /\ 1 \in Int
        BY <3>3, SMT
      <4>3. /\ SubSeq(cancelledOwners, 1, n - 1) \in Seq(Trace)
            /\ Len(SubSeq(cancelledOwners, 1, n - 1)) = IF 1 <= n - 1 THEN n - 1 - 1 + 1 ELSE 0
        BY <4>1, <4>2, SubSeqProperties
      <4> QED
        BY <3>3, <4>3, SMT
    <3>5. SubSeq(cancelledOwners, n + 1, Len(cancelledOwners)) \in Seq(Trace)
          /\ Len(SubSeq(cancelledOwners, n + 1, Len(cancelledOwners)))
               = Len(cancelledOwners) - n
      <4>1. \A j \in (n + 1)..Len(cancelledOwners) : cancelledOwners[j] \in Trace
        BY <3>2, <3>3, SMT
      <4>2. n + 1 \in Int /\ Len(cancelledOwners) \in Int
        BY <3>3, SMT
      <4>3. /\ SubSeq(cancelledOwners, n + 1, Len(cancelledOwners)) \in Seq(Trace)
            /\ Len(SubSeq(cancelledOwners, n + 1, Len(cancelledOwners)))
                 = IF n + 1 <= Len(cancelledOwners) THEN Len(cancelledOwners) - (n + 1) + 1 ELSE 0
        BY <4>1, <4>2, SubSeqProperties
      <4> QED
        BY <3>3, <4>3, SMT
    <3>6. others = SubSeq(cancelledOwners, 1, n - 1)
                     \o SubSeq(cancelledOwners, n + 1, Len(cancelledOwners))
      BY <2>1, <3>1, Zenon DEF RemoveAt
    <3>7. others \in Seq(Trace)
          /\ Len(others) = Len(SubSeq(cancelledOwners, 1, n - 1))
                            + Len(SubSeq(cancelledOwners, n + 1, Len(cancelledOwners)))
      BY <3>4, <3>5, <3>6, ConcatProperties
    <3> HIDE DEF at, others
    <3>8. Len(others) = (n - 1) + (Len(cancelledOwners) - n)
      BY <3>4, <3>5, <3>7, Zenon
    <3>9. Len(others) = Len(cancelledOwners) - 1
      BY <3>3, <3>8, SMT
    <3>10. Len(others) <= Len(cancelledOwners)
      BY <3>3, <3>9, SMT
    <3> QED
      BY <3>7, <3>10, Zenon
  <2>2. CASE ~UserCancelled(t)
    BY <1>1, <2>2, SMT
  <2> QED
    BY <2>1, <2>2
<1> HIDE DEF at, others
<1>5. kept \in Seq(Trace) /\ Len(kept) = Len(others) + 1
  BY <1>4, SMT
<1>6. Tail(kept) \in Seq(Trace) /\ Len(Tail(kept)) = Len(others)
  BY <1>4, <1>5, SMT
<1> HIDE DEF kept
<1> QED
  BY <1>1, <1>2, <1>4, <1>5, <1>6, SMT

\* The user closes a tab, at once or after its turn has been cancelled.
LEMMA CloseTabTypes ==
    ASSUME HostTypeOK, NEW i \in Ids, CloseTab(i)
    PROVE  HostTypeOK'
<1>1. /\ i \in Open /\ Excuse(i, "lost") /\ Fault
      /\ UNCHANGED <<created, operation, helpers, asleep>>
  BY Zenon DEF CloseTab
<1>2. workers' \in [Trace -> Worker]
  BY <1>1, Excusing, Zenon
<1>3. faults' \in 0..MaxFaults
  BY <1>1, BrowserHostAssumption, SMT DEF Fault, HostTypeOK
<1>4. tabs[i] \in Tab
  BY <1>1, TabsAreTyped
<1>5. CASE Running(i)
  <2>1. RememberCancelled(tabs[i].trace) /\ UNCHANGED <<tabs, blocking, closedOwners>>
        /\ cancels' = cancels \cup {[why |-> "close", id |-> i, trace |-> tabs[i].trace,
                                     helper |-> tabs[i].helper]}
    BY <1>5, Zenon DEF CloseTab
  <2>2. tabs[i].trace \in Trace /\ tabs[i].helper \in Helper
    BY <1>4, SMT DEF Tab
  <2>3. cancelledOwners' \in Seq(Trace) /\ Len(cancelledOwners') <= MaxCancelled
    BY <2>1, <2>2, CancelledAreTyped
  <2>4. [why |-> "close", id |-> i, trace |-> tabs[i].trace, helper |-> tabs[i].helper] \in Cancel
    BY <2>2, SMT DEF Cancel
  <2>5. cancels' \subseteq Cancel
    BY <2>1, <2>4, Zenon DEF HostTypeOK
  <2> QED
    BY <1>1, <1>2, <1>3, <2>1, <2>3, <2>5, Zenon DEF HostTypeOK
<1>6. CASE ~Running(i)
  <2>1. Discard({i}, TRUE) /\ UNCHANGED <<cancels, cancelledOwners>> /\ {i} \in SUBSET Open
    BY <1>1, <1>6, Zenon DEF CloseTab
  <2>2. /\ DOMAIN tabs' \subseteq Ids /\ \A j \in DOMAIN tabs' : tabs'[j] \in Tab
        /\ blocking' \in BOOLEAN
    BY <2>1, Discarding, Zenon
  <2>3. DOMAIN closedOwners' \subseteq Trace
        /\ \A s \in DOMAIN closedOwners' : closedOwners'[s] \in Helper
    BY <2>1, DiscardTypes, Zenon
  <2> QED
    BY <1>1, <1>2, <1>3, <2>1, <2>2, <2>3, Zenon DEF HostTypeOK
<1> QED
  BY <1>5, <1>6

LEMMA CloseTabKeeps ==
    ASSUME HostIInv, NEW i \in Ids, CloseTab(i)
    PROVE  HostIInv'
<1> DEFINE S == IF Running(i) THEN {} ELSE {i}
<1>1. HostTypeOK /\ HostTypeOK' /\ i \in Open /\ S \in SUBSET Open
  BY CloseTabTypes, Zenon DEF HostIInv, CloseTab
<1>2. Excuse(i, "lost") /\ UNCHANGED <<created, operation, helpers, asleep>>
  BY Zenon DEF CloseTab
<1>3. \A t \in Trace : /\ workers'[t].phase = workers[t].phase
                       /\ workers'[t].id = workers[t].id
                       /\ workers'[t].helper = workers[t].helper
                       /\ workers'[t].excuse =
                            IF workers[t].id = i /\ workers[t].excuse # "unmarked"
                            THEN "lost" ELSE workers[t].excuse
  BY <1>1, <1>2, Excusing
<1>4. \A c \in cancels' : c \in cancels \/ c.id = i
  <2>1. CASE Running(i)
    <3>1. \A c \in cancels' : c \in cancels
             \/ c = [why |-> "close", id |-> i, trace |-> tabs[i].trace, helper |-> tabs[i].helper]
      BY <2>1, Zenon DEF CloseTab
    <3> QED
      BY <3>1, SMT
  <2>2. CASE ~Running(i)
    BY <2>2, Zenon DEF CloseTab
  <2> QED
    BY <2>1, <2>2
<1>5. /\ DOMAIN tabs' = Open \ S /\ \A j \in Open \ S : tabs'[j] = tabs[j]
      /\ \/ closedOwners' = Remember(S)
         \/ closedOwners' = closedOwners /\ \A j \in S : ~Running(j)
  <2>1. CASE Running(i)
    <3>1. UNCHANGED <<tabs, closedOwners>>
      BY <2>1, Zenon DEF CloseTab
    <3> QED
      BY <2>1, <3>1, Zenon DEF Open
  <2>2. CASE ~Running(i)
    <3>1. Discard({i}, TRUE) /\ S = {i}
      BY <2>2, Zenon DEF CloseTab
    <3> HIDE DEF S
    <3>2. Discard(S, TRUE)
      BY <3>1
    <3> QED
      BY <1>1, <3>2, Discarding, Zenon DEF Discard
  <2> QED
    BY <2>1, <2>2, Zenon
<1>6. \A t \in Trace : workers'[t].excuse = "none" => workers[t].id # i /\ workers[t].excuse = "none"
  BY <1>3, SMT
<1>7. ASSUME NEW t \in Trace, workers[t].phase \in Active, workers'[t].excuse = "none"
      PROVE  /\ ~BeingClosed(workers[t].id)'
             /\ workers[t].phase = "running" => workers[t].id \notin S
  <2>1. ~BeingClosed(workers[t].id) /\ workers[t].id # i
    BY <1>6, <1>7, NoneIsClosed
  <2>2. ~BeingClosed(workers[t].id)'
    BY <1>3, <1>4, <2>1, Zenon DEF BeingClosed
  <2> QED
    BY <2>1, <2>2, Zenon
<1>8. \A t \in Trace :
                /\ workers'[t].phase = workers[t].phase /\ workers'[t].id = workers[t].id
                /\ workers'[t].helper = workers[t].helper
                /\ workers'[t].excuse # "unmarked" => workers[t].excuse # "unmarked"
                /\ workers'[t].excuse = "none" => workers[t].excuse = "none"
  BY <1>3, SMT
<1>9. (\A c \in cancels' : c \in cancels \/ c.id \in Open) /\ (asleep => asleep')
  BY <1>1, <1>2, <1>4
<1> HIDE DEF S
<1> QED
  BY <1>1, <1>2, <1>5, <1>7, <1>8, <1>9, TabsGoFromWorkers

\* The client ends the leases of a helper that exited.
LEMMA HelperExitsKeeps ==
    ASSUME HostIInv, NEW h \in Helper, HelperExits(h)
    PROVE  HostIInv'
<1>1. /\ workers' \in [Trace -> Worker]
      /\ \A t \in Trace : /\ workers'[t].phase \in {workers[t].phase, "orphan"}
                          /\ workers'[t].phase # workers[t].phase =>
                               workers[t].phase \in {"running", "ending"}
                          /\ workers'[t].id = workers[t].id
                          /\ workers'[t].helper = workers[t].helper
                          /\ workers'[t].excuse = workers[t].excuse
  BY HelperLeaves DEF HostIInv
<1>2. UNCHANGED <<tabs, created, cancels, closedOwners, cancelledOwners, blocking, operation,
                  asleep>>
  BY Zenon DEF HelperExits, hostOnly
<1>3. HostTypeOK'
  <2>1. HostTypeOK /\ helpers' = [helpers EXCEPT ![h] = "dead"] /\ Fault
    BY Zenon DEF HelperExits, HostIInv
  <2>2. helpers' \in [Helper -> {"well", "stuck", "dead"}]
    BY <2>1, Zenon DEF HostTypeOK
  <2>3. faults' \in 0..MaxFaults
    BY <2>1, BrowserHostAssumption, SMT DEF HostTypeOK, Fault
  <2> QED
    BY <1>1, <1>2, <2>1, <2>2, <2>3, Zenon DEF HostIInv, HostTypeOK
<1>4. OperationIsAlone' /\ TabBooks'
  BY <1>2, Zenon DEF HostIInv, OperationIsAlone, AnyRunning, TabBooks, Open
<1>5. \A t \in Trace : /\ workers'[t].phase \in Active => workers[t].phase \in Active
                       /\ workers'[t].phase \in {"running", "acquiring"} =>
                            workers'[t].phase = workers[t].phase
                       /\ Tidy(t)' => Tidy(t)
  BY <1>1, SMT DEF Active, Tidy
<1>6. LeaseBooks'
  BY <1>1, <1>2, <1>5, SMT DEF HostIInv, LeaseBooks, Open
<1>7. OwnerBooks'
  <2> SUFFICES ASSUME NEW t \in Trace, Tidy(t)'
               PROVE  /\ (Owned(t) \subseteq {workers[t].id})'
                      /\ (workers[t].id \in Open => Running(workers[t].id))'
                      /\ (\/ workers[t].id \in Open
                          \/ t \in DOMAIN closedOwners /\ closedOwners[t] = workers[t].helper)'
                      /\ (workers[t].excuse = "none" => ~BeingClosed(workers[t].id))'
                      /\ (workers[t].excuse = "none" /\ workers[t].phase = "running" =>
                            workers[t].id \in Open)'
    BY Zenon DEF OwnerBooks
  <2>1. /\ Owned(t) \subseteq {workers[t].id}
        /\ workers[t].id \in Open => Running(workers[t].id)
        /\ (\/ workers[t].id \in Open
            \/ t \in DOMAIN closedOwners /\ closedOwners[t] = workers[t].helper)
        /\ workers[t].excuse = "none" => ~BeingClosed(workers[t].id)
        /\ workers[t].excuse = "none" /\ workers[t].phase = "running" => workers[t].id \in Open
    BY <1>5, Zenon DEF HostIInv, OwnerBooks
  <2>2. Owned(t)' = Owned(t) /\ Open' = Open
    BY <1>2, Zenon DEF Owned, Open
  <2>3. workers'[t].id = workers[t].id /\ workers'[t].helper = workers[t].helper
        /\ workers'[t].excuse = workers[t].excuse
    BY <1>1, Zenon
  <2>4. BeingClosed(workers[t].id)' <=> BeingClosed(workers[t].id)
    BY <1>2, <2>3, Zenon DEF BeingClosed
  <2>5. Running(workers[t].id)' <=> Running(workers[t].id)
    BY <1>2, <2>3, Zenon DEF Running
  <2> QED
    BY <1>2, <1>5, <2>1, <2>2, <2>3, <2>4, <2>5, Zenon
<1>8. ConversationBooks'
  <2>1. /\ HostTypeOK /\ ConversationBooks /\ DOMAIN tabs' \subseteq Open
        /\ \A i \in DOMAIN tabs' : /\ tabs'[i].trace = tabs[i].trace
                                   /\ tabs'[i].status = "ready" => tabs[i].status = "ready"
    BY <1>2, Zenon DEF HostIInv, Open
  <2>2. \A t \in Trace : /\ workers'[t].phase = "new" => workers[t].phase = "new"
                         /\ workers'[t].phase \notin {"new", "past"} => Current(t)
    BY <1>1, SMT DEF Current
  <2> QED
    BY <2>1, <2>2, ConversationsKeep
<1>9. AgeBooks'
  <2>1. \A t \in Trace : Live(t)' => Live(t)
    <3>1. HostTypeOK /\ helpers' = [helpers EXCEPT ![h] = "dead"]
      BY Zenon DEF HelperExits, HostIInv
    <3> QED
      BY <1>1, <3>1, SMT DEF Live, HostTypeOK, Worker
  <2> QED
    BY <1>1, <1>2, <2>1, Zenon DEF HostIInv, AgeBooks, Open
<1> QED
  BY <1>3, <1>4, <1>6, <1>7, <1>8, <1>9 DEF HostIInv

\* A worker of the tab of an acquisition that has ended well.
LEMMA InitializedKeeps ==
    ASSUME HostIInv, NEW t \in Trace, Initialized(t)
    PROVE  HostIInv'
<1> DEFINE i == workers[t].id
<1>1. HostTypeOK' /\ HostTypeOK
  BY InitializedTypes DEF HostIInv
<1>2. workers[t].phase = "acquiring" /\ i \in Open /\ tabs' = [tabs EXCEPT ![i].initializing = FALSE]
  BY Zenon DEF Initialized
<1>3. ~tabs[i].loaded
  BY <1>2, SMT DEF HostIInv, LeaseBooks, TabBooks, Active
<1>4. /\ DOMAIN tabs' = Open
      /\ \A j \in Open : /\ tabs'[j].trace = tabs[j].trace /\ tabs'[j].helper = tabs[j].helper
                         /\ tabs'[j].status = tabs[j].status
                         /\ tabs'[j].failed = tabs[j].failed
                         /\ tabs'[j].loaded = tabs[j].loaded
                         /\ tabs'[j].aged = tabs[j].aged
                         /\ tabs'[j].initializing => tabs[j].initializing
                         /\ j # i => tabs'[j].initializing = tabs[j].initializing
  <2>1. [tabs[i] EXCEPT !.initializing = FALSE] \in Tab /\ tabs[i] \in Tab
    BY <1>1, <1>2, TabsAreTyped, TabsAreRecords, Zenon
  <2>2. tabs' = [tabs EXCEPT ![i] = [tabs[i] EXCEPT !.initializing = FALSE]]
    BY <1>2, SMT
  <2>3. /\ DOMAIN tabs' = Open /\ \A j \in Open \ {i} : tabs'[j] = tabs[j]
        /\ tabs'[i] = [tabs[i] EXCEPT !.initializing = FALSE]
    BY <1>1, <1>2, <2>1, <2>2, OneTabChanges, Zenon
  <2> QED
    BY <2>1, <2>3, SMT DEF Tab
<1>5. UNCHANGED <<created, cancels, closedOwners, operation, helpers, asleep>>
  BY Zenon DEF Initialized, hostOnly
<1>6. /\ \A s \in Trace \ {t} : workers'[s] = workers[s]
      /\ \/ /\ workers'[t].phase = "running" /\ workers'[t].id = i
            /\ workers'[t].helper = workers[t].helper /\ workers'[t].excuse = workers[t].excuse
         \/ workers'[t].phase = "idle"
  <2>1. CASE workers' = [workers EXCEPT ![t].phase = "running"]
    BY <1>1, <2>1, SMT DEF HostTypeOK, Worker
  <2>2. CASE Over(t)
    BY <1>1, <2>2, LettingGo, Zenon
  <2> QED
    BY <2>1, <2>2, Zenon DEF Initialized
<1> HIDE DEF i
<1>7. \A s \in Trace : workers'[s].phase \in Active =>
          /\ workers[s].phase \in Active /\ workers'[s].id = workers[s].id
          /\ workers'[s].helper = workers[s].helper /\ workers'[s].excuse = workers[s].excuse
          /\ s # t => workers'[s].phase = workers[s].phase
          /\ s = t => workers'[s].phase = "running"
  BY <1>2, <1>6, SMT DEF Active, i
<1>8. TabBooks' /\ OperationIsAlone'
  BY <1>4, <1>5, SMT DEF HostIInv, TabBooks, OperationIsAlone, AnyRunning, Open
<1>9. LeaseBooks'
  <2> SUFFICES ASSUME NEW s \in Trace, workers'[s].phase \in Active, workers'[s].id \in Open'
               PROVE  (/\ tabs[workers[s].id].trace = s
                       /\ tabs[workers[s].id].helper = workers[s].helper
                       /\ tabs[workers[s].id].status # "ready"
                       /\ workers[s].phase = "acquiring" => tabs[workers[s].id].initializing)'
    BY Zenon DEF LeaseBooks
  <2>1. /\ workers[s].id \in Open /\ workers'[s].id = workers[s].id
        /\ workers[s].phase \in Active
    BY <1>4, <1>7, Zenon DEF Open
  <2>2. /\ tabs[workers[s].id].trace = s
        /\ tabs[workers[s].id].helper = workers[s].helper
        /\ tabs[workers[s].id].status # "ready"
        /\ workers[s].phase = "acquiring" => tabs[workers[s].id].initializing
    BY <2>1, Zenon DEF HostIInv, LeaseBooks
  <2>3. workers'[s].phase = "acquiring" => s # t /\ workers[s].id # i
    <3>1. i \in Open /\ tabs[i].trace = t
      BY <1>2, Zenon DEF Initialized, i
    <3>2. workers'[s].phase = "acquiring" => s # t
      BY <1>7, SMT
    <3> QED
      BY <2>2, <3>1, <3>2, Zenon
  <2> QED
    BY <1>4, <1>7, <2>1, <2>2, <2>3, SMT
<1>10. OwnerBooks'
  <2> SUFFICES ASSUME NEW s \in Trace, Tidy(s)'
               PROVE  /\ (Owned(s) \subseteq {workers[s].id})'
                      /\ (workers[s].id \in Open => Running(workers[s].id))'
                      /\ (\/ workers[s].id \in Open
                          \/ s \in DOMAIN closedOwners /\ closedOwners[s] = workers[s].helper)'
                      /\ (workers[s].excuse = "none" => ~BeingClosed(workers[s].id))'
                      /\ (workers[s].excuse = "none" /\ workers[s].phase = "running" =>
                            workers[s].id \in Open)'
    BY Zenon DEF OwnerBooks
  <2>1. /\ workers'[s].phase \in Active /\ workers'[s].id = workers[s].id
        /\ workers'[s].helper = workers[s].helper /\ workers'[s].excuse = workers[s].excuse
        /\ Tidy(s) /\ (s # t => workers'[s].phase = workers[s].phase)
    BY <1>7, Zenon DEF Tidy
  <2>2. /\ Owned(s) \subseteq {workers[s].id}
        /\ workers[s].id \in Open => Running(workers[s].id)
        /\ (\/ workers[s].id \in Open
            \/ s \in DOMAIN closedOwners /\ closedOwners[s] = workers[s].helper)
        /\ workers[s].excuse = "none" => ~BeingClosed(workers[s].id)
        /\ workers[s].excuse = "none" /\ workers[s].phase = "running" => workers[s].id \in Open
    BY <2>1, Zenon DEF HostIInv, OwnerBooks
  <2>3. Owned(s)' = Owned(s) /\ Open' = Open
    BY <1>4, SMT DEF Owned, Open
  <2>4. BeingClosed(workers[s].id)' <=> BeingClosed(workers[s].id)
    BY <1>5, <2>1, Zenon DEF BeingClosed
  <2>5. workers[s].id \in Open => (Running(workers[s].id)' <=> Running(workers[s].id))
    BY <1>4, <2>1, Zenon DEF Running
  <2>6. s = t => workers[s].id \in Open
    BY <1>2, Zenon DEF i
  <2> QED
    BY <1>5, <2>1, <2>2, <2>3, <2>4, <2>5, <2>6, Zenon
<1>11. ConversationBooks'
  <2>1. HostTypeOK /\ ConversationBooks /\ DOMAIN tabs' \subseteq Open
    BY <1>4, Zenon DEF HostIInv
  <2>2. \A j \in DOMAIN tabs' : /\ tabs'[j].trace = tabs[j].trace
                                /\ tabs'[j].status = "ready" => tabs[j].status = "ready"
    BY <1>4, Zenon
  <2>3. \A s \in Trace : /\ workers'[s].phase = "new" => workers[s].phase = "new"
                         /\ workers'[s].phase \notin {"new", "past"} => Current(s)
    BY <1>2, <1>6, SMT DEF Current
  <2> QED
    BY <2>1, <2>2, <2>3, ConversationsKeep
<1>12. AgeBooks'
  <2> SUFFICES ASSUME NEW s \in Trace, Live(s)', (workers[s].id \in Open)',
                      (tabs[workers[s].id].loaded /\ tabs[workers[s].id].aged)'
               PROVE  asleep'
    BY DEF AgeBooks
  <2>1. workers'[s].phase = "running" /\ workers'[s].phase \in Active
    BY SMT DEF Live, Active
  <2>2. workers'[s].id = workers[s].id /\ workers[s].id \in Open
    BY <1>4, <1>7, <2>1, Zenon DEF Open
  <2>3. tabs[workers[s].id].loaded /\ tabs[workers[s].id].aged
    BY <1>4, <2>2, Zenon
  <2>4. s # t
    BY <1>2, <1>3, <2>3, Zenon DEF i
  <2>5. Live(s)
    BY <1>5, <1>6, <2>4, SMT DEF Live
  <2> QED
    BY <1>5, <2>2, <2>3, <2>5, Zenon DEF HostIInv, AgeBooks
<1> QED
  BY <1>1, <1>8, <1>9, <1>10, <1>11, <1>12 DEF HostIInv

-----------------------------------------------------------------------------
(* The end and the start of a turn *)

\* At most one tab is found for a trace.
LEMMA OneIsFound ==
    ASSUME HostTypeOK, NEW t \in Trace, NEW i \in Found(t), NEW j \in Found(t)
    PROVE  i = j
<1>1. i \in Nat /\ j \in Nat /\ i <= j /\ j <= i
  BY BrowserHostAssumption, SMT DEF Found, Owned, Open, HostTypeOK, Ids
<1> QED
  BY <1>1, SMT

\* The end of a turn leaves its tab to the next one, or marks it as failed.
LEMMA EndedTabKeeps ==
    ASSUME HostIInv, HostTypeOK', NEW t \in Trace, workers[t].phase \in {"ending", "orphan"},
           Over(t), NEW i \in Found(t), NEW r \in Tab, tabs' = [tabs EXCEPT ![i] = r],
           r.trace = tabs[i].trace, r.helper = tabs[i].helper,
           r.initializing = tabs[i].initializing, r.loaded = tabs[i].loaded,
           \/ r.status = "ready" /\ ~r.failed
           \/ r.status = "error",
           UNCHANGED <<created, cancels, closedOwners, operation, helpers, asleep>>
    PROVE  HostIInv'
<1>1. /\ HostTypeOK /\ i \in Open /\ tabs[i].trace = t
  BY Zenon DEF HostIInv, Found, Owned
<1>2. /\ DOMAIN tabs' = Open /\ tabs'[i] = r /\ \A j \in Open \ {i} : tabs'[j] = tabs[j]
  BY <1>1, OneTabChanges, Zenon
<1>3. workers'[t].phase = "idle" /\ \A s \in Trace \ {t} : workers'[s] = workers[s]
  BY <1>1, LettingGo, Zenon
<1>4. \A s \in Trace : workers'[s].phase \in Active => s # t /\ workers'[s] = workers[s]
  BY <1>3, SMT DEF Active
<1>5. \A s \in Trace \ {t} : workers[s].phase \in Active => workers[s].id # i
  BY <1>1, Zenon DEF HostIInv, LeaseBooks
<1>6. \A j \in Open : /\ tabs'[j].trace = tabs[j].trace
                      /\ tabs'[j].helper = tabs[j].helper
                      /\ tabs'[j].initializing = tabs[j].initializing
                      /\ tabs'[j].loaded = tabs[j].loaded
                      /\ tabs'[j].status = "running" => tabs[j].status = "running"
  BY <1>2, SMT
<1>7. \A s : Owned(s)' = Owned(s) /\ Found(s)' = Found(s)
  <2>1. \A s : Owned(s)' = Owned(s)
    BY <1>2, <1>6, Zenon DEF Owned, Open
  <2> QED
    BY <2>1, Zenon DEF Found
<1>8. TabBooks'
  BY <1>2, <1>6, SMT DEF HostIInv, TabBooks, Open
<1>9. OperationIsAlone'
  BY <1>2, <1>6, Zenon DEF HostIInv, OperationIsAlone, AnyRunning, Open
<1>10. LeaseBooks'
  <2> SUFFICES ASSUME NEW s \in Trace, workers'[s].phase \in Active, workers'[s].id \in Open'
               PROVE  (/\ tabs[workers[s].id].trace = s
                       /\ tabs[workers[s].id].helper = workers[s].helper
                       /\ tabs[workers[s].id].status # "ready"
                       /\ workers[s].phase = "acquiring" => tabs[workers[s].id].initializing)'
    BY Zenon DEF LeaseBooks
  <2>1. /\ workers'[s] = workers[s] /\ workers[s].phase \in Active
        /\ workers[s].id \in Open /\ workers[s].id # i
    BY <1>2, <1>4, <1>5, Zenon DEF Open
  <2>2. tabs'[workers[s].id] = tabs[workers[s].id]
    BY <1>2, <2>1, Zenon
  <2> QED
    BY <2>1, <2>2, SMT DEF HostIInv, LeaseBooks
<1>11. OwnerBooks'
  <2> SUFFICES ASSUME NEW s \in Trace, Tidy(s)'
               PROVE  /\ (Owned(s) \subseteq {workers[s].id})'
                      /\ (workers[s].id \in Open => Running(workers[s].id))'
                      /\ (\/ workers[s].id \in Open
                          \/ s \in DOMAIN closedOwners /\ closedOwners[s] = workers[s].helper)'
                      /\ (workers[s].excuse = "none" => ~BeingClosed(workers[s].id))'
                      /\ (workers[s].excuse = "none" /\ workers[s].phase = "running" =>
                            workers[s].id \in Open)'
    BY Zenon DEF OwnerBooks
  <2>1. workers'[s] = workers[s] /\ Tidy(s) /\ s # t
    BY <1>4, Zenon DEF Tidy
  <2>2. /\ Owned(s) \subseteq {workers[s].id}
        /\ workers[s].id \in Open => Running(workers[s].id)
        /\ (\/ workers[s].id \in Open
            \/ s \in DOMAIN closedOwners /\ closedOwners[s] = workers[s].helper)
        /\ workers[s].excuse = "none" => ~BeingClosed(workers[s].id)
        /\ workers[s].excuse = "none" /\ workers[s].phase = "running" => workers[s].id \in Open
    BY <2>1, Zenon DEF HostIInv, OwnerBooks
  <2>3. Owned(s)' = Owned(s) /\ Open' = Open
    BY <1>2, <1>7, Zenon DEF Open
  <2>4. BeingClosed(workers[s].id)' <=> BeingClosed(workers[s].id)
    BY <2>1, Zenon DEF BeingClosed
  <2>5. workers[s].id \in Open => (Running(workers[s].id)' <=> Running(workers[s].id))
    <3>1. workers[s].id # i
      BY <1>5, <2>1, Zenon DEF Tidy
    <3> QED
      BY <1>2, <2>1, <3>1, Zenon DEF Running
  <2> QED
    BY <2>1, <2>2, <2>3, <2>4, <2>5, Zenon
<1>12. \A s \in Trace : /\ (workers'[s].phase = "new" => workers[s].phase = "new")
                        /\ Current(s)' => Current(s)
  <2>1. Current(t) /\ workers'[t].phase # "new"
    BY <1>3, SMT DEF Current
  <2> QED
    BY <1>3, <2>1, Zenon DEF Current
<1>13. \A c : \A j \in Reusable(c)' :
          \/ j \in Reusable(c)
          \/ j = i /\ c = ConversationOf[t] /\ c # NoConversation
  BY <1>1, <1>2, Zenon DEF Reusable, Open
<1>14. Current(t) /\ Owned(t) # {}
  BY <1>1, SMT DEF Current, Owned
<1>15. ConversationBooks'
  <2>0. ConversationBooks
    BY DEF HostIInv
  <2>1. \A s \in Trace : workers'[s].phase = "new" => Owned(s)' = {}
    BY <1>7, <1>12, <2>0, Zenon DEF ConversationBooks
  <2>2. \A s, u \in Trace : /\ Current(s)' /\ Current(u)'
                            /\ ConversationOf[s] = ConversationOf[u]
                            /\ ConversationOf[u] # NoConversation
                            => s = u
    BY <1>12, <2>0, Zenon DEF ConversationBooks
  <2>3. ASSUME NEW s \in Trace, NEW j \in Reusable(ConversationOf[s])',
               Current(s)', Owned(s)' # {}
        PROVE  j \in Found(s)'
    <3>1. Current(s) /\ Owned(s) # {} /\ Found(s)' = Found(s)
      BY <1>7, <1>12, <2>3, Zenon
    <3>2. CASE j \in Reusable(ConversationOf[s])
      <4>1. j \in Found(s)
        BY <2>0, <3>1, <3>2, Zenon DEF ConversationBooks
      <4> QED
        BY <3>1, <4>1, SMT
    <3>3. CASE j = i /\ ConversationOf[s] = ConversationOf[t] /\ ConversationOf[s] # NoConversation
      <4>1. s = t
        BY <1>14, <2>0, <3>1, <3>3, Zenon DEF ConversationBooks
      <4> QED
        BY <3>1, <3>3, <4>1, Zenon
    <3> QED
      BY <1>13, <3>2, <3>3, Zenon
  <2>4. ASSUME NEW c \in Conversation, NEW j \in Reusable(c)', NEW k \in Reusable(c)'
        PROVE  j = k
    <3>1. \A l \in Reusable(c) : c = ConversationOf[t] => l = i
      <4> SUFFICES ASSUME NEW l \in Reusable(c), c = ConversationOf[t]
                   PROVE  l = i
        BY Zenon
      <4>1. l \in Found(t)
        BY <1>14, <2>0, Zenon DEF ConversationBooks
      <4> QED
        BY <1>1, <4>1, OneIsFound, Zenon
    <3>2. \A l, m \in Reusable(c) : l = m
      BY <2>0, Zenon DEF ConversationBooks
    <3>3. /\ j \in Reusable(c) \/ (j = i /\ c = ConversationOf[t])
          /\ k \in Reusable(c) \/ (k = i /\ c = ConversationOf[t])
      BY <1>13, <2>4, Zenon
    <3> QED
      BY <3>1, <3>2, <3>3, SMT
  <2> QED
    BY <2>1, <2>2, <2>3, <2>4, Zenon DEF ConversationBooks
<1>16. AgeBooks'
  <2> SUFFICES ASSUME NEW s \in Trace, Live(s)', (workers[s].id \in Open)',
                      (tabs[workers[s].id].loaded /\ tabs[workers[s].id].aged)'
               PROVE  asleep'
    BY Zenon DEF AgeBooks
  <2>1. workers'[s].phase \in Active
    BY SMT DEF Live, Active
  <2>2. /\ workers'[s] = workers[s] /\ workers[s].id # i /\ workers[s].id \in Open
    BY <1>2, <1>4, <1>5, <2>1, Zenon DEF Open
  <2>3. Live(s) /\ tabs'[workers[s].id] = tabs[workers[s].id]
    BY <1>2, <2>2, Zenon DEF Live
  <2> QED
    BY <2>2, <2>3, Zenon DEF HostIInv, AgeBooks
<1> QED
  BY <1>8, <1>9, <1>10, <1>11, <1>15, <1>16, Zenon DEF HostIInv

\* The worker of a turn lets go of it; no other one is disturbed, nor does it lose a tab.
LEMMA LettingGoKeeps ==
    ASSUME HostIInv, HostTypeOK', NEW t \in Trace, workers[t].phase \in Active, Over(t),
           NEW S \in SUBSET Found(t),
           DOMAIN tabs' = Open \ S,
           \A i \in Open \ S : tabs'[i] = tabs[i],
           \A s \in DOMAIN closedOwners : s # t => /\ s \in DOMAIN closedOwners'
                                                   /\ closedOwners'[s] = closedOwners[s],
           UNCHANGED <<created, cancels, operation, helpers, asleep>>
    PROVE  HostIInv'
<1>1. HostTypeOK /\ \A i \in S : i \in Open /\ tabs[i].trace = t
  BY Zenon DEF HostIInv, Found, Owned
<1>2. workers'[t].phase = "idle" /\ \A s \in Trace \ {t} : workers'[s] = workers[s]
  BY <1>1, LettingGo, Zenon
<1>3. \A s \in Trace : workers'[s].phase \in Active => s # t /\ workers'[s] = workers[s]
  BY <1>2, SMT DEF Active
<1>4. \A s \in Trace \ {t} : workers[s].phase \in Active => workers[s].id \notin S
  BY <1>1, Zenon DEF HostIInv, LeaseBooks
<1>5. \A s \in Trace : workers'[s].phase \in Active =>
                /\ workers'[s].phase = workers[s].phase /\ workers'[s].id = workers[s].id
                /\ workers'[s].helper = workers[s].helper
                /\ workers'[s].excuse # "unmarked" => workers[s].excuse # "unmarked"
                /\ workers'[s].excuse = "none" =>
                     /\ workers[s].excuse = "none" /\ ~BeingClosed(workers[s].id)'
                     /\ workers[s].phase = "running" => workers[s].id \notin S
  <2> SUFFICES ASSUME NEW s \in Trace, workers'[s].phase \in Active
               PROVE  /\ workers'[s] = workers[s] /\ workers[s].id \notin S
                      /\ workers[s].excuse = "none" => ~BeingClosed(workers[s].id)'
    BY Zenon
  <2>1. workers'[s] = workers[s] /\ workers[s].id \notin S /\ workers[s].phase \in Active
    BY <1>3, <1>4, Zenon
  <2>2. workers[s].excuse = "none" => ~BeingClosed(workers[s].id)
    BY <2>1, NoneIsClosed, Zenon
  <2> QED
    BY <2>1, <2>2, Zenon DEF BeingClosed
<1>6. \A s \in Trace : /\ workers'[s].phase = "new" => workers[s].phase = "new"
                       /\ workers'[s].phase \notin {"new", "past"} => Current(s)
  BY <1>2, SMT DEF Current, Active
<1>7. \A s \in Trace : Tidy(s)' =>
                /\ workers[s].id \in S \cap Open => /\ s \in DOMAIN closedOwners'
                                                    /\ closedOwners'[s] = workers[s].helper
                /\ s \in DOMAIN closedOwners /\ closedOwners[s] = workers[s].helper =>
                     s \in DOMAIN closedOwners' /\ closedOwners'[s] = workers[s].helper
  <2> SUFFICES ASSUME NEW s \in Trace, Tidy(s)'
               PROVE  /\ workers[s].id \notin S
                      /\ s \in DOMAIN closedOwners =>
                           s \in DOMAIN closedOwners' /\ closedOwners'[s] = closedOwners[s]
    BY Zenon
  <2>1. s # t /\ workers[s].phase \in Active
    BY <1>3, Zenon DEF Tidy
  <2> QED
    BY <1>4, <2>1, Zenon
<1>8. (asleep => asleep') /\ \A c \in cancels' : c \in cancels \/ c.id \in Open
  BY Zenon
<1> QED
  BY <1>5, <1>6, <1>7, <1>8, TabsGo

\* A turn ends: its tab is kept for the conversation, preserved with its failure, released,
\* or was closed before.
LEMMA EndKeeps ==
    ASSUME HostIInv, NEW t \in Trace, End(t)
    PROVE  HostIInv'
<1>1. /\ HostTypeOK /\ Over(t) /\ EndOf(t, workers[t].status)
      /\ UNCHANGED <<created, cancels, cancelledOwners, operation, helpers, asleep, faults>>
  BY Zenon DEF HostIInv, End
<1>2. workers[t].phase \in {"ending", "orphan"} /\ workers[t].phase \in Active
  BY SMT DEF End, Active
<1>3. workers' \in [Trace -> Worker]
  BY <1>1, LettingGo, Zenon
<1>4. CASE Found(t) = {}
  <2>1. UNCHANGED <<tabs, blocking>>
    BY <1>1, <1>4, Zenon DEF EndOf
  <2>2. \/ closedOwners' = closedOwners
        \/ closedOwners' = [s \in DOMAIN closedOwners \ {t} |-> closedOwners[s]]
    BY <1>1, <1>4, Zenon DEF EndOf
  <2>3. /\ DOMAIN closedOwners' \subseteq DOMAIN closedOwners
        /\ \A s \in DOMAIN closedOwners' : closedOwners'[s] = closedOwners[s]
        /\ \A s \in DOMAIN closedOwners : s # t => s \in DOMAIN closedOwners'
    BY <2>2, SMT
  <2>4. HostTypeOK'
    BY <1>1, <1>3, <2>1, <2>3, Zenon DEF HostTypeOK
  <2>5. /\ {} \in SUBSET Found(t) /\ DOMAIN tabs' = Open \ {}
        /\ \A i \in Open \ {} : tabs'[i] = tabs[i]
        /\ \A s \in DOMAIN closedOwners : s # t => /\ s \in DOMAIN closedOwners'
                                                   /\ closedOwners'[s] = closedOwners[s]
    BY <2>1, <2>3, SMT DEF Open
  <2> QED
    BY <1>1, <1>2, <2>4, <2>5, LettingGoKeeps
<1>5. CASE Found(t) # {}
  <2> DEFINE signIn(i) == tabs[i].signIn
             as(i) == IF signIn(i) /\ workers[t].status = "completed" THEN "failed"
                      ELSE workers[t].status
             keeps(i) == as(i) = "completed" /\ ConversationOf[t] # NoConversation
             preserves(i) == as(i) = "failed" /\ tabs[i].loaded /\ ~signIn(i) /\ ~UserCancelled(t)
             to(i) == [tabs[i] EXCEPT !.status = IF keeps(i) THEN "ready" ELSE "error",
                                      !.failed = preserves(i), !.aged = FALSE]
  <2>1. PICK i \in Found(t) :
           \/ UNCHANGED <<tabs, blocking, closedOwners>>
           \/ /\ keeps(i) \/ preserves(i)
              /\ tabs' = [tabs EXCEPT ![i] = to(i)]
              /\ blocking' = AnyRunning(Without({i}))
              /\ UNCHANGED closedOwners
           \/ Discard({i}, FALSE)
    BY <1>1, <1>5, Zenon DEF EndOf
  <2>2. i \in Open /\ tabs[i] \in Tab /\ {i} \in SUBSET Open /\ {i} \in SUBSET Found(t)
    BY <1>1, TabsAreTyped, Zenon DEF Found, Owned
  <2>3. CASE UNCHANGED <<tabs, blocking, closedOwners>>
    <3>1. HostTypeOK'
      BY <1>1, <1>3, <2>3, Zenon DEF HostTypeOK
    <3>2. /\ {} \in SUBSET Found(t) /\ DOMAIN tabs' = Open \ {}
          /\ \A j \in Open \ {} : tabs'[j] = tabs[j]
          /\ \A s \in DOMAIN closedOwners : s # t => /\ s \in DOMAIN closedOwners'
                                                     /\ closedOwners'[s] = closedOwners[s]
      BY <2>3, SMT DEF Open
    <3> QED
      BY <1>1, <1>2, <3>1, <3>2, LettingGoKeeps
  <2>4. CASE /\ keeps(i) \/ preserves(i)
             /\ tabs' = [tabs EXCEPT ![i] = to(i)]
             /\ blocking' = AnyRunning(Without({i}))
             /\ UNCHANGED closedOwners
    <3>1. preserves(i) \in BOOLEAN
      BY Zenon
    <3>2. keeps(i) => ~preserves(i)
      <4>1. ~("completed" = "failed")
        BY SMT
      <4> QED
        BY <4>1, Zenon
    <3>3. PICK s \in {"ready", "error"}, b \in BOOLEAN :
             /\ to(i) = [tabs[i] EXCEPT !.status = s, !.failed = b, !.aged = FALSE]
             /\ s = "ready" => ~b
      BY <3>1, <3>2, Zenon
    <3> HIDE DEF to
    <3>4. /\ to(i) \in Tab
          /\ to(i).trace = tabs[i].trace /\ to(i).helper = tabs[i].helper
          /\ to(i).initializing = tabs[i].initializing /\ to(i).loaded = tabs[i].loaded
          /\ \/ to(i).status = "ready" /\ ~to(i).failed
             \/ to(i).status = "error"
      <4> DEFINE r1 == [tabs[i] EXCEPT !.status = s]
                 r2 == [r1 EXCEPT !.failed = b]
                 r3 == [r2 EXCEPT !.aged = FALSE]
      <4>1. r1 \in Tab
        BY <2>2, TabsAreRecords, Zenon
      <4>2. r2 \in Tab
        BY <4>1, TabsAreRecords, Zenon
      <4>3. r3 \in Tab
        BY <4>2, TabsAreRecords, Zenon
      <4>4. to(i) = r3
        BY <3>3, SMT
      <4>5. /\ r1.trace = tabs[i].trace /\ r1.helper = tabs[i].helper /\ r1.status = s
            /\ r1.initializing = tabs[i].initializing /\ r1.loaded = tabs[i].loaded
        BY <2>2, Zenon DEF Tab
      <4>6. /\ r2.trace = r1.trace /\ r2.helper = r1.helper /\ r2.status = r1.status
            /\ r2.initializing = r1.initializing /\ r2.loaded = r1.loaded /\ r2.failed = b
        BY <4>1, Zenon DEF Tab
      <4>7. /\ r3.trace = r2.trace /\ r3.helper = r2.helper /\ r3.status = r2.status
            /\ r3.initializing = r2.initializing /\ r3.loaded = r2.loaded
            /\ r3.failed = r2.failed
        BY <4>2, Zenon DEF Tab
      <4> HIDE DEF r1, r2, r3
      <4> QED
        BY <3>3, <4>3, <4>4, <4>5, <4>6, <4>7, Zenon
    <3>5. blocking' \in BOOLEAN
      BY <2>4, Zenon DEF AnyRunning
    <3>6. DOMAIN tabs' \subseteq Ids /\ \A j \in DOMAIN tabs' : tabs'[j] \in Tab
      BY <1>1, <2>2, <2>4, <3>4, OneTabChanges, Zenon
    <3>7. HostTypeOK'
      BY <1>1, <1>3, <2>4, <3>5, <3>6, Zenon DEF HostTypeOK
    <3> QED
      BY <1>1, <1>2, <2>4, <3>4, <3>7, EndedTabKeeps
  <2>5. CASE Discard({i}, FALSE)
    <3>1. /\ DOMAIN tabs' = Open \ {i} /\ \A j \in Open \ {i} : tabs'[j] = tabs[j]
          /\ DOMAIN tabs' \subseteq Ids /\ \A j \in DOMAIN tabs' : tabs'[j] \in Tab
          /\ blocking' \in BOOLEAN /\ closedOwners' = closedOwners
      BY <1>1, <2>2, <2>5, Discarding, Zenon
    <3>2. HostTypeOK'
      BY <1>1, <1>3, <3>1, Zenon DEF HostTypeOK
    <3>3. \A s \in DOMAIN closedOwners : s # t => /\ s \in DOMAIN closedOwners'
                                                  /\ closedOwners'[s] = closedOwners[s]
      BY <3>1, Zenon
    <3> QED
      BY <1>1, <1>2, <2>2, <3>1, <3>2, <3>3, LettingGoKeeps
  <2> QED
    BY <2>1, <2>3, <2>4, <2>5
<1> QED
  BY <1>4, <1>5

\* What an attempt of t does to the workers: it begins, earlier turns of its conversation are
\* over for good, and no other worker notices.
Begun(t) ==
    /\ workers' \in [Trace -> Worker]
    /\ workers'[t].phase \notin {"new", "past"}
    /\ \A s \in Trace \ {t} : \/ ~Earlier(s, t) /\ workers'[s] = workers[s]
                              \/ /\ Earlier(s, t) /\ workers'[s].phase = "past"
                                 /\ workers'[s].id = workers[s].id
Waited(t) == /\ workers[t].phase \in {"new", "idle"}
             /\ \A s \in Trace \ {t} : /\ ConversationOf[t] # NoConversation
                                       /\ ConversationOf[s] = ConversationOf[t]
                                       => workers[s].phase \in {"new", "idle", "past"}

\* An attempt changes the workers as Begun says.
LEMMA Attempting ==
    ASSUME HostTypeOK, NEW t \in Trace, NEW h \in Helper, NEW i \in Ids \cup {0},
           NEW phase \in {"idle", "acquiring", "running"},
           NEW excuse \in {"none", "lost", "unmarked"},
           Attempt(t, h, i, phase, excuse)
    PROVE  /\ Begun(t)
           /\ workers'[t].phase = phase /\ workers'[t].id = i /\ workers'[t].helper = h
           /\ workers'[t].excuse = excuse
<1> DEFINE r == [phase |-> phase, id |-> i, helper |-> h, status |-> "completed",
                 excuse |-> excuse]
           f(s) == IF s = t THEN r
                   ELSE IF Earlier(s, t) THEN [workers[s] EXCEPT !.phase = "past"]
                   ELSE workers[s]
<1>1. workers' = [s \in Trace |-> f(s)]
  BY Zenon DEF Attempt
<1>2. r \in Worker
  BY SMT DEF Worker, Statuses
<1>3. r.phase = phase /\ r.id = i /\ r.helper = h /\ r.excuse = excuse
  BY SMT
<1>4. \A s \in Trace : /\ [workers[s] EXCEPT !.phase = "past"] \in Worker
                       /\ workers[s] \in Worker
                       /\ [workers[s] EXCEPT !.phase = "past"].phase = "past"
                       /\ [workers[s] EXCEPT !.phase = "past"].id = workers[s].id
  <2>1. \A s \in Trace : workers[s] \in Worker
    BY WorkersAreTyped
  <2>2. \A s \in Trace : [workers[s] EXCEPT !.phase = "past"] \in Worker
    BY <2>1, WorkersAreRecords, Zenon
  <2>3. \A s \in Trace : /\ [workers[s] EXCEPT !.phase = "past"].phase = "past"
                         /\ [workers[s] EXCEPT !.phase = "past"].id = workers[s].id
    BY <2>1, SMT DEF Worker
  <2> QED
    BY <2>1, <2>2, <2>3
<1>5. f(t) = r /\ \A s \in Trace \ {t} :
        f(s) = IF Earlier(s, t) THEN [workers[s] EXCEPT !.phase = "past"] ELSE workers[s]
  BY Zenon
<1>6. \A s \in Trace : f(s) \in Worker
  BY <1>2, <1>4, Zenon
<1> HIDE DEF f
<1>7. workers' \in [Trace -> Worker] /\ \A s \in Trace : workers'[s] = f(s)
  BY <1>1, <1>6, SMT
<1>8. workers'[t] = r
  BY <1>5, <1>7, Zenon
<1>9. \A s \in Trace \ {t} : \/ ~Earlier(s, t) /\ workers'[s] = workers[s]
                             \/ /\ Earlier(s, t) /\ workers'[s].phase = "past"
                                /\ workers'[s].id = workers[s].id
  BY <1>4, <1>5, <1>7, Zenon
<1> HIDE DEF r
<1>10. workers'[t].phase \notin {"new", "past"}
  BY <1>3, <1>8, SMT
<1> QED
  BY <1>3, <1>7, <1>8, <1>9, <1>10, Zenon DEF Begun

\* No worker with a lease is disturbed by an attempt of another one.
LEMMA OthersKeepWorking ==
    ASSUME NEW t \in Trace, Begun(t), NEW s \in Trace \ {t}
    PROVE  /\ workers'[s].phase \in Active => workers'[s] = workers[s]
           /\ workers'[s].phase = "new" => workers[s].phase = "new"
           /\ Current(s)' => Current(s)
BY SMT DEF Begun, Earlier, Active, Current

\* A turn that begins is the only one of its conversation that may own a tab.
LEMMA BeginningKeepsConversations ==
    ASSUME HostIInv, NEW t \in Trace, Begun(t), Waited(t),
           \A s \in Trace \ {t} : Owned(s)' \subseteq Owned(s),
           \A c : \A j \in Reusable(c)' : j \in Reusable(c) /\ tabs'[j].trace = tabs[j].trace,
           \A j \in Reusable(ConversationOf[t])' : Owned(t)' # {} => j \in Found(t)'
    PROVE  ConversationBooks'
<1>0. ConversationBooks
  BY DEF HostIInv
<1>1. \A s \in Trace : workers'[s].phase = "new" => Owned(s)' = {}
  <2>1. workers'[t].phase # "new"
    BY SMT DEF Begun
  <2> QED
    BY <1>0, <2>1, OthersKeepWorking, ZenonT(20) DEF ConversationBooks
<1>2. ASSUME NEW s \in Trace \ {t}, ConversationOf[t] # NoConversation,
             ConversationOf[s] = ConversationOf[t]
      PROVE  ~Current(s)'
  BY <1>2, SMT DEF Begun, Waited, Earlier, Current
<1>3. ASSUME NEW s \in Trace, NEW u \in Trace, Current(s)', Current(u)',
             ConversationOf[s] = ConversationOf[u], ConversationOf[u] # NoConversation
      PROVE  s = u
  <2>1. CASE s = t \/ u = t
    BY <1>2, <1>3, <2>1, SMT
  <2>2. CASE s # t /\ u # t
    <3>1. Current(s) /\ Current(u)
      BY <1>3, <2>2, OthersKeepWorking, Zenon
    <3> QED
      BY <1>0, <1>3, <3>1, Zenon DEF ConversationBooks
  <2> QED
    BY <2>1, <2>2
<1>4. ASSUME NEW s \in Trace, NEW j \in Reusable(ConversationOf[s])', Current(s)', Owned(s)' # {}
      PROVE  j \in Found(s)'
  <2>1. CASE s = t
    BY <1>4, <2>1, Zenon
  <2>2. CASE s # t
    <3>1. Current(s) /\ Owned(s) # {} /\ j \in Reusable(ConversationOf[s])
      BY <1>4, <2>2, OthersKeepWorking, SMT
    <3>2. j \in Found(s)
      BY <1>0, <3>1, Zenon DEF ConversationBooks
    <3>3. j \in Open' /\ Owned(s)' \subseteq Owned(s)
      BY <1>4, <2>2, Zenon DEF Reusable
    <3>4. \A k \in Owned(s)' : j <= k
      BY <3>2, <3>3, Zenon DEF Found
    <3>5. j \in Owned(s)'
      <4>1. tabs'[j].trace = tabs[j].trace /\ tabs[j].trace = s
        BY <1>4, <3>2, Zenon DEF Found, Owned
      <4> QED
        BY <3>3, <4>1, Zenon DEF Owned
    <3> QED
      BY <3>4, <3>5, Zenon DEF Found
  <2> QED
    BY <2>1, <2>2
<1>5. \A c \in Conversation : \A i, j \in Reusable(c)' : i = j
  BY <1>0, Zenon DEF ConversationBooks
<1> QED
  BY <1>1, <1>3, <1>4, <1>5, Zenon DEF ConversationBooks

\* The start of a turn leaves the other workers, and their tabs, alone.
LEMMA BeginningKeepsWorkers ==
    ASSUME HostIInv, HostTypeOK', NEW t \in Trace, Begun(t),
           \A s \in Trace \ {t} : Owned(s)' \subseteq Owned(s),
           \A s \in Trace \ {t} : workers[s].phase \in Active =>
              /\ workers[s].id \in Open' => /\ workers[s].id \in Open
                                            /\ tabs'[workers[s].id] = tabs[workers[s].id]
              /\ Tidy(s) /\ workers[s].id \in Open => workers[s].id \in Open',
           workers'[t].phase \in Active =>
              /\ workers'[t].phase # "ending"
              /\ workers'[t].id \in Open'
              /\ tabs'[workers'[t].id].trace = t
              /\ tabs'[workers'[t].id].helper = workers'[t].helper
              /\ tabs'[workers'[t].id].status = "running"
              /\ ~tabs'[workers'[t].id].aged
              /\ workers'[t].phase = "acquiring" => tabs'[workers'[t].id].initializing
              /\ workers'[t].excuse # "unmarked" => Owned(t)' \subseteq {workers'[t].id}
              /\ workers'[t].excuse = "none" => ~BeingClosed(workers'[t].id),
           UNCHANGED <<cancels, closedOwners, helpers, asleep>>
    PROVE  LeaseBooks' /\ OwnerBooks' /\ AgeBooks'
<1>1. \A s \in Trace \ {t} : workers'[s].phase \in Active =>
         workers'[s] = workers[s] /\ workers[s].phase \in Active
  BY OthersKeepWorking, Zenon
<1>2. LeaseBooks'
  <2> SUFFICES ASSUME NEW s \in Trace, workers'[s].phase \in Active, workers'[s].id \in Open'
               PROVE  (/\ tabs[workers[s].id].trace = s
                       /\ tabs[workers[s].id].helper = workers[s].helper
                       /\ tabs[workers[s].id].status # "ready"
                       /\ workers[s].phase = "acquiring" => tabs[workers[s].id].initializing)'
    BY Zenon DEF LeaseBooks
  <2>1. CASE s = t
    BY <2>1, SMT
  <2>2. CASE s # t
    <3>1. /\ workers'[s] = workers[s] /\ workers[s].phase \in Active
          /\ workers[s].id \in Open /\ tabs'[workers[s].id] = tabs[workers[s].id]
      BY <1>1, <2>2, Zenon
    <3>2. /\ tabs[workers[s].id].trace = s
          /\ tabs[workers[s].id].helper = workers[s].helper
          /\ tabs[workers[s].id].status # "ready"
          /\ workers[s].phase = "acquiring" => tabs[workers[s].id].initializing
      BY <3>1, Zenon DEF HostIInv, LeaseBooks
    <3> QED
      BY <3>1, <3>2, SMT
  <2> QED
    BY <2>1, <2>2
<1>3. OwnerBooks'
  <2> SUFFICES ASSUME NEW s \in Trace, Tidy(s)'
               PROVE  /\ (Owned(s) \subseteq {workers[s].id})'
                      /\ (workers[s].id \in Open => Running(workers[s].id))'
                      /\ (\/ workers[s].id \in Open
                          \/ s \in DOMAIN closedOwners /\ closedOwners[s] = workers[s].helper)'
                      /\ (workers[s].excuse = "none" => ~BeingClosed(workers[s].id))'
                      /\ (workers[s].excuse = "none" /\ workers[s].phase = "running" =>
                            workers[s].id \in Open)'
    BY Zenon DEF OwnerBooks
  <2>1. CASE s = t
    <3>1. /\ workers'[t].phase \in Active /\ workers'[t].excuse # "unmarked"
      BY <2>1, Zenon DEF Tidy
    <3>2. workers'[t].excuse = "none" => ~BeingClosed(workers[t].id)'
      BY <3>1, Zenon DEF BeingClosed
    <3> QED
      BY <2>1, <3>1, <3>2, Zenon DEF Running
  <2>2. CASE s # t
    <3>1. workers'[s] = workers[s] /\ Tidy(s) /\ workers[s].phase \in Active
      BY <1>1, <2>2, Zenon DEF Tidy
    <3>2. /\ Owned(s) \subseteq {workers[s].id}
          /\ workers[s].id \in Open => Running(workers[s].id)
          /\ (\/ workers[s].id \in Open
              \/ s \in DOMAIN closedOwners /\ closedOwners[s] = workers[s].helper)
          /\ workers[s].excuse = "none" => ~BeingClosed(workers[s].id)
          /\ workers[s].excuse = "none" /\ workers[s].phase = "running" => workers[s].id \in Open
      BY <3>1, Zenon DEF HostIInv, OwnerBooks
    <3>3. /\ Owned(s)' \subseteq Owned(s)
          /\ workers[s].id \in Open' <=> workers[s].id \in Open
          /\ workers[s].id \in Open' => tabs'[workers[s].id] = tabs[workers[s].id]
      BY <2>2, <3>1, Zenon
    <3>4. BeingClosed(workers[s].id)' <=> BeingClosed(workers[s].id)
      BY <3>1, Zenon DEF BeingClosed
    <3>5. workers[s].id \in Open' => (Running(workers[s].id)' <=> Running(workers[s].id))
      BY <3>1, <3>3, Zenon DEF Running
    <3> QED
      BY <3>1, <3>2, <3>3, <3>4, <3>5, Zenon
  <2> QED
    BY <2>1, <2>2
<1>4. AgeBooks'
  <2> SUFFICES ASSUME NEW s \in Trace, Live(s)', (workers[s].id \in Open)',
                      (tabs[workers[s].id].loaded /\ tabs[workers[s].id].aged)'
               PROVE  asleep'
    BY Zenon DEF AgeBooks
  <2>1. workers'[s].phase \in Active
    BY SMT DEF Live, Active
  <2>2. s # t
    BY <2>1, Zenon
  <2>3. /\ workers'[s] = workers[s] /\ workers[s].id \in Open
        /\ tabs'[workers[s].id] = tabs[workers[s].id]
    BY <1>1, <2>1, <2>2, Zenon
  <2>4. Live(s)
    BY <2>3, Zenon DEF Live
  <2> QED
    BY <2>3, <2>4, Zenon DEF HostIInv, AgeBooks
<1> QED
  BY <1>2, <1>3, <1>4

\* A turn is given the tab of its earlier attempt or the retained one of its conversation.
LEMMA LeaseKeeps ==
    ASSUME HostIInv, NEW t \in Trace, NEW h \in Helper, NEW i \in Open, Waited(t), ~operation,
           (i \in Found(t) /\ Running(i)) \/ i \in Matches(t),
           Lease(t, h, i), UNCHANGED <<helpers, asleep, faults>>
    PROVE  HostIInv'
<1> DEFINE r == [tabs[i] EXCEPT !.helper = h, !.trace = t, !.status = "running", !.aged = FALSE,
                                !.loaded = tabs[i].loaded /\ tabs[i].status = "ready"]
           excuse == IF Owned(t) \ {i} # {} THEN "unmarked"
                     ELSE IF BeingClosed(i) THEN "lost" ELSE "none"
<1>1. /\ HostTypeOK /\ i \in Ids /\ tabs[i] \in Tab
      /\ tabs' = [tabs EXCEPT ![i] = r]
      /\ Attempt(t, h, i, "running", excuse)
      /\ UNCHANGED hostOnly
  <2>1. HostTypeOK /\ i \in Ids /\ tabs[i] \in Tab
    BY TabsAreTyped, Zenon DEF HostIInv, HostTypeOK, Open
  <2>2. tabs' = [tabs EXCEPT ![i] = r]
    BY Zenon DEF Lease
  <2> QED
    BY <2>1, <2>2, Zenon DEF Lease
<1>2. /\ r \in Tab /\ r.trace = t /\ r.helper = h /\ r.status = "running" /\ ~r.aged
      /\ r.failed = tabs[i].failed /\ r.initializing = tabs[i].initializing
      /\ r.loaded => tabs[i].loaded
  <2>1. PICK b \in BOOLEAN : /\ r = [tabs[i] EXCEPT !.helper = h, !.trace = t,
                                       !.status = "running", !.aged = FALSE, !.loaded = b]
                             /\ b => tabs[i].loaded
    BY Zenon
  <2> DEFINE r1 == [tabs[i] EXCEPT !.helper = h]
             r2 == [r1 EXCEPT !.trace = t]
             r3 == [r2 EXCEPT !.status = "running"]
             r4 == [r3 EXCEPT !.aged = FALSE]
             r5 == [r4 EXCEPT !.loaded = b]
  <2>2. r1 \in Tab
    BY <1>1, TabsAreRecords, Zenon
  <2>3. r2 \in Tab
    BY <2>2, TabsAreRecords, Zenon
  <2>4. r3 \in Tab
    BY <2>3, TabsAreRecords, Zenon
  <2>5. r4 \in Tab
    BY <2>4, TabsAreRecords, Zenon
  <2>6. r5 \in Tab
    BY <2>5, TabsAreRecords, Zenon
  <2>7. r = r5
    BY <2>1, Zenon
  <2>8. /\ r1.helper = h /\ r1.failed = tabs[i].failed /\ r1.initializing = tabs[i].initializing
    BY <1>1, Zenon DEF Tab
  <2>9. /\ r2.helper = r1.helper /\ r2.failed = r1.failed /\ r2.initializing = r1.initializing
        /\ r2.trace = t
    BY <2>2, Zenon DEF Tab
  <2>10. /\ r3.helper = r2.helper /\ r3.failed = r2.failed /\ r3.initializing = r2.initializing
         /\ r3.trace = r2.trace /\ r3.status = "running"
    BY <2>3, Zenon DEF Tab
  <2>11. /\ r4.helper = r3.helper /\ r4.failed = r3.failed /\ r4.initializing = r3.initializing
         /\ r4.trace = r3.trace /\ r4.status = r3.status /\ r4.aged = FALSE
    BY <2>4, Zenon DEF Tab
  <2>12. /\ r5.helper = r4.helper /\ r5.failed = r4.failed /\ r5.initializing = r4.initializing
         /\ r5.trace = r4.trace /\ r5.status = r4.status /\ r5.aged = r4.aged /\ r5.loaded = b
    BY <2>5, Zenon DEF Tab
  <2> HIDE DEF r, r1, r2, r3, r4, r5
  <2>13. r.loaded = b /\ r.aged = FALSE
    BY <2>7, <2>11, <2>12, Zenon
  <2>14. (r.loaded => tabs[i].loaded) /\ ~r.aged
    BY <2>1, <2>13, SMT
  <2> QED
    BY <2>6, <2>7, <2>8, <2>9, <2>10, <2>11, <2>12, <2>14, Zenon
<1> HIDE DEF r
<1>3. excuse \in {"none", "lost", "unmarked"}
  BY Zenon
<1>4. /\ Begun(t) /\ workers'[t].phase = "running" /\ workers'[t].id = i
      /\ workers'[t].helper = h /\ workers'[t].excuse = excuse
  <2> HIDE DEF excuse
  <2> QED
    BY <1>1, <1>3, Attempting
<1>5. /\ DOMAIN tabs' = Open /\ DOMAIN tabs' \subseteq Ids /\ \A j \in DOMAIN tabs' : tabs'[j] \in Tab
      /\ tabs'[i] = r /\ \A j \in Open \ {i} : tabs'[j] = tabs[j]
  BY <1>1, <1>2, OneTabChanges, Zenon
<1>6. HostTypeOK'
  BY <1>1, <1>4, <1>5, Zenon DEF HostTypeOK, hostOnly, Begun
<1>7. ~tabs[i].failed /\ (tabs[i].trace = t \/ tabs[i].status = "ready")
  <2>1. \/ tabs[i].trace = t /\ tabs[i].status = "running"
        \/ tabs[i].status = "ready"
    BY Zenon DEF Found, Owned, Running, Matches, Reusable
  <2> QED
    BY <2>1, SMT DEF HostIInv, TabBooks
<1>8. TabBooks'
  <2>1. UNCHANGED <<cancels, created>>
    BY <1>1, Zenon DEF hostOnly
  <2>2. /\ i <= created /\ tabs[i].initializing => ~tabs[i].loaded
        /\ \A j \in Open : /\ j <= created
                           /\ tabs[j].failed => tabs[j].status = "error"
                           /\ tabs[j].initializing => ~tabs[j].loaded
        /\ \A c \in cancels : c.id <= created
    BY SMT DEF HostIInv, TabBooks
  <2> QED
    BY <1>2, <1>5, <1>7, <2>1, <2>2, SMT DEF TabBooks, Open
<1>9. OperationIsAlone'
  BY <1>1, Zenon DEF hostOnly, OperationIsAlone
<1>10. \A s \in Trace \ {t} : Owned(s)' \subseteq Owned(s)
  BY <1>2, <1>5, SMT DEF Owned, Open
<1>11. Owned(t)' = Owned(t) \cup {i}
  BY <1>2, <1>5, SMT DEF Owned, Open
<1>12. \A c : \A j \in Reusable(c)' : j \in Reusable(c) /\ j # i /\ tabs'[j].trace = tabs[j].trace
  BY <1>2, <1>5, SMT DEF Reusable, Open
<1>13. ASSUME NEW j \in Reusable(ConversationOf[t])', Owned(t)' # {}
       PROVE  j \in Found(t)'
  <2>1. j \in Reusable(ConversationOf[t]) /\ j # i
    BY <1>12, Zenon
  <2>2. CASE i \in Matches(t)
    <3>1. i \in Reusable(ConversationOf[t]) /\ ConversationOf[t] # NoConversation
      BY <2>2, Zenon DEF Matches, Reusable
    <3>2. ConversationOf[t] \in Conversation
      BY <3>1, BrowserHostAssumption, SMT
    <3>3. \A l, m \in Reusable(ConversationOf[t]) : l = m
      BY <3>2, Zenon DEF HostIInv, ConversationBooks
    <3> QED
      BY <2>1, <3>1, <3>3, Zenon
  <2>3. CASE i \in Found(t)
    <3>1. Owned(t) # {} /\ workers[t].phase # "new"
      BY <2>3, Zenon DEF Found, HostIInv, ConversationBooks
    <3>2. Current(t)
      BY <3>1, SMT DEF Waited, Current
    <3>3. j \in Found(t)
      BY <2>1, <3>1, <3>2, Zenon DEF HostIInv, ConversationBooks
    <3> QED
      BY <1>1, <2>1, <2>3, <3>3, OneIsFound, Zenon
  <2> QED
    BY <2>2, <2>3
<1>14. ConversationBooks'
  BY <1>4, <1>10, <1>12, <1>13, BeginningKeepsConversations
<1>15. \A s \in Trace \ {t} : workers[s].phase \in Active =>
              /\ workers[s].id \in Open' => /\ workers[s].id \in Open
                                            /\ tabs'[workers[s].id] = tabs[workers[s].id]
              /\ Tidy(s) /\ workers[s].id \in Open => workers[s].id \in Open'
  <2> SUFFICES ASSUME NEW s \in Trace \ {t}, workers[s].phase \in Active, workers[s].id \in Open
               PROVE  workers[s].id # i
    BY <1>5, Zenon DEF Open
  <2>1. tabs[workers[s].id].trace = s /\ tabs[workers[s].id].status # "ready"
    BY Zenon DEF HostIInv, LeaseBooks
  <2> QED
    BY <1>7, <2>1, Zenon
<1>16. /\ workers'[t].phase # "ending"
       /\ workers'[t].id \in Open'
       /\ tabs'[workers'[t].id].trace = t
       /\ tabs'[workers'[t].id].helper = workers'[t].helper
       /\ tabs'[workers'[t].id].status = "running"
       /\ ~tabs'[workers'[t].id].aged
       /\ workers'[t].phase = "acquiring" => tabs'[workers'[t].id].initializing
       /\ workers'[t].excuse # "unmarked" => Owned(t)' \subseteq {workers'[t].id}
       /\ workers'[t].excuse = "none" => ~BeingClosed(workers'[t].id)
  <2>1. workers'[t].phase # "ending" /\ workers'[t].phase # "acquiring"
    BY <1>4, SMT
  <2>2. excuse # "unmarked" => Owned(t)' \subseteq {i}
    BY <1>11, Zenon
  <2>3. excuse = "none" => ~BeingClosed(i)
    <3>1. ~("unmarked" = "none") /\ ~("lost" = "none")
      BY SMT
    <3> QED
      BY <3>1, Zenon
  <2>4. i \in Open' /\ tabs'[i] = r
    BY <1>5, Zenon DEF Open
  <2> HIDE DEF excuse
  <2> QED
    BY <1>2, <1>4, <2>1, <2>2, <2>3, <2>4, Zenon
<1>17. UNCHANGED <<cancels, closedOwners, helpers, asleep>>
  BY <1>1, Zenon DEF hostOnly
<1>18. LeaseBooks' /\ OwnerBooks' /\ AgeBooks'
  BY <1>4, <1>6, <1>10, <1>15, <1>16, <1>17, BeginningKeepsWorkers
<1> QED
  BY <1>6, <1>8, <1>9, <1>14, <1>18, Zenon DEF HostIInv

\* An id that was given out is not given out again.
LEMMA BegunIds ==
    ASSUME HostTypeOK, HostTypeOK', IdBooks, NEW t \in Trace, Begun(t), workers'[t].id <= created',
           created <= created'
    PROVE  IdBooks'
<1>1. \A s \in Trace : workers[s].id \in Nat /\ workers[s].id <= created
  BY SMT DEF HostTypeOK, Worker, Ids, IdBooks
<1>2. created \in Nat /\ created' \in Nat
  BY BrowserHostAssumption, SMT DEF HostTypeOK
<1>3. \A s \in Trace \ {t} : workers'[s].id = workers[s].id
  BY SMT DEF Begun
<1>4. \A s \in Trace \ {t} : workers'[s].id <= created'
  BY <1>1, <1>2, <1>3, SMT
<1> QED
  BY <1>4, Zenon DEF IdBooks

\* A turn that begins owns no retained tab but the one it is found by.
LEMMA OwnTabIsFound ==
    ASSUME HostIInv, NEW t \in Trace, Waited(t), NEW j \in Reusable(ConversationOf[t]),
           Owned(t) # {}
    PROVE  j \in Found(t)
<1>1. workers[t].phase # "new"
  BY Zenon DEF HostIInv, ConversationBooks
<1>2. Current(t)
  BY <1>1, SMT DEF Waited, Current
<1> QED
  BY <1>2, Zenon DEF HostIInv, ConversationBooks

\* A turn that is refused may have given up its failed tab.
LEMMA RefuseKeeps ==
    ASSUME HostIInv, HostTypeOK', NEW t \in Trace, Waited(t), Begun(t),
           workers'[t].phase = "idle",
           NEW S \in SUBSET Found(t),
           DOMAIN tabs' = Open \ S, \A j \in Open \ S : tabs'[j] = tabs[j],
           UNCHANGED <<created, cancels, closedOwners, operation, helpers, asleep>>
    PROVE  HostIInv'
<1>1. /\ HostTypeOK /\ TabBooks /\ OperationIsAlone
      /\ \A j \in S : j \in Open /\ tabs[j].trace = t
  BY Zenon DEF HostIInv, Found, Owned
<1>2. TabBooks' /\ OperationIsAlone'
  BY <1>1, Zenon DEF TabBooks, OperationIsAlone, AnyRunning, Open
<1>3. \A s : Owned(s)' \subseteq Owned(s)
  BY SMT DEF Owned, Open
<1>4. \A c : \A j \in Reusable(c)' : j \in Reusable(c) /\ tabs'[j].trace = tabs[j].trace
  BY SMT DEF Reusable, Open
<1>5. ASSUME NEW j \in Reusable(ConversationOf[t])', Owned(t)' # {}
      PROVE  j \in Found(t)'
  <2>1. j \in Reusable(ConversationOf[t]) /\ Owned(t) # {} /\ j \in Open'
    BY <1>3, <1>4, <1>5, Zenon DEF Reusable
  <2>2. j \in Found(t)
    BY <2>1, OwnTabIsFound
  <2>3. tabs'[j].trace = t
    BY <1>4, <2>2, Zenon DEF Found, Owned
  <2>4. \A k \in Owned(t)' : j <= k
    BY <1>3, <2>2, Zenon DEF Found
  <2> QED
    BY <2>1, <2>3, <2>4, Zenon DEF Found, Owned
<1>6. ConversationBooks'
  BY <1>3, <1>4, <1>5, BeginningKeepsConversations
<1>7. \A s \in Trace \ {t} : workers[s].phase \in Active =>
              /\ workers[s].id \in Open' => /\ workers[s].id \in Open
                                            /\ tabs'[workers[s].id] = tabs[workers[s].id]
              /\ Tidy(s) /\ workers[s].id \in Open => workers[s].id \in Open'
  <2> SUFFICES ASSUME NEW s \in Trace \ {t}, workers[s].phase \in Active, workers[s].id \in Open
               PROVE  workers[s].id \notin S
    BY Zenon DEF Open
  <2> QED
    BY <1>1, Zenon DEF HostIInv, LeaseBooks
<1>8. workers'[t].phase \notin Active
  BY SMT DEF Active
<1>9. LeaseBooks' /\ OwnerBooks' /\ AgeBooks'
  BY <1>3, <1>7, <1>8, BeginningKeepsWorkers
<1> QED
  BY <1>2, <1>6, <1>9, Zenon DEF HostIInv

\* What is given up for a new tab is a failed or a retained one.
LEMMA EvictedAreIdle ==
    ASSUME HostIInv, NEW dropped, NEW out \in Evicted(dropped)
    PROVE  \A i \in out : i \in Open /\ ~Running(i)
<1>1. \A i \in Failed : i \in Open /\ tabs[i].status = "error"
  BY Zenon DEF Failed, HostIInv, TabBooks
<1>2. \A i \in Retained : i \in Open /\ tabs[i].status = "ready"
  BY Zenon DEF Retained
<1>3. out = {} \/ \E i \in Failed \cup Retained : out = {i}
  BY ZenonT(20) DEF Evicted
<1> QED
  BY <1>1, <1>2, <1>3, SMT DEF Running

\* A turn opens a new tab, for which an idle one may have to go.
LEMMA CreateKeeps ==
    ASSUME HostIInv, IdBooks, NEW t \in Trace, NEW h \in Helper, Waited(t), ~operation,
           Matches(t) = {}, Create(t, h), UNCHANGED <<helpers, asleep, faults>>
    PROVE  HostIInv' /\ IdBooks'
<1> DEFINE dropped == Found(t) \cap Failed
<1>1. /\ HostTypeOK /\ dropped \in SUBSET Open /\ dropped \in SUBSET Found(t)
      /\ \A i \in dropped : ~Running(i)
  <2>1. dropped \in SUBSET Open /\ \A i \in dropped : tabs[i].status = "error"
    BY Zenon DEF Found, Owned, Failed, HostIInv, TabBooks
  <2> QED
    BY <2>1, SMT DEF HostIInv, Running
<1>2. Nobody \in Helper /\ 0 \in Ids \cup {0}
  BY BrowserHostAssumption, Zenon DEF Nobody
<1>3. CASE Evicted(dropped) = {}
  <2>1. /\ Refuse(t) /\ Discard(dropped, FALSE)
        /\ UNCHANGED <<created, cancels, cancelledOwners, operation>>
    BY <1>3, Zenon DEF Create
  <2>2. Attempt(t, Nobody, 0, "idle", "none")
    BY <2>1, Zenon DEF Refuse
  <2>3. /\ Begun(t) /\ workers'[t].phase = "idle" /\ workers'[t].id = 0
    BY <1>1, <1>2, <2>2, Attempting
  <2> HIDE DEF dropped
  <2>4. /\ DOMAIN tabs' = Open \ dropped /\ \A j \in Open \ dropped : tabs'[j] = tabs[j]
        /\ DOMAIN tabs' \subseteq Ids /\ \A j \in DOMAIN tabs' : tabs'[j] \in Tab
        /\ blocking' \in BOOLEAN /\ closedOwners' = closedOwners
    BY <1>1, <2>1, Discarding, Zenon
  <2>5. HostTypeOK'
    BY <1>1, <2>1, <2>3, <2>4, Zenon DEF HostTypeOK, Begun
  <2>6. HostIInv'
    BY <1>1, <2>1, <2>3, <2>4, <2>5, RefuseKeeps
  <2> QED
    <3>1. workers'[t].id <= created' /\ created <= created'
      BY <1>1, <2>1, <2>3, BrowserHostAssumption, SMT DEF HostTypeOK
    <3> QED
      BY <1>1, <2>3, <2>5, <2>6, <3>1, BegunIds
<1>4. CASE Evicted(dropped) # {}
  <2> DEFINE n == created + 1
  <2>1. PICK out \in Evicted(dropped) :
             /\ created < MaxCreated
             /\ created' = created + 1
             /\ tabs' = [i \in (Open \ (dropped \cup out)) \cup {created'} |->
                            IF i = created' THEN Fresh(t, h) ELSE tabs[i]]
             /\ blocking' = TRUE
             /\ Attempt(t, h, created', "acquiring",
                        IF Owned(t) \ dropped # {} THEN "unmarked" ELSE "none")
             /\ UNCHANGED <<cancels, closedOwners, cancelledOwners, operation>>
    BY <1>4, Zenon DEF Create
  <2> DEFINE gone == dropped \cup out
             excuse == IF Owned(t) \ dropped # {} THEN "unmarked" ELSE "none"
  <2>2. /\ n \in Ids /\ created' \in 0..MaxCreated /\ n > created /\ created \in Nat
    BY <1>1, <2>1, BrowserHostAssumption, SMT DEF HostTypeOK, Ids
  <2>3. \A i \in gone : i \in Open /\ ~Running(i)
    BY <1>1, EvictedAreIdle, Zenon
  <2>4. Attempt(t, h, n, "acquiring", excuse) /\ excuse \in {"none", "lost", "unmarked"}
    BY <2>1, Zenon
  <2>5. /\ Begun(t) /\ workers'[t].phase = "acquiring" /\ workers'[t].id = n
        /\ workers'[t].helper = h /\ workers'[t].excuse = excuse
    <3> HIDE DEF n, excuse
    <3> QED
      BY <1>1, <2>2, <2>4, Attempting
  <2>6. \A i \in Open : i # n
    BY <2>2, SMT DEF HostIInv, TabBooks
  <2>7. /\ Open' = (Open \ gone) \cup {n} /\ DOMAIN tabs' = (Open \ gone) \cup {n}
        /\ tabs'[n] = Fresh(t, h) /\ \A j \in Open \ gone : tabs'[j] = tabs[j]
    <3> HIDE DEF gone
    <3>1. tabs' = [i \in (Open \ gone) \cup {n} |-> IF i = n THEN Fresh(t, h) ELSE tabs[i]]
      BY <2>1, Zenon DEF gone
    <3> HIDE DEF n
    <3> QED
      BY <2>6, <3>1, Zenon DEF Open
  <2>8. /\ Fresh(t, h) \in Tab
        /\ Fresh(t, h).trace = t /\ Fresh(t, h).helper = h /\ Fresh(t, h).status = "running"
        /\ ~Fresh(t, h).failed /\ ~Fresh(t, h).aged /\ ~Fresh(t, h).loaded
        /\ Fresh(t, h).initializing
    BY SMT DEF Fresh, Tab
  <2> HIDE DEF dropped, gone, n
  <2>9. DOMAIN tabs' \subseteq Ids /\ \A j \in DOMAIN tabs' : tabs'[j] \in Tab
    BY <1>1, <2>2, <2>7, <2>8, TabsAreTyped, Zenon DEF HostTypeOK, Open
  <2>10. HostTypeOK'
    BY <1>1, <2>1, <2>2, <2>5, <2>9, Zenon DEF HostTypeOK, Begun
  <2>11. TabBooks'
    <3>1. \A i \in Open : i <= created'
      BY <2>1, <2>2, SMT DEF HostIInv, TabBooks, HostTypeOK, Ids, Open
    <3>2. \A c \in cancels : c.id <= created'
      BY <2>1, <2>2, SMT DEF HostIInv, TabBooks, HostTypeOK, Ids, Cancel
    <3>3. n <= created'
      BY <2>1, <2>2, SMT DEF n
    <3>4. \A i \in Open : /\ tabs[i].failed => tabs[i].status = "error"
                          /\ tabs[i].initializing => ~tabs[i].loaded
      BY Zenon DEF HostIInv, TabBooks
    <3> QED
      BY <2>1, <2>7, <2>8, <3>1, <3>2, <3>3, <3>4, Zenon DEF TabBooks
  <2>12. OperationIsAlone'
    BY <2>1, Zenon DEF OperationIsAlone
  <2>13. \A s \in Trace \ {t} : Owned(s)' \subseteq Owned(s)
    BY <2>7, <2>8, SMT DEF Owned
  <2>14. \A c : \A j \in Reusable(c)' : j \in Reusable(c) /\ tabs'[j].trace = tabs[j].trace
    BY <2>7, <2>8, SMT DEF Reusable
  <2>15. Reusable(ConversationOf[t]) = {}
    <3> SUFFICES ASSUME NEW j \in Reusable(ConversationOf[t])
                 PROVE  FALSE
      BY Zenon
    <3>1. PICK k \in Found(t) : tabs[k].failed
      BY Zenon DEF Matches
    <3>2. k \in Open /\ Owned(t) # {}
      BY Zenon DEF Found, Owned
    <3>3. tabs[k].status = "error"
      BY <3>1, <3>2, Zenon DEF HostIInv, TabBooks
    <3>4. j \in Found(t) /\ tabs[j].status = "ready"
      BY <3>2, OwnTabIsFound, Zenon DEF Reusable
    <3>5. j = k
      BY <1>1, <3>4, OneIsFound
    <3> QED
      BY <3>3, <3>4, <3>5, SMT
  <2>16. ConversationBooks'
    BY <2>5, <2>13, <2>14, <2>15, BeginningKeepsConversations
  <2>17. \A s \in Trace \ {t} : workers[s].phase \in Active =>
              /\ workers[s].id \in Open' => /\ workers[s].id \in Open
                                            /\ tabs'[workers[s].id] = tabs[workers[s].id]
              /\ Tidy(s) /\ workers[s].id \in Open => workers[s].id \in Open'
    <3>1. \A s \in Trace : workers[s].id # n
      <4> SUFFICES ASSUME NEW s \in Trace
                   PROVE  workers[s].id # n
        OBVIOUS
      <4>1. workers[s].id <= created
        BY Zenon DEF IdBooks
      <4> QED
        BY <2>2, <4>1, SMT DEF n
    <3>2. \A s \in Trace : Tidy(s) /\ workers[s].id \in Open => workers[s].id \notin gone
      BY <2>3, Zenon DEF HostIInv, OwnerBooks
    <3> QED
      BY <2>7, <3>1, <3>2, Zenon
  <2>18. /\ workers'[t].phase # "ending"
         /\ workers'[t].id \in Open'
         /\ tabs'[workers'[t].id].trace = t
         /\ tabs'[workers'[t].id].helper = workers'[t].helper
         /\ tabs'[workers'[t].id].status = "running"
         /\ ~tabs'[workers'[t].id].aged
         /\ workers'[t].phase = "acquiring" => tabs'[workers'[t].id].initializing
         /\ workers'[t].excuse # "unmarked" => Owned(t)' \subseteq {workers'[t].id}
         /\ workers'[t].excuse = "none" => ~BeingClosed(workers'[t].id)
    <3>1. workers'[t].phase # "ending"
      BY <2>5, SMT
    <3>2. excuse # "unmarked" => Owned(t)' \subseteq {n}
      <4>1. excuse # "unmarked" => Owned(t) \subseteq gone
        BY Zenon DEF gone
      <4>2. Owned(t)' \subseteq (Owned(t) \ gone) \cup {n}
        BY <2>7, SMT DEF Owned
      <4> HIDE DEF excuse
      <4> QED
        BY <4>1, <4>2, Zenon
    <3>3. ~BeingClosed(n)
      <4>1. \A c \in cancels : c.id <= created
        BY Zenon DEF HostIInv, TabBooks
      <4>2. \A c \in cancels : c.id # n
        BY <2>2, <4>1, SMT DEF n, HostTypeOK, Cancel, Ids
      <4> QED
        BY <4>2, Zenon DEF BeingClosed
    <3> HIDE DEF excuse
    <3> QED
      BY <2>5, <2>7, <2>8, <3>1, <3>2, <3>3, Zenon
  <2>19. UNCHANGED <<cancels, closedOwners, helpers, asleep>>
    BY <2>1
  <2>20. LeaseBooks' /\ OwnerBooks' /\ AgeBooks'
    BY <2>5, <2>10, <2>13, <2>17, <2>18, <2>19, BeginningKeepsWorkers
  <2>21. HostIInv'
    BY <2>10, <2>11, <2>12, <2>16, <2>20, Zenon DEF HostIInv
  <2>22. IdBooks'
    <3>1. workers'[t].id <= created' /\ created <= created'
      BY <2>1, <2>2, <2>5, SMT DEF n, Ids
    <3> QED
      BY <1>1, <2>5, <2>10, <3>1, BegunIds
  <2> QED
    BY <2>21, <2>22
<1> QED
  BY <1>3, <1>4

\* A turn starts: it is refused, takes up a tab, or opens one.
LEMMA StartKeeps ==
    ASSUME HostIInv, IdBooks, NEW t \in Trace, NEW h \in Helper, NEW require \in BOOLEAN,
           Start(t, h, require)
    PROVE  HostIInv' /\ IdBooks'
<1>1. Waited(t) /\ UNCHANGED <<helpers, asleep, faults>> /\ HostTypeOK
  BY Zenon DEF Start, Waited, HostIInv
<1>2. CASE Refuse(t) /\ UNCHANGED <<tabs, hostOnly>>
  <2>1. Nobody \in Helper /\ 0 \in Ids \cup {0}
    BY BrowserHostAssumption, Zenon DEF Nobody
  <2>2. /\ Begun(t) /\ workers'[t].phase = "idle" /\ workers'[t].id = 0
    BY <1>1, <1>2, <2>1, Attempting DEF Refuse
  <2>3. UNCHANGED <<created, cancels, closedOwners, cancelledOwners, blocking, operation>>
    BY <1>2, Zenon DEF hostOnly
  <2>4. HostTypeOK'
    BY <1>1, <1>2, <2>2, <2>3, Zenon DEF HostTypeOK, Begun
  <2>5. /\ {} \in SUBSET Found(t) /\ DOMAIN tabs' = Open \ {}
        /\ \A j \in Open \ {} : tabs'[j] = tabs[j]
    BY <1>2, SMT DEF Open
  <2>6. HostIInv'
    BY <1>1, <2>2, <2>3, <2>4, <2>5, RefuseKeeps
  <2>7. workers'[t].id <= created' /\ created <= created'
    BY <1>1, <2>2, <2>3, BrowserHostAssumption, SMT DEF HostTypeOK
  <2> QED
    BY <1>1, <2>2, <2>4, <2>6, <2>7, BegunIds
<1>3. ASSUME NEW i \in Open, (i \in Found(t) /\ Running(i)) \/ i \in Matches(t),
             Lease(t, h, i), ~operation
      PROVE  HostIInv' /\ IdBooks'
  <2>1. HostIInv'
    BY <1>1, <1>3, LeaseKeeps
  <2>2. i \in Ids \cup {0} /\ i <= created /\ created' = created
    BY <1>1, <1>3, Zenon DEF HostTypeOK, Open, HostIInv, TabBooks, Lease, hostOnly
  <2>3. PICK excuse \in {"none", "lost", "unmarked"} : Attempt(t, h, i, "running", excuse)
    BY <1>3, Zenon DEF Lease
  <2>4. Begun(t) /\ workers'[t].id = i
    BY <1>1, <2>2, <2>3, Attempting
  <2>5. workers'[t].id <= created' /\ created <= created'
    BY <1>1, <2>2, <2>4, BrowserHostAssumption, SMT DEF HostTypeOK
  <2>6. HostTypeOK'
    BY <2>1 DEF HostIInv
  <2> QED
    BY <1>1, <2>1, <2>4, <2>5, <2>6, BegunIds
<1>4. CASE ~StartRefused(t, h, require)
  <2>1. ~operation
    BY <1>4, Zenon DEF StartRefused
  <2>2. CASE \E i \in Found(t) : Running(i)
    <3>1. PICK i \in Found(t) : Lease(t, h, i)
      BY <1>4, <2>2, Zenon DEF Start
    <3>2. i \in Open /\ Running(i)
      <4>1. PICK k \in Found(t) : Running(k)
        BY <2>2
      <4>2. k = i
        BY <1>1, OneIsFound
      <4> QED
        BY <4>1, <4>2, Zenon DEF Found, Owned
    <3> QED
      BY <1>3, <2>1, <3>1, <3>2
  <2>3. CASE ~(\E i \in Found(t) : Running(i)) /\ Matches(t) # {}
    <3>1. PICK i \in Matches(t) : Lease(t, h, i)
      BY <1>4, <2>3, Zenon DEF Start
    <3>2. i \in Open
      BY Zenon DEF Matches, Reusable
    <3> QED
      BY <1>3, <2>1, <3>1, <3>2
  <2>4. CASE ~(\E i \in Found(t) : Running(i)) /\ Matches(t) = {}
    <3>1. Create(t, h)
      BY <1>4, <2>4, Zenon DEF Start
    <3> QED
      BY <1>1, <2>1, <2>4, <3>1, CreateKeeps
  <2> QED
    BY <2>2, <2>3, <2>4
<1>5. CASE StartRefused(t, h, require)
  BY <1>2, <1>5, Zenon DEF Start
<1> QED
  BY <1>4, <1>5

\* A worker that lets go of its tab, or keeps its tab, holds no other id.
LEMMA IdsStay ==
    ASSUME HostTypeOK, IdBooks, created' = created,
           \A s \in Trace : workers'[s].id \in {workers[s].id, 0}
    PROVE  IdBooks'
<1>1. \A s \in Trace : workers[s].id <= created
  BY Zenon DEF IdBooks
<1>2. 0 <= created
  BY BrowserHostAssumption, SMT DEF HostTypeOK
<1> QED
  BY <1>1, <1>2, Zenon DEF IdBooks

\* A worker that lets go, one whose phase changes, and the workers of a tab that is lost.
LEMMA OverIds ==
    ASSUME HostTypeOK, IdBooks, created' = created, NEW t \in Trace, Over(t)
    PROVE  IdBooks'
<1>1. workers'[t] = Resting /\ \A s \in Trace \ {t} : workers'[s] = workers[s]
  BY Zenon DEF Over, HostTypeOK
<1>2. \A s \in Trace : workers'[s].id \in {workers[s].id, 0}
  BY <1>1, RestingIsAWorker, Zenon
<1> QED
  BY <1>2, IdsStay

LEMMA PhaseIds ==
    ASSUME HostTypeOK, IdBooks, created' = created, NEW t \in Trace,
           NEW w \in Worker, w.id = workers[t].id, workers' = [workers EXCEPT ![t] = w]
    PROVE  IdBooks'
<1>1. workers'[t] = w /\ \A s \in Trace \ {t} : workers'[s] = workers[s]
  BY OneWorkerChanges, Zenon
<1>2. \A s \in Trace : workers'[s].id \in {workers[s].id, 0}
  BY <1>1, Zenon
<1> QED
  BY <1>2, IdsStay

LEMMA ExcuseIds ==
    ASSUME HostTypeOK, IdBooks, created' = created, NEW i, NEW why \in {"lost", "unmarked"},
           Excuse(i, why)
    PROVE  IdBooks'
<1>1. \A s \in Trace : workers'[s].id = workers[s].id
  BY Excusing, Zenon
<1>2. \A s \in Trace : workers'[s].id \in {workers[s].id, 0}
  BY <1>1, Zenon
<1> QED
  BY <1>2, IdsStay

-----------------------------------------------------------------------------
(* The registry in every reachable state *)

\* At the start there is no tab, and every worker is new.
LEMMA HostStarts == HostInit => HostIInv /\ IdBooks
<1> SUFFICES ASSUME HostInit PROVE HostIInv /\ IdBooks
  OBVIOUS
<1>1. /\ tabs = << >> /\ created = 0 /\ cancels = {} /\ closedOwners = << >>
      /\ cancelledOwners = << >> /\ blocking = FALSE /\ operation = FALSE
      /\ workers = [t \in Trace |-> New] /\ helpers = [h \in Helper |-> "well"]
      /\ asleep = FALSE /\ faults = 0
  BY DEF HostInit
<1>2. Open = {} /\ DOMAIN closedOwners = {}
  BY <1>1, SMT DEF Open
<1>3. \A t \in Trace : workers[t] = New /\ workers[t].phase = "new" /\ workers[t].id = 0
  BY <1>1, SMT DEF New, Resting
<1>4. HostTypeOK
  <2>1. /\ created \in 0..MaxCreated /\ faults \in 0..MaxFaults
        /\ cancelledOwners \in Seq(Trace) /\ Len(cancelledOwners) <= MaxCancelled
    BY <1>1, BrowserHostAssumption, SMT
  <2>2. workers \in [Trace -> Worker]
    BY <1>1, RestingIsAWorker, Zenon
  <2>3. helpers \in [Helper -> {"well", "stuck", "dead"}]
    BY <1>1, Zenon
  <2> QED
    BY <1>1, <1>2, <2>1, <2>2, <2>3, Zenon DEF HostTypeOK, Open
<1>5. \A t \in Trace : /\ workers[t].phase \notin Active /\ ~Tidy(t) /\ ~Current(t) /\ ~Live(t)
                       /\ Owned(t) = {}
  BY <1>2, <1>3, SMT DEF Active, Tidy, Current, Live, Owned
<1>6. TabBooks /\ OperationIsAlone
  BY <1>1, <1>2, Zenon DEF TabBooks, OperationIsAlone
<1>7. LeaseBooks /\ OwnerBooks /\ AgeBooks
  BY <1>5, Zenon DEF LeaseBooks, OwnerBooks, AgeBooks
<1>8. ConversationBooks
  BY <1>2, <1>5, Zenon DEF ConversationBooks, Reusable
<1>9. IdBooks
  BY <1>1, <1>3, SMT DEF IdBooks
<1> QED
  BY <1>4, <1>6, <1>7, <1>8, <1>9 DEF HostIInv

\* Only a tab that is created has a new id.
LEMMA IdsKeep ==
    ASSUME HostIInv, IdBooks, HostNext,
           ~\E t \in Trace, h \in Helper, require \in BOOLEAN : Start(t, h, require)
    PROVE  IdBooks'
<1>1. HostTypeOK
  BY DEF HostIInv
<1>2. CASE workers' = workers /\ created' = created
  BY <1>1, <1>2, IdsStay
<1>3. CASE \E t \in Trace : created' = created /\ Over(t)
  BY <1>1, <1>3, OverIds
<1>4. CASE \E i, why \in {"lost", "unmarked"} : created' = created /\ Excuse(i, why)
  BY <1>1, <1>4, ExcuseIds
<1>5. ASSUME NEW t \in Trace, created' = created,
             NEW p \in {"running", "ending"}, NEW s \in Statuses,
             \/ workers' = [workers EXCEPT ![t] = [workers[t] EXCEPT !.phase = p]]
             \/ workers' = [workers EXCEPT ![t] = [[workers[t] EXCEPT !.phase = p] EXCEPT !.status = s]]
      PROVE  IdBooks'
  <2> DEFINE w1 == [workers[t] EXCEPT !.phase = p]
             w2 == [w1 EXCEPT !.status = s]
  <2>1. w1 \in Worker /\ workers[t] \in Worker
    BY <1>1, WorkersAreTyped, WorkersAreRecords, Zenon
  <2>2. w2 \in Worker
    BY <2>1, WorkersAreRecords, Zenon
  <2>3. w1.id = workers[t].id
    BY <2>1, Zenon DEF Worker
  <2>4. w2.id = w1.id
    BY <2>1, Zenon DEF Worker
  <2>5. workers' = [workers EXCEPT ![t] = w1] \/ workers' = [workers EXCEPT ![t] = w2]
    BY <1>5
  <2> HIDE DEF w1, w2
  <2> QED
    BY <1>1, <1>5, <2>1, <2>2, <2>3, <2>4, <2>5, PhaseIds, Zenon
<1>6. ASSUME NEW t \in Trace, Initialized(t)
      PROVE  IdBooks'
  <2>1. created' = created
    BY <1>6, Zenon DEF Initialized, hostOnly
  <2>2. CASE workers' = [workers EXCEPT ![t].phase = "running"]
    <3>1. "running" \in {"running", "ending"} /\ "completed" \in Statuses
      BY SMT DEF Statuses
    <3>2. workers' = [workers EXCEPT ![t] = [workers[t] EXCEPT !.phase = "running"]]
      BY <2>2, SMT
    <3> QED
      BY <1>5, <2>1, <3>1, <3>2, Zenon
  <2>3. CASE Over(t)
    BY <1>3, <2>1, <2>3
  <2> QED
    BY <1>6, <2>2, <2>3, Zenon DEF Initialized
<1>7. ASSUME NEW t \in Trace, NEW status \in Statuses, Finish(t, status)
      PROVE  IdBooks'
  <2>1. created' = created /\ "ending" \in {"running", "ending"}
    BY <1>7, Zenon DEF Finish, hostOnly
  <2>2. workers' = [workers EXCEPT ![t] = [[workers[t] EXCEPT !.phase = "ending"] EXCEPT !.status = status]]
    BY <1>7, Zenon DEF Finish
  <2> QED
    BY <1>5, <2>1, <2>2, Zenon
<1>8. ASSUME NEW c \in cancels, CancelReaches(c)
      PROVE  IdBooks'
  <2>1. created' = created /\ "ending" \in {"running", "ending"} /\ "aborted" \in Statuses
    BY <1>8, Zenon DEF CancelReaches, hostOnly, Statuses
  <2>2. workers' = [workers EXCEPT ![c.trace] =
                       [[workers[c.trace] EXCEPT !.phase = "ending"] EXCEPT !.status = "aborted"]]
    BY <1>8, Zenon DEF CancelReaches
  <2>3. c.trace \in Trace
    BY <1>1, SMT DEF HostTypeOK, Cancel
  <2> QED
    BY <1>5, <2>1, <2>2, <2>3, Zenon
<1>9. ASSUME NEW t \in Trace, InitializationFails(t) \/ End(t) \/ EndIsLost(t)
      PROVE  IdBooks'
  BY <1>3, <1>9, Zenon DEF InitializationFails, End, EndIsLost, hostOnly
<1>10. ASSUME NEW i \in Ids, MarkFails(i) \/ PageLost(i) \/ CloseTab(i)
       PROVE  IdBooks'
  <2>1. created' = created /\ (Excuse(i, "unmarked") \/ Excuse(i, "lost"))
    BY <1>10, Zenon DEF MarkFails, PageLost, CloseTab
  <2> QED
    BY <1>1, <2>1, ExcuseIds, Zenon
<1>11. ASSUME NEW h \in Helper, HelperExits(h)
       PROVE  IdBooks'
  <2>1. created' = created
    BY <1>11, Zenon DEF HelperExits, hostOnly
  <2>2. \A t \in Trace : workers'[t].id \in {workers[t].id, 0}
    BY <1>1, <1>11, HelperLeaves, Zenon
  <2> QED
    BY <1>1, <2>1, <2>2, IdsStay
<1>12. ASSUME NEW i \in Ids, Bootstrapped(i) \/ SignInRequired(i) \/ Age(i)
       PROVE  IdBooks'
  BY <1>2, <1>12, Zenon DEF Bootstrapped, SignInRequired, Age, hostOnly
<1>13. CASE Sleep \/ SystemResume \/ Sweep \/ BeginOperation \/ EndOperation \/ ClearTabs
  BY <1>2, <1>13, Zenon DEF Sleep, SystemResume, Sweep, BeginOperation, EndOperation, ClearTabs,
     hostOnly
<1>14. ASSUME NEW c, Cancelled(c) \/ CancelFails(c) \/ ReleaseRetained(c)
       PROVE  IdBooks'
  BY <1>2, <1>14, Zenon DEF Cancelled, CancelFails, ReleaseRetained
<1>15. ASSUME NEW t \in Trace, Heartbeat(t)
       PROVE  IdBooks'
  BY <1>2, <1>15, Zenon DEF Heartbeat, hostOnly
<1>16. ASSUME NEW h \in Helper, HelperSticks(h)
       PROVE  IdBooks'
  BY <1>2, <1>16, Zenon DEF HelperSticks, hostOnly
<1> QED
  BY <1>6, <1>7, <1>8, <1>9, <1>10, <1>11, <1>12, <1>13, <1>14, <1>15, <1>16, Zenon DEF HostNext

\* Every step of the host, its workers and its helpers keeps the registry.
LEMMA HostSteps == HostIInv /\ IdBooks /\ [HostNext]_hostVars => (HostIInv /\ IdBooks)'
<1> SUFFICES ASSUME HostIInv, IdBooks, [HostNext]_hostVars
             PROVE  (HostIInv /\ IdBooks)'
  OBVIOUS
<1>1. ASSUME NEW t \in Trace, NEW h \in Helper, NEW require \in BOOLEAN, Start(t, h, require)
      PROVE  (HostIInv /\ IdBooks)'
  BY <1>1, StartKeeps
<1>2. ASSUME NEW t \in Trace,
             \/ Initialized(t) \/ InitializationFails(t) \/ Heartbeat(t)
             \/ \E status \in Statuses : Finish(t, status)
             \/ End(t) \/ EndIsLost(t)
      PROVE  HostIInv'
  BY <1>2, InitializedKeeps, InitializationFailsKeeps, HeartbeatKeeps, FinishKeeps, EndKeeps,
     EndIsLostKeeps, Zenon
<1>3. ASSUME NEW i \in Ids, \/ Bootstrapped(i) \/ MarkFails(i) \/ SignInRequired(i)
                            \/ PageLost(i) \/ Age(i) \/ CloseTab(i)
      PROVE  HostIInv'
  BY <1>3, BootstrappedKeeps, MarkFailsKeeps, SignInRequiredKeeps, PageLostKeeps, AgeKeeps,
     CloseTabKeeps, Zenon
<1>4. ASSUME Sleep \/ SystemResume \/ Sweep \/ BeginOperation \/ EndOperation \/ ClearTabs
      PROVE  HostIInv'
  <2>1. CASE Sleep
    BY <2>1, SleepKeeps
  <2>2. CASE SystemResume
    BY <2>2, SystemResumeKeeps
  <2>3. CASE Sweep
    BY <2>3, SweepKeeps
  <2>4. CASE BeginOperation
    BY <2>4, BeginOperationKeeps
  <2>5. CASE EndOperation
    BY <2>5, EndOperationKeeps
  <2>6. CASE ClearTabs
    BY <2>6, ClearTabsKeeps
  <2> QED
    BY <1>4, <2>1, <2>2, <2>3, <2>4, <2>5, <2>6
<1>5. ASSUME NEW c \in cancels, CancelReaches(c) \/ Cancelled(c) \/ CancelFails(c)
      PROVE  HostIInv'
  BY <1>5, CancelReachesKeeps, CancelledKeeps, CancelFailsKeeps, Zenon
<1>6. ASSUME NEW c \in Conversation, ReleaseRetained(c)
      PROVE  HostIInv'
  BY <1>6, ReleaseRetainedKeeps
<1>7. ASSUME NEW h \in Helper, HelperSticks(h) \/ HelperExits(h)
      PROVE  HostIInv'
  BY <1>7, HelperSticksKeeps, HelperExitsKeeps, Zenon
<1>8. CASE UNCHANGED hostVars
  <2> USE <1>8
  <2>1. HostTypeOK' /\ IdBooks'
    BY Zenon DEF HostIInv, HostTypeOK, IdBooks, hostVars
  <2>2. TabBooks' /\ OperationIsAlone'
    BY Zenon DEF HostIInv, TabBooks, OperationIsAlone, hostVars, Open
  <2>3. LeaseBooks' /\ OwnerBooks'
    BY Zenon DEF HostIInv, LeaseBooks, OwnerBooks, Tidy, Owned, Running, BeingClosed, hostVars, Open
  <2>4. ConversationBooks'
    <3>1. /\ HostTypeOK /\ ConversationBooks /\ DOMAIN tabs' \subseteq Open
          /\ \A i \in DOMAIN tabs' : /\ tabs'[i].trace = tabs[i].trace
                                     /\ tabs'[i].status = "ready" => tabs[i].status = "ready"
          /\ \A t \in Trace : /\ workers'[t].phase = "new" => workers[t].phase = "new"
                              /\ workers'[t].phase \notin {"new", "past"} => Current(t)
      BY Zenon DEF HostIInv, Current, hostVars, Open
    <3> QED
      BY <3>1, ConversationsKeep
  <2>5. AgeBooks'
    BY Zenon DEF HostIInv, AgeBooks, Live, hostVars, Open
  <2> QED
    BY <2>1, <2>2, <2>3, <2>4, <2>5 DEF HostIInv
<1>9. CASE \E t \in Trace, h \in Helper, require \in BOOLEAN : Start(t, h, require)
  BY <1>1, <1>9
<1>10. CASE HostNext /\ ~\E t \in Trace, h \in Helper, require \in BOOLEAN : Start(t, h, require)
  <2>1. IdBooks'
    BY <1>10, IdsKeep
  <2>2. HostIInv'
    BY <1>2, <1>3, <1>4, <1>5, <1>6, <1>7, <1>10, Zenon DEF HostNext
  <2> QED
    BY <2>1, <2>2
<1> QED
  BY <1>8, <1>9, <1>10

\* What the worker and the user see: an end is never refused as foreign, and one tab at
\* most can be resumed.
LEMMA HostIsSound == HostIInv => HostInv
<1> SUFFICES ASSUME HostIInv PROVE HostInv
  OBVIOUS
<1>1. OneTabPerConversation
  <2> SUFFICES ASSUME NEW c \in Conversation
               PROVE  Cardinality(Reusable(c)) <= 1
    BY DEF OneTabPerConversation
  <2>1. \A i, j \in Reusable(c) : i = j
    BY Zenon DEF HostIInv, ConversationBooks
  <2>2. CASE Reusable(c) = {}
    BY <2>2, FS_EmptySet, SMT
  <2>3. CASE Reusable(c) # {}
    <3>1. PICK i : Reusable(c) = {i}
      BY <2>1, <2>3, Zenon
    <3>2. Cardinality({i}) = 1
      BY FS_Singleton
    <3> QED
      BY <3>1, <3>2, SMT
  <2> QED
    BY <2>2, <2>3
<1>2. OwnerCanEnd
  <2> SUFFICES ASSUME NEW t \in Trace, workers[t].phase \in {"running", "ending", "orphan"},
                      workers[t].excuse # "unmarked",
                      ~(t \in DOMAIN closedOwners /\ closedOwners[t] = workers[t].helper)
               PROVE  \E i \in Found(t) : tabs[i].helper = workers[t].helper
    BY Zenon DEF OwnerCanEnd
  <2>1. Tidy(t)
    BY SMT DEF Tidy, Active
  <2>2. Owned(t) \subseteq {workers[t].id} /\ workers[t].id \in Open
    BY <2>1, Zenon DEF HostIInv, OwnerBooks
  <2>3. tabs[workers[t].id].trace = t /\ tabs[workers[t].id].helper = workers[t].helper
    BY <2>1, <2>2, Zenon DEF HostIInv, LeaseBooks, Tidy
  <2>4. workers[t].id <= workers[t].id
    BY <2>2, SMT DEF HostIInv, HostTypeOK, Open, Ids
  <2>5. workers[t].id \in Found(t)
    BY <2>2, <2>3, <2>4, Zenon DEF Found, Owned
  <2> QED
    BY <2>3, <2>5, Zenon
<1> QED
  BY <1>1, <1>2 DEF HostInv, HostIInv

\* The only cancellations for expiry are those of a sweep that did not follow a sleep.
LEMMA OnlySweepExpires ==
    ASSUME HostNext, NEW c \in cancels' \ cancels
    PROVE  \/ c.why = "close"
           \/ ~asleep /\ c.id \in Open /\ tabs[c.id].aged
<1>1. ASSUME NEW i \in Ids, CloseTab(i)
      PROVE  c.why = "close"
  <2>1. c = [why |-> "close", id |-> i, trace |-> tabs[i].trace, helper |-> tabs[i].helper]
    BY <1>1, Zenon DEF CloseTab
  <2> QED
    BY <2>1, SMT
<1>2. CASE Sweep
  <2>1. ~asleep
    BY <1>2, Zenon DEF Sweep, hostOnly
  <2>2. PICK i \in Open : /\ Expiring(i)
                          /\ c = [why |-> "expire", id |-> i, trace |-> tabs[i].trace,
                                  helper |-> tabs[i].helper]
    BY <1>2, <2>1, SMT DEF Sweep
  <2>3. c.id = i
    BY <2>2, SMT
  <2> QED
    BY <2>1, <2>2, <2>3, Zenon DEF Expiring
<1>3. ASSUME NEW t \in Trace,
             \/ \E h \in Helper, require \in BOOLEAN : Start(t, h, require)
             \/ Initialized(t) \/ InitializationFails(t) \/ Heartbeat(t)
             \/ \E status \in Statuses : Finish(t, status)
             \/ End(t) \/ EndIsLost(t)
      PROVE  FALSE
  <2>1. ASSUME NEW h \in Helper, NEW require \in BOOLEAN, Start(t, h, require)
        PROVE  FALSE
    BY <2>1, ZenonT(20) DEF Start, Lease, Create, hostOnly
  <2> QED
    BY <1>3, <2>1, Zenon DEF Initialized, InitializationFails, Heartbeat, Finish, End, EndIsLost,
       hostOnly
<1>4. ASSUME NEW i \in Ids, \/ Bootstrapped(i) \/ MarkFails(i) \/ SignInRequired(i)
                            \/ PageLost(i) \/ Age(i)
      PROVE  FALSE
  BY <1>4, Zenon DEF Bootstrapped, MarkFails, SignInRequired, PageLost, Age, hostOnly
<1>5. CASE Sleep \/ SystemResume \/ BeginOperation \/ EndOperation \/ ClearTabs
  BY <1>5, Zenon DEF Sleep, SystemResume, BeginOperation, EndOperation, ClearTabs, hostOnly
<1>6. ASSUME NEW d, CancelReaches(d) \/ Cancelled(d) \/ CancelFails(d) \/ ReleaseRetained(d)
                    \/ HelperSticks(d) \/ HelperExits(d)
      PROVE  FALSE
  BY <1>6, Zenon DEF CancelReaches, Cancelled, CancelFails, ReleaseRetained, HelperSticks,
     HelperExits, hostOnly
<1> QED
  BY <1>1, <1>2, <1>3, <1>4, <1>5, <1>6, Zenon DEF HostNext

\* A turn that is worked on has its tab after every step, and none of its leases expires.
LEMMA LiveTurnsAreKept ==
    ASSUME HostIInv, HostIInv', [HostNext]_hostVars, NEW t \in Trace, Live(t)
    PROVE  /\ Live(t)' => Kept(t)'
           /\ tabs[workers[t].id].loaded => ~Expires(t)
<1>2. Live(t)' => Kept(t)'
  <2> SUFFICES ASSUME Live(t)' PROVE Kept(t)'
    OBVIOUS
  <2>1. Tidy(t)' /\ workers'[t].phase = "running" /\ workers'[t].excuse = "none"
    BY SMT DEF Tidy, Live, Active
  <2>2. workers'[t].id \in Open' /\ workers'[t].phase \in Active
    BY <2>1, Zenon DEF HostIInv, OwnerBooks, Tidy
  <2>3. tabs'[workers'[t].id].trace = t /\ tabs'[workers'[t].id].helper = workers'[t].helper
    BY <2>2, Zenon DEF HostIInv, LeaseBooks
  <2> QED
    BY <2>2, <2>3, Zenon DEF Kept
<1>3. ASSUME tabs[workers[t].id].loaded, Expires(t) PROVE FALSE
  <2>1. PICK c \in cancels' \ cancels : c.why = "expire" /\ c.id = workers[t].id
    BY <1>3, Zenon DEF Expires
  <2>2. HostNext
    BY Zenon DEF hostVars
  <2>3. ~asleep /\ c.id \in Open /\ tabs[c.id].aged
    BY <2>1, <2>2, OnlySweepExpires, SMT
  <2> QED
    BY <1>3, <2>1, <2>3, Zenon DEF HostIInv, AgeBooks
<1> QED
  BY <1>2, <1>3

\* The registry of tabs is sound in every reachable state.
THEOREM HostCorrect == HostSpec => []HostInv
<1>1. HostInit => HostIInv /\ IdBooks
  BY HostStarts
<1>2. HostIInv /\ IdBooks /\ [HostNext]_hostVars => (HostIInv /\ IdBooks)'
  BY HostSteps
<1>3. HostIInv => HostInv
  BY HostIsSound
<1> QED
  BY <1>1, <1>2, <1>3, PTL DEF HostSpec

\* A turn that is still being worked on keeps its document, and its lease does not expire.
THEOREM LiveTurns == HostSpec => LiveTurnKeepsItsTab
<1>1. HostInit => HostIInv /\ IdBooks
  BY HostStarts
<1>2. HostIInv /\ IdBooks /\ [HostNext]_hostVars => (HostIInv /\ IdBooks)'
  BY HostSteps
<1>3. HostIInv /\ HostIInv' /\ [HostNext]_hostVars =>
        [\A t \in Trace : Live(t) => /\ Live(t)' => Kept(t)'
                                     /\ tabs[workers[t].id].loaded => ~Expires(t)]_hostVars
  BY LiveTurnsAreKept
<1> QED
  BY <1>1, <1>2, <1>3, PTL DEF HostSpec, LiveTurnKeepsItsTab

-----------------------------------------------------------------------------
(* SignIn: what the Launcher says of the account *)

\* The partition changes only under an operation that answers for it.
ImportBooks == import = "mutated" => browserOp \in {"verify", "reset", "cleanup", "retry"}

\* The partition holds no session, and the Launcher has been told so.
Told == ~session /\ "removed" \notin cookies /\ ~missed

\* A reading that still says otherwise is out of date, and a claim that still says
\* otherwise is being read again.
ReadBooks ==
    Told =>
      /\ probe.phase = "read" /\ probe.result => probe.stale
      /\ ~reauthenticate /\ refresh.phase = "read" /\ refresh.result => refresh.stale
      /\ authenticated => /\ refresh.phase # "none"
                          /\ refresh.phase = "probing" /\ ~refresh.stale
                             => probe.phase # "none" /\ ~probe.stale

SignInIInv ==
    SignInTypeOK /\ ImportBooks /\ ReadBooks /\ (reauthenticate => ~authenticated)

ReadPhases == {"none", "begin", "await", "probing", "reading", "read"}

\* Changing a field within its set, for any sets; Read is the case of ReadPhases and BOOLEAN.
LEMMA ReadingChanges ==
    ASSUME NEW P, NEW B, NEW r \in [phase : P, result : B, stale : B], NEW ph \in P, NEW b \in B
    PROVE  /\ [r EXCEPT !.phase = ph] \in [phase : P, result : B, stale : B]
           /\ [r EXCEPT !.stale = b] \in [phase : P, result : B, stale : B]
           /\ [r EXCEPT !.phase = ph, !.result = b] \in [phase : P, result : B, stale : B]
           /\ r.result \in B
<1>1. [r EXCEPT !.phase = ph] \in [phase : P, result : B, stale : B]
  BY SMTT(10)
<1>2. [r EXCEPT !.stale = b] \in [phase : P, result : B, stale : B]
  BY SMTT(10)
<1>3. [r EXCEPT !.phase = ph, !.result = b] \in [phase : P, result : B, stale : B]
  BY Zenon
<1>4. r.result \in B
  BY SMTT(10)
<1> QED
  BY <1>1, <1>2, <1>3, <1>4

LEMMA ReadingsAreRead ==
    /\ Idle \in Read
    /\ \A ph \in ReadPhases : [Idle EXCEPT !.phase = ph] \in Read
    /\ \A p : Opens(p) \in Read
    /\ \A r \in Read : Outdated(r) \in Read
    /\ \A r \in Read, answer \in BOOLEAN : [r EXCEPT !.phase = "read", !.result = answer] \in Read
<1>1. Read = [phase : ReadPhases, result : BOOLEAN, stale : BOOLEAN]
  BY DEF Read, ReadPhases
<1>2. \A ph \in ReadPhases : [phase |-> ph, result |-> FALSE, stale |-> FALSE] \in Read
  BY SMTT(10) DEF ReadPhases, Read
<1>3. Idle \in Read
  BY <1>2, "none" \in ReadPhases, Zenon DEF Idle, ReadPhases
<1>4. ASSUME NEW ph \in ReadPhases PROVE [Idle EXCEPT !.phase = ph] \in Read
  BY <1>1, <1>3, ReadingChanges, Zenon
<1>5. ASSUME NEW p PROVE Opens(p) \in Read
  BY <1>3, <1>4 DEF Opens, ReadPhases
<1>6. ASSUME NEW r \in Read PROVE Outdated(r) \in Read
  BY <1>1, ReadingChanges, Zenon DEF Outdated, ReadPhases
<1>7. ASSUME NEW r \in Read, NEW answer \in BOOLEAN
      PROVE  [r EXCEPT !.phase = "read", !.result = answer] \in Read
  BY <1>1, ReadingChanges, Zenon DEF ReadPhases
<1> QED
  BY <1>3, <1>4, <1>5, <1>6, <1>7

LEMMA ProbeReadsTypes ==
    ASSUME SignInTypeOK, ProbeReads
    PROVE  SignInTypeOK'
<1>1. (probe \in Read)'
  <2>1. PICK answer \in {session, FALSE} : probe' = [probe EXCEPT !.phase = "read", !.result = answer]
    BY DEF ProbeReads
  <2>2. answer \in BOOLEAN
    BY Zenon DEF SignInTypeOK
  <2> QED
    BY <2>1, <2>2, ReadingsAreRead, Zenon DEF SignInTypeOK
<1>2. (changes \in 0..MaxChanges)'
  BY SignInAssumption, SMTT(5) DEF ProbeReads, Change, SignInTypeOK
<1> QED
  BY <1>1, <1>2 DEF ProbeReads, SignInTypeOK

LEMMA RefreshBeginsTypes ==
    ASSUME SignInTypeOK, RefreshBegins
    PROVE  SignInTypeOK'
<1>1. (authenticated \in BOOLEAN)'
  BY SignInAssumption, ZenonT(10) DEF RefreshBegins, MayProbe, Probes, SignInTypeOK
<1>2. (probe \in Read)'
  BY ReadingsAreRead, ZenonT(20) DEF RefreshBegins, MayProbe, Probes, SignInTypeOK, ReadPhases
<1>3. (refresh \in Read)'
  BY ReadingsAreRead, ZenonT(20) DEF RefreshBegins, MayProbe, Probes, SignInTypeOK, ReadPhases
<1> QED
  BY <1>1, <1>2, <1>3 DEF RefreshBegins, SignInTypeOK

LEMMA RefreshAwaitedTypes ==
    ASSUME SignInTypeOK, RefreshAwaited
    PROVE  SignInTypeOK'
<1>1. (refresh \in Read)'
  BY ReadingsAreRead, ZenonT(20) DEF RefreshAwaited, Again, SignInTypeOK, ReadPhases
<1> QED
  BY <1>1 DEF RefreshAwaited, SignInTypeOK

LEMMA RefreshReadsTypes ==
    ASSUME SignInTypeOK, RefreshReads
    PROVE  SignInTypeOK'
<1>1. (refresh \in Read)'
  <2>1. PICK answer \in {session, FALSE} : refresh' = [refresh EXCEPT !.phase = "read", !.result = answer]
    BY DEF RefreshReads
  <2>2. answer \in BOOLEAN
    BY Zenon DEF SignInTypeOK
  <2> QED
    BY <2>1, <2>2, ReadingsAreRead, Zenon DEF SignInTypeOK
<1>2. (changes \in 0..MaxChanges)'
  BY SignInAssumption, SMTT(5) DEF RefreshReads, Change, SignInTypeOK
<1> QED
  BY <1>1, <1>2 DEF RefreshReads, SignInTypeOK

LEMMA RefreshSettlesTypes ==
    ASSUME SignInTypeOK, RefreshSettles
    PROVE  SignInTypeOK'
<1>1. (authenticated \in BOOLEAN)'
  <2>1. refresh.result \in BOOLEAN
    BY ReadingChanges, "none" \in ReadPhases, Zenon DEF SignInTypeOK, Read, ReadPhases
  <2> QED
    BY <2>1, Zenon DEF RefreshSettles, SignInTypeOK
<1>2. (refresh \in Read)'
  BY ReadingsAreRead, ZenonT(20) DEF RefreshSettles, Again, SignInTypeOK, ReadPhases
<1> QED
  BY <1>1, <1>2 DEF RefreshSettles, SignInTypeOK

LEMMA CookieChangedTypes ==
    ASSUME SignInTypeOK, NEW kind \in {"set", "removed"}, CookieChanged(kind)
    PROVE  SignInTypeOK'
<1>1. (cookies \subseteq {"set", "removed"})'
  BY SignInAssumption, ZenonT(10) DEF CookieChanged, Invalidate, readVars, SignInTypeOK
<1>2. (probe \in Read)'
  BY ReadingsAreRead, ZenonT(20) DEF CookieChanged, Invalidate, readVars, SignInTypeOK, ReadPhases
<1>3. (refresh \in Read)'
  BY ReadingsAreRead, ZenonT(20) DEF CookieChanged, Invalidate, readVars, SignInTypeOK, ReadPhases
<1>4. (missed \in BOOLEAN)'
  BY SignInAssumption, ZenonT(10) DEF CookieChanged, Invalidate, readVars, SignInTypeOK
<1> QED
  BY <1>1, <1>2, <1>3, <1>4 DEF CookieChanged, SignInTypeOK

LEMMA LoginPollsTypes ==
    ASSUME SignInTypeOK, LoginPolls
    PROVE  SignInTypeOK'
<1>1. (renderer \in {"live", "needed", "recovering"})'
  BY SignInAssumption, SMTT(5) DEF LoginPolls, Owns, Gives, EndsLogin, Probes, Recovery, MayProbe,
     SignInTypeOK
<1>2. (authenticated \in BOOLEAN)'
  BY SignInAssumption, ZenonT(10) DEF LoginPolls, Owns, Gives, EndsLogin, Probes, Recovery,
     MayProbe, SignInTypeOK
<1>3. (probe \in Read)'
  BY ReadingsAreRead, ZenonT(20) DEF LoginPolls, Owns, Gives, EndsLogin, Probes, Recovery, MayProbe,
     SignInTypeOK, ReadPhases
<1>4. (browserOp \in Operations)'
  BY SignInAssumption, SMTT(5) DEF LoginPolls, Owns, Gives, EndsLogin, Probes, Recovery, MayProbe,
     SignInTypeOK, Operations
<1>5. (login \in {"none", "embedded", "passkey"})'
  BY SignInAssumption, SMTT(5) DEF LoginPolls, Owns, Gives, EndsLogin, Probes, Recovery, MayProbe,
     SignInTypeOK
<1>6. (changes \in 0..MaxChanges)'
  BY SignInAssumption, SMTT(5) DEF LoginPolls, Owns, Gives, EndsLogin, Probes, Recovery, MayProbe,
     SignInTypeOK
<1> QED
  BY <1>1, <1>2, <1>3, <1>4, <1>5, <1>6 DEF LoginPolls, SignInTypeOK

LEMMA PasskeyInstallsTypes ==
    ASSUME SignInTypeOK, PasskeyInstalls
    PROVE  SignInTypeOK'
<1>1. (session \in BOOLEAN)'
  BY SignInAssumption, ZenonT(10) DEF PasskeyInstalls, Owns, Gives, Loads, Change, Recovery,
     MayProbe, SignInTypeOK
<1>2. (cookies \subseteq {"set", "removed"})'
  BY SignInAssumption, ZenonT(10) DEF PasskeyInstalls, Owns, Gives, Loads, Change, Recovery,
     MayProbe, SignInTypeOK
<1>3. (page \in {"idle", "home", "signin"})'
  BY SignInAssumption, SMTT(5) DEF PasskeyInstalls, Owns, Gives, Loads, Change, Recovery, MayProbe,
     SignInTypeOK
<1>4. (renderer \in {"live", "needed", "recovering"})'
  BY SignInAssumption, SMTT(5) DEF PasskeyInstalls, Owns, Gives, Loads, Change, Recovery, MayProbe,
     SignInTypeOK
<1>5. (navigationError \in BOOLEAN)'
  BY SignInAssumption, ZenonT(10) DEF PasskeyInstalls, Owns, Gives, Loads, Change, Recovery,
     MayProbe, SignInTypeOK
<1>6. (authenticated \in BOOLEAN)'
  BY SignInAssumption, ZenonT(10) DEF PasskeyInstalls, Owns, Gives, Loads, Change, Recovery,
     MayProbe, SignInTypeOK
<1>7. (probe \in Read)'
  BY ReadingsAreRead, ZenonT(20) DEF PasskeyInstalls, Owns, Gives, Loads, Change, Recovery,
     MayProbe, SignInTypeOK, ReadPhases
<1>8. (browserOp \in Operations)'
  BY SignInAssumption, SMTT(5) DEF PasskeyInstalls, Owns, Gives, Loads, Change, Recovery, MayProbe,
     SignInTypeOK, Operations
<1>9. (import \in {"none", "mutated", "discarded", "kept", "abandoned"})'
  BY SignInAssumption, SMTT(5) DEF PasskeyInstalls, Owns, Gives, Loads, Change, Recovery, MayProbe,
     SignInTypeOK
<1>10. (changes \in 0..MaxChanges)'
  BY SignInAssumption, SMTT(5) DEF PasskeyInstalls, Owns, Gives, Loads, Change, Recovery, MayProbe,
     SignInTypeOK
<1> QED
  BY <1>1, <1>2, <1>3, <1>4, <1>5, <1>6, <1>7, <1>8, <1>9, <1>10 DEF PasskeyInstalls, SignInTypeOK

LEMMA PasskeyVerifiedTypes ==
    ASSUME SignInTypeOK, PasskeyVerified
    PROVE  SignInTypeOK'
<1>1. (renderer \in {"live", "needed", "recovering"})'
  BY SignInAssumption, SMTT(5) DEF PasskeyVerified, Owns, Gives, Probes, Recovery, MayProbe,
     SignInTypeOK
<1>2. (authenticated \in BOOLEAN)'
  BY SignInAssumption, ZenonT(10) DEF PasskeyVerified, Owns, Gives, Probes, Recovery, MayProbe,
     SignInTypeOK
<1>3. (probe \in Read)'
  BY ReadingsAreRead, ZenonT(20) DEF PasskeyVerified, Owns, Gives, Probes, Recovery, MayProbe,
     SignInTypeOK, ReadPhases
<1>4. (browserOp \in Operations)'
  BY SignInAssumption, SMTT(5) DEF PasskeyVerified, Owns, Gives, Probes, Recovery, MayProbe,
     SignInTypeOK, Operations
<1>5. (import \in {"none", "mutated", "discarded", "kept", "abandoned"})'
  BY SignInAssumption, SMTT(5) DEF PasskeyVerified, Owns, Gives, Probes, Recovery, MayProbe,
     SignInTypeOK
<1> QED
  BY <1>1, <1>2, <1>3, <1>4, <1>5 DEF PasskeyVerified, SignInTypeOK

LEMMA PasskeyResetsTypes ==
    ASSUME SignInTypeOK, PasskeyResets
    PROVE  SignInTypeOK'
<1>1. (session \in BOOLEAN)'
  BY SignInAssumption, ZenonT(10) DEF PasskeyResets, Change, Owns, Gives, EndsLogin, Recovery,
     SignInTypeOK
<1>2. (cookies \subseteq {"set", "removed"})'
  BY SignInAssumption, ZenonT(10) DEF PasskeyResets, Change, Owns, Gives, EndsLogin, Recovery,
     SignInTypeOK
<1>3. (page \in {"idle", "home", "signin"})'
  BY SignInAssumption, SMTT(5) DEF PasskeyResets, Change, Owns, Gives, EndsLogin, Recovery,
     SignInTypeOK
<1>4. (renderer \in {"live", "needed", "recovering"})'
  BY SignInAssumption, SMTT(5) DEF PasskeyResets, Change, Owns, Gives, EndsLogin, Recovery,
     SignInTypeOK
<1>5. (navigationError \in BOOLEAN)'
  BY SignInAssumption, ZenonT(10) DEF PasskeyResets, Change, Owns, Gives, EndsLogin, Recovery,
     SignInTypeOK
<1>6. (authenticated \in BOOLEAN)'
  BY SignInAssumption, ZenonT(10) DEF PasskeyResets, Change, Owns, Gives, EndsLogin, Recovery,
     SignInTypeOK
<1>7. (probe \in Read)'
  BY ReadingsAreRead, ZenonT(20) DEF PasskeyResets, Change, Owns, Gives, EndsLogin, Recovery,
     SignInTypeOK, ReadPhases
<1>8. (browserOp \in Operations)'
  BY SignInAssumption, SMTT(5) DEF PasskeyResets, Change, Owns, Gives, EndsLogin, Recovery,
     SignInTypeOK, Operations
<1>9. (login \in {"none", "embedded", "passkey"})'
  BY SignInAssumption, SMTT(5) DEF PasskeyResets, Change, Owns, Gives, EndsLogin, Recovery,
     SignInTypeOK
<1>10. (import \in {"none", "mutated", "discarded", "kept", "abandoned"})'
  BY SignInAssumption, SMTT(5) DEF PasskeyResets, Change, Owns, Gives, EndsLogin, Recovery,
     SignInTypeOK
<1>11. (changes \in 0..MaxChanges)'
  BY SignInAssumption, SMTT(5) DEF PasskeyResets, Change, Owns, Gives, EndsLogin, Recovery,
     SignInTypeOK
<1> QED
  BY <1>1, <1>2, <1>3, <1>4, <1>5, <1>6, <1>7, <1>8, <1>9, <1>10, <1>11 DEF PasskeyResets, SignInTypeOK

LEMMA TakeBrowserTypes ==
    ASSUME SignInTypeOK, TakeBrowser
    PROVE  SignInTypeOK'
<1>1. (page \in {"idle", "home", "signin"})'
  BY SignInAssumption, SMTT(5) DEF TakeBrowser, EndsLogin, Gives, Opened, Loads, Owns, Recovery,
     MayProbe, SignInTypeOK
<1>2. (renderer \in {"live", "needed", "recovering"})'
  BY SignInAssumption, SMTT(5) DEF TakeBrowser, EndsLogin, Gives, Opened, Loads, Owns, Recovery,
     MayProbe, SignInTypeOK
<1>3. (navigationError \in BOOLEAN)'
  BY SignInAssumption, ZenonT(10) DEF TakeBrowser, EndsLogin, Gives, Opened, Loads, Owns, Recovery,
     MayProbe, SignInTypeOK
<1>4. (authenticated \in BOOLEAN)'
  BY SignInAssumption, ZenonT(10) DEF TakeBrowser, EndsLogin, Gives, Opened, Loads, Owns, Recovery,
     MayProbe, SignInTypeOK
<1>5. (probe \in Read)'
  BY ReadingsAreRead, ZenonT(20) DEF TakeBrowser, EndsLogin, Gives, Opened, Loads, Owns, Recovery,
     MayProbe, SignInTypeOK, ReadPhases
<1>6. (browserOp \in Operations)'
  BY SignInAssumption, SMTT(5) DEF TakeBrowser, EndsLogin, Gives, Opened, Loads, Owns, Recovery,
     MayProbe, SignInTypeOK, Operations
<1>7. (login \in {"none", "embedded", "passkey"})'
  BY SignInAssumption, SMTT(5) DEF TakeBrowser, EndsLogin, Gives, Opened, Loads, Owns, Recovery,
     MayProbe, SignInTypeOK
<1> QED
  BY <1>1, <1>2, <1>3, <1>4, <1>5, <1>6, <1>7 DEF TakeBrowser, SignInTypeOK

LEMMA SignedOutTypes ==
    ASSUME SignInTypeOK, SignedOut
    PROVE  SignInTypeOK'
<1>1. (session \in BOOLEAN)'
  BY SignInAssumption, ZenonT(10) DEF SignedOut, Change, SignInTypeOK
<1>2. (cookies \subseteq {"set", "removed"})'
  BY SignInAssumption, ZenonT(10) DEF SignedOut, Change, SignInTypeOK
<1>3. (changes \in 0..MaxChanges)'
  BY SignInAssumption, SMTT(5) DEF SignedOut, Change, SignInTypeOK
<1> QED
  BY <1>1, <1>2, <1>3 DEF SignedOut, SignInTypeOK

LEMMA SignedInTypes ==
    ASSUME SignInTypeOK, SignedIn
    PROVE  SignInTypeOK'
<1>1. (session \in BOOLEAN)'
  BY SignInAssumption, ZenonT(10) DEF SignedIn, Change, SignInTypeOK
<1>2. (cookies \subseteq {"set", "removed"})'
  BY SignInAssumption, ZenonT(10) DEF SignedIn, Change, SignInTypeOK
<1>3. (page \in {"idle", "home", "signin"})'
  BY SignInAssumption, SMTT(5) DEF SignedIn, Change, SignInTypeOK
<1>4. (probe \in Read)'
  BY ReadingsAreRead, ZenonT(20) DEF SignedIn, Change, SignInTypeOK, ReadPhases
<1>5. (changes \in 0..MaxChanges)'
  BY SignInAssumption, SMTT(5) DEF SignedIn, Change, SignInTypeOK
<1> QED
  BY <1>1, <1>2, <1>3, <1>4, <1>5 DEF SignedIn, SignInTypeOK

LEMMA TurnRedirectedTypes ==
    ASSUME SignInTypeOK, TurnRedirected
    PROVE  SignInTypeOK'
<1>1. (authenticated \in BOOLEAN)'
  BY SignInAssumption, ZenonT(10) DEF TurnRedirected, Change, SignInTypeOK
<1>2. (reauthenticate \in BOOLEAN)'
  BY SignInAssumption, ZenonT(10) DEF TurnRedirected, Change, SignInTypeOK
<1>3. (probe \in Read)'
  BY ReadingsAreRead, ZenonT(20) DEF TurnRedirected, Change, SignInTypeOK, ReadPhases
<1>4. (refresh \in Read)'
  BY ReadingsAreRead, ZenonT(20) DEF TurnRedirected, Change, SignInTypeOK, ReadPhases
<1>5. (changes \in 0..MaxChanges)'
  BY SignInAssumption, SMTT(5) DEF TurnRedirected, Change, SignInTypeOK
<1> QED
  BY <1>1, <1>2, <1>3, <1>4, <1>5 DEF TurnRedirected, SignInTypeOK

LEMMA NavigateTypes ==
    ASSUME SignInTypeOK, Navigate
    PROVE  SignInTypeOK'
<1>1. (page \in {"idle", "home", "signin"})'
  BY SignInAssumption, SMTT(5) DEF Navigate, Opened, Loads, MayProbe, SignInTypeOK
<1>2. (navigationError \in BOOLEAN)'
  BY SignInAssumption, ZenonT(10) DEF Navigate, Opened, Loads, MayProbe, SignInTypeOK
<1>3. (authenticated \in BOOLEAN)'
  BY SignInAssumption, ZenonT(10) DEF Navigate, Opened, Loads, MayProbe, SignInTypeOK
<1>4. (probe \in Read)'
  BY ReadingsAreRead, ZenonT(20) DEF Navigate, Opened, Loads, MayProbe, SignInTypeOK, ReadPhases
<1> QED
  BY <1>1, <1>2, <1>3, <1>4 DEF Navigate, SignInTypeOK

LEMMA RendererGoneTypes ==
    ASSUME SignInTypeOK, RendererGone
    PROVE  SignInTypeOK'
<1>1. (renderer \in {"live", "needed", "recovering"})'
  BY SignInAssumption, SMTT(5) DEF RendererGone, Change, SignInTypeOK
<1>2. (navigationError \in BOOLEAN)'
  BY SignInAssumption, ZenonT(10) DEF RendererGone, Change, SignInTypeOK
<1>3. (probe \in Read)'
  BY ReadingsAreRead, ZenonT(20) DEF RendererGone, Change, SignInTypeOK, ReadPhases
<1>4. (refresh \in Read)'
  BY ReadingsAreRead, ZenonT(20) DEF RendererGone, Change, SignInTypeOK, ReadPhases
<1>5. (changes \in 0..MaxChanges)'
  BY SignInAssumption, SMTT(5) DEF RendererGone, Change, SignInTypeOK
<1> QED
  BY <1>1, <1>2, <1>3, <1>4, <1>5 DEF RendererGone, SignInTypeOK

LEMMA RecoveredTypes ==
    ASSUME SignInTypeOK, Recovered
    PROVE  SignInTypeOK'
<1>1. (page \in {"idle", "home", "signin"})'
  BY SignInAssumption, SMTT(5) DEF Recovered, Change, SignInTypeOK
<1>2. (renderer \in {"live", "needed", "recovering"})'
  BY SignInAssumption, SMTT(5) DEF Recovered, Change, SignInTypeOK
<1>3. (navigationError \in BOOLEAN)'
  BY SignInAssumption, ZenonT(10) DEF Recovered, Change, SignInTypeOK
<1>4. (changes \in 0..MaxChanges)'
  BY SignInAssumption, SMTT(5) DEF Recovered, Change, SignInTypeOK
<1> QED
  BY <1>1, <1>2, <1>3, <1>4 DEF Recovered, SignInTypeOK

LEMMA LogoutTypes ==
    ASSUME SignInTypeOK, Logout
    PROVE  SignInTypeOK'
<1>1. (session \in BOOLEAN)'
  BY SignInAssumption, ZenonT(10) DEF Logout, Ready, Gives, Owns, Recovery, SignInTypeOK
<1>2. (cookies \subseteq {"set", "removed"})'
  BY SignInAssumption, ZenonT(10) DEF Logout, Ready, Gives, Owns, Recovery, SignInTypeOK
<1>3. (page \in {"idle", "home", "signin"})'
  BY SignInAssumption, SMTT(5) DEF Logout, Ready, Gives, Owns, Recovery, SignInTypeOK
<1>4. (renderer \in {"live", "needed", "recovering"})'
  BY SignInAssumption, SMTT(5) DEF Logout, Ready, Gives, Owns, Recovery, SignInTypeOK
<1>5. (navigationError \in BOOLEAN)'
  BY SignInAssumption, ZenonT(10) DEF Logout, Ready, Gives, Owns, Recovery, SignInTypeOK
<1>6. (authenticated \in BOOLEAN)'
  BY SignInAssumption, ZenonT(10) DEF Logout, Ready, Gives, Owns, Recovery, SignInTypeOK
<1>7. (probe \in Read)'
  BY ReadingsAreRead, ZenonT(20) DEF Logout, Ready, Gives, Owns, Recovery, SignInTypeOK, ReadPhases
<1>8. (browserOp \in Operations)'
  BY SignInAssumption, SMTT(5) DEF Logout, Ready, Gives, Owns, Recovery, SignInTypeOK, Operations
<1> QED
  BY <1>1, <1>2, <1>3, <1>4, <1>5, <1>6, <1>7, <1>8 DEF Logout, SignInTypeOK
LEMMA ProbeSettlesTypes ==
    ASSUME SignInTypeOK, ProbeSettles
    PROVE  SignInTypeOK'
BY SignInAssumption, SMTT(10) DEF ProbeSettles, Idle, Publishes, SignInTypeOK, Read, Operations

LEMMA InspectedTypes ==
    ASSUME SignInTypeOK, Inspected
    PROVE  SignInTypeOK'
BY SignInAssumption, SMTT(10) DEF Inspected, Owns, Gives, EndsLogin, Recovery, SignInTypeOK, Read,
   Operations

LEMMA PasskeyTransferredTypes ==
    ASSUME SignInTypeOK, PasskeyTransferred
    PROVE  SignInTypeOK'
BY SignInAssumption, SMTT(10) DEF PasskeyTransferred, Owns, Gives, EndsLogin, Recovery,
   SignInTypeOK, Read, Operations

LEMMA CleanedUpTypes ==
    ASSUME SignInTypeOK, CleanedUp
    PROVE  SignInTypeOK'
BY SignInAssumption, SMTT(10) DEF CleanedUp, Owns, Change, Gives, EndsLogin, Recovery, SignInTypeOK,
   Read, Operations

LEMMA TimesOutTypes ==
    ASSUME SignInTypeOK, TimesOut
    PROVE  SignInTypeOK'
BY SignInAssumption, SMTT(10) DEF TimesOut, Owns, Gives, EndsLogin, Recovery, SignInTypeOK, Read,
   Operations

LEMMA DoneTypes ==
    ASSUME SignInTypeOK, Done
    PROVE  SignInTypeOK'
BY SignInAssumption, SMTT(10) DEF Done, Gives, Owns, Recovery, SignInTypeOK, Read, Operations

LEMMA NavigationFailsTypes ==
    ASSUME SignInTypeOK, NavigationFails
    PROVE  SignInTypeOK'
BY SignInAssumption, SMTT(10) DEF NavigationFails, Change, SignInTypeOK, Read, Operations

LEMMA OpenLoginTypes ==
    ASSUME SignInTypeOK, NEW kind \in {"embedded", "passkey"}, OpenLogin(kind)
    PROVE  SignInTypeOK'
BY SignInAssumption, SMTT(10) DEF OpenLogin, SignInTypeOK, Read, Operations

LEMMA ModeChangeTypes ==
    ASSUME SignInTypeOK, ModeChange
    PROVE  SignInTypeOK'
BY SignInAssumption, SMTT(10) DEF ModeChange, Ready, Gives, Owns, Recovery, SignInTypeOK, Read,
   Operations

USE SignInAssumption DEF SignInIInv, SignInTypeOK, ImportBooks, ReadBooks, Told, EndsLogin, Gives,
    Opened, Loads, Owns, Outdated, Idle, Ready, Publishes, MayProbe, Probes, Again, Invalidate,
    Recovery, Opens, readVars, Read, Operations, Change

LEMMA ProbeReadsKeeps ==
    ASSUME SignInIInv, ProbeReads
    PROVE  SignInIInv'
<1>1. ImportBooks' /\ (reauthenticate => ~authenticated)'
  BY SMTT(10) DEF ProbeReads
<1>2. ReadBooks'
  <2>1. PICK answer \in {session, FALSE} : probe' = [probe EXCEPT !.phase = "read", !.result = answer]
    BY Zenon DEF ProbeReads
  <2>2. probe'.phase = "read" /\ probe'.stale = probe.stale
    BY <2>1, SMTT(10)
  <2>3. probe'.result => session
    <3>1. probe'.result = answer
      BY <2>1, SMTT(10)
    <3> QED
      BY <3>1, Zenon
  <2> QED
    BY <2>2, <2>3, SMTT(10) DEF ProbeReads
<1> QED
  BY <1>1, <1>2, ProbeReadsTypes

LEMMA ProbeSettlesKeeps ==
    ASSUME SignInIInv, ProbeSettles
    PROVE  SignInIInv'
<1>1. ImportBooks' /\ (reauthenticate => ~authenticated)'
  BY SMTT(10) DEF ProbeSettles
<1>2. ReadBooks'
  BY SMTT(10) DEF ProbeSettles
<1> QED
  BY <1>1, <1>2, ProbeSettlesTypes

LEMMA RefreshBeginsKeeps ==
    ASSUME SignInIInv, RefreshBegins
    PROVE  SignInIInv'
<1>1. ImportBooks' /\ (reauthenticate => ~authenticated)'
  BY SMTT(10) DEF RefreshBegins
<1>2. ReadBooks'
  BY SMTT(10) DEF RefreshBegins
<1> QED
  BY <1>1, <1>2, RefreshBeginsTypes

LEMMA RefreshAwaitedKeeps ==
    ASSUME SignInIInv, RefreshAwaited
    PROVE  SignInIInv'
<1>1. ImportBooks' /\ (reauthenticate => ~authenticated)'
  BY SMTT(10) DEF RefreshAwaited
<1>2. ReadBooks'
  BY SMTT(10) DEF RefreshAwaited
<1> QED
  BY <1>1, <1>2, RefreshAwaitedTypes

LEMMA RefreshReadsKeeps ==
    ASSUME SignInIInv, RefreshReads
    PROVE  SignInIInv'
<1>1. ImportBooks' /\ (reauthenticate => ~authenticated)'
  BY SMTT(10) DEF RefreshReads
<1>2. ReadBooks'
  <2>1. PICK answer \in {session, FALSE} : refresh' = [refresh EXCEPT !.phase = "read", !.result = answer]
    BY Zenon DEF RefreshReads
  <2>2. refresh'.phase = "read" /\ refresh'.stale = refresh.stale
    BY <2>1, SMTT(10)
  <2>3. refresh'.result => session
    <3>1. refresh'.result = answer
      BY <2>1, SMTT(10)
    <3> QED
      BY <3>1, Zenon
  <2> QED
    BY <2>2, <2>3, SMTT(10) DEF RefreshReads
<1> QED
  BY <1>1, <1>2, RefreshReadsTypes

LEMMA RefreshSettlesKeeps ==
    ASSUME SignInIInv, RefreshSettles
    PROVE  SignInIInv'
<1>1. ImportBooks' /\ (reauthenticate => ~authenticated)'
  BY SMTT(10) DEF RefreshSettles
<1>2. ReadBooks'
  BY SMTT(10) DEF RefreshSettles
<1> QED
  BY <1>1, <1>2, RefreshSettlesTypes

LEMMA CookieChangedKeeps ==
    ASSUME SignInIInv, NEW kind \in {"set", "removed"}, CookieChanged(kind)
    PROVE  SignInIInv'
<1>1. ImportBooks' /\ (reauthenticate => ~authenticated)'
  BY SMTT(10) DEF CookieChanged
<1>2. ReadBooks'
  BY SMTT(10) DEF CookieChanged
<1> QED
  BY <1>1, <1>2, CookieChangedTypes

LEMMA LoginPollsKeeps ==
    ASSUME SignInIInv, LoginPolls
    PROVE  SignInIInv'
<1>1. ImportBooks' /\ (reauthenticate => ~authenticated)'
  BY SMTT(10) DEF LoginPolls
<1>2. ReadBooks'
  BY SMTT(10) DEF LoginPolls
<1> QED
  BY <1>1, <1>2, LoginPollsTypes

LEMMA InspectedKeeps ==
    ASSUME SignInIInv, Inspected
    PROVE  SignInIInv'
<1>1. ImportBooks' /\ (reauthenticate => ~authenticated)'
  BY SMTT(10) DEF Inspected
<1>2. ReadBooks'
  BY SMTT(10) DEF Inspected
<1> QED
  BY <1>1, <1>2, InspectedTypes

LEMMA PasskeyTransferredKeeps ==
    ASSUME SignInIInv, PasskeyTransferred
    PROVE  SignInIInv'
<1>1. ImportBooks' /\ (reauthenticate => ~authenticated)'
  BY SMTT(10) DEF PasskeyTransferred
<1>2. ReadBooks'
  BY SMTT(10) DEF PasskeyTransferred
<1> QED
  BY <1>1, <1>2, PasskeyTransferredTypes

LEMMA PasskeyInstallsKeeps ==
    ASSUME SignInIInv, PasskeyInstalls
    PROVE  SignInIInv'
<1>1. ImportBooks' /\ (reauthenticate => ~authenticated)'
  BY SMTT(10) DEF PasskeyInstalls
<1>2. ReadBooks'
  BY SMTT(10) DEF PasskeyInstalls
<1> QED
  BY <1>1, <1>2, PasskeyInstallsTypes

LEMMA PasskeyVerifiedKeeps ==
    ASSUME SignInIInv, PasskeyVerified
    PROVE  SignInIInv'
<1>1. ImportBooks' /\ (reauthenticate => ~authenticated)'
  BY SMTT(10) DEF PasskeyVerified
<1>2. ReadBooks'
  BY SMTT(10) DEF PasskeyVerified
<1> QED
  BY <1>1, <1>2, PasskeyVerifiedTypes

LEMMA PasskeyResetsKeeps ==
    ASSUME SignInIInv, PasskeyResets
    PROVE  SignInIInv'
<1>1. ImportBooks' /\ (reauthenticate => ~authenticated)'
  BY SMTT(10) DEF PasskeyResets
<1>2. ReadBooks'
  BY SMTT(10) DEF PasskeyResets
<1> QED
  BY <1>1, <1>2, PasskeyResetsTypes

LEMMA CleanedUpKeeps ==
    ASSUME SignInIInv, CleanedUp
    PROVE  SignInIInv'
<1>1. ImportBooks' /\ (reauthenticate => ~authenticated)'
  BY SMTT(10) DEF CleanedUp
<1>2. ReadBooks'
  BY SMTT(10) DEF CleanedUp
<1> QED
  BY <1>1, <1>2, CleanedUpTypes

LEMMA TakeBrowserKeeps ==
    ASSUME SignInIInv, TakeBrowser
    PROVE  SignInIInv'
<1>1. ImportBooks' /\ (reauthenticate => ~authenticated)'
  BY SMTT(10) DEF TakeBrowser
<1>2. ReadBooks'
  BY SMTT(10) DEF TakeBrowser
<1> QED
  BY <1>1, <1>2, TakeBrowserTypes

LEMMA TimesOutKeeps ==
    ASSUME SignInIInv, TimesOut
    PROVE  SignInIInv'
<1>1. ImportBooks' /\ (reauthenticate => ~authenticated)'
  BY SMTT(10) DEF TimesOut
<1>2. ReadBooks'
  BY SMTT(10) DEF TimesOut
<1> QED
  BY <1>1, <1>2, TimesOutTypes

LEMMA DoneKeeps ==
    ASSUME SignInIInv, Done
    PROVE  SignInIInv'
<1>1. ImportBooks' /\ (reauthenticate => ~authenticated)'
  BY SMTT(10) DEF Done
<1>2. ReadBooks'
  BY SMTT(10) DEF Done
<1> QED
  BY <1>1, <1>2, DoneTypes

LEMMA SignedOutKeeps ==
    ASSUME SignInIInv, SignedOut
    PROVE  SignInIInv'
<1>1. ImportBooks' /\ (reauthenticate => ~authenticated)'
  BY SMTT(10) DEF SignedOut
<1>2. ReadBooks'
  BY SMTT(10) DEF SignedOut
<1> QED
  BY <1>1, <1>2, SignedOutTypes

LEMMA SignedInKeeps ==
    ASSUME SignInIInv, SignedIn
    PROVE  SignInIInv'
<1>1. ImportBooks' /\ (reauthenticate => ~authenticated)'
  BY SMTT(10) DEF SignedIn
<1>2. ReadBooks'
  BY SMTT(10) DEF SignedIn
<1> QED
  BY <1>1, <1>2, SignedInTypes

LEMMA TurnRedirectedKeeps ==
    ASSUME SignInIInv, TurnRedirected
    PROVE  SignInIInv'
<1>1. ImportBooks' /\ (reauthenticate => ~authenticated)'
  BY SMTT(10) DEF TurnRedirected
<1>2. ReadBooks'
  BY SMTT(10) DEF TurnRedirected
<1> QED
  BY <1>1, <1>2, TurnRedirectedTypes

LEMMA NavigateKeeps ==
    ASSUME SignInIInv, Navigate
    PROVE  SignInIInv'
<1>1. ImportBooks' /\ (reauthenticate => ~authenticated)'
  BY SMTT(10) DEF Navigate
<1>2. ReadBooks'
  BY SMTT(10) DEF Navigate
<1> QED
  BY <1>1, <1>2, NavigateTypes

LEMMA NavigationFailsKeeps ==
    ASSUME SignInIInv, NavigationFails
    PROVE  SignInIInv'
<1>1. ImportBooks' /\ (reauthenticate => ~authenticated)'
  BY SMTT(10) DEF NavigationFails
<1>2. ReadBooks'
  BY SMTT(10) DEF NavigationFails
<1> QED
  BY <1>1, <1>2, NavigationFailsTypes

LEMMA RendererGoneKeeps ==
    ASSUME SignInIInv, RendererGone
    PROVE  SignInIInv'
<1>1. ImportBooks' /\ (reauthenticate => ~authenticated)'
  BY SMTT(10) DEF RendererGone
<1>2. ReadBooks'
  BY SMTT(10) DEF RendererGone
<1> QED
  BY <1>1, <1>2, RendererGoneTypes

LEMMA RecoveredKeeps ==
    ASSUME SignInIInv, Recovered
    PROVE  SignInIInv'
<1>1. ImportBooks' /\ (reauthenticate => ~authenticated)'
  BY SMTT(10) DEF Recovered
<1>2. ReadBooks'
  BY SMTT(10) DEF Recovered
<1> QED
  BY <1>1, <1>2, RecoveredTypes

LEMMA OpenLoginKeeps ==
    ASSUME SignInIInv, NEW kind \in {"embedded", "passkey"}, OpenLogin(kind)
    PROVE  SignInIInv'
<1>1. ImportBooks' /\ (reauthenticate => ~authenticated)'
  BY SMTT(10) DEF OpenLogin
<1>2. ReadBooks'
  BY SMTT(10) DEF OpenLogin
<1> QED
  BY <1>1, <1>2, OpenLoginTypes

LEMMA LogoutKeeps ==
    ASSUME SignInIInv, Logout
    PROVE  SignInIInv'
<1>1. ImportBooks' /\ (reauthenticate => ~authenticated)'
  BY SMTT(10) DEF Logout
<1>2. ReadBooks'
  BY SMTT(10) DEF Logout
<1> QED
  BY <1>1, <1>2, LogoutTypes

LEMMA ModeChangeKeeps ==
    ASSUME SignInIInv, ModeChange
    PROVE  SignInIInv'
<1>1. ImportBooks' /\ (reauthenticate => ~authenticated)'
  BY SMTT(10) DEF ModeChange
<1>2. ReadBooks'
  BY SMTT(10) DEF ModeChange
<1> QED
  BY <1>1, <1>2, ModeChangeTypes

HIDE DEF SignInIInv, SignInTypeOK, ImportBooks, ReadBooks, Told, EndsLogin, Gives, Opened, Loads,
    Owns, Outdated, Idle, Ready, Publishes, MayProbe, Probes, Again, Invalidate, Recovery, Opens,
    readVars, Read, Operations, Change

\* At the start nobody is signed in as far as the Launcher knows, and nothing is imported.
LEMMA SignInStarts == SignInInit => SignInIInv
<1> SUFFICES ASSUME SignInInit PROVE SignInIInv
  OBVIOUS
<1>1. probe \in Read /\ refresh \in Read
  BY ReadingsAreRead, Zenon DEF SignInInit
<1>2. session \in BOOLEAN /\ navigationError \in BOOLEAN /\ authenticated \in BOOLEAN
      /\ reauthenticate \in BOOLEAN /\ missed \in BOOLEAN
  BY Zenon DEF SignInInit
<1>3. SignInTypeOK
  BY <1>1, <1>2, SignInAssumption, SMTT(10) DEF SignInInit, SignInTypeOK, Operations, Opened
<1>4. ~authenticated /\ import # "mutated"
  BY Zenon DEF SignInInit
<1>5. probe.phase # "read" /\ refresh.phase # "read"
  <2>1. Idle.phase # "read" /\ \A p : Opens(p).phase # "read"
    BY SMTT(10) DEF Idle, Opens
  <2> QED
    BY <2>1, Zenon DEF SignInInit
<1>6. ImportBooks /\ ReadBooks
  BY <1>4, <1>5 DEF ImportBooks, ReadBooks
<1> QED
  BY <1>3, <1>4, <1>6 DEF SignInIInv

LEMMA SignInSteps == SignInIInv /\ [SignInNext]_signInVars => SignInIInv'
<1> SUFFICES ASSUME SignInIInv, [SignInNext]_signInVars PROVE SignInIInv'
  OBVIOUS
<1>1. CASE Reading
  BY <1>1, ProbeReadsKeeps, ProbeSettlesKeeps, RefreshBeginsKeeps, RefreshAwaitedKeeps,
     RefreshReadsKeeps, RefreshSettlesKeeps, CookieChangedKeeps DEF Reading
<1>2. CASE Operating
  BY <1>2, LoginPollsKeeps, InspectedKeeps, PasskeyTransferredKeeps, PasskeyInstallsKeeps,
     PasskeyVerifiedKeeps, PasskeyResetsKeeps, CleanedUpKeeps DEF Operating
<1>3. CASE SignInNext /\ ~Reading /\ ~Operating
  BY <1>3, TakeBrowserKeeps, TimesOutKeeps, DoneKeeps, SignedOutKeeps, SignedInKeeps,
     TurnRedirectedKeeps, NavigateKeeps, NavigationFailsKeeps, RendererGoneKeeps, RecoveredKeeps,
     OpenLoginKeeps, LogoutKeeps, ModeChangeKeeps DEF SignInNext
<1>4. CASE UNCHANGED signInVars
  BY <1>4 DEF signInVars, SignInIInv, SignInTypeOK, ImportBooks, ReadBooks, Told
<1> QED
  BY <1>1, <1>2, <1>3, <1>4

\* The account is what the Launcher says it is, for every number of session changes,
\* crashes and failures: once nothing is being read it claims no sign-in that ChatGPT has
\* ended, it claims none while a redirected turn waits for one, and an import that failed
\* leaves nothing behind (refreshAuthenticationFromSession, installPasskeyLogin).
THEOREM SignInCorrect == SignInSpec => []SignInInv
<1>1. SignInInit => SignInIInv
  BY SignInStarts
<1>2. SignInIInv /\ [SignInNext]_signInVars => SignInIInv'
  BY SignInSteps
<1>3. SignInIInv => SignInInv
  <2> SUFFICES ASSUME SignInIInv PROVE SignInInv
    OBVIOUS
  <2>1. SettledSignIn
    BY SMTT(10) DEF SignInIInv, SignInTypeOK, ReadBooks, Told, SettledSignIn
  <2>2. ImportIsWholeOrGone
    BY DEF SignInIInv, ImportBooks, ImportIsWholeOrGone
  <2> QED
    BY <2>1, <2>2 DEF SignInIInv, SignInInv
<1> QED
  BY <1>1, <1>2, <1>3, PTL DEF SignInSpec
=============================================================================
