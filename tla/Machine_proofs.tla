--------------------------- MODULE Machine_proofs ---------------------------
(***************************************************************************)
(* Proofs about what the bridge and the Launcher keep on a machine: the    *)
(* reversible edit of Codex' configuration (IntegrationJournal), for any   *)
(* routes and any number of failed writes, stops and edits; the runtime    *)
(* supervisor (RuntimeSupervisor), for any number of turns, crashes,       *)
(* faults, starts, stops and system wakes; the update of a source checkout *)
(* (SourceUpdate), for any processes, documents and commits; and the count *)
(* of messages (Limits), for any accounts, messages and moves of the clock.*)
(***************************************************************************)
EXTENDS IntegrationJournal, RuntimeSupervisor, SourceUpdate, Limits, SequenceTheorems,
        FiniteSetTheorems, TLAPS

-----------------------------------------------------------------------------
(* The order of the writes *)

RemoveOrder == <<"config", "cache", "primary", "recovery">>

\* What a command has written when it comes to a file.
WriteBefore == [recovery |-> {}, config |-> {"recovery"}, primary |-> {"recovery", "config"},
                cache |-> {"recovery", "config", "primary"}]
RemoveBefore == [config |-> {}, cache |-> {"config"}, primary |-> {"config", "cache"},
                 recovery |-> {"config", "cache", "primary"}]

Removes(j) == j.restore = Restoration(RemoveOrder)
Before(j) == IF Removes(j) THEN RemoveBefore ELSE WriteBefore
DoneSets(j) == {Before(j)[f] : f \in File} \cup {File}

WriteTodos ==
    {WriteOrder, <<"config", "primary", "cache">>, <<"primary", "cache">>, <<"cache">>,
     <<"recovery", "config", "primary">>, <<"config", "primary">>,
     <<"recovery", "primary">>, <<"primary">>, <<"recovery">>}
RemoveTodos ==
    {RemoveOrder, <<"cache", "primary", "recovery">>, <<"primary", "recovery">>, <<"recovery">>}
Todos(j) == IF Removes(j) THEN RemoveTodos ELSE WriteTodos

WriteBack ==
    {<<"cache", "primary", "config", "recovery">>, <<"primary", "config", "recovery">>,
     <<"config", "recovery">>, <<"recovery">>}
RemoveBack ==
    {<<"recovery", "primary", "cache", "config">>, <<"primary", "cache", "config">>,
     <<"cache", "config">>, <<"config">>}
Backs(j) == IF Removes(j) THEN RemoveBack ELSE WriteBack

LEMMA ListOfOne ==
    ASSUME NEW a
    PROVE  Head(<<a>>) = a /\ Len(<<a>>) = 1 /\ ToSet(<<a>>) = {a}
BY DEF ToSet

LEMMA ListOfTwo ==
    ASSUME NEW a, NEW b
    PROVE  /\ Head(<<a, b>>) = a /\ Tail(<<a, b>>) = <<b>> /\ Len(<<a, b>>) = 2
           /\ ToSet(<<a, b>>) = {a, b}
BY DEF ToSet

LEMMA ListOfThree ==
    ASSUME NEW a, NEW b, NEW c
    PROVE  /\ Head(<<a, b, c>>) = a /\ Tail(<<a, b, c>>) = <<b, c>> /\ Len(<<a, b, c>>) = 3
           /\ ToSet(<<a, b, c>>) = {a, b, c}
BY DEF ToSet

LEMMA ListOfFour ==
    ASSUME NEW a, NEW b, NEW c, NEW d
    PROVE  /\ Head(<<a, b, c, d>>) = a /\ Tail(<<a, b, c, d>>) = <<b, c, d>> /\ Len(<<a, b, c, d>>) = 4
           /\ ToSet(<<a, b, c, d>>) = {a, b, c, d}
BY DEF ToSet

LEMMA ReverseOfFour ==
    ASSUME NEW a, NEW b, NEW c, NEW d
    PROVE  Reverse(<<a, b, c, d>>) = <<d, c, b, a>>
<1> DEFINE s == <<a, b, c, d>>
           r == Reverse(s)
<1>1. Len(s) = 4 /\ s[1] = a /\ s[2] = b /\ s[3] = c /\ s[4] = d
  OBVIOUS
<1>2. r = [i \in 1..4 |-> s[(4 - i) + 1]] /\ 1..4 = {1, 2, 3, 4}
  BY <1>1 DEF Reverse
<1> HIDE DEF s, r
<1>3. r[1] = d /\ r[2] = c /\ r[3] = b /\ r[4] = a
  BY <1>1, <1>2
<1>4. r \in [1..4 -> {a, b, c, d}]
  BY <1>2, <1>3
<1>5. r \in Seq({a, b, c, d}) /\ Len(r) = 4
  <2>1. r \in Seq({a, b, c, d})
    BY <1>4, SeqDef, 4 \in Nat
  <2> QED
    BY <1>4, <2>1, LenProperties
<1>6. <<d, c, b, a>> \in Seq({a, b, c, d}) /\ Len(<<d, c, b, a>>) = 4
  OBVIOUS
<1>7. \A i \in 1..4 : r[i] = <<d, c, b, a>>[i]
  BY <1>2, <1>3
<1> QED
  BY <1>5, <1>6, <1>7, SeqEqual DEF r, s

LEMMA RestorationOrders ==
    /\ Restoration(WriteOrder) = <<"cache", "primary", "config", "recovery">>
    /\ Restoration(RemoveOrder) = <<"recovery", "primary", "cache", "config">>
    /\ Restoration(WriteOrder) # Restoration(RemoveOrder)
<1>1. /\ Restoration(WriteOrder) = <<"cache", "primary", "config", "recovery">>
      /\ Restoration(RemoveOrder) = <<"recovery", "primary", "cache", "config">>
  BY ReverseOfFour DEF Restoration, WriteOrder, RemoveOrder
<1>2. /\ Head(Restoration(WriteOrder)) = "cache" /\ Head(Restoration(RemoveOrder)) = "recovery"
  BY <1>1, ListOfFour
<1> QED
  BY <1>1, <1>2

\* The files of a list of writes come one after the other.
Successive(todo, before, lists) ==
    LET h == Head(todo) IN
    /\ h \in ToSet(todo) /\ ToSet(todo) \subseteq File /\ ToSet(todo) \cap before[h] = {}
    /\ Len(todo) = 1 => ToSet(todo) = {h}
    /\ Len(todo) # 1 =>
          /\ Tail(todo) \in lists /\ ToSet(Tail(todo)) = ToSet(todo) \ {h}
          /\ before[h] \cup {h} \subseteq before[Head(Tail(todo))]

LEMMA SuccessiveFour ==
    ASSUME NEW before, NEW lists, NEW a \in File, NEW b \in File, NEW c \in File, NEW d \in File,
           <<b, c, d>> \in lists, a \notin {b, c, d},
           {a, b, c, d} \cap before[a] = {}, before[a] \cup {a} \subseteq before[b]
    PROVE  Successive(<<a, b, c, d>>, before, lists)
<1> DEFINE todo == <<a, b, c, d>>
           rest == <<b, c, d>>
<1>1. Head(todo) = a /\ Tail(todo) = rest /\ Len(todo) # 1 /\ ToSet(todo) = {a, b, c, d}
  BY ListOfFour
<1>2. Head(rest) = b /\ ToSet(rest) = {b, c, d}
  BY ListOfThree
<1>3. rest \in lists
  OBVIOUS
<1> HIDE DEF todo, rest
<1>4. a \in ToSet(todo) /\ ToSet(todo) \subseteq File /\ ToSet(todo) \cap before[a] = {}
  BY <1>1
<1>5. ToSet(rest) = ToSet(todo) \ {a}
  BY <1>1, <1>2
<1>6. Successive(todo, before, lists)
  BY <1>1, <1>2, <1>3, <1>4, <1>5, Zenon DEF Successive
<1> QED
  BY <1>6 DEF todo

LEMMA SuccessiveThree ==
    ASSUME NEW before, NEW lists, NEW a \in File, NEW b \in File, NEW c \in File,
           <<b, c>> \in lists, a \notin {b, c},
           {a, b, c} \cap before[a] = {}, before[a] \cup {a} \subseteq before[b]
    PROVE  Successive(<<a, b, c>>, before, lists)
<1> DEFINE todo == <<a, b, c>>
           rest == <<b, c>>
<1>1. Head(todo) = a /\ Tail(todo) = rest /\ Len(todo) # 1 /\ ToSet(todo) = {a, b, c}
  BY ListOfThree
<1>2. Head(rest) = b /\ ToSet(rest) = {b, c}
  BY ListOfTwo
<1>3. rest \in lists
  OBVIOUS
<1> HIDE DEF todo, rest
<1>4. a \in ToSet(todo) /\ ToSet(todo) \subseteq File /\ ToSet(todo) \cap before[a] = {}
  BY <1>1
<1>5. ToSet(rest) = ToSet(todo) \ {a}
  BY <1>1, <1>2
<1>6. Successive(todo, before, lists)
  BY <1>1, <1>2, <1>3, <1>4, <1>5, Zenon DEF Successive
<1> QED
  BY <1>6 DEF todo

LEMMA SuccessiveTwo ==
    ASSUME NEW before, NEW lists, NEW a \in File, NEW b \in File,
           <<b>> \in lists, a # b,
           {a, b} \cap before[a] = {}, before[a] \cup {a} \subseteq before[b]
    PROVE  Successive(<<a, b>>, before, lists)
BY ListOfTwo, ListOfOne DEF Successive

LEMMA SuccessiveOne ==
    ASSUME NEW before, NEW lists, NEW a \in File, a \notin before[a]
    PROVE  Successive(<<a>>, before, lists)
BY ListOfOne DEF Successive

LEMMA TodosAreSuccessive ==
    /\ \A todo \in WriteTodos : Successive(todo, WriteBefore, WriteTodos)
    /\ \A todo \in RemoveTodos : Successive(todo, RemoveBefore, RemoveTodos)
<1> DEFINE W(todo) == Successive(todo, WriteBefore, WriteTodos)
           R(todo) == Successive(todo, RemoveBefore, RemoveTodos)
<1> USE DEF File, WriteBefore, RemoveBefore, WriteTodos, RemoveTodos, WriteOrder, RemoveOrder
<1>1. W(<<"recovery", "config", "primary", "cache">>)
  BY ZenonT(60), SuccessiveFour
<1>2. W(<<"config", "primary", "cache">>)
  BY SuccessiveThree
<1>3. W(<<"primary", "cache">>)
  BY SuccessiveTwo
<1>4. W(<<"cache">>)
  BY SuccessiveOne
<1>5. W(<<"recovery", "config", "primary">>)
  BY SuccessiveThree
<1>6. W(<<"config", "primary">>)
  BY SuccessiveTwo
<1>7. W(<<"recovery", "primary">>)
  BY SuccessiveTwo
<1>8. W(<<"primary">>)
  BY SuccessiveOne
<1>9. W(<<"recovery">>)
  BY SMTT(40), SuccessiveOne
<1>10. R(<<"config", "cache", "primary", "recovery">>)
  BY ZenonT(60), SuccessiveFour
<1>11. R(<<"cache", "primary", "recovery">>)
  BY SuccessiveThree
<1>12. R(<<"primary", "recovery">>)
  BY SuccessiveTwo
<1>13. R(<<"recovery">>)
  BY SuccessiveOne
<1> HIDE DEF W, R
<1>14. \A todo \in WriteTodos : W(todo)
  BY <1>1, <1>2, <1>3, <1>4, <1>5, <1>6, <1>7, <1>8, <1>9
<1>15. \A todo \in RemoveTodos : R(todo)
  BY <1>10, <1>11, <1>12, <1>13
<1> QED
  BY SMTT(40), <1>14, <1>15 DEF W, R

\* A restoration goes the same way back.
Receding(todo, before, lists) ==
    LET h == Head(todo) IN
    /\ h \in File /\ ToSet(todo) = before[h] \cup {h} /\ ToSet(todo) \subseteq File /\ h \notin before[h]
    /\ Len(todo) = 1 => before[h] = {}
    /\ Len(todo) # 1 => Tail(todo) \in lists /\ ToSet(Tail(todo)) = before[h]

LEMMA RecedingFour ==
    ASSUME NEW before, NEW lists, NEW a \in File, NEW b \in File, NEW c \in File, NEW d \in File,
           <<b, c, d>> \in lists, before[a] = {b, c, d}, a \notin {b, c, d}
    PROVE  Receding(<<a, b, c, d>>, before, lists)
<1> DEFINE todo == <<a, b, c, d>>
           rest == <<b, c, d>>
<1>1. Head(todo) = a /\ Tail(todo) = rest /\ Len(todo) # 1 /\ ToSet(todo) = {a, b, c, d}
  BY ListOfFour
<1>2. ToSet(rest) = {b, c, d}
  BY ListOfThree
<1>3. rest \in lists
  OBVIOUS
<1> HIDE DEF todo, rest
<1>4. ToSet(todo) = before[a] \cup {a} /\ ToSet(todo) \subseteq File
  BY <1>1
<1>5. ToSet(rest) = before[a]
  BY <1>2
<1>6. Receding(todo, before, lists)
  BY <1>1, <1>3, <1>4, <1>5, Zenon DEF Receding
<1> QED
  BY <1>6 DEF todo

LEMMA RecedingThree ==
    ASSUME NEW before, NEW lists, NEW a \in File, NEW b \in File, NEW c \in File,
           <<b, c>> \in lists, before[a] = {b, c}, a \notin {b, c}
    PROVE  Receding(<<a, b, c>>, before, lists)
<1> DEFINE todo == <<a, b, c>>
           rest == <<b, c>>
<1>1. Head(todo) = a /\ Tail(todo) = rest /\ Len(todo) # 1 /\ ToSet(todo) = {a, b, c}
  BY ListOfThree
<1>2. ToSet(rest) = {b, c}
  BY ListOfTwo
<1>3. rest \in lists
  OBVIOUS
<1> HIDE DEF todo, rest
<1>4. ToSet(todo) = before[a] \cup {a} /\ ToSet(todo) \subseteq File
  BY <1>1
<1>5. ToSet(rest) = before[a]
  BY <1>2
<1>6. Receding(todo, before, lists)
  BY <1>1, <1>3, <1>4, <1>5, Zenon DEF Receding
<1> QED
  BY <1>6 DEF todo

LEMMA RecedingTwo ==
    ASSUME NEW before, NEW lists, NEW a \in File, NEW b \in File,
           <<b>> \in lists, before[a] = {b}, a # b
    PROVE  Receding(<<a, b>>, before, lists)
BY ListOfTwo, ListOfOne DEF Receding

LEMMA RecedingOne ==
    ASSUME NEW before, NEW lists, NEW a \in File, before[a] = {}
    PROVE  Receding(<<a>>, before, lists)
BY ListOfOne DEF Receding

LEMMA BacksRecede ==
    /\ \A todo \in WriteBack : Receding(todo, WriteBefore, WriteBack)
    /\ \A todo \in RemoveBack : Receding(todo, RemoveBefore, RemoveBack)
<1> DEFINE W(todo) == Receding(todo, WriteBefore, WriteBack)
           R(todo) == Receding(todo, RemoveBefore, RemoveBack)
<1> USE DEF File, WriteBefore, RemoveBefore, WriteBack, RemoveBack
<1>1. W(<<"cache", "primary", "config", "recovery">>)
  BY RecedingFour
<1>2. W(<<"primary", "config", "recovery">>)
  BY RecedingThree
<1>3. W(<<"config", "recovery">>)
  BY RecedingTwo
<1>4. W(<<"recovery">>)
  BY RecedingOne
<1>5. R(<<"recovery", "primary", "cache", "config">>)
  BY ZenonT(60), RecedingFour
<1>6. R(<<"primary", "cache", "config">>)
  BY RecedingThree
<1>7. R(<<"cache", "config">>)
  BY RecedingTwo
<1>8. R(<<"config">>)
  BY RecedingOne
<1> HIDE DEF W, R
<1>9. \A todo \in WriteBack : W(todo)
  BY <1>1, <1>2, <1>3, <1>4
<1>10. \A todo \in RemoveBack : R(todo)
  BY <1>5, <1>6, <1>7, <1>8
<1> QED
  BY <1>9, <1>10 DEF W, R

LEMMA ListsOfFiles == WriteTodos \cup RemoveTodos \cup WriteBack \cup RemoveBack \subseteq Seq(File)
BY DEF WriteTodos, RemoveTodos, WriteBack, RemoveBack, WriteOrder, RemoveOrder, File

\* A write comes after those before it, in whatever has been done.
LEMMA DoneInOrder ==
    ASSUME NEW j, NEW D \in DoneSets(j), NEW f \in D, f \in File
    PROVE  Before(j)[f] \subseteq D /\ {} \in DoneSets(j) /\ D \subseteq File
<1>1. CASE Removes(j)
  BY <1>1 DEF DoneSets, Before, RemoveBefore, File
<1>2. CASE ~Removes(j)
  BY <1>2 DEF DoneSets, Before, WriteBefore, File
<1> QED
  BY <1>1, <1>2

-----------------------------------------------------------------------------
(* What is true of the files, and of a command halfway                     *)

JobType ==
    [todo: Seq(File), want: FileSystem, undo: FileSystem, restore: Seq(File),
     rollback: BOOLEAN, disconnects: BOOLEAN]

\* The journal owns the bridge's route and remembers the user's.
Owner(j, text, base) == j # None /\ j.active /\ OwnedRoute(text, j) /\ j.previous = base

Sound(c, p, r, base) ==
    IF c.managed /\ c.url \in BridgeUrl THEN Owner(p, c, base) \/ Owner(r, c, base) ELSE c.url = base

Honours(j) == j # None => ~j.reconnectOnStartup
Clean(fs) == ~fs.config.managed /\ Honours(fs.primary) /\ Honours(fs.recovery)

\* What a file holds when the command j has written the files D.
Mix(j, D, f) == IF f \in D THEN j.want[f] ELSE j.undo[f]
AtFiles(fs, j, D) == \A f \in File : fs[f] = Mix(j, D, f)
SoundAt(j, D, base) ==
    Sound(Mix(j, D, "config"), Mix(j, D, "primary"), Mix(j, D, "recovery"), base)

\* Every point a command can stop at is sound, and it cannot undo a disconnection.
JobPlan(j, base, gone, failed) ==
    /\ j \in JobType
    /\ j.restore \in {Restoration(WriteOrder), Restoration(RemoveOrder)}
    /\ failed < 2 => \A D \in DoneSets(j) : SoundAt(j, D, base)
    /\ gone => Clean(j.want) /\ Clean(j.undo)
    /\ j.disconnects => Clean(j.want)

Writing(j, fs) ==
    /\ ~j.rollback
    /\ j.todo \in Todos(j)
    /\ AtFiles(fs, j, Before(j)[Head(j.todo)])
    /\ \A f \in File \ ToSet(j.todo) : f \in Before(j)[Head(j.todo)] \/ j.want[f] = j.undo[f]

RollingBack(j, fs, failed) ==
    /\ j.rollback
    /\ j.todo \in Backs(j)
    /\ failed >= 1
    /\ failed < 2 => \E D \in DoneSets(j) : D \subseteq ToSet(j.todo) /\ AtFiles(fs, j, D)

Underway(j, fs, base, gone, failed) ==
    /\ JobPlan(j, base, gone, failed)
    /\ Writing(j, fs) \/ RollingBack(j, fs, failed)
    /\ \A f \in File : fs[f] \in {j.want[f], j.undo[f]}

CountersOK ==
    /\ baseline \in UserUrl \cup {Absent}
    /\ disconnected \in BOOLEAN
    /\ journalFaults \in 0..MAX_JOURNAL_FAULTS /\ crashes \in 0..MAX_CRASHES /\ edits \in 0..MAX_EDITS

FilesAreSound(fs, base, gone, failed) ==
    /\ fs \in FileSystem
    /\ failed < 2 => Sound(fs.config, fs.primary, fs.recovery, base)
    /\ gone => Clean(fs)

JournalIInv ==
    /\ CountersOK
    /\ FilesAreSound(files, baseline, disconnected, journalFaults)
    /\ job # Idle => Underway(job, files, baseline, disconnected, journalFaults)

-----------------------------------------------------------------------------
(* Facts about one step of a command                                       *)

LEMMA PartsOfFiles ==
    ASSUME NEW fs \in FileSystem
    PROVE  /\ fs["config"] = fs.config /\ fs["primary"] = fs.primary /\ fs["recovery"] = fs.recovery
           /\ fs["cache"] = fs.cache
           /\ fs.config \in Text /\ fs.primary \in Journal \cup {None} /\ fs.recovery \in Journal \cup {None}
           /\ fs.cache \in {None, "models"}
BY DEF FileSystem

\* Files that are those of a sound point are sound.
LEMMA AtSoundPoint ==
    ASSUME NEW fs \in FileSystem, NEW j, NEW base, NEW D, AtFiles(fs, j, D), SoundAt(j, D, base)
    PROVE  Sound(fs.config, fs.primary, fs.recovery, base)
<1>1. fs["config"] = Mix(j, D, "config") /\ fs["primary"] = Mix(j, D, "primary")
      /\ fs["recovery"] = Mix(j, D, "recovery")
  BY DEF AtFiles, File
<1> QED
  BY <1>1, PartsOfFiles DEF SoundAt

\* Any mixture of files that honour the disconnection honours it.
LEMMA MixtureIsClean ==
    ASSUME NEW fs \in FileSystem, NEW u \in FileSystem, NEW w \in FileSystem, Clean(u), Clean(w),
           \A f \in File : fs[f] \in {w[f], u[f]}
    PROVE  Clean(fs)
<1>1. fs.config \in {w.config, u.config} /\ fs.primary \in {w.primary, u.primary}
      /\ fs.recovery \in {w.recovery, u.recovery}
  BY PartsOfFiles DEF File
<1> QED
  BY <1>1 DEF Clean, Honours

\* The command as it goes on to its next file.
LEMMA NextFile ==
    ASSUME NEW j \in JobType, j.todo # <<>>
    PROVE  LET next == [j EXCEPT !.todo = Tail(j.todo)] IN
           /\ next \in JobType /\ next.todo = Tail(j.todo) /\ next.want = j.want /\ next.undo = j.undo
           /\ next.restore = j.restore /\ next.rollback = j.rollback /\ next.disconnects = j.disconnects
BY SMTT(40) DEF JobType

LEMMA SamePlan ==
    ASSUME NEW j, NEW next \in JobType, NEW base, NEW gone, NEW failed, JobPlan(j, base, gone, failed),
           next.want = j.want, next.undo = j.undo, next.restore = j.restore, next.disconnects = j.disconnects
    PROVE  /\ JobPlan(next, base, gone, failed)
           /\ \A D, f : Mix(next, D, f) = Mix(j, D, f)
           /\ Before(next) = Before(j) /\ DoneSets(next) = DoneSets(j)
           /\ Todos(next) = Todos(j) /\ Backs(next) = Backs(j)
<1>1. \A D, f : Mix(next, D, f) = Mix(j, D, f)
  BY DEF Mix
<1>2. Before(next) = Before(j) /\ Todos(next) = Todos(j) /\ Backs(next) = Backs(j)
  BY DEF Before, Todos, Backs, Removes
<1>3. DoneSets(next) = DoneSets(j)
  BY <1>2 DEF DoneSets
<1>4. \A D : SoundAt(next, D, base) = SoundAt(j, D, base)
  BY <1>1 DEF SoundAt
<1> QED
  BY <1>1, <1>2, <1>3, <1>4 DEF JobPlan

LEMMA ListFacts ==
    ASSUME NEW j
    PROVE  /\ j.todo \in Todos(j) => Successive(j.todo, Before(j), Todos(j)) /\ j.todo \in Seq(File)
           /\ j.todo \in Backs(j) => Receding(j.todo, Before(j), Backs(j)) /\ j.todo \in Seq(File)
<1>1. CASE Removes(j)
  BY <1>1, TodosAreSuccessive, BacksRecede, ListsOfFiles DEF Todos, Backs, Before
<1>2. CASE ~Removes(j)
  BY <1>2, TodosAreSuccessive, BacksRecede, ListsOfFiles DEF Todos, Backs, Before
<1> QED
  BY <1>1, <1>2

LEMMA BeforeIsDone ==
    ASSUME NEW j, NEW f \in File
    PROVE  Before(j)[f] \in DoneSets(j) /\ File \in DoneSets(j) /\ {} \in DoneSets(j)
<1>1. Before(j)["recovery"] = {} \/ Before(j)["config"] = {}
  BY DEF Before, WriteBefore, RemoveBefore, File
<1> QED
  BY <1>1 DEF DoneSets, File

LEMMA SameFiles ==
    ASSUME NEW a \in FileSystem, NEW b \in FileSystem, \A f \in File : a[f] = b[f]
    PROVE  a = b
BY DEF FileSystem, File

\* The files after a file of the command has been written or restored, and the rest of it.
FileSet(after, fs, v, f) == after = [fs EXCEPT ![f] = v[f]]
GoesOn(next, j) == next = [j EXCEPT !.todo = Tail(j.todo)]

\* The next file of a command is written.
LEMMA WriteOne ==
    ASSUME NEW fs \in FileSystem, NEW j \in JobType, NEW base, NEW gone, NEW failed,
           JobPlan(j, base, gone, failed), Writing(j, fs), \A f \in File : fs[f] \in {j.want[f], j.undo[f]},
           NEW after, FileSet(after, fs, j.want, Head(j.todo)), NEW next, GoesOn(next, j)
    PROVE  /\ after \in FileSystem
           /\ \A f \in File : after[f] \in {j.want[f], j.undo[f]}
           /\ Len(j.todo) # 1 => next \in JobType /\ JobPlan(next, base, gone, failed) /\ Writing(next, after)
           /\ Len(j.todo) = 1 => after = j.want
           /\ failed < 2 => Sound(after.config, after.primary, after.recovery, base)
<1> DEFINE h == Head(j.todo)
           before == Before(j)
<1>1. Successive(j.todo, before, Todos(j)) /\ j.todo \in Seq(File)
  BY ListFacts DEF Writing
<1>2. h \in ToSet(j.todo) /\ ToSet(j.todo) \subseteq File /\ ToSet(j.todo) \cap before[h] = {} /\ h \in File
      /\ j.todo # <<>>
  BY <1>1 DEF Successive, ToSet
<1>3. j.want \in FileSystem /\ j.undo \in FileSystem
  BY DEF JobType
<1>4. after \in FileSystem /\ after[h] = j.want[h] /\ \A f \in File \ {h} : after[f] = fs[f]
  <2>1. after = [fs EXCEPT ![h] = j.want[h]]
    BY DEF FileSet
  <2> HIDE DEF h
  <2> QED
    BY <1>2, <1>3, <2>1 DEF FileSystem, File
<1>5. \A f \in File : after[f] \in {j.want[f], j.undo[f]}
  BY <1>2, <1>4
<1>6. \A f \in before[h] \cap File : fs[f] = j.want[f]
  BY <1>2 DEF Writing, AtFiles, Mix
<1>7. \A f \in File \ before[h] : fs[f] = j.undo[f]
  BY <1>2 DEF Writing, AtFiles, Mix
<1>8. ASSUME Len(j.todo) = 1 PROVE after = j.want /\ AtFiles(after, j, File)
  <2>1. ToSet(j.todo) = {h}
    BY <1>1, <1>8 DEF Successive
  <2>2. \A f \in File : after[f] = j.want[f]
    BY <1>4, <1>6, <1>7, <2>1 DEF Writing
  <2>3. after = j.want
    BY <1>3, <1>4, <2>2, SameFiles
  <2> QED
    BY <2>3 DEF AtFiles, Mix
<1>9. ASSUME Len(j.todo) # 1
      PROVE  /\ next \in JobType /\ JobPlan(next, base, gone, failed) /\ Writing(next, after)
             /\ AtFiles(after, j, before[Head(next.todo)]) /\ Head(next.todo) \in File
  <2>1. next \in JobType /\ next.todo = Tail(j.todo) /\ next.want = j.want /\ next.undo = j.undo
        /\ next.restore = j.restore /\ next.rollback = j.rollback /\ next.disconnects = j.disconnects
    BY <1>2, NextFile DEF GoesOn
  <2>2. /\ JobPlan(next, base, gone, failed)
        /\ \A D, f : Mix(next, D, f) = Mix(j, D, f)
        /\ Before(next) = before /\ Todos(next) = Todos(j)
    BY <2>1, SamePlan
  <2> DEFINE k == Head(next.todo)
  <2>3. /\ next.todo \in Todos(j) /\ ToSet(next.todo) = ToSet(j.todo) \ {h}
        /\ before[h] \cup {h} \subseteq before[k]
    BY <1>1, <1>9, <2>1 DEF Successive
  <2>4. Successive(next.todo, before, Todos(j))
    BY <2>2, <2>3, ListFacts
  <2>5. k \in ToSet(next.todo) /\ k \in File /\ ToSet(next.todo) \cap before[k] = {}
    BY <2>4 DEF Successive
  <2> HIDE DEF k
  <2>6. \A f \in File \ ToSet(next.todo) : f \in before[k] \/ j.want[f] = j.undo[f]
    BY <2>3 DEF Writing
  <2>7. ASSUME NEW f \in File PROVE after[f] = Mix(j, before[k], f)
    <3>1. CASE f = h
      BY <3>1, <1>4, <2>3 DEF Mix
    <3>2. CASE f # h /\ f \in before[h]
      BY <3>2, <1>4, <1>6, <2>3 DEF Mix
    <3>3. CASE f # h /\ f \notin before[h] /\ f \in before[k]
      <4>1. f \notin ToSet(j.todo)
        BY <3>3, <2>3, <2>5
      <4>2. j.want[f] = j.undo[f]
        BY <4>1, <3>3 DEF Writing
      <4> QED
        BY <4>2, <3>3, <1>4, <1>7 DEF Mix
    <3>4. CASE f # h /\ f \notin before[k]
      BY <3>4, <1>4, <1>7, <2>3 DEF Mix
    <3> QED
      BY <3>1, <3>2, <3>3, <3>4
  <2>8. AtFiles(after, j, before[k])
    BY <2>7 DEF AtFiles
  <2>9. AtFiles(after, next, before[k])
    BY <2>2, <2>8 DEF AtFiles
  <2>10. ~next.rollback
    BY <2>1 DEF Writing
  <2>11. Writing(next, after)
    BY <2>1, <2>2, <2>3, <2>6, <2>9, <2>10 DEF Writing, k
  <2> QED
    BY <2>1, <2>2, <2>5, <2>8, <2>11 DEF k
<1>10. ASSUME failed < 2 PROVE Sound(after.config, after.primary, after.recovery, base)
  <2>1. \E D \in DoneSets(j) : AtFiles(after, j, D)
    BY <1>2, <1>8, <1>9, BeforeIsDone
  <2> QED
    BY <1>10, <1>4, <2>1, AtSoundPoint DEF JobPlan
<1> QED
  BY <1>4, <1>5, <1>8, <1>9, <1>10

\* The next file is restored.
LEMMA RestoreOne ==
    ASSUME NEW fs \in FileSystem, NEW j \in JobType, NEW base, NEW gone, NEW failed,
           JobPlan(j, base, gone, failed), RollingBack(j, fs, failed),
           \A f \in File : fs[f] \in {j.want[f], j.undo[f]},
           NEW after, FileSet(after, fs, j.undo, Head(j.todo)), NEW next, GoesOn(next, j)
    PROVE  /\ after \in FileSystem
           /\ \A f \in File : after[f] \in {j.want[f], j.undo[f]}
           /\ Len(j.todo) # 1 => next \in JobType /\ JobPlan(next, base, gone, failed)
                                 /\ RollingBack(next, after, failed)
           /\ failed < 2 => Sound(after.config, after.primary, after.recovery, base)
           /\ failed < 2 /\ Len(j.todo) = 1 => after = j.undo
<1> DEFINE h == Head(j.todo)
           before == Before(j)
<1>1. Receding(j.todo, before, Backs(j)) /\ j.todo \in Seq(File)
  BY ListFacts DEF RollingBack
<1>2. h \in File /\ ToSet(j.todo) = before[h] \cup {h} /\ h \notin before[h] /\ j.todo # <<>>
  BY <1>1 DEF Receding, ToSet
<1>3. j.want \in FileSystem /\ j.undo \in FileSystem
  BY DEF JobType
<1>4. after \in FileSystem /\ after[h] = j.undo[h] /\ \A f \in File \ {h} : after[f] = fs[f]
  <2>1. after = [fs EXCEPT ![h] = j.undo[h]]
    BY DEF FileSet
  <2> HIDE DEF h
  <2> QED
    BY <1>2, <1>3, <2>1 DEF FileSystem, File
<1>5. \A f \in File : after[f] \in {j.want[f], j.undo[f]}
  BY <1>2, <1>4
<1>6. ASSUME failed < 2
      PROVE  \E D \in DoneSets(j) : D \subseteq before[h] /\ AtFiles(after, j, D)
  <2>1. PICK D \in DoneSets(j) : D \subseteq before[h] \cup {h} /\ AtFiles(fs, j, D)
    BY <1>2, <1>6 DEF RollingBack
  <2>2. CASE h \in D
    <3>1. before[h] \subseteq D
      BY <1>2, <2>2, DoneInOrder
    <3>2. D \ {h} = before[h]
      BY <1>2, <2>1, <2>2, <3>1
    <3>3. AtFiles(after, j, before[h])
      BY <1>2, <1>4, <2>1, <3>2 DEF AtFiles, Mix
    <3> QED
      BY <3>3, <1>2, BeforeIsDone
  <2>3. CASE h \notin D
    BY <1>4, <2>1, <2>3 DEF AtFiles, Mix
  <2> QED
    BY <2>2, <2>3
<1>7. ASSUME Len(j.todo) # 1
      PROVE  next \in JobType /\ JobPlan(next, base, gone, failed) /\ RollingBack(next, after, failed)
  <2>1. next \in JobType /\ next.todo = Tail(j.todo) /\ next.want = j.want /\ next.undo = j.undo
        /\ next.restore = j.restore /\ next.rollback = j.rollback /\ next.disconnects = j.disconnects
    BY <1>2, NextFile DEF GoesOn
  <2>2. /\ JobPlan(next, base, gone, failed)
        /\ \A D, f : Mix(next, D, f) = Mix(j, D, f)
        /\ DoneSets(next) = DoneSets(j) /\ Backs(next) = Backs(j)
    BY <2>1, SamePlan
  <2>3. next.todo \in Backs(j) /\ ToSet(next.todo) = before[h]
    BY <1>1, <1>7, <2>1 DEF Receding
  <2>4. ASSUME failed < 2 PROVE \E D \in DoneSets(next) : D \subseteq ToSet(next.todo) /\ AtFiles(after, next, D)
    <3>1. PICK D \in DoneSets(j) : D \subseteq before[h] /\ AtFiles(after, j, D)
      BY <1>6, <2>4
    <3>2. AtFiles(after, next, D)
      BY <2>2, <3>1 DEF AtFiles
    <3> QED
      BY <2>2, <2>3, <3>1, <3>2
  <2> QED
    BY <2>1, <2>2, <2>3, <2>4 DEF RollingBack
<1>8. ASSUME failed < 2 PROVE Sound(after.config, after.primary, after.recovery, base)
  BY <1>4, <1>6, <1>8, AtSoundPoint DEF JobPlan
<1>9. ASSUME failed < 2, Len(j.todo) = 1 PROVE after = j.undo
  <2>1. before[h] = {}
    BY <1>1, <1>9 DEF Receding
  <2>2. AtFiles(after, j, {})
    BY <1>6, <1>9, <2>1
  <2>3. \A f \in File : after[f] = j.undo[f]
    BY <2>2 DEF AtFiles, Mix
  <2> QED
    BY <1>3, <1>4, <2>3, SameFiles
<1> QED
  BY <1>4, <1>5, <1>7, <1>8, <1>9

-----------------------------------------------------------------------------
(* A command that starts                                                   *)

NewJob(todo, want, undo, order, disconnects) ==
    [todo |-> todo, want |-> want, undo |-> undo, restore |-> Restoration(order),
     rollback |-> FALSE, disconnects |-> disconnects]

\* The points a command that writes the journal passes, and one that removes it.
SoundWrites(u, w, base) ==
    /\ Sound(u.config, u.primary, u.recovery, base) /\ Sound(u.config, u.primary, w.recovery, base)
    /\ Sound(w.config, u.primary, w.recovery, base) /\ Sound(w.config, w.primary, w.recovery, base)

SoundRemoval(u, w, base) ==
    /\ Sound(u.config, u.primary, u.recovery, base) /\ Sound(w.config, u.primary, u.recovery, base)
    /\ Sound(w.config, w.primary, u.recovery, base) /\ Sound(w.config, w.primary, w.recovery, base)

LEMMA SoundPoints ==
    ASSUME NEW j, j.want \in FileSystem, j.undo \in FileSystem, NEW base,
           IF Removes(j) THEN SoundRemoval(j.undo, j.want, base) ELSE SoundWrites(j.undo, j.want, base),
           NEW D \in DoneSets(j)
    PROVE  SoundAt(j, D, base)
<1> DEFINE u == j.undo
           w == j.want
<1>1. /\ u["config"] = u.config /\ u["primary"] = u.primary /\ u["recovery"] = u.recovery
      /\ w["config"] = w.config /\ w["primary"] = w.primary /\ w["recovery"] = w.recovery
  BY PartsOfFiles
<1>2. CASE Removes(j)
  <2>1. D \in {{}, {"config"}, {"config", "cache"}, {"config", "cache", "primary"}, File}
    BY <1>2 DEF DoneSets, Before, RemoveBefore, File
  <2> QED
    BY <1>1, <1>2, <2>1 DEF SoundAt, Mix, SoundRemoval, File
<1>3. CASE ~Removes(j)
  <2>1. D \in {{}, {"recovery"}, {"recovery", "config"}, {"recovery", "config", "primary"}, File}
    BY <1>3 DEF DoneSets, Before, WriteBefore, File
  <2> QED
    BY <1>1, <1>3, <2>1 DEF SoundAt, Mix, SoundWrites, File
<1> QED
  BY <1>2, <1>3

LEMMA RestoreIsFiles == Restoration(WriteOrder) \in Seq(File) /\ Restoration(RemoveOrder) \in Seq(File)
BY RestorationOrders, ListsOfFiles DEF WriteBack, RemoveBack

LEMMA CommandStarts ==
    ASSUME NEW fs \in FileSystem, NEW want \in FileSystem, NEW todo, NEW order, NEW base,
           NEW gone \in BOOLEAN, NEW failed, NEW disconnects \in BOOLEAN,
           \/ order = WriteOrder /\ todo \in WriteTodos /\ (failed < 2 => SoundWrites(fs, want, base))
           \/ order = RemoveOrder /\ todo \in RemoveTodos /\ (failed < 2 => SoundRemoval(fs, want, base)),
           \A f \in File \ ToSet(todo) : want[f] = fs[f],
           gone => Clean(fs) /\ Clean(want), disconnects => Clean(want)
    PROVE  Underway(NewJob(todo, want, fs, order, disconnects), fs, base, gone, failed)
<1> DEFINE j == NewJob(todo, want, fs, order, disconnects)
<1>1. /\ j.todo = todo /\ j.want = want /\ j.undo = fs /\ j.restore = Restoration(order)
      /\ j.rollback = FALSE /\ j.disconnects = disconnects
  BY DEF NewJob
<1>2. todo \in Seq(File) /\ Restoration(order) \in Seq(File)
  BY ListsOfFiles, RestoreIsFiles
<1>3. j \in JobType
  BY <1>2 DEF JobType, NewJob
<1> HIDE DEF j
<1>4. (order = WriteOrder /\ ~Removes(j)) \/ (order = RemoveOrder /\ Removes(j))
  BY <1>1, RestorationOrders DEF Removes
<1>5. j.todo \in Todos(j)
  BY <1>1, <1>4, RestorationOrders DEF Removes, Todos
<1>6. ASSUME failed < 2, NEW D \in DoneSets(j) PROVE SoundAt(j, D, base)
  <2>1. IF Removes(j) THEN SoundRemoval(j.undo, j.want, base) ELSE SoundWrites(j.undo, j.want, base)
    BY <1>1, <1>4, <1>6, RestorationOrders DEF Removes
  <2> QED
    BY <1>1, <1>6, <2>1, SoundPoints
<1>7. JobPlan(j, base, gone, failed)
  BY <1>1, <1>3, <1>4, <1>6 DEF JobPlan
<1>8. Writing(j, fs)
  <2>1. Successive(todo, Before(j), Todos(j))
    BY <1>1, <1>5, ListFacts
  <2>2. ToSet(todo) \cap Before(j)[Head(todo)] = {}
    BY <2>1 DEF Successive
  <2>3. \A f \in File \ ToSet(todo) : j.want[f] = j.undo[f]
    BY <1>1
  <2>4. AtFiles(fs, j, Before(j)[Head(todo)])
    <3> SUFFICES ASSUME NEW f \in File PROVE fs[f] = Mix(j, Before(j)[Head(todo)], f)
      BY DEF AtFiles
    <3>1. CASE f \in Before(j)[Head(todo)]
      BY <3>1, <2>2, <1>1 DEF Mix
    <3>2. CASE f \notin Before(j)[Head(todo)]
      BY <3>2, <1>1 DEF Mix
    <3> QED
      BY <3>1, <3>2
  <2> QED
    BY <1>1, <1>5, <2>3, <2>4 DEF Writing
<1> QED
  BY <1>1, <1>7, <1>8 DEF Underway, j

LEMMA WholeOrders ==
    /\ ToSet(WriteOrder) = File /\ WriteOrder \in WriteTodos
    /\ ToSet(RemoveOrder) = File /\ RemoveOrder \in RemoveTodos
<1>1. ToSet(WriteOrder) = File /\ ToSet(RemoveOrder) = File
  <2>1. /\ ToSet(WriteOrder) = {"recovery", "config", "primary", "cache"}
        /\ ToSet(RemoveOrder) = {"config", "cache", "primary", "recovery"}
    BY DEF WriteOrder, RemoveOrder, ToSet
  <2> QED
    BY <2>1 DEF File
<1>2. WriteOrder \in WriteTodos /\ RemoveOrder \in RemoveTodos
  BY DEF WriteTodos, RemoveTodos
<1> QED
  BY <1>1, <1>2

LEMMA NewStateIsSound ==
    ASSUME NEW fs \in FileSystem, NEW base, NEW w, NEW j \in Journal, NEW text,
           fs.primary = fs.recovery, Sound(fs.config, fs.primary, fs.recovery, base),
           Owner(j, text, base) \/ (~text.managed /\ text.url = base),
           w.config = text, w.primary = j, w.recovery = j
    PROVE  SoundWrites(fs, w, base)
<1>1. \A q : Sound(fs.config, fs.primary, q, base)
  BY DEF Sound
<1>2. \A q : Sound(text, q, j, base)
  BY DEF Sound, Owner, OwnedRoute, Journal
<1> QED
  BY <1>1, <1>2 DEF SoundWrites

\* A sound state that agrees with its journal, or that setup may replace, gives the
\* route the user had.
LEMMA RouteOfTheUser ==
    ASSUME NEW c \in Text, NEW j \in Journal, NEW base \in UserUrl \cup {Absent}, Sound(c, j, j, base)
    PROVE  /\ Matches(j, c) => j.previous = base
           /\ ~Matches(j, c) => ReplacementBaseline(c, j).url = base
<1>1. base \notin BridgeUrl /\ j.installed \in BridgeUrl
  BY UrlAssumption DEF Journal
<1>2. ASSUME Matches(j, c) PROVE j.previous = base
  BY <1>1, <1>2 DEF Matches, OwnedRoute, RestoredRoute, Sound, Owner
<1>3. ASSUME ~Matches(j, c) PROVE ReplacementBaseline(c, j).url = base
  <2>1. ~(c.managed /\ c.url \in BridgeUrl)
    BY <1>3 DEF Matches, Sound, Owner
  <2>2. c.url = base /\ c.url # j.installed
    BY <1>1, <2>1 DEF Sound
  <2> QED
    BY <2>2 DEF ReplacementBaseline, PlainText
<1> QED
  BY <1>2, <1>3

LEMMA ReadyFacts ==
    ASSUME JournalIInv, Ready
    PROVE  /\ job = Idle /\ files \in FileSystem /\ files.config \in Text
           /\ files.primary = files.recovery /\ Read = files.primary /\ Read \in Journal \cup {None}
           /\ journalFaults < 2 => Sound(files.config, files.primary, files.recovery, baseline)
           /\ disconnected => Clean(files)
           /\ baseline \in UserUrl \cup {Absent} /\ disconnected \in BOOLEAN
<1>1. files \in FileSystem
  BY DEF JournalIInv, FilesAreSound
<1>2. files.primary = files.recovery
  BY DEF Ready, NeedsRepair
<1>3. Read = files.primary
  BY <1>2 DEF Read, ReadJournal
<1> QED
  BY <1>1, <1>2, <1>3, PartsOfFiles DEF JournalIInv, FilesAreSound, CountersOK, Ready

LEMMA CommandAccepted ==
    ASSUME JournalIInv, UNCHANGED <<files, baseline, counters>>,
           disconnected' \in BOOLEAN, disconnected' => disconnected,
           Underway(job', files, baseline, disconnected', journalFaults)
    PROVE  JournalIInv'
<1>1. CountersOK'
  BY DEF JournalIInv, CountersOK, counters
<1>2. FilesAreSound(files, baseline, disconnected, journalFaults)'
  BY DEF JournalIInv, FilesAreSound, counters
<1>3. Underway(job, files, baseline, disconnected, journalFaults)'
  BY DEF counters
<1> QED
  BY <1>1, <1>2, <1>3 DEF JournalIInv

LEMMA InstallFirstKeeps ==
    ASSUME JournalIInv, NEW port \in BridgeUrl, NEW replace \in BOOLEAN, InstallFirst(port, replace)
    PROVE  JournalIInv'
<1> DEFINE j == [active |-> TRUE, installed |-> port, previous |-> files.config.url, reconnectOnStartup |-> FALSE]
           w == [config |-> InstalledText(port), primary |-> j, recovery |-> j, cache |-> None]
<1>0. Ready
  BY DEF InstallFirst
<1>1. files.config \in Text /\ files \in FileSystem
  BY <1>0, ReadyFacts
<1>2. j \in Journal /\ InstalledText(port) \in Text
  BY <1>1 DEF Journal, Text, Url, InstalledText
<1>3. w \in FileSystem
  BY <1>2 DEF FileSystem
<1>4. ASSUME journalFaults < 2 PROVE SoundWrites(files, w, baseline)
  <2>1. files.config.url = baseline
    BY <1>0, <1>4, ReadyFacts DEF InstallFirst, Sound, Owner
  <2>2. j # None
    BY <1>2, NoneAssumption
  <2>3. Owner(j, InstalledText(port), baseline)
    BY <2>1, <2>2 DEF Owner, OwnedRoute, InstalledText
  <2>4. w.config = InstalledText(port) /\ w.primary = j /\ w.recovery = j
    OBVIOUS
  <2> HIDE DEF j, w
  <2> QED
    BY <2>4, <1>0, <1>1, <1>2, <1>4, <2>3, ReadyFacts, NewStateIsSound
<1>5. job' = NewJob(WriteOrder, w, files, WriteOrder, FALSE)
  BY DEF InstallFirst, WriteIntegrationState, Start, NewJob
<1>6. disconnected' = FALSE /\ UNCHANGED <<files, baseline, counters>>
  BY DEF InstallFirst
<1> HIDE DEF w
<1>7. ToSet(WriteOrder) = File /\ WriteOrder \in WriteTodos
  BY WholeOrders
<1>8. Underway(NewJob(WriteOrder, w, files, WriteOrder, FALSE), files, baseline, FALSE, journalFaults)
  BY <1>1, <1>3, <1>4, <1>7, CommandStarts
<1> QED
  BY <1>5, <1>6, <1>8, CommandAccepted

\* A command that writes the journal, accepted.
LEMMA WriteAccepted ==
    ASSUME JournalIInv, Ready, NEW j \in Journal, NEW text \in Text, NEW dis \in BOOLEAN, NEW gone \in BOOLEAN,
           gone => disconnected, gone \/ dis => ~text.managed /\ ~j.reconnectOnStartup,
           journalFaults < 2 => Owner(j, text, baseline) \/ (~text.managed /\ text.url = baseline)
    PROVE  Underway(NewJob(WriteOrder, [config |-> text, primary |-> j, recovery |-> j, cache |-> None],
                           files, WriteOrder, dis), files, baseline, gone, journalFaults)
<1> DEFINE w == [config |-> text, primary |-> j, recovery |-> j, cache |-> None]
<1>1. w \in FileSystem /\ w.config = text /\ w.primary = j /\ w.recovery = j
  BY DEF FileSystem
<1> HIDE DEF w
<1>2. files \in FileSystem /\ files.primary = files.recovery
  BY ReadyFacts
<1>3. journalFaults < 2 => SoundWrites(files, w, baseline)
  BY <1>1, <1>2, ReadyFacts, NewStateIsSound
<1>4. gone \/ dis => Clean(w)
  BY <1>1 DEF Clean, Honours
<1>5. gone => Clean(files)
  BY ReadyFacts
<1>6. Underway(NewJob(WriteOrder, w, files, WriteOrder, dis), files, baseline, gone, journalFaults)
  BY <1>1, <1>2, <1>3, <1>4, <1>5, WholeOrders, CommandStarts
<1> QED
  BY <1>6 DEF w

LEMMA ReinstallKeeps ==
    ASSUME JournalIInv, NEW port \in BridgeUrl, NEW replace \in BOOLEAN, NEW preserve \in BOOLEAN,
           Reinstall(port, replace, preserve)
    PROVE  JournalIInv'
<1> DEFINE old == Read
           owned == Matches(old, files.config)
           base == ReplacementBaseline(files.config, old)
           updated == [active |-> TRUE, installed |-> port,
                       previous |-> IF owned THEN old.previous ELSE base.url,
                       reconnectOnStartup |-> FALSE]
           kept == [updated EXCEPT !.active = FALSE, !.reconnectOnStartup = old.reconnectOnStartup]
           keep == preserve /\ ~old.active
<1>1. Ready /\ old # None
  BY DEF Reinstall
<1>2. files.config \in Text /\ old \in Journal /\ old = files.primary /\ old = files.recovery
  BY <1>1, ReadyFacts
<1>3. base.url \in Url
  BY <1>2 DEF ReplacementBaseline, PlainText, Text, Journal
<1> HIDE DEF old, owned, base
<1>4. updated \in Journal
  BY <1>2, <1>3 DEF Journal
<1>5. updated.previous \in Url /\ updated.installed = port /\ updated.active = TRUE /\ updated.reconnectOnStartup = FALSE
      /\ updated.previous = IF owned THEN old.previous ELSE base.url
  BY <1>2, <1>3 DEF Journal
<1> HIDE DEF updated
<1>6. /\ kept \in Journal /\ kept.previous = updated.previous /\ kept.active = FALSE
      /\ kept.reconnectOnStartup = old.reconnectOnStartup
  BY <1>2, <1>4 DEF Journal
<1> HIDE DEF kept
<1>7. journalFaults < 2 => updated.previous = baseline
  BY <1>1, <1>2, <1>5, ReadyFacts, RouteOfTheUser DEF owned, base
<1>8. disconnected \in BOOLEAN /\ (disconnected => ~old.reconnectOnStartup)
  BY <1>1, <1>2, ReadyFacts DEF Clean, Honours
<1>9. UNCHANGED <<files, baseline, counters>> /\ disconnected' = (disconnected /\ keep)
  BY DEF Reinstall, old
<1>10. CASE keep
  <2> DEFINE text == PlainText(updated.previous)
             w == [config |-> text, primary |-> kept, recovery |-> kept, cache |-> None]
  <2>1. text \in Text /\ ~text.managed /\ text.url = updated.previous
    BY <1>5 DEF PlainText, Text
  <2>2. job' = NewJob(WriteOrder, w, files, WriteOrder, FALSE)
    BY <1>10 DEF Reinstall, WriteIntegrationState, Start, NewJob, old, owned, base, updated, kept
  <2> HIDE DEF text
  <2>3. disconnected' = disconnected
    BY <1>8, <1>9, <1>10
  <2>4. Underway(NewJob(WriteOrder, w, files, WriteOrder, FALSE), files, baseline, disconnected, journalFaults)
    BY <1>1, <1>6, <1>7, <1>8, <2>1, WriteAccepted
  <2> QED
    BY <1>8, <1>9, <2>2, <2>3, <2>4, CommandAccepted
<1>11. CASE ~keep
  <2> DEFINE text == InstalledText(port)
             w == [config |-> text, primary |-> updated, recovery |-> updated, cache |-> None]
  <2>1. text \in Text /\ text.managed /\ text.url = port
    BY DEF InstalledText, Text, Url
  <2>2. job' = NewJob(WriteOrder, w, files, WriteOrder, FALSE)
    BY <1>11 DEF Reinstall, WriteIntegrationState, Start, NewJob, old, owned, base, updated
  <2> HIDE DEF text
  <2>3. disconnected' = FALSE
    BY <1>8, <1>9, <1>11
  <2>4. journalFaults < 2 => Owner(updated, text, baseline)
    BY <1>4, <1>5, <1>7, <2>1, NoneAssumption DEF Owner, OwnedRoute
  <2>5. Underway(NewJob(WriteOrder, w, files, WriteOrder, FALSE), files, baseline, FALSE, journalFaults)
    BY <1>1, <1>4, <2>1, <2>4, WriteAccepted
  <2> QED
    BY <1>9, <2>2, <2>3, <2>5, CommandAccepted
<1> QED
  BY <1>10, <1>11

LEMMA DeactivateKeeps ==
    ASSUME JournalIInv, NEW recovery \in BOOLEAN, Deactivate(recovery)
    PROVE  JournalIInv'
<1> DEFINE j == Read
<1>1. Ready /\ j # None /\ Matches(j, files.config)
  BY DEF Deactivate
<1>2. files.config \in Text /\ j \in Journal /\ j = files.primary /\ j = files.recovery
  BY <1>1, ReadyFacts
<1>3. journalFaults < 2 => j.previous = baseline
  BY <1>1, <1>2, ReadyFacts, RouteOfTheUser
<1>4. UNCHANGED <<files, baseline, disconnected, counters>> /\ disconnected \in BOOLEAN
  BY <1>1, ReadyFacts DEF Deactivate
<1>5. CASE j.active /\ job' = NewJob(WriteOrder,
              [config |-> PlainText(j.previous), primary |-> [j EXCEPT !.active = FALSE, !.reconnectOnStartup = recovery],
               recovery |-> [j EXCEPT !.active = FALSE, !.reconnectOnStartup = recovery], cache |-> None],
              files, WriteOrder, ~recovery)
  <2> DEFINE k == [j EXCEPT !.active = FALSE, !.reconnectOnStartup = recovery]
             text == PlainText(j.previous)
  <2>1. k \in Journal /\ k.reconnectOnStartup = recovery
    BY <1>2 DEF Journal
  <2>2. text \in Text /\ ~text.managed /\ text.url = j.previous
    BY <1>2 DEF Text, PlainText, Journal
  <2>3. ~disconnected
    BY <1>1, <1>5, ReadyFacts DEF Matches, OwnedRoute, Clean
  <2> HIDE DEF k, text, j
  <2>4. Underway(NewJob(WriteOrder, [config |-> text, primary |-> k, recovery |-> k, cache |-> None],
                        files, WriteOrder, ~recovery), files, baseline, disconnected, journalFaults)
    BY <1>1, <1>3, <1>4, <2>1, <2>2, <2>3, WriteAccepted
  <2> QED
    BY <1>4, <1>5, <2>4, CommandAccepted DEF k, text
<1>6. CASE /\ ~j.active /\ ~recovery
           /\ job' = NewJob(<<"recovery", "config", "primary">>,
                 [files EXCEPT !.recovery = [j EXCEPT !.reconnectOnStartup = FALSE],
                               !.primary = [j EXCEPT !.reconnectOnStartup = FALSE]], files, WriteOrder, TRUE)
  <2> DEFINE k == [j EXCEPT !.reconnectOnStartup = FALSE]
             w == [files EXCEPT !.recovery = k, !.primary = k]
             todo == <<"recovery", "config", "primary">>
  <2>1. k \in Journal /\ k.reconnectOnStartup = FALSE
    BY <1>2 DEF Journal
  <2>2. files \in FileSystem
    BY <1>1, ReadyFacts
  <2>3. /\ w \in FileSystem /\ w.config = files.config /\ w.primary = k /\ w.recovery = k
        /\ w["cache"] = files["cache"]
    BY <2>1, <2>2 DEF FileSystem
  <2>4. ~files.config.managed
    BY <1>1, <1>6 DEF Matches, RestoredRoute
  <2>5. Clean(w)
    BY <2>1, <2>3, <2>4 DEF Clean, Honours
  <2> HIDE DEF k, w, j
  <2>6. journalFaults < 2 => SoundWrites(files, w, baseline)
    BY <1>1, <2>3, <2>4, ReadyFacts DEF Sound, SoundWrites
  <2>7. disconnected => Clean(files)
    BY <1>1, ReadyFacts
  <2>8. todo \in WriteTodos /\ ToSet(todo) = {"recovery", "config", "primary"}
    BY DEF WriteTodos, ToSet
  <2> HIDE DEF todo
  <2>9. \A f \in File \ ToSet(todo) : w[f] = files[f]
    BY <2>3, <2>8 DEF File
  <2>10. Underway(NewJob(todo, w, files, WriteOrder, TRUE), files, baseline, disconnected, journalFaults)
    BY <1>4, <2>2, <2>3, <2>5, <2>6, <2>7, <2>8, <2>9, CommandStarts
  <2> QED
    BY <1>4, <1>6, <2>10, CommandAccepted DEF todo, w, k
<1> QED
  BY <1>5, <1>6 DEF Deactivate, WriteIntegrationState, Start, NewJob

LEMMA ActivateKeeps ==
    ASSUME JournalIInv, NEW recoveryOnly \in BOOLEAN, Activate(recoveryOnly)
    PROVE  JournalIInv'
<1> DEFINE j == Read
           k == [j EXCEPT !.active = TRUE, !.reconnectOnStartup = FALSE]
           text == InstalledText(j.installed)
<1>1. Ready /\ j # None /\ Matches(j, files.config) /\ (recoveryOnly => j.reconnectOnStartup)
  BY DEF Activate, Matches
<1>2. files.config \in Text /\ j \in Journal /\ j = files.primary /\ j = files.recovery
  BY <1>1, ReadyFacts
<1>3. journalFaults < 2 => j.previous = baseline
  BY <1>1, <1>2, ReadyFacts, RouteOfTheUser
<1>4. UNCHANGED <<files, baseline, counters>> /\ disconnected' = (disconnected /\ recoveryOnly)
  BY DEF Activate
<1>5. disconnected' = FALSE
  BY <1>1, <1>2, <1>4, ReadyFacts DEF Clean, Honours
<1>6. job' = NewJob(WriteOrder, [config |-> text, primary |-> k, recovery |-> k, cache |-> None],
                    files, WriteOrder, FALSE)
  BY DEF Activate, WriteIntegrationState, Start, NewJob
<1>7. /\ k \in Journal /\ k.active = TRUE /\ k.installed = j.installed /\ k.previous = j.previous
      /\ k # None
  BY <1>2, NoneAssumption DEF Journal
<1>8. text \in Text /\ text.managed /\ text.url = j.installed
  BY <1>2 DEF Text, Url, InstalledText, Journal
<1> HIDE DEF j, k, text
<1>9. journalFaults < 2 => Owner(k, text, baseline)
  BY <1>3, <1>7, <1>8 DEF Owner, OwnedRoute
<1>10. Underway(NewJob(WriteOrder, [config |-> text, primary |-> k, recovery |-> k, cache |-> None],
                       files, WriteOrder, FALSE), files, baseline, FALSE, journalFaults)
  BY <1>1, <1>7, <1>8, <1>9, WriteAccepted
<1> QED
  BY <1>4, <1>5, <1>6, <1>10, CommandAccepted

LEMMA UninstallKeeps ==
    ASSUME JournalIInv, Uninstall
    PROVE  JournalIInv'
<1> DEFINE j == Read
           w == [config |-> PlainText(j.previous), primary |-> None, recovery |-> None, cache |-> None]
<1>1. Ready /\ j # None /\ Matches(j, files.config)
  BY DEF Uninstall
<1>2. files.config \in Text /\ j \in Journal /\ j = files.primary /\ j = files.recovery /\ files \in FileSystem
  BY <1>1, ReadyFacts
<1>3. journalFaults < 2 => j.previous = baseline
  BY <1>1, <1>2, ReadyFacts, RouteOfTheUser
<1>4. UNCHANGED <<files, baseline, disconnected, counters>> /\ disconnected \in BOOLEAN
      /\ (disconnected => Clean(files))
  BY <1>1, ReadyFacts DEF Uninstall
<1>5. job' = NewJob(RemoveOrder, w, files, RemoveOrder, FALSE)
  BY DEF Uninstall, NewJob, RemoveOrder
<1>6. /\ w \in FileSystem /\ ~w.config.managed /\ w.config.url = j.previous
      /\ w.primary = None /\ w.recovery = None
  BY <1>2 DEF FileSystem, Text, PlainText, Journal
<1> HIDE DEF j, w
<1>7. Clean(w)
  BY <1>6 DEF Clean, Honours
<1>8. journalFaults < 2 => SoundRemoval(files, w, baseline)
  BY <1>1, <1>3, <1>6, ReadyFacts DEF SoundRemoval, Sound
<1>9. Underway(NewJob(RemoveOrder, w, files, RemoveOrder, FALSE), files, baseline, disconnected, journalFaults)
  BY <1>2, <1>4, <1>6, <1>7, <1>8, WholeOrders, CommandStarts
<1> QED
  BY <1>4, <1>5, <1>9, CommandAccepted

\* The journal that the two copies amount to owns the route if either copy does.
LEMMA RepairKeeps ==
    ASSUME JournalIInv, RepairJournal
    PROVE  JournalIInv'
<1> DEFINE j == ReadJournal(files)
           p == files.primary
           r == files.recovery
           c == files.config
           w == [files EXCEPT !.primary = j, !.recovery = j]
           todo == IF p # None /\ r # None THEN <<"recovery", "primary">>
                   ELSE IF r = None THEN <<"recovery">> ELSE <<"primary">>
<1>1. files \in FileSystem /\ c \in Text /\ p \in Journal \cup {None} /\ r \in Journal \cup {None}
      /\ (journalFaults < 2 => Sound(c, p, r, baseline)) /\ (disconnected => Clean(files))
      /\ disconnected \in BOOLEAN
  BY PartsOfFiles DEF JournalIInv, FilesAreSound, CountersOK
<1>2. p # r /\ j # Unreadable /\ UNCHANGED <<files, baseline, disconnected, counters>>
  BY DEF RepairJournal, NeedsRepair
<1>3. /\ r = None => j = p
      /\ p = None => j = r
      /\ j \in {p, r}
  BY <1>2 DEF ReadJournal
<1>4. Owner(p, c, baseline) \/ Owner(r, c, baseline) => Owner(j, c, baseline)
  BY <1>2 DEF ReadJournal, Owner, Matches
<1>5. job' = NewJob(todo, w, files, WriteOrder, FALSE)
  BY DEF RepairJournal, Start, NewJob
<1>6. /\ w \in FileSystem /\ w.config = c /\ w.primary = j /\ w.recovery = j
      /\ w["config"] = files["config"] /\ w["cache"] = files["cache"]
      /\ w["primary"] = j /\ w["recovery"] = j /\ files["primary"] = p /\ files["recovery"] = r
  BY <1>1, <1>3 DEF FileSystem
<1>7. Clean(files) => Clean(w)
  BY <1>3, <1>6 DEF Clean
<1>8. /\ todo \in WriteTodos
      /\ p # None /\ r # None => ToSet(todo) = {"recovery", "primary"}
      /\ r = None => ToSet(todo) = {"recovery"}
      /\ r # None /\ p = None => ToSet(todo) = {"primary"}
  BY DEF WriteTodos, ToSet
<1> HIDE DEF j, w, todo
<1>9. journalFaults < 2 => SoundWrites(files, w, baseline)
  BY <1>1, <1>4, <1>6 DEF SoundWrites, Sound
<1>10. \A f \in File \ ToSet(todo) : w[f] = files[f]
  BY <1>3, <1>6, <1>8 DEF File
<1>11. Underway(NewJob(todo, w, files, WriteOrder, FALSE), files, baseline, disconnected, journalFaults)
  BY ZenonT(60), <1>1, <1>6, <1>7, <1>8, <1>9, <1>10, CommandStarts
<1> QED
  BY <1>1, <1>2, <1>5, <1>11, CommandAccepted

-----------------------------------------------------------------------------
(* A command under way                                                     *)

LEMMA WriteNextKeeps ==
    ASSUME JournalIInv, WriteNext
    PROVE  JournalIInv'
<1> DEFINE next == [job EXCEPT !.todo = Tail(job.todo)]
<1>1. job # Idle /\ Underway(job, files, baseline, disconnected, journalFaults)
      /\ files \in FileSystem /\ disconnected \in BOOLEAN
  BY DEF WriteNext, JournalIInv, FilesAreSound, CountersOK
<1>2. /\ job \in JobType /\ JobPlan(job, baseline, disconnected, journalFaults) /\ Writing(job, files)
      /\ \A f \in File : files[f] \in {job.want[f], job.undo[f]}
      /\ job.want \in FileSystem /\ job.undo \in FileSystem /\ job.disconnects \in BOOLEAN
  BY <1>1 DEF WriteNext, Underway, JobPlan, RollingBack, JobType
<1>3. files' = [files EXCEPT ![Head(job.todo)] = job.want[Head(job.todo)]]
      /\ UNCHANGED <<baseline, counters>>
      /\ disconnected' = (disconnected \/ (Len(job.todo) = 1 /\ job.disconnects))
  BY DEF WriteNext
<1>4. job' = IF Len(job.todo) = 1 THEN Idle ELSE next
  BY DEF WriteNext, Finished
<1> HIDE DEF next
<1>5. /\ files' \in FileSystem
      /\ \A f \in File : files'[f] \in {job.want[f], job.undo[f]}
      /\ Len(job.todo) # 1 => next \in JobType /\ JobPlan(next, baseline, disconnected, journalFaults)
                              /\ Writing(next, files')
      /\ Len(job.todo) = 1 => files' = job.want
      /\ journalFaults < 2 => Sound(files'.config, files'.primary, files'.recovery, baseline)
  <2>1. GoesOn(next, job) /\ FileSet(files', files, job.want, Head(job.todo))
    BY <1>3 DEF next, GoesOn, FileSet
  <2> QED
    BY <1>1, <1>2, <2>1, WriteOne
<1>6. next.want = job.want /\ next.undo = job.undo
  BY <1>2 DEF next, JobType
<1>7. disconnected' => Clean(files')
  <2>1. CASE disconnected
    BY <2>1, <1>2, <1>5, MixtureIsClean DEF JobPlan
  <2>2. CASE Len(job.todo) = 1 /\ job.disconnects
    BY <2>2, <1>2, <1>5 DEF JobPlan
  <2> QED
    BY <1>3, <2>1, <2>2
<1>8. CountersOK'
  BY <1>1, <1>2, <1>3 DEF JournalIInv, CountersOK, counters
<1>9. FilesAreSound(files, baseline, disconnected, journalFaults)'
  BY <1>3, <1>5, <1>7 DEF FilesAreSound, counters
<1>10. job' # Idle => Underway(job', files', baseline, disconnected', journalFaults)
  BY <1>1, <1>3, <1>4, <1>5, <1>6 DEF Underway
<1> QED
  BY <1>3, <1>8, <1>9, <1>10 DEF JournalIInv, counters

LEMMA WriteFailsKeeps ==
    ASSUME JournalIInv, WriteFails
    PROVE  JournalIInv'
<1>1. job # Idle /\ Underway(job, files, baseline, disconnected, journalFaults)
      /\ files \in FileSystem /\ journalFaults \in Nat /\ journalFaults' = journalFaults + 1
      /\ journalFaults' \in 0..MAX_JOURNAL_FAULTS
  BY BoundAssumption DEF WriteFails, JournalIInv, FilesAreSound, CountersOK
<1>2. /\ job \in JobType /\ JobPlan(job, baseline, disconnected, journalFaults) /\ Writing(job, files)
      /\ \A f \in File : files[f] \in {job.want[f], job.undo[f]}
      /\ job.restore \in Seq(File)
  BY <1>1 DEF WriteFails, Underway, JobPlan, RollingBack, JobType
<1>3. UNCHANGED <<files, baseline, disconnected, crashes, edits>>
      /\ job' = [job EXCEPT !.rollback = TRUE, !.todo = job.restore]
  BY DEF WriteFails
<1>4. /\ job' \in JobType /\ job'.todo = job.restore /\ job'.rollback = TRUE /\ job'.want = job.want
      /\ job'.undo = job.undo /\ job'.restore = job.restore /\ job'.disconnects = job.disconnects
  BY <1>2, <1>3 DEF JobType
<1>5. JobPlan(job, baseline, disconnected, journalFaults')
  BY <1>1, <1>2 DEF JobPlan
<1>6. /\ JobPlan(job', baseline, disconnected, journalFaults')
      /\ \A D, f : Mix(job', D, f) = Mix(job, D, f)
      /\ DoneSets(job') = DoneSets(job) /\ Backs(job') = Backs(job)
  BY <1>4, <1>5, SamePlan
<1>7. job.restore \in Backs(job) /\ ToSet(job.restore) = File
  <2>1. /\ ToSet(<<"cache", "primary", "config", "recovery">>) = File
        /\ ToSet(<<"recovery", "primary", "cache", "config">>) = File
    BY DEF ToSet, File
  <2>2. job.restore \in Backs(job)
    BY <1>2, RestorationOrders DEF JobPlan, Backs, WriteBack, RemoveBack, Removes
  <2> QED
    BY <1>2, <2>1, <2>2, RestorationOrders DEF JobPlan
<1>8. \E D \in DoneSets(job) : D \subseteq File /\ AtFiles(files, job, D)
  <2>1. Head(job.todo) \in File
    BY <1>2, ListFacts DEF Writing, Successive
  <2>2. Before(job)[Head(job.todo)] \in DoneSets(job) /\ Before(job)[Head(job.todo)] \subseteq File
    BY <2>1, BeforeIsDone DEF Before, WriteBefore, RemoveBefore, File
  <2> QED
    BY <1>2, <2>2 DEF Writing
<1>9. RollingBack(job', files, journalFaults')
  <2>1. \E D \in DoneSets(job') : D \subseteq ToSet(job'.todo) /\ AtFiles(files, job', D)
    BY <1>4, <1>6, <1>7, <1>8 DEF AtFiles
  <2> QED
    BY <1>1, <1>4, <1>6, <1>7, <2>1 DEF RollingBack
<1>10. Underway(job', files, baseline, disconnected, journalFaults')
  BY <1>2, <1>4, <1>6, <1>9 DEF Underway
<1>11. CountersOK'
  BY <1>1, <1>3 DEF JournalIInv, CountersOK
<1>12. FilesAreSound(files, baseline, disconnected, journalFaults)'
  BY <1>1, <1>3 DEF JournalIInv, FilesAreSound
<1> QED
  BY <1>3, <1>10, <1>11, <1>12 DEF JournalIInv

LEMMA RestoreNextKeeps ==
    ASSUME JournalIInv, RestoreNext
    PROVE  /\ JournalIInv'
           /\ journalFaults <= 1 /\ job' = Idle => files' = job.undo
<1> DEFINE next == [job EXCEPT !.todo = Tail(job.todo)]
<1>1. job # Idle /\ Underway(job, files, baseline, disconnected, journalFaults)
      /\ files \in FileSystem /\ disconnected \in BOOLEAN /\ journalFaults \in Nat
  BY BoundAssumption DEF RestoreNext, JournalIInv, FilesAreSound, CountersOK
<1>2. /\ job \in JobType /\ JobPlan(job, baseline, disconnected, journalFaults)
      /\ RollingBack(job, files, journalFaults)
      /\ \A f \in File : files[f] \in {job.want[f], job.undo[f]}
      /\ job.want \in FileSystem /\ job.undo \in FileSystem
  BY <1>1 DEF RestoreNext, Underway, JobPlan, Writing, JobType
<1>3. files' = [files EXCEPT ![Head(job.todo)] = job.undo[Head(job.todo)]]
      /\ UNCHANGED <<baseline, disconnected, counters>>
  BY DEF RestoreNext
<1>4. job' = IF Len(job.todo) = 1 THEN Idle ELSE next
  BY DEF RestoreNext, Finished
<1>5. job.todo \in Seq(File) /\ next \in JobType /\ next.want = job.want /\ next.undo = job.undo
  <2>1. job.todo \in Seq(File) /\ job.todo # <<>>
    BY <1>2, ListFacts DEF RollingBack, Receding, ToSet
  <2> QED
    BY <1>2, <2>1, NextFile
<1> HIDE DEF next
<1>6. /\ files' \in FileSystem
      /\ \A f \in File : files'[f] \in {job.want[f], job.undo[f]}
      /\ Len(job.todo) # 1 => next \in JobType /\ JobPlan(next, baseline, disconnected, journalFaults)
                              /\ RollingBack(next, files', journalFaults)
      /\ journalFaults < 2 => Sound(files'.config, files'.primary, files'.recovery, baseline)
      /\ journalFaults < 2 /\ Len(job.todo) = 1 => files' = job.undo
  <2>1. GoesOn(next, job) /\ FileSet(files', files, job.undo, Head(job.todo))
    BY <1>3 DEF next, GoesOn, FileSet
  <2> QED
    BY <1>1, <1>2, <2>1, RestoreOne
<1>7. disconnected => Clean(files')
  BY <1>2, <1>6, MixtureIsClean DEF JobPlan
<1>8. CountersOK'
  BY <1>3 DEF JournalIInv, CountersOK, counters
<1>9. FilesAreSound(files, baseline, disconnected, journalFaults)'
  BY <1>3, <1>6, <1>7 DEF FilesAreSound, counters
<1>10. job' # Idle => Underway(job', files', baseline, disconnected, journalFaults)
  BY <1>1, <1>4, <1>5, <1>6 DEF Underway
<1>11. JournalIInv'
  BY <1>3, <1>8, <1>9, <1>10 DEF JournalIInv, counters
<1>12. ASSUME journalFaults <= 1, job' = Idle PROVE files' = job.undo
  <2>1. Len(job.todo) = 1
    BY <1>4, <1>5, <1>12, IdleAssumption DEF JobType
  <2> QED
    BY <1>1, <1>6, <1>12, <2>1
<1> QED
  BY <1>11, <1>12

LEMMA RestoreFailsKeeps ==
    ASSUME JournalIInv, RestoreFails
    PROVE  JournalIInv'
<1> DEFINE next == [job EXCEPT !.todo = Tail(job.todo)]
<1>1. job # Idle /\ Underway(job, files, baseline, disconnected, journalFaults)
      /\ files \in FileSystem /\ journalFaults \in Nat /\ journalFaults' = journalFaults + 1
      /\ journalFaults' \in 0..MAX_JOURNAL_FAULTS
  BY BoundAssumption DEF RestoreFails, JournalIInv, FilesAreSound, CountersOK
<1>2. /\ job \in JobType /\ JobPlan(job, baseline, disconnected, journalFaults)
      /\ RollingBack(job, files, journalFaults)
      /\ \A f \in File : files[f] \in {job.want[f], job.undo[f]}
  BY <1>1 DEF RestoreFails, Underway, JobPlan, Writing, JobType
<1>3. UNCHANGED <<files, baseline, disconnected, crashes, edits>>
      /\ job' = IF Len(job.todo) = 1 THEN Idle ELSE next
  BY DEF RestoreFails, Finished
<1>4. ~(journalFaults' < 2)
  BY <1>1, <1>2 DEF RollingBack
<1>5. Receding(job.todo, Before(job), Backs(job)) /\ job.todo \in Seq(File) /\ job.todo # <<>>
  <2>1. Receding(job.todo, Before(job), Backs(job)) /\ job.todo \in Seq(File)
    BY <1>2, ListFacts DEF RollingBack
  <2>2. Head(job.todo) \in ToSet(job.todo)
    BY <2>1 DEF Receding
  <2> QED
    BY <2>1, <2>2 DEF ToSet
<1>6. /\ next \in JobType /\ next.todo = Tail(job.todo) /\ next.want = job.want /\ next.undo = job.undo
      /\ next.restore = job.restore /\ next.rollback = job.rollback /\ next.disconnects = job.disconnects
  BY <1>2, <1>5, NextFile
<1> HIDE DEF next
<1>7. JobPlan(job, baseline, disconnected, journalFaults')
  BY <1>2, <1>4 DEF JobPlan
<1>8. JobPlan(next, baseline, disconnected, journalFaults') /\ Backs(next) = Backs(job)
  BY <1>6, <1>7, SamePlan
<1>9. Len(job.todo) # 1 => RollingBack(next, files, journalFaults')
  BY <1>1, <1>2, <1>4, <1>5, <1>6, <1>8 DEF RollingBack, Receding
<1>10. job' # Idle => Underway(job', files, baseline, disconnected, journalFaults')
  BY <1>2, <1>3, <1>6, <1>8, <1>9 DEF Underway
<1>11. CountersOK'
  BY <1>1, <1>3 DEF JournalIInv, CountersOK
<1>12. FilesAreSound(files, baseline, disconnected, journalFaults)'
  BY <1>1, <1>3 DEF JournalIInv, FilesAreSound
<1> QED
  BY <1>3, <1>10, <1>11, <1>12 DEF JournalIInv

LEMMA CrashKeeps ==
    ASSUME JournalIInv, Crash
    PROVE  JournalIInv'
<1>1. /\ job' = Idle /\ UNCHANGED <<files, baseline, disconnected, journalFaults, edits>>
      /\ crashes' \in 0..MAX_CRASHES
  BY BoundAssumption DEF Crash, JournalIInv, CountersOK
<1> QED
  BY <1>1 DEF JournalIInv, CountersOK, FilesAreSound

-----------------------------------------------------------------------------
(* The user and Codex                                                      *)

LEMMA EditRouteKeeps ==
    ASSUME JournalIInv, NEW url \in UserUrl \cup {Absent}, EditRoute(url)
    PROVE  JournalIInv'
<1>1. /\ job = Idle /\ job' = Idle /\ files' = [files EXCEPT !.config.url = url] /\ baseline' = url
      /\ UNCHANGED <<disconnected, journalFaults, crashes>> /\ edits' \in 0..MAX_EDITS
      /\ files \in FileSystem
  BY BoundAssumption DEF EditRoute, JournalIInv, CountersOK, FilesAreSound
<1>2. /\ files' \in FileSystem /\ files'.config.url = url /\ files'.config.managed = files.config.managed
      /\ files'.primary = files.primary /\ files'.recovery = files.recovery
  BY <1>1 DEF FileSystem, Text, Url
<1>3. url \notin BridgeUrl
  BY UrlAssumption
<1>4. Sound(files'.config, files'.primary, files'.recovery, url)
  BY <1>2, <1>3 DEF Sound
<1>5. disconnected => Clean(files')
  BY <1>2 DEF JournalIInv, FilesAreSound, Clean
<1>6. FilesAreSound(files, baseline, disconnected, journalFaults)'
  BY <1>1, <1>2, <1>4, <1>5 DEF FilesAreSound
<1>7. CountersOK'
  BY <1>1 DEF JournalIInv, CountersOK
<1> QED
  BY <1>1, <1>6, <1>7 DEF JournalIInv

LEMMA FetchModelsKeeps ==
    ASSUME JournalIInv, FetchModels
    PROVE  JournalIInv'
<1>1. /\ job = Idle /\ job' = Idle /\ files' = [files EXCEPT !.cache = "models"]
      /\ UNCHANGED <<baseline, disconnected, counters>> /\ files \in FileSystem
  BY DEF FetchModels, JournalIInv, FilesAreSound
<1>2. /\ files' \in FileSystem /\ files'.config = files.config
      /\ files'.primary = files.primary /\ files'.recovery = files.recovery
  BY <1>1 DEF FileSystem
<1> QED
  BY <1>1, <1>2 DEF JournalIInv, CountersOK, FilesAreSound, Clean, counters

-----------------------------------------------------------------------------
(* The theorem                                                             *)

LEMMA JournalInvFollows ==
    ASSUME JournalIInv
    PROVE  JournalInv
<1>1. files \in FileSystem /\ files.primary \in Journal \cup {None} /\ files.recovery \in Journal \cup {None}
  BY PartsOfFiles DEF JournalIInv, FilesAreSound
<1>2. ASSUME job # Idle PROVE IsJob(job)
  <2>1. /\ job \in JobType /\ job.todo \in Todos(job) \cup Backs(job)
        /\ job.restore \in {Restoration(WriteOrder), Restoration(RemoveOrder)}
    BY <1>2 DEF JournalIInv, Underway, JobPlan, Writing, RollingBack
  <2>2. ToSet(job.todo) \subseteq File
    BY <2>1, ListFacts DEF Successive, Receding
  <2>3. /\ ToSet(<<"cache", "primary", "config", "recovery">>) = File
        /\ ToSet(<<"recovery", "primary", "cache", "config">>) = File
    BY DEF ToSet, File
  <2>4. ToSet(job.restore) = File
    BY <2>1, <2>3, RestorationOrders
  <2> QED
    BY <2>1, <2>2, <2>4 DEF IsJob, JobType
<1>3. JournalTypeOK
  BY <1>1, <1>2 DEF JournalIInv, CountersOK, JournalTypeOK
<1>4. BaselineIsKept
  BY DEF JournalIInv, FilesAreSound, BaselineIsKept, Sound, Owner
<1>5. DisconnectIsHonoured
  <2> SUFFICES ASSUME disconnected
               PROVE  /\ ~files.config.managed
                      /\ ReadJournal(files) \notin {None, Unreadable} => ~ReadJournal(files).reconnectOnStartup
    BY DEF DisconnectIsHonoured
  <2>1. ReadJournal(files) \in {files.primary, files.recovery, Unreadable}
    BY DEF ReadJournal
  <2> QED
    BY <2>1 DEF JournalIInv, FilesAreSound, Clean, Honours
<1> QED
  BY <1>3, <1>4, <1>5 DEF JournalInv

LEMMA JournalStarts == JournalInit => JournalIInv
<1> SUFFICES ASSUME JournalInit PROVE JournalIInv
  OBVIOUS
<1>1. PICK url \in UserUrl \cup {Absent} :
         /\ files = [config |-> [url |-> url, managed |-> FALSE],
                     primary |-> None, recovery |-> None, cache |-> "models"]
         /\ baseline = url
  BY DEF JournalInit
<1>2. files \in FileSystem /\ files.config.managed = FALSE /\ files.config.url = baseline
  BY <1>1 DEF FileSystem, Text, Url
<1>3. FilesAreSound(files, baseline, disconnected, journalFaults)
  BY <1>2 DEF FilesAreSound, Sound, JournalInit
<1>4. CountersOK
  <2>1. baseline \in UserUrl \cup {Absent} /\ disconnected = FALSE
        /\ journalFaults = 0 /\ crashes = 0 /\ edits = 0
    BY <1>1 DEF JournalInit
  <2>2. 0 \in 0..MAX_JOURNAL_FAULTS /\ 0 \in 0..MAX_CRASHES /\ 0 \in 0..MAX_EDITS
    BY BoundAssumption
  <2> QED
    BY <2>1, <2>2, Zenon DEF CountersOK
<1> QED
  BY <1>3, <1>4 DEF JournalIInv, JournalInit

LEMMA JournalStep == JournalIInv /\ [JournalNext]_journalVars => JournalIInv'
<1> SUFFICES ASSUME JournalIInv, [JournalNext]_journalVars PROVE JournalIInv'
  OBVIOUS
<1>1. CASE RepairJournal
  BY <1>1, RepairKeeps
<1>2. ASSUME NEW port \in BridgeUrl, NEW replace \in BOOLEAN, InstallFirst(port, replace) PROVE JournalIInv'
  BY <1>2, InstallFirstKeeps
<1>3. ASSUME NEW port \in BridgeUrl, NEW replace \in BOOLEAN, NEW preserve \in BOOLEAN,
             Reinstall(port, replace, preserve)
      PROVE  JournalIInv'
  BY <1>3, ReinstallKeeps
<1>4. ASSUME NEW recovery \in BOOLEAN, Deactivate(recovery) PROVE JournalIInv'
  BY <1>4, DeactivateKeeps
<1>5. ASSUME NEW recovery \in BOOLEAN, Activate(recovery) PROVE JournalIInv'
  BY <1>5, ActivateKeeps
<1>6. CASE Uninstall
  BY <1>6, UninstallKeeps
<1>7. CASE WriteNext
  BY <1>7, WriteNextKeeps
<1>8. CASE WriteFails
  BY <1>8, WriteFailsKeeps
<1>9. CASE RestoreNext
  BY <1>9, RestoreNextKeeps
<1>10. CASE RestoreFails
  BY <1>10, RestoreFailsKeeps
<1>11. CASE Crash
  BY <1>11, CrashKeeps
<1>12. ASSUME NEW url \in UserUrl \cup {Absent}, EditRoute(url) PROVE JournalIInv'
  BY <1>12, EditRouteKeeps
<1>13. CASE FetchModels
  BY <1>13, FetchModelsKeeps
<1>14. CASE UNCHANGED journalVars
  BY <1>14 DEF journalVars, JournalIInv, CountersOK
<1> QED
  BY <1>1, <1>2, <1>3, <1>4, <1>5, <1>6, <1>7, <1>8, <1>9, <1>10, <1>11, <1>12, <1>13, <1>14 DEF JournalNext

\* A rollback that ends without a second fault has restored every file.
LEMMA RollbackStep ==
    ASSUME JournalIInv, [JournalNext]_journalVars, job # Idle, job.rollback, job' = Idle,
           crashes' = crashes, journalFaults <= 1
    PROVE  files' = job.undo \/ journalFaults' # journalFaults
<1>1. CASE RestoreNext
  BY <1>1, RestoreNextKeeps
<1>2. CASE RestoreFails \/ WriteFails
  BY <1>2, BoundAssumption DEF RestoreFails, WriteFails, JournalIInv, CountersOK
<1>3. ~Crash
  BY BoundAssumption DEF Crash, JournalIInv, CountersOK
<1>4. ~WriteNext /\ ~UNCHANGED journalVars
  BY DEF WriteNext, journalVars
<1> QED
  BY <1>1, <1>2, <1>3, <1>4 DEF JournalNext, RepairJournal, InstallFirst, Reinstall, Deactivate, Activate,
     Uninstall, EditRoute, FetchModels, Ready

\* Whatever write fails, wherever a command stops and whatever the user edits, the files
\* stay sound, and a command that fails and rolls back leaves them as it found them.
THEOREM JournalCorrect == JournalSpec => JournalHolds
<1>1. JournalSpec => []JournalIInv
  BY JournalStarts, JournalStep, PTL DEF JournalSpec
<1>2. JournalSpec => []JournalInv
  BY <1>1, JournalInvFollows, PTL
<1>3. JournalIInv /\ [JournalNext]_journalVars =>
        [job # Idle /\ job.rollback /\ job' = Idle /\ crashes' = crashes /\ journalFaults <= 1
          => files' = job.undo \/ journalFaults' # journalFaults]_journalVars
  BY RollbackStep
<1>4. JournalSpec => FailureChangesNothing
  BY <1>1, <1>3, PTL DEF JournalSpec, FailureChangesNothing
<1> QED
  BY <1>2, <1>4, PTL DEF JournalHolds

-----------------------------------------------------------------------------
(* The runtime supervisor *)

\* SupervisorTypeOK, the data and the flags apart.
Types ==
    /\ proc \in {"none", "booting", "serving", "closing"}
    /\ turns \in 0..MAX_TURNS
    /\ observers \subseteq Task /\ restartTimers \subseteq Child
    /\ pc \in [Task -> Steps]
    /\ marker \in {"absent", "live", "over"}
    /\ outcome \in {"stopped", "starting", "ready", "failed"}
    /\ exits \in 0..MAX_EXITS /\ faults \in 0..MAX_FAULTS
    /\ starts \in 0..MAX_STARTS /\ stops \in 0..MAX_STOPS /\ wakes \in 0..MAX_WAKES
Flags ==
    /\ draining \in BOOLEAN /\ cut \in BOOLEAN /\ tunnelUp \in BOOLEAN /\ child \in BOOLEAN
    /\ restartable \in BOOLEAN /\ tunnel \in BOOLEAN /\ monitor \in BOOLEAN /\ stopping \in BOOLEAN
    /\ drained \in BOOLEAN /\ tunnelStopped \in BOOLEAN /\ resumeLost \in BOOLEAN /\ orphaned \in BOOLEAN

\* Which steps a task can be at: a recovery neither drains nor cleans up.
StopAtWork == pc["stop"] \notin {"idle", "waiting"}
CleaningUp == {"cleanup", "drain", "shutdown", "exiting", "stopTunnel"}
Places ==
    /\ pc["daemon"] \in {"idle", "await", "hello", "attach", "verify"}
    /\ pc["tunnel"] \in {"idle", "tunnel", "connect", "ready", "verify"}
    /\ pc["start"] \in CleaningUp \cup {"idle", "tunnel", "connect", "ready", "hello", "await", "attach"}
    /\ pc["stop"] \notin {"hello", "verify", "cleanup"}
\* A stop that works has the launcher for itself, and whatever closes is stopping.
Exclusion ==
    /\ StopAtWork => Quiet("start") /\ stopping /\ restartTimers = {}
    /\ StopAtWork /\ pc["stop"] # "settling" => Quiet("daemon") /\ Quiet("tunnel")
    /\ pc["start"] \in CleaningUp => stopping
\* No daemon runs that the launcher does not know.
KnownChild == ~child => proc = "none"
\* Who waits for an exit has been told of it, or the daemon closes or is gone.
Exits == \A t \in Closer :
    /\ At(t, "exiting") => proc \in {"closing", "none"} /\ (t \in observers \/ ~child)
    /\ pc[t] \in {"shutdown", "exiting"} => drained
\* A stop that has drained nothing has no daemon to close.
StopWithoutChild == At("stop", "stopTunnel") /\ ~drained => ~child

\* Task t owes a draining daemon its resumption.
Resumer(t) ==
    \/ At(t, "drain")
    \/ drained /\ pc[t] \in {"shutdown", "exiting"}
    \/ drained /\ t = "stop" /\ pc[t] \in {"stopTunnel", "undo", "tunnel", "connect", "ready"}
Drains ==
    /\ proc = "booting" => ~draining
    /\ proc = "serving" /\ draining /\ ~resumeLost => Resumer("start") \/ Resumer("stop")
\* A tunnel or a monitor that is not known belongs to a start that runs.
Tunnels ==
    /\ tunnelUp /\ ~tunnel /\ ~orphaned => \E t \in Task : At(t, "ready")
    /\ monitor /\ ~tunnel => \E t \in Task : pc[t] \in {"connect", "ready"}
\* What is left once the last thing said is that the runtime has stopped.
StoppedRests ==
    /\ pc["stop"] \in {"shutdown", "exiting"} => ~tunnel /\ ~monitor
    /\ outcome = "stopped" /\ wakes = 0 =>
          /\ ~child /\ restartTimers = {} /\ ~drained /\ ~tunnelStopped
          /\ Quiet("start") /\ Quiet("daemon") /\ Quiet("tunnel")
          /\ pc["stop"] \in {"idle", "waiting", "settling", "check", "stopTunnel", "undo"}
          /\ tunnel => pc["stop"] \in {"stopTunnel", "undo"}
          /\ monitor => pc["stop"] = "undo"
\* Without faults and crashes a daemon closes only for a task that waits for its exit.
Orderly == faults = 0 /\ exits = 0 =>
    /\ ~cut /\ "daemon" \notin restartTimers /\ Quiet("daemon")
    /\ proc = "closing" => turns = 0 /\ draining
    /\ proc = "closing" \/ (proc = "none" /\ child) => At("start", "exiting") \/ At("stop", "exiting")

SupervisorIInv ==
    /\ Types /\ Flags /\ Places /\ Exclusion /\ KnownChild /\ Exits /\ StopWithoutChild
    /\ Drains /\ Tunnels /\ StoppedRests /\ Orderly

\* Every step preserves it: one case per action.
LEMMA SupervisorStep == SupervisorIInv /\ [SupervisorNext]_supervisorVars => SupervisorIInv'
<1> SUFFICES ASSUME SupervisorIInv, [SupervisorNext]_supervisorVars PROVE SupervisorIInv'
  OBVIOUS
<1> USE DEF At, Goto, Quiet, Listening, NoFault, Faults, NoProcess, Child, Closer, Task, StopAtWork, CleaningUp,
            daemonVars, childVars, tunnelVars, flags, report, calls, mishaps, supervisorVars,
            Continue, Ends, StopFails, OwnedRuntimeReady, ScheduleRecovery, RuntimeStartFails,
            StartDaemon, SpawnChild, GreetChild, TunnelStarted, TunnelNotStarted,
            Resumes, CloseFails, AfterShutdown
<1>0. /\ Types /\ Flags /\ Places /\ Exclusion /\ KnownChild /\ Exits /\ StopWithoutChild
      /\ Drains /\ Tunnels /\ StoppedRests /\ Orderly
  BY DEF SupervisorIInv
<1>t. /\ MAX_TURNS \in Nat /\ MAX_EXITS \in Nat /\ MAX_FAULTS \in Nat /\ MAX_STARTS \in Nat
      /\ MAX_STOPS \in Nat /\ MAX_WAKES \in Nat
  BY SupervisorBounds
\* The daemon and the tunnel.
<1>1. ASSUME DaemonBoots PROVE SupervisorIInv'
  BY <1>0, <1>t, <1>1 DEF DaemonBoots, SupervisorIInv, Steps, Types, Flags, Places, Exclusion,
        KnownChild, StopWithoutChild, Exits, Resumer, Drains, Tunnels, StoppedRests, Orderly
<1>2. ASSUME AdmitTurn PROVE SupervisorIInv'
  BY <1>0, <1>t, <1>2 DEF AdmitTurn, Admits, SupervisorIInv, Steps, Types, Flags, Places,
        Exclusion, KnownChild, StopWithoutChild, Exits, Resumer, Drains, Tunnels, StoppedRests,
        Orderly
<1>3. ASSUME FinishTurn PROVE SupervisorIInv'
  BY <1>0, <1>t, <1>3 DEF FinishTurn, Released, SupervisorIInv, Steps, Types, Flags, Places,
        Exclusion, KnownChild, StopWithoutChild, Exits, Resumer, Drains, Tunnels, StoppedRests,
        Orderly
<1>4. ASSUME DaemonCloses PROVE SupervisorIInv'
  <2>1. Types'
    BY <1>0, <1>t, <1>4 DEF DaemonCloses, Steps, Types
  <2>2. Flags'
    BY <1>0, <1>t, <1>4 DEF DaemonCloses, Types, Flags
  <2>3. /\ Places' /\ Exclusion' /\ KnownChild' /\ Exits' /\ StopWithoutChild'
        /\ Drains' /\ Tunnels' /\ StoppedRests' /\ Orderly'
    BY <1>0, <1>t, <1>4 DEF DaemonCloses, Types, Places, Flags, Exclusion, KnownChild,
          StopWithoutChild, Exits, Resumer, Drains, Tunnels, StoppedRests, Orderly
  <2> QED
    BY <2>1, <2>2, <2>3 DEF SupervisorIInv
<1>5. ASSUME DaemonCrashes PROVE SupervisorIInv'
  <2>1. Types'
    BY <1>0, <1>t, <1>5 DEF DaemonCrashes, Steps, Types
  <2>2. Flags'
    BY <1>0, <1>t, <1>5 DEF DaemonCrashes, Types, Flags
  <2>3. /\ Places' /\ Exclusion' /\ KnownChild' /\ Exits' /\ StopWithoutChild'
        /\ Drains' /\ Tunnels' /\ StoppedRests' /\ Orderly'
    BY <1>0, <1>t, <1>5 DEF DaemonCrashes, Types, Places, Flags, Exclusion, KnownChild,
          StopWithoutChild, Exits, Resumer, Drains, Tunnels, StoppedRests, Orderly
  <2> QED
    BY <2>1, <2>2, <2>3 DEF SupervisorIInv
<1>6. ASSUME TunnelDies PROVE SupervisorIInv'
  <2>1. Types'
    BY <1>0, <1>t, <1>6 DEF TunnelDies, Steps, Types
  <2>2. Flags'
    BY <1>0, <1>t, <1>6 DEF TunnelDies, Types, Flags
  <2>3. /\ Places' /\ Exclusion' /\ KnownChild' /\ Exits' /\ StopWithoutChild'
        /\ Drains' /\ Tunnels' /\ StoppedRests' /\ Orderly'
    BY <1>0, <1>t, <1>6 DEF TunnelDies, Types, Places, Flags, Exclusion, KnownChild,
          StopWithoutChild, Exits, Resumer, Drains, Tunnels, StoppedRests, Orderly
  <2> QED
    BY <2>1, <2>2, <2>3 DEF SupervisorIInv
\* Losses, the timers and the calls.
<1>7. ASSUME HandleExit PROVE SupervisorIInv'
  <2>1. Types'
    BY <1>0, <1>t, <1>7 DEF HandleExit, Steps, Types
  <2>2. Flags'
    BY <1>0, <1>t, <1>7 DEF HandleExit, Types, Flags
  <2>3. Places' /\ Exclusion' /\ KnownChild' /\ Exits' /\ StopWithoutChild'
    BY <1>0, <1>t, <1>7 DEF HandleExit, Types, Places, Flags, Exclusion, KnownChild,
          StopWithoutChild, Exits
  <2>4. Drains' /\ Tunnels' /\ StoppedRests' /\ Orderly'
    BY <1>0, <1>t, <1>7 DEF HandleExit, Resumer, Types, Flags, Places, Exclusion, KnownChild,
          Exits, StopWithoutChild, Drains, Tunnels, StoppedRests, Orderly
  <2> QED
    BY <2>1, <2>2, <2>3, <2>4 DEF SupervisorIInv
<1>8. ASSUME MonitorFails PROVE SupervisorIInv'
  <2>1. Types'
    BY <1>0, <1>t, <1>8 DEF MonitorFails, MonitorActs, TunnelStarts, Steps, Types
  <2>2. Flags'
    BY <1>0, <1>t, <1>8 DEF MonitorFails, MonitorActs, TunnelStarts, Types, Flags
  <2>3. /\ Places' /\ Exclusion' /\ KnownChild' /\ Exits' /\ StopWithoutChild'
        /\ Drains' /\ Tunnels' /\ StoppedRests' /\ Orderly'
    BY <1>0, <1>t, <1>8 DEF MonitorFails, MonitorActs, TunnelStarts, Types, Places, Flags,
          Exclusion, KnownChild, StopWithoutChild, Exits, Resumer, Drains, Tunnels, StoppedRests,
          Orderly
  <2> QED
    BY <2>1, <2>2, <2>3 DEF SupervisorIInv
<1>9. ASSUME MonitorAdopts PROVE SupervisorIInv'
  BY <1>0, <1>t, <1>9 DEF MonitorAdopts, MonitorActs, SupervisorIInv, Steps, Types, Flags, Places,
        Exclusion, KnownChild, StopWithoutChild, Exits, Resumer, Drains, Tunnels, StoppedRests,
        Orderly
<1>10. ASSUME NEW name \in Child, TimerFires(name) PROVE SupervisorIInv'
  <2>p. \/ proc' = "booting" /\ turns' = 0
        \/ proc' = proc /\ turns' = turns
    BY <1>10 DEF TimerFires
  <2>1. Types'
    <3>1. proc' \in {"none", "booting", "serving", "closing"} /\ turns' \in 0..MAX_TURNS
      BY <1>0, <1>t, <2>p DEF Types
    <3>2. observers' \subseteq Task /\ restartTimers' \subseteq Child
      BY <1>0, <1>t, <1>10 DEF TimerFires, Steps, Types
    <3>3. pc' \in [Task -> Steps]
      BY <1>0, <1>t, <1>10 DEF TimerFires, Steps, Types
    <3>4. /\ marker' \in {"absent", "live", "over"}
          /\ outcome' \in {"stopped", "starting", "ready", "failed"}
      BY <1>0, <1>t, <1>10 DEF TimerFires, Steps, Types
    <3>5. /\ exits' \in 0..MAX_EXITS /\ faults' \in 0..MAX_FAULTS
          /\ <<starts, stops, wakes>>' = <<starts, stops, wakes>>
      BY <1>0, <1>t, <1>10 DEF TimerFires, Steps, Types
    <3> QED
      BY <1>0, <3>1, <3>2, <3>3, <3>4, <3>5 DEF Types
  <2>2. Flags'
    <3>1. draining' \in BOOLEAN /\ cut' \in BOOLEAN
      BY <1>0, <1>t, <1>10 DEF TimerFires, Types, Flags
    <3>2. child' \in BOOLEAN /\ restartable' \in BOOLEAN
      BY <1>0, <1>t, <1>10 DEF TimerFires, Types, Flags
    <3>3. tunnelUp' \in BOOLEAN /\ tunnel' \in BOOLEAN
      BY <1>0, <1>t, <1>10 DEF TimerFires, Types, Flags
    <3>4. monitor' \in BOOLEAN /\ orphaned' \in BOOLEAN
      BY <1>0, <1>t, <1>10 DEF TimerFires, Types, Flags
    <3>5. stopping' \in BOOLEAN
      BY <1>0, <1>t, <1>10 DEF TimerFires, Types, Flags
    <3>6. drained' \in BOOLEAN /\ tunnelStopped' \in BOOLEAN
      BY <1>0, <1>t, <1>10 DEF TimerFires, Types, Flags
    <3>7. resumeLost' \in BOOLEAN
      BY <1>0, <1>t, <1>10 DEF TimerFires, Types, Flags
    <3> QED
      BY <1>0, <3>1, <3>2, <3>3, <3>4, <3>5, <3>6, <3>7 DEF Flags
  <2>3. Places'
    <3>1. CASE name = "daemon"
      BY ZenonT(60), <1>0, <1>t, <1>10, <3>1 DEF TimerFires, Types, Places
    <3>2. CASE name = "tunnel"
      BY ZenonT(60), <1>0, <1>t, <1>10, <3>2 DEF TimerFires, Types, Places
    <3> QED
      BY <3>1, <3>2
  <2>4. Exclusion'
    BY ZenonT(60), <1>0, <1>t, <1>10 DEF TimerFires, Types, Flags, Places, Exclusion
  <2>5. KnownChild'
    BY <1>0, <1>t, <1>10 DEF TimerFires, Types, Flags, Places, KnownChild
  <2>6. Exits'
    BY ZenonT(60), <1>0, <1>t, <1>10 DEF TimerFires, Types, Places, Exclusion, KnownChild, StopWithoutChild,
          Exits
  <2>7. StopWithoutChild'
    BY <1>0, <1>t, <1>10 DEF TimerFires, Types, Places, Exclusion, KnownChild, StopWithoutChild
  <2>8. Drains'
    BY <1>0, <1>t, <1>10 DEF TimerFires, Resumer, Types, Flags, Places, Exclusion, KnownChild,
          Exits, StopWithoutChild, Drains
  <2>9. Tunnels'
    BY ZenonT(60), <1>0, <1>t, <1>10 DEF TimerFires, Types, Flags, Places, Tunnels
  <2>10. StoppedRests'
    BY ZenonT(60), <1>0, <1>t, <1>10 DEF TimerFires, Types, Flags, Places, Exclusion, KnownChild, Exits,
          StopWithoutChild, Tunnels, StoppedRests
  <2>11. Orderly'
    BY ZenonT(60), <1>0, <1>t, <1>10 DEF TimerFires, Types, Flags, Places, Exclusion, KnownChild, Exits,
          Orderly
  <2> QED
    BY <2>1, <2>2, <2>3, <2>4, <2>5, <2>6, <2>7, <2>8, <2>9, <2>10, <2>11 DEF SupervisorIInv
<1>11. ASSUME Wake PROVE SupervisorIInv'
  <2>1. Types'
    BY <1>0, <1>t, <1>11 DEF Wake, Steps, Types
  <2>2. Flags'
    BY <1>0, <1>t, <1>11 DEF Wake, Types, Flags
  <2>3. /\ Places' /\ Exclusion' /\ KnownChild' /\ Exits' /\ StopWithoutChild'
        /\ Drains' /\ Tunnels' /\ StoppedRests' /\ Orderly'
    BY <1>0, <1>t, <1>11 DEF Wake, Types, Places, Flags, Exclusion, KnownChild, StopWithoutChild,
          Exits, Resumer, Drains, Tunnels, StoppedRests, Orderly
  <2> QED
    BY <2>1, <2>2, <2>3 DEF SupervisorIInv
<1>12. ASSUME RequestStart PROVE SupervisorIInv'
  <2>1. Types'
    BY <1>0, <1>t, <1>12 DEF RequestStart, Steps, Types
  <2>2. Flags'
    BY <1>0, <1>t, <1>12 DEF RequestStart, Types, Flags
  <2>3. /\ Places' /\ Exclusion' /\ KnownChild' /\ Exits' /\ StopWithoutChild'
        /\ Drains' /\ Tunnels' /\ StoppedRests' /\ Orderly'
    BY <1>0, <1>t, <1>12 DEF RequestStart, Types, Places, Flags, Exclusion, KnownChild,
          StopWithoutChild, Exits, Resumer, Drains, Tunnels, StoppedRests, Orderly
  <2> QED
    BY <2>1, <2>2, <2>3 DEF SupervisorIInv
<1>13. ASSUME RequestStop PROVE SupervisorIInv'
  BY <1>0, <1>t, <1>13 DEF RequestStop, SupervisorIInv, Steps, Types, Flags, Places, Exclusion,
        KnownChild, StopWithoutChild, Exits, Resumer, Drains, Tunnels, StoppedRests, Orderly
\* startTunnel(), startDaemon() and the verification of a recovery.
<1>14. ASSUME NEW t \in Task, AdoptTunnel(t) PROVE SupervisorIInv'
  <2>t. t \in {"start", "stop", "tunnel"}
    BY <1>0, <1>14 DEF AdoptTunnel, Places
  <2>p. \/ proc' = "booting" /\ turns' = 0
        \/ proc' = proc /\ turns' = turns
    BY <2>t, <1>14 DEF AdoptTunnel
  <2>1. Types'
    <3>1. proc' \in {"none", "booting", "serving", "closing"} /\ turns' \in 0..MAX_TURNS
      BY <1>0, <1>t, <2>p DEF Types
    <3>2. observers' \subseteq Task /\ restartTimers' \subseteq Child
      BY <1>0, <1>t, <2>t, <1>14 DEF AdoptTunnel, Steps, Types
    <3>3. pc' \in [Task -> Steps]
      BY <1>0, <1>t, <2>t, <1>14 DEF AdoptTunnel, Steps, Types
    <3>4. /\ marker' \in {"absent", "live", "over"}
          /\ outcome' \in {"stopped", "starting", "ready", "failed"}
      BY <1>0, <1>t, <2>t, <1>14 DEF AdoptTunnel, Steps, Types
    <3>5. /\ exits' \in 0..MAX_EXITS /\ faults' \in 0..MAX_FAULTS
          /\ <<starts, stops, wakes>>' = <<starts, stops, wakes>>
      BY <1>0, <1>t, <2>t, <1>14 DEF AdoptTunnel, Steps, Types
    <3> QED
      BY <1>0, <3>1, <3>2, <3>3, <3>4, <3>5 DEF Types
  <2>2. Flags'
    <3>1. draining' \in BOOLEAN /\ cut' \in BOOLEAN
      BY <1>0, <1>t, <2>t, <1>14 DEF AdoptTunnel, Types, Flags
    <3>2. child' \in BOOLEAN /\ restartable' \in BOOLEAN
      BY <1>0, <1>t, <2>t, <1>14 DEF AdoptTunnel, Types, Flags
    <3>3. tunnelUp' \in BOOLEAN /\ tunnel' \in BOOLEAN
      BY <1>0, <1>t, <2>t, <1>14 DEF AdoptTunnel, Types, Flags
    <3>4. monitor' \in BOOLEAN /\ orphaned' \in BOOLEAN
      BY <1>0, <1>t, <2>t, <1>14 DEF AdoptTunnel, Types, Flags
    <3>5. stopping' \in BOOLEAN
      BY <1>0, <1>t, <2>t, <1>14 DEF AdoptTunnel, Types, Flags
    <3>6. drained' \in BOOLEAN /\ tunnelStopped' \in BOOLEAN
      BY <1>0, <1>t, <2>t, <1>14 DEF AdoptTunnel, Types, Flags
    <3>7. resumeLost' \in BOOLEAN
      BY <1>0, <1>t, <2>t, <1>14 DEF AdoptTunnel, Types, Flags
    <3> QED
      BY <1>0, <3>1, <3>2, <3>3, <3>4, <3>5, <3>6, <3>7 DEF Flags
  <2>3. Places' /\ Exclusion'
    BY ZenonT(60), <1>0, <1>t, <2>t, <1>14 DEF AdoptTunnel, Types, Places, Flags, Exclusion
  <2>4. KnownChild' /\ Exits' /\ StopWithoutChild'
    BY ZenonT(60), <1>0, <1>t, <2>t, <1>14 DEF AdoptTunnel, Types, Flags, Places, KnownChild, Exclusion,
          StopWithoutChild, Exits
  <2>5. Drains' /\ Tunnels'
    BY ZenonT(60), <1>0, <1>t, <2>t, <1>14 DEF AdoptTunnel, Resumer, Types, Flags, Places, Exclusion,
          KnownChild, Exits, StopWithoutChild, Drains, Tunnels
  <2>6. StoppedRests' /\ Orderly'
    BY ZenonT(60), <1>0, <1>t, <2>t, <1>14 DEF AdoptTunnel, Types, Flags, Places, Exclusion, KnownChild,
          Exits, StopWithoutChild, Tunnels, StoppedRests, Orderly
  <2> QED
    BY <2>1, <2>2, <2>3, <2>4, <2>5, <2>6 DEF SupervisorIInv
<1>15. ASSUME NEW t \in Task, StopOldTunnel(t) PROVE SupervisorIInv'
  <2>1. Types'
    BY <1>0, <1>t, <1>15 DEF StopOldTunnel, Steps, Types
  <2>2. Flags'
    BY <1>0, <1>t, <1>15 DEF StopOldTunnel, Types, Flags
  <2>3. /\ Places' /\ Exclusion' /\ KnownChild' /\ Exits' /\ StopWithoutChild'
        /\ Drains' /\ Tunnels' /\ StoppedRests' /\ Orderly'
    BY <1>0, <1>t, <1>15 DEF StopOldTunnel, Types, Places, Flags, Exclusion, KnownChild,
          StopWithoutChild, Exits, Resumer, Drains, Tunnels, StoppedRests, Orderly
  <2> QED
    BY <2>1, <2>2, <2>3 DEF SupervisorIInv
<1>16. ASSUME NEW t \in Task, ConnectTunnel(t) PROVE SupervisorIInv'
  BY <1>0, <1>t, <1>16 DEF ConnectTunnel, SupervisorIInv, Steps, Types, Flags, Places, Exclusion,
        KnownChild, StopWithoutChild, Exits, Resumer, Drains, Tunnels, StoppedRests, Orderly
<1>17. ASSUME NEW t \in Task, TunnelReady(t) PROVE SupervisorIInv'
  <2>t. t \in {"start", "stop", "tunnel"}
    BY <1>0, <1>17 DEF TunnelReady, Places
  <2>p. \/ proc' = "booting" /\ turns' = 0
        \/ proc' = proc /\ turns' = turns
    BY <2>t, <1>17 DEF TunnelReady
  <2>1. Types'
    <3>1. proc' \in {"none", "booting", "serving", "closing"} /\ turns' \in 0..MAX_TURNS
      BY <1>0, <1>t, <2>p DEF Types
    <3>2. observers' \subseteq Task /\ restartTimers' \subseteq Child
      BY <1>0, <1>t, <2>t, <1>17 DEF TunnelReady, Steps, Types
    <3>3. pc' \in [Task -> Steps]
      BY <1>0, <1>t, <2>t, <1>17 DEF TunnelReady, Steps, Types
    <3>4. /\ marker' \in {"absent", "live", "over"}
          /\ outcome' \in {"stopped", "starting", "ready", "failed"}
      BY <1>0, <1>t, <2>t, <1>17 DEF TunnelReady, Steps, Types
    <3>5. /\ exits' \in 0..MAX_EXITS /\ faults' \in 0..MAX_FAULTS
          /\ <<starts, stops, wakes>>' = <<starts, stops, wakes>>
      BY <1>0, <1>t, <2>t, <1>17 DEF TunnelReady, Steps, Types
    <3> QED
      BY <1>0, <3>1, <3>2, <3>3, <3>4, <3>5 DEF Types
  <2>2. Flags'
    <3>1. draining' \in BOOLEAN /\ cut' \in BOOLEAN
      BY <1>0, <1>t, <2>t, <1>17 DEF TunnelReady, Types, Flags
    <3>2. child' \in BOOLEAN /\ restartable' \in BOOLEAN
      BY <1>0, <1>t, <2>t, <1>17 DEF TunnelReady, Types, Flags
    <3>3. tunnelUp' \in BOOLEAN /\ tunnel' \in BOOLEAN
      BY <1>0, <1>t, <2>t, <1>17 DEF TunnelReady, Types, Flags
    <3>4. monitor' \in BOOLEAN /\ orphaned' \in BOOLEAN
      BY <1>0, <1>t, <2>t, <1>17 DEF TunnelReady, Types, Flags
    <3>5. stopping' \in BOOLEAN
      BY <1>0, <1>t, <2>t, <1>17 DEF TunnelReady, Types, Flags
    <3>6. drained' \in BOOLEAN /\ tunnelStopped' \in BOOLEAN
      BY <1>0, <1>t, <2>t, <1>17 DEF TunnelReady, Types, Flags
    <3>7. resumeLost' \in BOOLEAN
      BY <1>0, <1>t, <2>t, <1>17 DEF TunnelReady, Types, Flags
    <3> QED
      BY <1>0, <3>1, <3>2, <3>3, <3>4, <3>5, <3>6, <3>7 DEF Flags
  <2>3. Places'
    <3>1. CASE t = "start"
      BY <1>0, <1>t, <2>t, <1>17, <3>1 DEF TunnelReady, Types, Places
    <3>2. CASE t = "stop"
      BY <1>0, <1>t, <2>t, <1>17, <3>2 DEF TunnelReady, Types, Places
    <3>3. CASE t = "tunnel"
      BY <1>0, <1>t, <2>t, <1>17, <3>3 DEF TunnelReady, Types, Places
    <3> QED
      BY <2>t, <3>1, <3>2, <3>3
  <2>4. Exclusion'
    BY ZenonT(60), <1>0, <1>t, <2>t, <1>17 DEF TunnelReady, Types, Flags, Places, Exclusion
  <2>5. KnownChild'
    <3>1. CASE t = "start"
      BY <1>0, <1>t, <2>t, <1>17, <3>1 DEF TunnelReady, Types, Flags, Places, KnownChild
    <3>2. CASE t = "stop"
      BY <1>0, <1>t, <2>t, <1>17, <3>2 DEF TunnelReady, Types, Flags, Places, KnownChild
    <3>3. CASE t = "tunnel"
      BY <1>0, <1>t, <2>t, <1>17, <3>3 DEF TunnelReady, Types, Flags, Places, KnownChild
    <3> QED
      BY <2>t, <3>1, <3>2, <3>3
  <2>6. Exits'
    BY ZenonT(60), <1>0, <1>t, <2>t, <1>17 DEF TunnelReady, Types, Places, Exclusion, KnownChild,
          StopWithoutChild, Exits
  <2>7. StopWithoutChild'
    BY ZenonT(60), <1>0, <1>t, <2>t, <1>17 DEF TunnelReady, Types, Places, Exclusion, KnownChild,
          StopWithoutChild
  <2>8. Drains' /\ Tunnels'
    BY ZenonT(60), <1>0, <1>t, <2>t, <1>17 DEF TunnelReady, Resumer, Types, Flags, Places, Exclusion,
          KnownChild, Exits, StopWithoutChild, Drains, Tunnels
  <2>9. StoppedRests'
    BY ZenonT(60), <1>0, <1>t, <2>t, <1>17 DEF TunnelReady, Types, Flags, Places, Exclusion, KnownChild,
          Exits, StopWithoutChild, Tunnels, StoppedRests
  <2>10. Orderly'
    BY ZenonT(60), <1>0, <1>t, <2>t, <1>17 DEF TunnelReady, Types, Flags, Places, Exclusion, KnownChild,
          Exits, Orderly
  <2> QED
    BY <2>1, <2>2, <2>3, <2>4, <2>5, <2>6, <2>7, <2>8, <2>9, <2>10 DEF SupervisorIInv
<1>18. ASSUME NEW t \in Task, TunnelFails(t) PROVE SupervisorIInv'
  <2>1. Types'
    <3>1. proc' \in {"none", "booting", "serving", "closing"} /\ turns' \in 0..MAX_TURNS
      BY <1>0, <1>t, <1>18 DEF TunnelFails, Steps, Types
    <3>2. observers' \subseteq Task /\ restartTimers' \subseteq Child
      BY ZenonT(60), <1>0, <1>t, <1>18 DEF TunnelFails, Steps, Types
    <3>3. pc' \in [Task -> Steps]
      BY <1>0, <1>t, <1>18 DEF TunnelFails, Steps, Types
    <3>4. /\ marker' \in {"absent", "live", "over"}
          /\ outcome' \in {"stopped", "starting", "ready", "failed"}
      BY <1>0, <1>t, <1>18 DEF TunnelFails, Steps, Types
    <3>5. /\ exits' \in 0..MAX_EXITS /\ faults' \in 0..MAX_FAULTS
          /\ <<starts, stops, wakes>>' = <<starts, stops, wakes>>
      BY <1>0, <1>t, <1>18 DEF TunnelFails, Steps, Types
    <3> QED
      BY <1>0, <3>1, <3>2, <3>3, <3>4, <3>5 DEF Types
  <2>2. Flags'
    <3>1. draining' \in BOOLEAN /\ cut' \in BOOLEAN
      BY <1>0, <1>t, <1>18 DEF TunnelFails, Types, Flags
    <3>2. child' \in BOOLEAN /\ restartable' \in BOOLEAN
      BY <1>0, <1>t, <1>18 DEF TunnelFails, Types, Flags
    <3>3. tunnelUp' \in BOOLEAN /\ tunnel' \in BOOLEAN
      BY <1>0, <1>t, <1>18 DEF TunnelFails, Types, Flags
    <3>4. monitor' \in BOOLEAN /\ orphaned' \in BOOLEAN
      BY <1>0, <1>t, <1>18 DEF TunnelFails, Types, Flags
    <3>5. stopping' \in BOOLEAN
      BY <1>0, <1>t, <1>18 DEF TunnelFails, Types, Flags
    <3>6. drained' \in BOOLEAN /\ tunnelStopped' \in BOOLEAN
      BY <1>0, <1>t, <1>18 DEF TunnelFails, Types, Flags
    <3>7. resumeLost' \in BOOLEAN
      BY <1>0, <1>t, <1>18 DEF TunnelFails, Types, Flags
    <3> QED
      BY <1>0, <3>1, <3>2, <3>3, <3>4, <3>5, <3>6, <3>7 DEF Flags
  <2>3. Places'
    <3>1. CASE t = "start"
      BY <1>0, <1>t, <1>18, <3>1 DEF TunnelFails, Types, Places
    <3>2. CASE t = "stop"
      BY <1>0, <1>t, <1>18, <3>2 DEF TunnelFails, Types, Places
    <3>3. CASE t = "daemon"
      BY <1>0, <1>t, <1>18, <3>3 DEF TunnelFails, Types, Places
    <3>4. CASE t = "tunnel"
      BY <1>0, <1>t, <1>18, <3>4 DEF TunnelFails, Types, Places
    <3> QED
      BY <3>1, <3>2, <3>3, <3>4
  <2>4. Exclusion'
    BY ZenonT(60), <1>0, <1>t, <1>18 DEF TunnelFails, Types, Flags, Places, Exclusion
  <2>5. KnownChild' /\ Exits' /\ StopWithoutChild'
    BY ZenonT(60), <1>0, <1>t, <1>18 DEF TunnelFails, Types, Flags, Places, KnownChild, Exclusion,
          StopWithoutChild, Exits
  <2>6. Drains' /\ Tunnels'
    BY ZenonT(60), <1>0, <1>t, <1>18 DEF TunnelFails, Resumer, Types, Flags, Places, Exclusion, KnownChild,
          Exits, StopWithoutChild, Drains, Tunnels
  <2>7. StoppedRests'
    BY <1>0, <1>t, <1>18 DEF TunnelFails, Types, Flags, Places, Exclusion, KnownChild, Exits,
          StopWithoutChild, Tunnels, StoppedRests
  <2>8. Orderly'
    <3>1. CASE t = "start"
      BY <1>0, <1>t, <1>18, <3>1 DEF TunnelFails, Types, Flags, Places, Exclusion, KnownChild,
            Exits, Orderly
    <3>2. CASE t = "stop"
      BY <1>0, <1>t, <1>18, <3>2 DEF TunnelFails, Types, Flags, Places, Exclusion, KnownChild,
            Exits, Orderly
    <3>3. CASE t = "daemon"
      BY <1>0, <1>t, <1>18, <3>3 DEF TunnelFails, Types, Flags, Places, Exclusion, KnownChild,
            Exits, Orderly
    <3>4. CASE t = "tunnel"
      BY <1>0, <1>t, <1>18, <3>4 DEF TunnelFails, Types, Flags, Places, Exclusion, KnownChild,
            Exits, Orderly
    <3> QED
      BY <3>1, <3>2, <3>3, <3>4
  <2> QED
    BY <2>1, <2>2, <2>3, <2>4, <2>5, <2>6, <2>7, <2>8 DEF SupervisorIInv
<1>19. ASSUME NEW t \in Task, Hello(t) PROVE SupervisorIInv'
  BY <1>0, <1>t, <1>19 DEF Hello, DrainAfterHello, SupervisorIInv, Steps, Types, Flags, Places,
        Exclusion, KnownChild, StopWithoutChild, Exits, Resumer, Drains, Tunnels, StoppedRests,
        Orderly
<1>20. ASSUME NEW t \in Task, DaemonReady(t) PROVE SupervisorIInv'
  <2>1. Types'
    BY <1>0, <1>t, <1>20 DEF DaemonReady, Steps, Types
  <2>2. Flags'
    <3>1. draining' \in BOOLEAN /\ cut' \in BOOLEAN
      BY <1>0, <1>t, <1>20 DEF DaemonReady, Types, Flags
    <3>2. child' \in BOOLEAN /\ restartable' \in BOOLEAN
      BY <1>0, <1>t, <1>20 DEF DaemonReady, Types, Flags
    <3>3. tunnelUp' \in BOOLEAN /\ tunnel' \in BOOLEAN
      BY <1>0, <1>t, <1>20 DEF DaemonReady, Types, Flags
    <3>4. monitor' \in BOOLEAN /\ orphaned' \in BOOLEAN
      BY <1>0, <1>t, <1>20 DEF DaemonReady, Types, Flags
    <3>5. stopping' \in BOOLEAN
      BY <1>0, <1>t, <1>20 DEF DaemonReady, Types, Flags
    <3>6. drained' \in BOOLEAN /\ tunnelStopped' \in BOOLEAN
      BY <1>0, <1>t, <1>20 DEF DaemonReady, Types, Flags
    <3>7. resumeLost' \in BOOLEAN
      BY <1>0, <1>t, <1>20 DEF DaemonReady, Types, Flags
    <3> QED
      BY <1>0, <3>1, <3>2, <3>3, <3>4, <3>5, <3>6, <3>7 DEF Flags
  <2>3. Places'
    <3>1. CASE t = "start"
      BY <1>0, <1>t, <1>20, <3>1 DEF DaemonReady, Types, Places
    <3>2. CASE t = "stop"
      BY <1>0, <1>t, <1>20, <3>2 DEF DaemonReady, Types, Places
    <3>3. CASE t = "daemon"
      BY <1>0, <1>t, <1>20, <3>3 DEF DaemonReady, Types, Places
    <3>4. CASE t = "tunnel"
      BY <1>0, <1>t, <1>20, <3>4 DEF DaemonReady, Types, Places
    <3> QED
      BY <3>1, <3>2, <3>3, <3>4
  <2>4. Exclusion'
    BY ZenonT(60), <1>0, <1>t, <1>20 DEF DaemonReady, Types, Flags, Places, Exclusion
  <2>5. KnownChild'
    BY <1>0, <1>t, <1>20 DEF DaemonReady, Types, Flags, Places, KnownChild
  <2>6. Exits'
    BY ZenonT(60), <1>0, <1>t, <1>20 DEF DaemonReady, Types, Places, Exclusion, KnownChild, StopWithoutChild,
          Exits
  <2>7. StopWithoutChild'
    BY <1>0, <1>t, <1>20 DEF DaemonReady, Types, Places, Exclusion, KnownChild, StopWithoutChild
  <2>8. Drains'
    BY ZenonT(60), <1>0, <1>t, <1>20 DEF DaemonReady, Resumer, Types, Flags, Places, Exclusion, KnownChild,
          Exits, StopWithoutChild, Drains
  <2>9. Tunnels'
    BY ZenonT(60), <1>0, <1>t, <1>20 DEF DaemonReady, Types, Flags, Places, Tunnels
  <2>10. StoppedRests'
    BY ZenonT(60), <1>0, <1>t, <1>20 DEF DaemonReady, Types, Flags, Places, Exclusion, KnownChild, Exits,
          StopWithoutChild, Tunnels, StoppedRests
  <2>11. Orderly'
    BY <1>0, <1>t, <1>20 DEF DaemonReady, Types, Flags, Places, Exclusion, KnownChild, Exits,
          Orderly
  <2> QED
    BY <2>1, <2>2, <2>3, <2>4, <2>5, <2>6, <2>7, <2>8, <2>9, <2>10, <2>11 DEF SupervisorIInv
<1>21. ASSUME NEW t \in Task, DaemonFails(t) PROVE SupervisorIInv'
  <2>1. Types'
    <3>1. proc' \in {"none", "booting", "serving", "closing"} /\ turns' \in 0..MAX_TURNS
      BY <1>0, <1>t, <1>21 DEF DaemonFails, Steps, Types
    <3>2. observers' \subseteq Task /\ restartTimers' \subseteq Child
      BY ZenonT(60), <1>0, <1>t, <1>21 DEF DaemonFails, Steps, Types
    <3>3. pc' \in [Task -> Steps]
      BY <1>0, <1>t, <1>21 DEF DaemonFails, Steps, Types
    <3>4. /\ marker' \in {"absent", "live", "over"}
          /\ outcome' \in {"stopped", "starting", "ready", "failed"}
      BY <1>0, <1>t, <1>21 DEF DaemonFails, Steps, Types
    <3>5. /\ exits' \in 0..MAX_EXITS /\ faults' \in 0..MAX_FAULTS
          /\ <<starts, stops, wakes>>' = <<starts, stops, wakes>>
      BY <1>0, <1>t, <1>21 DEF DaemonFails, Steps, Types
    <3> QED
      BY <1>0, <3>1, <3>2, <3>3, <3>4, <3>5 DEF Types
  <2>2. Flags'
    <3>1. draining' \in BOOLEAN /\ cut' \in BOOLEAN
      BY <1>0, <1>t, <1>21 DEF DaemonFails, Types, Flags
    <3>2. child' \in BOOLEAN /\ restartable' \in BOOLEAN
      BY <1>0, <1>t, <1>21 DEF DaemonFails, Types, Flags
    <3>3. tunnelUp' \in BOOLEAN /\ tunnel' \in BOOLEAN
      BY <1>0, <1>t, <1>21 DEF DaemonFails, Types, Flags
    <3>4. monitor' \in BOOLEAN /\ orphaned' \in BOOLEAN
      BY <1>0, <1>t, <1>21 DEF DaemonFails, Types, Flags
    <3>5. stopping' \in BOOLEAN
      BY <1>0, <1>t, <1>21 DEF DaemonFails, Types, Flags
    <3>6. drained' \in BOOLEAN /\ tunnelStopped' \in BOOLEAN
      BY <1>0, <1>t, <1>21 DEF DaemonFails, Types, Flags
    <3>7. resumeLost' \in BOOLEAN
      BY <1>0, <1>t, <1>21 DEF DaemonFails, Types, Flags
    <3> QED
      BY <1>0, <3>1, <3>2, <3>3, <3>4, <3>5, <3>6, <3>7 DEF Flags
  <2>3. Places'
    <3>1. CASE t = "start"
      BY <1>0, <1>t, <1>21, <3>1 DEF DaemonFails, Types, Places
    <3>2. CASE t = "stop"
      BY <1>0, <1>t, <1>21, <3>2 DEF DaemonFails, Types, Places
    <3>3. CASE t = "daemon"
      BY <1>0, <1>t, <1>21, <3>3 DEF DaemonFails, Types, Places
    <3>4. CASE t = "tunnel"
      BY <1>0, <1>t, <1>21, <3>4 DEF DaemonFails, Types, Places
    <3> QED
      BY <3>1, <3>2, <3>3, <3>4
  <2>4. Exclusion'
    BY ZenonT(60), <1>0, <1>t, <1>21 DEF DaemonFails, Types, Flags, Places, Exclusion
  <2>5. KnownChild'
    BY <1>0, <1>t, <1>21 DEF DaemonFails, Types, Flags, Places, KnownChild
  <2>6. Exits'
    BY ZenonT(60), <1>0, <1>t, <1>21 DEF DaemonFails, Types, Places, Exclusion, KnownChild, StopWithoutChild,
          Exits
  <2>7. StopWithoutChild'
    BY <1>0, <1>t, <1>21 DEF DaemonFails, Types, Places, Exclusion, KnownChild, StopWithoutChild
  <2>8. Drains'
    BY ZenonT(60), <1>0, <1>t, <1>21 DEF DaemonFails, Resumer, Types, Flags, Places, Exclusion, KnownChild,
          Exits, StopWithoutChild, Drains
  <2>9. Tunnels'
    BY ZenonT(60), <1>0, <1>t, <1>21 DEF DaemonFails, Types, Flags, Places, Tunnels
  <2>10. StoppedRests'
    BY ZenonT(60), <1>0, <1>t, <1>21 DEF DaemonFails, Types, Flags, Places, Exclusion, KnownChild, Exits,
          StopWithoutChild, Tunnels, StoppedRests
  <2>11. Orderly'
    <3>1. CASE t = "start"
      BY <1>0, <1>t, <1>21, <3>1 DEF DaemonFails, Types, Flags, Places, Exclusion, KnownChild,
            Exits, Orderly
    <3>2. CASE t = "stop"
      BY <1>0, <1>t, <1>21, <3>2 DEF DaemonFails, Types, Flags, Places, Exclusion, KnownChild,
            Exits, Orderly
    <3>3. CASE t = "daemon"
      BY <1>0, <1>t, <1>21, <3>3 DEF DaemonFails, Types, Flags, Places, Exclusion, KnownChild,
            Exits, Orderly
    <3>4. CASE t = "tunnel"
      BY <1>0, <1>t, <1>21, <3>4 DEF DaemonFails, Types, Flags, Places, Exclusion, KnownChild,
            Exits, Orderly
    <3> QED
      BY <3>1, <3>2, <3>3, <3>4
  <2> QED
    BY <2>1, <2>2, <2>3, <2>4, <2>5, <2>6, <2>7, <2>8, <2>9, <2>10, <2>11 DEF SupervisorIInv
<1>22. ASSUME NEW t \in Task, Verified(t) PROVE SupervisorIInv'
  BY <1>0, <1>t, <1>22 DEF Verified, SupervisorIInv, Steps, Types, Flags, Places, Exclusion,
        KnownChild, StopWithoutChild, Exits, Resumer, Drains, Tunnels, StoppedRests, Orderly
<1>23. ASSUME NEW t \in Task, NotVerified(t) PROVE SupervisorIInv'
  <2>1. Types'
    BY ZenonT(60), <1>0, <1>t, <1>23 DEF NotVerified, Steps, Types
  <2>2. Flags'
    <3>1. draining' \in BOOLEAN /\ cut' \in BOOLEAN
      BY <1>0, <1>t, <1>23 DEF NotVerified, Types, Flags
    <3>2. child' \in BOOLEAN /\ restartable' \in BOOLEAN
      BY <1>0, <1>t, <1>23 DEF NotVerified, Types, Flags
    <3>3. tunnelUp' \in BOOLEAN /\ tunnel' \in BOOLEAN
      BY <1>0, <1>t, <1>23 DEF NotVerified, Types, Flags
    <3>4. monitor' \in BOOLEAN /\ orphaned' \in BOOLEAN
      BY <1>0, <1>t, <1>23 DEF NotVerified, Types, Flags
    <3>5. stopping' \in BOOLEAN
      BY <1>0, <1>t, <1>23 DEF NotVerified, Types, Flags
    <3>6. drained' \in BOOLEAN /\ tunnelStopped' \in BOOLEAN
      BY <1>0, <1>t, <1>23 DEF NotVerified, Types, Flags
    <3>7. resumeLost' \in BOOLEAN
      BY <1>0, <1>t, <1>23 DEF NotVerified, Types, Flags
    <3> QED
      BY <1>0, <3>1, <3>2, <3>3, <3>4, <3>5, <3>6, <3>7 DEF Flags
  <2>3. Places' /\ Exclusion' /\ KnownChild' /\ Exits' /\ StopWithoutChild'
    BY ZenonT(60), <1>0, <1>t, <1>23 DEF NotVerified, Types, Places, Flags, Exclusion, KnownChild,
          StopWithoutChild, Exits
  <2>4. Drains'
    BY <1>0, <1>t, <1>23 DEF NotVerified, Resumer, Types, Flags, Places, Exclusion, KnownChild,
          Exits, StopWithoutChild, Drains
  <2>5. Tunnels'
    BY <1>0, <1>t, <1>23 DEF NotVerified, Types, Flags, Places, Tunnels
  <2>6. StoppedRests' /\ Orderly'
    BY ZenonT(60), <1>0, <1>t, <1>23 DEF NotVerified, Types, Flags, Places, Exclusion, KnownChild, Exits,
          StopWithoutChild, Tunnels, StoppedRests, Orderly
  <2> QED
    BY <2>1, <2>2, <2>3, <2>4, <2>5, <2>6 DEF SupervisorIInv
\* The steps of a stop and of a clean-up.
<1>24. ASSUME NEW t \in Closer, Drain(t) PROVE SupervisorIInv'
  <2>1. Types'
    BY <1>0, <1>t, <1>24 DEF Drain, Steps, Types
  <2>2. Flags'
    BY ZenonT(60), <1>0, <1>t, <1>24 DEF Drain, Types, Flags
  <2>3. /\ Places' /\ Exclusion' /\ KnownChild' /\ Exits' /\ StopWithoutChild'
        /\ Drains' /\ Tunnels' /\ StoppedRests' /\ Orderly'
    BY <1>0, <1>t, <1>24 DEF Drain, Types, Places, Flags, Exclusion, KnownChild, StopWithoutChild,
          Exits, Resumer, Drains, Tunnels, StoppedRests, Orderly
  <2> QED
    BY <2>1, <2>2, <2>3 DEF SupervisorIInv
<1>25. ASSUME NEW t \in Closer, DrainFails(t) PROVE SupervisorIInv'
  <2>1. Types'
    <3>1. proc' \in {"none", "booting", "serving", "closing"} /\ turns' \in 0..MAX_TURNS
      BY <1>0, <1>t, <1>25 DEF DrainFails, DrainIsRefused, Steps, Types
    <3>2. observers' \subseteq Task /\ restartTimers' \subseteq Child
      BY <1>0, <1>t, <1>25 DEF DrainFails, DrainIsRefused, Steps, Types
    <3>3. pc' \in [Task -> Steps]
      BY <1>0, <1>t, <1>25 DEF DrainFails, DrainIsRefused, Steps, Types
    <3>4. /\ marker' \in {"absent", "live", "over"}
          /\ outcome' \in {"stopped", "starting", "ready", "failed"}
      BY <1>0, <1>t, <1>25 DEF DrainFails, DrainIsRefused, Steps, Types
    <3>5. /\ exits' \in 0..MAX_EXITS /\ faults' \in 0..MAX_FAULTS
          /\ <<starts, stops, wakes>>' = <<starts, stops, wakes>>
      BY <1>0, <1>t, <1>25 DEF DrainFails, DrainIsRefused, Steps, Types
    <3> QED
      BY <1>0, <3>1, <3>2, <3>3, <3>4, <3>5 DEF Types
  <2>2. Flags'
    <3>1. draining' \in BOOLEAN /\ cut' \in BOOLEAN
      BY <1>0, <1>t, <1>25 DEF DrainFails, DrainIsRefused, Types, Flags
    <3>2. child' \in BOOLEAN /\ restartable' \in BOOLEAN
      BY <1>0, <1>t, <1>25 DEF DrainFails, DrainIsRefused, Types, Flags
    <3>3. tunnelUp' \in BOOLEAN /\ tunnel' \in BOOLEAN
      BY <1>0, <1>t, <1>25 DEF DrainFails, DrainIsRefused, Types, Flags
    <3>4. monitor' \in BOOLEAN /\ orphaned' \in BOOLEAN
      BY <1>0, <1>t, <1>25 DEF DrainFails, DrainIsRefused, Types, Flags
    <3>5. stopping' \in BOOLEAN
      BY <1>0, <1>t, <1>25 DEF DrainFails, DrainIsRefused, Types, Flags
    <3>6. drained' \in BOOLEAN /\ tunnelStopped' \in BOOLEAN
      BY <1>0, <1>t, <1>25 DEF DrainFails, DrainIsRefused, Types, Flags
    <3>7. resumeLost' \in BOOLEAN
      BY <1>0, <1>t, <1>25 DEF DrainFails, DrainIsRefused, Types, Flags
    <3> QED
      BY <1>0, <3>1, <3>2, <3>3, <3>4, <3>5, <3>6, <3>7 DEF Flags
  <2>3. Places' /\ Exclusion'
    BY ZenonT(60), <1>0, <1>t, <1>25 DEF DrainFails, DrainIsRefused, Types, Places, Flags, Exclusion
  <2>4. /\ KnownChild' /\ Exits' /\ StopWithoutChild' /\ Drains'
        /\ Tunnels' /\ StoppedRests' /\ Orderly'
    BY <1>0, <1>t, <1>25 DEF DrainFails, DrainIsRefused, Types, Flags, Places, KnownChild,
          Exclusion, StopWithoutChild, Exits, Resumer, Drains, Tunnels, StoppedRests, Orderly
  <2> QED
    BY <2>1, <2>2, <2>3, <2>4 DEF SupervisorIInv
<1>26. ASSUME NEW t \in Closer, StopTunnel(t) PROVE SupervisorIInv'
  <2>1. Types'
    BY <1>0, <1>t, <1>26 DEF StopTunnel, Steps, Types
  <2>2. Flags'
    BY <1>0, <1>t, <1>26 DEF StopTunnel, Types, Flags
  <2>3. Places' /\ Exclusion'
    BY ZenonT(60), <1>0, <1>t, <1>26 DEF StopTunnel, Types, Places, Flags, Exclusion
  <2>4. KnownChild' /\ Exits' /\ StopWithoutChild'
    BY ZenonT(60), <1>0, <1>t, <1>26 DEF StopTunnel, Types, Flags, Places, KnownChild, Exclusion,
          StopWithoutChild, Exits
  <2>5. Drains' /\ Tunnels'
    BY ZenonT(60), <1>0, <1>t, <1>26 DEF StopTunnel, Resumer, Types, Flags, Places, Exclusion, KnownChild,
          Exits, StopWithoutChild, Drains, Tunnels
  <2>6. StoppedRests' /\ Orderly'
    BY <1>0, <1>t, <1>26 DEF StopTunnel, Types, Flags, Places, Exclusion, KnownChild, Exits,
          StopWithoutChild, Tunnels, StoppedRests, Orderly
  <2> QED
    BY <2>1, <2>2, <2>3, <2>4, <2>5, <2>6 DEF SupervisorIInv
<1>27. ASSUME NEW t \in Closer, StopTunnelFails(t) PROVE SupervisorIInv'
  <2>1. Types'
    <3>1. proc' \in {"none", "booting", "serving", "closing"} /\ turns' \in 0..MAX_TURNS
      BY <1>0, <1>t, <1>27 DEF StopTunnelFails, Steps, Types
    <3>2. observers' \subseteq Task /\ restartTimers' \subseteq Child
      BY <1>0, <1>t, <1>27 DEF StopTunnelFails, Steps, Types
    <3>3. pc' \in [Task -> Steps]
      BY <1>0, <1>t, <1>27 DEF StopTunnelFails, Steps, Types
    <3>4. /\ marker' \in {"absent", "live", "over"}
          /\ outcome' \in {"stopped", "starting", "ready", "failed"}
      BY <1>0, <1>t, <1>27 DEF StopTunnelFails, Steps, Types
    <3>5. /\ exits' \in 0..MAX_EXITS /\ faults' \in 0..MAX_FAULTS
          /\ <<starts, stops, wakes>>' = <<starts, stops, wakes>>
      BY <1>0, <1>t, <1>27 DEF StopTunnelFails, Steps, Types
    <3> QED
      BY <1>0, <3>1, <3>2, <3>3, <3>4, <3>5 DEF Types
  <2>2. Flags'
    BY ZenonT(60), <1>0, <1>t, <1>27 DEF StopTunnelFails, Types, Flags
  <2>3. Places' /\ Exclusion' /\ KnownChild' /\ Exits' /\ StopWithoutChild'
    BY ZenonT(60), <1>0, <1>t, <1>27 DEF StopTunnelFails, Types, Places, Flags, Exclusion, KnownChild,
          StopWithoutChild, Exits
  <2>4. Drains' /\ Tunnels'
    BY <1>0, <1>t, <1>27 DEF StopTunnelFails, Resumer, Types, Flags, Places, Exclusion,
          KnownChild, Exits, StopWithoutChild, Drains, Tunnels
  <2>5. StoppedRests'
    BY <1>0, <1>t, <1>27 DEF StopTunnelFails, Types, Flags, Places, Exclusion, KnownChild, Exits,
          StopWithoutChild, Tunnels, StoppedRests
  <2>6. Orderly'
    BY <1>0, <1>t, <1>27 DEF StopTunnelFails, Types, Flags, Places, Exclusion, KnownChild, Exits,
          Orderly
  <2> QED
    BY <2>1, <2>2, <2>3, <2>4, <2>5, <2>6 DEF SupervisorIInv
<1>28. ASSUME NEW t \in Closer, Shutdown(t) PROVE SupervisorIInv'
  <2>1. Types'
    BY <1>0, <1>t, <1>28 DEF Shutdown, Steps, Types
  <2>2. Flags'
    <3>1. draining' \in BOOLEAN /\ cut' \in BOOLEAN
      BY <1>0, <1>t, <1>28 DEF Shutdown, Types, Flags
    <3>2. child' \in BOOLEAN /\ restartable' \in BOOLEAN
      BY <1>0, <1>t, <1>28 DEF Shutdown, Types, Flags
    <3>3. tunnelUp' \in BOOLEAN /\ tunnel' \in BOOLEAN
      BY <1>0, <1>t, <1>28 DEF Shutdown, Types, Flags
    <3>4. monitor' \in BOOLEAN /\ orphaned' \in BOOLEAN
      BY <1>0, <1>t, <1>28 DEF Shutdown, Types, Flags
    <3>5. stopping' \in BOOLEAN
      BY <1>0, <1>t, <1>28 DEF Shutdown, Types, Flags
    <3>6. drained' \in BOOLEAN /\ tunnelStopped' \in BOOLEAN
      BY <1>0, <1>t, <1>28 DEF Shutdown, Types, Flags
    <3>7. resumeLost' \in BOOLEAN
      BY <1>0, <1>t, <1>28 DEF Shutdown, Types, Flags
    <3> QED
      BY <1>0, <3>1, <3>2, <3>3, <3>4, <3>5, <3>6, <3>7 DEF Flags
  <2>3. Places' /\ Exclusion'
    BY ZenonT(60), <1>0, <1>t, <1>28 DEF Shutdown, Types, Places, Flags, Exclusion
  <2>4. KnownChild' /\ Exits' /\ StopWithoutChild'
    BY <1>0, <1>t, <1>28 DEF Shutdown, Types, Flags, Places, KnownChild, Exclusion,
          StopWithoutChild, Exits
  <2>5. Drains' /\ Tunnels'
    BY <1>0, <1>t, <1>28 DEF Shutdown, Resumer, Types, Flags, Places, Exclusion, KnownChild,
          Exits, StopWithoutChild, Drains, Tunnels
  <2>6. StoppedRests' /\ Orderly'
    BY ZenonT(60), <1>0, <1>t, <1>28 DEF Shutdown, Types, Flags, Places, Exclusion, KnownChild, Exits,
          StopWithoutChild, Tunnels, StoppedRests, Orderly
  <2> QED
    BY <2>1, <2>2, <2>3, <2>4, <2>5, <2>6 DEF SupervisorIInv
<1>29. ASSUME NEW t \in Closer, ShutdownFails(t) PROVE SupervisorIInv'
  <2>1. Types'
    <3>1. proc' \in {"none", "booting", "serving", "closing"} /\ turns' \in 0..MAX_TURNS
      BY <1>0, <1>t, <1>29 DEF ShutdownFails, Steps, Types
    <3>2. observers' \subseteq Task /\ restartTimers' \subseteq Child
      BY <1>0, <1>t, <1>29 DEF ShutdownFails, Steps, Types
    <3>3. pc' \in [Task -> Steps]
      BY <1>0, <1>t, <1>29 DEF ShutdownFails, Steps, Types
    <3>4. /\ marker' \in {"absent", "live", "over"}
          /\ outcome' \in {"stopped", "starting", "ready", "failed"}
      BY <1>0, <1>t, <1>29 DEF ShutdownFails, Steps, Types
    <3>5. /\ exits' \in 0..MAX_EXITS /\ faults' \in 0..MAX_FAULTS
          /\ <<starts, stops, wakes>>' = <<starts, stops, wakes>>
      BY <1>0, <1>t, <1>29 DEF ShutdownFails, Steps, Types
    <3> QED
      BY <1>0, <3>1, <3>2, <3>3, <3>4, <3>5 DEF Types
  <2>2. Flags'
    <3>1. draining' \in BOOLEAN /\ cut' \in BOOLEAN
      BY <1>0, <1>t, <1>29 DEF ShutdownFails, Types, Flags
    <3>2. child' \in BOOLEAN /\ restartable' \in BOOLEAN
      BY <1>0, <1>t, <1>29 DEF ShutdownFails, Types, Flags
    <3>3. tunnelUp' \in BOOLEAN /\ tunnel' \in BOOLEAN
      BY <1>0, <1>t, <1>29 DEF ShutdownFails, Types, Flags
    <3>4. monitor' \in BOOLEAN /\ orphaned' \in BOOLEAN
      BY <1>0, <1>t, <1>29 DEF ShutdownFails, Types, Flags
    <3>5. stopping' \in BOOLEAN
      BY <1>0, <1>t, <1>29 DEF ShutdownFails, Types, Flags
    <3>6. drained' \in BOOLEAN /\ tunnelStopped' \in BOOLEAN
      BY <1>0, <1>t, <1>29 DEF ShutdownFails, Types, Flags
    <3>7. resumeLost' \in BOOLEAN
      BY <1>0, <1>t, <1>29 DEF ShutdownFails, Types, Flags
    <3> QED
      BY <1>0, <3>1, <3>2, <3>3, <3>4, <3>5, <3>6, <3>7 DEF Flags
  <2>3. Places' /\ Exclusion' /\ KnownChild' /\ Exits' /\ StopWithoutChild'
    BY ZenonT(60), <1>0, <1>t, <1>29 DEF ShutdownFails, Types, Places, Flags, Exclusion, KnownChild,
          StopWithoutChild, Exits
  <2>4. Drains' /\ Tunnels' /\ StoppedRests' /\ Orderly'
    BY <1>0, <1>t, <1>29 DEF ShutdownFails, Resumer, Types, Flags, Places, Exclusion, KnownChild,
          Exits, StopWithoutChild, Drains, Tunnels, StoppedRests, Orderly
  <2> QED
    BY <2>1, <2>2, <2>3, <2>4 DEF SupervisorIInv
<1>30. ASSUME NEW t \in Closer, Exited(t) PROVE SupervisorIInv'
  <2>1. Types'
    BY <1>0, <1>t, <1>30 DEF Exited, Steps, Types
  <2>2. Flags'
    <3>1. draining' \in BOOLEAN /\ cut' \in BOOLEAN
      BY <1>0, <1>t, <1>30 DEF Exited, Types, Flags
    <3>2. child' \in BOOLEAN /\ restartable' \in BOOLEAN
      BY <1>0, <1>t, <1>30 DEF Exited, Types, Flags
    <3>3. tunnelUp' \in BOOLEAN /\ tunnel' \in BOOLEAN
      BY <1>0, <1>t, <1>30 DEF Exited, Types, Flags
    <3>4. monitor' \in BOOLEAN /\ orphaned' \in BOOLEAN
      BY <1>0, <1>t, <1>30 DEF Exited, Types, Flags
    <3>5. stopping' \in BOOLEAN
      BY <1>0, <1>t, <1>30 DEF Exited, Types, Flags
    <3>6. drained' \in BOOLEAN /\ tunnelStopped' \in BOOLEAN
      BY <1>0, <1>t, <1>30 DEF Exited, Types, Flags
    <3>7. resumeLost' \in BOOLEAN
      BY <1>0, <1>t, <1>30 DEF Exited, Types, Flags
    <3> QED
      BY <1>0, <3>1, <3>2, <3>3, <3>4, <3>5, <3>6, <3>7 DEF Flags
  <2>3. Places' /\ Exclusion' /\ KnownChild' /\ Exits' /\ StopWithoutChild'
    BY <1>0, <1>t, <1>30 DEF Exited, Types, Places, Flags, Exclusion, KnownChild,
          StopWithoutChild, Exits
  <2>4. Drains' /\ Tunnels'
    BY <1>0, <1>t, <1>30 DEF Exited, Resumer, Types, Flags, Places, Exclusion, KnownChild, Exits,
          StopWithoutChild, Drains, Tunnels
  <2>5. StoppedRests' /\ Orderly'
    BY <1>0, <1>t, <1>30 DEF Exited, Types, Flags, Places, Exclusion, KnownChild, Exits,
          StopWithoutChild, Tunnels, StoppedRests, Orderly
  <2> QED
    BY <2>1, <2>2, <2>3, <2>4, <2>5 DEF SupervisorIInv
<1>31. ASSUME NEW t \in Closer, ExitIsLate(t) PROVE SupervisorIInv'
  <2>1. Types'
    <3>1. proc' \in {"none", "booting", "serving", "closing"} /\ turns' \in 0..MAX_TURNS
      BY <1>0, <1>t, <1>31 DEF ExitIsLate, Steps, Types
    <3>2. observers' \subseteq Task /\ restartTimers' \subseteq Child
      BY <1>0, <1>t, <1>31 DEF ExitIsLate, Steps, Types
    <3>3. pc' \in [Task -> Steps]
      BY <1>0, <1>t, <1>31 DEF ExitIsLate, Steps, Types
    <3>4. /\ marker' \in {"absent", "live", "over"}
          /\ outcome' \in {"stopped", "starting", "ready", "failed"}
      BY <1>0, <1>t, <1>31 DEF ExitIsLate, Steps, Types
    <3>5. /\ exits' \in 0..MAX_EXITS /\ faults' \in 0..MAX_FAULTS
          /\ <<starts, stops, wakes>>' = <<starts, stops, wakes>>
      BY <1>0, <1>t, <1>31 DEF ExitIsLate, Steps, Types
    <3> QED
      BY <1>0, <3>1, <3>2, <3>3, <3>4, <3>5 DEF Types
  <2>2. Flags'
    <3>1. draining' \in BOOLEAN /\ cut' \in BOOLEAN
      BY <1>0, <1>t, <1>31 DEF ExitIsLate, Types, Flags
    <3>2. child' \in BOOLEAN /\ restartable' \in BOOLEAN
      BY <1>0, <1>t, <1>31 DEF ExitIsLate, Types, Flags
    <3>3. tunnelUp' \in BOOLEAN /\ tunnel' \in BOOLEAN
      BY <1>0, <1>t, <1>31 DEF ExitIsLate, Types, Flags
    <3>4. monitor' \in BOOLEAN /\ orphaned' \in BOOLEAN
      BY <1>0, <1>t, <1>31 DEF ExitIsLate, Types, Flags
    <3>5. stopping' \in BOOLEAN
      BY <1>0, <1>t, <1>31 DEF ExitIsLate, Types, Flags
    <3>6. drained' \in BOOLEAN /\ tunnelStopped' \in BOOLEAN
      BY <1>0, <1>t, <1>31 DEF ExitIsLate, Types, Flags
    <3>7. resumeLost' \in BOOLEAN
      BY <1>0, <1>t, <1>31 DEF ExitIsLate, Types, Flags
    <3> QED
      BY <1>0, <3>1, <3>2, <3>3, <3>4, <3>5, <3>6, <3>7 DEF Flags
  <2>3. Places' /\ Exclusion' /\ KnownChild' /\ Exits' /\ StopWithoutChild'
    BY ZenonT(60), <1>0, <1>t, <1>31 DEF ExitIsLate, Types, Places, Flags, Exclusion, KnownChild,
          StopWithoutChild, Exits
  <2>4. Drains' /\ Tunnels' /\ StoppedRests' /\ Orderly'
    BY <1>0, <1>t, <1>31 DEF ExitIsLate, Resumer, Types, Flags, Places, Exclusion, KnownChild,
          Exits, StopWithoutChild, Drains, Tunnels, StoppedRests, Orderly
  <2> QED
    BY <2>1, <2>2, <2>3, <2>4 DEF SupervisorIInv
<1>32. ASSUME BeginStop PROVE SupervisorIInv'
  <2>1. Types'
    BY <1>0, <1>t, <1>32 DEF BeginStop, Steps, Types
  <2>2. Flags'
    BY <1>0, <1>t, <1>32 DEF BeginStop, Types, Flags
  <2>3. /\ Places' /\ Exclusion' /\ KnownChild' /\ Exits' /\ StopWithoutChild'
        /\ Drains' /\ Tunnels' /\ StoppedRests' /\ Orderly'
    BY <1>0, <1>t, <1>32 DEF BeginStop, Types, Places, Flags, Exclusion, KnownChild,
          StopWithoutChild, Exits, Resumer, Drains, Tunnels, StoppedRests, Orderly
  <2> QED
    BY <2>1, <2>2, <2>3 DEF SupervisorIInv
<1>33. ASSUME Settled PROVE SupervisorIInv'
  BY <1>0, <1>t, <1>33 DEF Settled, RecoveriesSettled, SupervisorIInv, Steps, Types, Flags,
        Places, Exclusion, KnownChild, StopWithoutChild, Exits, Resumer, Drains, Tunnels,
        StoppedRests, Orderly
<1>34. ASSUME Check PROVE SupervisorIInv'
  <2>1. Types'
    BY <1>0, <1>t, <1>34 DEF Check, AdoptsForStop, Steps, Types
  <2>2. Flags'
    <3>1. draining' \in BOOLEAN /\ cut' \in BOOLEAN
      BY <1>0, <1>t, <1>34 DEF Check, AdoptsForStop, Types, Flags
    <3>2. child' \in BOOLEAN /\ restartable' \in BOOLEAN
      BY <1>0, <1>t, <1>34 DEF Check, AdoptsForStop, Types, Flags
    <3>3. tunnelUp' \in BOOLEAN /\ tunnel' \in BOOLEAN
      BY <1>0, <1>t, <1>34 DEF Check, AdoptsForStop, Types, Flags
    <3>4. monitor' \in BOOLEAN /\ orphaned' \in BOOLEAN
      BY <1>0, <1>t, <1>34 DEF Check, AdoptsForStop, Types, Flags
    <3>5. stopping' \in BOOLEAN
      BY <1>0, <1>t, <1>34 DEF Check, AdoptsForStop, Types, Flags
    <3>6. drained' \in BOOLEAN /\ tunnelStopped' \in BOOLEAN
      BY <1>0, <1>t, <1>34 DEF Check, AdoptsForStop, Types, Flags
    <3>7. resumeLost' \in BOOLEAN
      BY <1>0, <1>t, <1>34 DEF Check, AdoptsForStop, Types, Flags
    <3> QED
      BY <1>0, <3>1, <3>2, <3>3, <3>4, <3>5, <3>6, <3>7 DEF Flags
  <2>3. Places' /\ Exclusion' /\ KnownChild' /\ Exits' /\ StopWithoutChild'
    BY ZenonT(60), <1>0, <1>t, <1>34 DEF Check, AdoptsForStop, Types, Places, Flags, Exclusion, KnownChild,
          StopWithoutChild, Exits
  <2>4. Drains' /\ Tunnels'
    BY <1>0, <1>t, <1>34 DEF Check, AdoptsForStop, Resumer, Types, Flags, Places, Exclusion,
          KnownChild, Exits, StopWithoutChild, Drains, Tunnels
  <2>5. StoppedRests' /\ Orderly'
    BY ZenonT(60), <1>0, <1>t, <1>34 DEF Check, AdoptsForStop, Types, Flags, Places, Exclusion, KnownChild,
          Exits, StopWithoutChild, Tunnels, StoppedRests, Orderly
  <2> QED
    BY <2>1, <2>2, <2>3, <2>4, <2>5 DEF SupervisorIInv
<1>35. ASSUME Cleanup PROVE SupervisorIInv'
  <2>1. Types'
    <3>1. proc' \in {"none", "booting", "serving", "closing"} /\ turns' \in 0..MAX_TURNS
      BY <1>0, <1>t, <1>35 DEF Cleanup, Steps, Types
    <3>2. observers' \subseteq Task /\ restartTimers' \subseteq Child
      BY <1>0, <1>t, <1>35 DEF Cleanup, Steps, Types
    <3>3. pc' \in [Task -> Steps]
      BY <1>0, <1>t, <1>35 DEF Cleanup, Steps, Types
    <3>4. /\ marker' \in {"absent", "live", "over"}
          /\ outcome' \in {"stopped", "starting", "ready", "failed"}
      BY <1>0, <1>t, <1>35 DEF Cleanup, Steps, Types
    <3>5. /\ exits' \in 0..MAX_EXITS /\ faults' \in 0..MAX_FAULTS
          /\ <<starts, stops, wakes>>' = <<starts, stops, wakes>>
      BY <1>0, <1>t, <1>35 DEF Cleanup, Steps, Types
    <3> QED
      BY <1>0, <3>1, <3>2, <3>3, <3>4, <3>5 DEF Types
  <2>2. Flags'
    <3>1. draining' \in BOOLEAN /\ cut' \in BOOLEAN
      BY <1>0, <1>t, <1>35 DEF Cleanup, Types, Flags
    <3>2. child' \in BOOLEAN /\ restartable' \in BOOLEAN
      BY <1>0, <1>t, <1>35 DEF Cleanup, Types, Flags
    <3>3. tunnelUp' \in BOOLEAN /\ tunnel' \in BOOLEAN
      BY <1>0, <1>t, <1>35 DEF Cleanup, Types, Flags
    <3>4. monitor' \in BOOLEAN /\ orphaned' \in BOOLEAN
      BY <1>0, <1>t, <1>35 DEF Cleanup, Types, Flags
    <3>5. stopping' \in BOOLEAN
      BY <1>0, <1>t, <1>35 DEF Cleanup, Types, Flags
    <3>6. drained' \in BOOLEAN /\ tunnelStopped' \in BOOLEAN
      BY <1>0, <1>t, <1>35 DEF Cleanup, Types, Flags
    <3>7. resumeLost' \in BOOLEAN
      BY <1>0, <1>t, <1>35 DEF Cleanup, Types, Flags
    <3> QED
      BY <1>0, <3>1, <3>2, <3>3, <3>4, <3>5, <3>6, <3>7 DEF Flags
  <2>3. /\ Places' /\ Exclusion' /\ KnownChild' /\ Exits' /\ StopWithoutChild'
        /\ Drains' /\ Tunnels' /\ StoppedRests' /\ Orderly'
    BY <1>0, <1>t, <1>35 DEF Cleanup, Types, Places, Flags, Exclusion, KnownChild,
          StopWithoutChild, Exits, Resumer, Drains, Tunnels, StoppedRests, Orderly
  <2> QED
    BY <2>1, <2>2, <2>3 DEF SupervisorIInv
<1>36. ASSUME UndoStop PROVE SupervisorIInv'
  <2>1. Types'
    <3>1. proc' \in {"none", "booting", "serving", "closing"} /\ turns' \in 0..MAX_TURNS
      BY <1>0, <1>t, <1>36 DEF UndoStop, StartsAnew, Steps, Types
    <3>2. observers' \subseteq Task /\ restartTimers' \subseteq Child
      BY <1>0, <1>t, <1>36 DEF UndoStop, StartsAnew, Steps, Types
    <3>3. pc' \in [Task -> Steps]
      BY <1>0, <1>t, <1>36 DEF UndoStop, StartsAnew, Steps, Types
    <3>4. /\ marker' \in {"absent", "live", "over"}
          /\ outcome' \in {"stopped", "starting", "ready", "failed"}
      BY <1>0, <1>t, <1>36 DEF UndoStop, StartsAnew, Steps, Types
    <3>5. /\ exits' \in 0..MAX_EXITS /\ faults' \in 0..MAX_FAULTS
          /\ <<starts, stops, wakes>>' = <<starts, stops, wakes>>
      BY <1>0, <1>t, <1>36 DEF UndoStop, StartsAnew, Steps, Types
    <3> QED
      BY <1>0, <3>1, <3>2, <3>3, <3>4, <3>5 DEF Types
  <2>2. Flags'
    <3>1. draining' \in BOOLEAN /\ cut' \in BOOLEAN
      BY <1>0, <1>t, <1>36 DEF UndoStop, StartsAnew, Types, Flags
    <3>2. child' \in BOOLEAN /\ restartable' \in BOOLEAN
      BY <1>0, <1>t, <1>36 DEF UndoStop, StartsAnew, Types, Flags
    <3>3. tunnelUp' \in BOOLEAN /\ tunnel' \in BOOLEAN
      BY <1>0, <1>t, <1>36 DEF UndoStop, StartsAnew, Types, Flags
    <3>4. monitor' \in BOOLEAN /\ orphaned' \in BOOLEAN
      BY <1>0, <1>t, <1>36 DEF UndoStop, StartsAnew, Types, Flags
    <3>5. stopping' \in BOOLEAN
      BY <1>0, <1>t, <1>36 DEF UndoStop, StartsAnew, Types, Flags
    <3>6. drained' \in BOOLEAN /\ tunnelStopped' \in BOOLEAN
      BY <1>0, <1>t, <1>36 DEF UndoStop, StartsAnew, Types, Flags
    <3>7. resumeLost' \in BOOLEAN
      BY <1>0, <1>t, <1>36 DEF UndoStop, StartsAnew, Types, Flags
    <3> QED
      BY <1>0, <3>1, <3>2, <3>3, <3>4, <3>5, <3>6, <3>7 DEF Flags
  <2>3. Places' /\ Exclusion'
    BY <1>0, <1>t, <1>36 DEF UndoStop, StartsAnew, Types, Places, Flags, Exclusion
  <2>4. KnownChild' /\ Exits' /\ StopWithoutChild'
    BY ZenonT(60), <1>0, <1>t, <1>36 DEF UndoStop, StartsAnew, Types, Flags, Places, KnownChild, Exclusion,
          StopWithoutChild, Exits
  <2>5. Drains'
    <3> USE <1>36 DEF UndoStop
    <3>1. CASE tunnelStopped /\ ~tunnel
      <4>1. UNCHANGED <<proc, draining, resumeLost, drained>> /\ pc' = [pc EXCEPT !["stop"] = "tunnel"]
        BY <3>1
      <4>2. pc["stop"] = "undo" /\ pc["start"] = "idle"
        BY <1>0 DEF Exclusion
      <4>3. ~Resumer("start") /\ (Resumer("stop") => drained)
        BY <4>2 DEF Resumer
      <4>4. drained => (Resumer("stop"))'
        BY <1>0, <4>1 DEF Resumer, Types
      <4> QED
        BY <1>0, <4>1, <4>3, <4>4 DEF Drains
    <3>2. CASE (tunnel \/ ~tunnelStopped) /\ ~drained
      <4>1. UNCHANGED <<proc, draining, resumeLost>>
        BY <3>2
      <4>2. ~Resumer("start") /\ ~Resumer("stop")
        BY <1>0, <3>2 DEF Resumer, Exclusion
      <4> QED
        BY <1>0, <4>1, <4>2 DEF Drains
    <3>3. CASE (tunnel \/ ~tunnelStopped) /\ drained /\ StartsAnew
      BY <3>3 DEF Drains
    <3>4. CASE (tunnel \/ ~tunnelStopped) /\ drained /\ ~StartsAnew
      <4>1. Resumes(0) /\ proc' = proc
        BY <3>4
      <4>2. resumeLost' \/ (draining' => draining /\ ~Listening)
        BY <4>1
      <4>3. draining' => draining
        BY <4>1
      <4> QED
        BY <1>0, <4>1, <4>2, <4>3 DEF Drains
    <3> QED
      BY <1>0, <3>1, <3>2, <3>3, <3>4 DEF Flags
  <2>6. Tunnels'
    BY <1>0, <1>t, <1>36 DEF UndoStop, StartsAnew, Types, Flags, Places, Tunnels
  <2>7. StoppedRests'
    BY <1>0, <1>t, <1>36 DEF UndoStop, StartsAnew, Types, Flags, Places, Exclusion, KnownChild,
          Exits, StopWithoutChild, Tunnels, StoppedRests
  <2>8. Orderly'
    <3>1. CASE tunnelStopped /\ ~tunnel
      BY <1>0, <1>t, <1>36, <3>1 DEF UndoStop, StartsAnew, Types, Flags, Places, Exclusion,
            KnownChild, Exits, Orderly
    <3>2. CASE (tunnel \/ ~tunnelStopped) /\ ~drained
      BY <1>0, <1>t, <1>36, <3>2 DEF UndoStop, StartsAnew, Types, Flags, Places, Exclusion,
            KnownChild, Exits, Orderly
    <3>3. CASE (tunnel \/ ~tunnelStopped) /\ drained /\ StartsAnew
      BY <1>0, <1>t, <1>36, <3>3 DEF UndoStop, StartsAnew, Types, Flags, Places, Exclusion,
            KnownChild, Exits, Orderly
    <3>4. CASE (tunnel \/ ~tunnelStopped) /\ drained /\ ~StartsAnew
      <4>1. proc' = proc /\ cut' = cut /\ child' = child /\ restartTimers' = restartTimers /\ exits' = exits
        BY <1>36, <3>4 DEF UndoStop
      <4>2. pc' \in {[pc EXCEPT !["stop"] = "idle"], [pc EXCEPT !["stop"] = "attach"]}
        BY <1>36, <3>4 DEF UndoStop
      <4>3. faults' = 0 => faults = 0
        <5>1. Resumes(0)
          BY <1>36, <3>4 DEF UndoStop
        <5> QED
          BY <1>0, <1>t, <5>1 DEF Types
      <4>4. pc["stop"] = "undo" /\ pc["start"] = "idle"
        BY <1>0, <1>36 DEF Exclusion, UndoStop
      <4>5. faults = 0 /\ exits = 0 => proc # "closing" /\ (proc = "none" => ~child)
        BY <1>0, <4>4 DEF Orderly
      <4> QED
        BY <1>0, <4>1, <4>2, <4>3, <4>5 DEF Orderly, Types
    <3> QED
      BY <1>0, <3>1, <3>2, <3>3, <3>4 DEF Flags
  <2> QED
    BY <2>1, <2>2, <2>3, <2>4, <2>5, <2>6, <2>7, <2>8 DEF SupervisorIInv
<1>37. CASE UNCHANGED supervisorVars
  BY <1>0, <1>37 DEF SupervisorIInv, Types, Flags, Places, Exclusion, KnownChild, Exits,
        StopWithoutChild, Drains, Tunnels, StoppedRests, Orderly, Resumer
<1> QED
  BY <1>1, <1>2, <1>3, <1>4, <1>5, <1>6, <1>7, <1>8, <1>9, <1>10, <1>11, <1>12, <1>13, <1>14,
        <1>15, <1>16, <1>17, <1>18, <1>19, <1>20, <1>21, <1>22, <1>23, <1>24, <1>25, <1>26, <1>27,
        <1>28, <1>29, <1>30, <1>31, <1>32, <1>33, <1>34, <1>35, <1>36, <1>37
     DEF SupervisorNext, Environment, Losses, Starting, Closing, Stopping

LEMMA SupervisorStart == SupervisorInit => SupervisorIInv
<1> SUFFICES ASSUME SupervisorInit PROVE SupervisorIInv
  OBVIOUS
<1> USE SupervisorBounds DEF SupervisorInit
<1>1. Types
  BY DEF Types, Task, Closer, Child, Steps
<1>2. Flags
  BY DEF Flags
<1>3. Places /\ Exclusion /\ KnownChild /\ Exits /\ StopWithoutChild
  BY DEF Places, Exclusion, KnownChild, Exits, StopWithoutChild, StopAtWork, CleaningUp, At, Quiet,
         Task, Closer, Child
<1>4. Drains /\ Tunnels /\ StoppedRests /\ Orderly
  BY DEF Drains, Tunnels, StoppedRests, Orderly, At, Quiet, Task, Closer, Child
<1> QED
  BY <1>1, <1>2, <1>3, <1>4 DEF SupervisorIInv

\* Where every task is quiet nothing resumes a daemon any more, and the inductive
\* invariant says what the run checks.
LEMMA SupervisorSound == SupervisorIInv => SupervisorInv
<1> SUFFICES ASSUME SupervisorIInv PROVE SupervisorInv
  OBVIOUS
<1>0. /\ Types /\ Flags /\ Places /\ Exclusion /\ KnownChild /\ Exits /\ StopWithoutChild
      /\ Drains /\ Tunnels /\ StoppedRests /\ Orderly
  BY DEF SupervisorIInv
<1>1. SupervisorTypeOK
  BY <1>0 DEF SupervisorTypeOK, Types, Flags
<1>2. NotLeftDraining
  <2> SUFFICES ASSUME AllQuiet, proc = "serving", ~resumeLost, draining PROVE FALSE
    BY DEF NotLeftDraining
  <2>1. pc["start"] = "idle" /\ pc["stop"] = "idle"
    BY DEF AllQuiet, Quiet, At, Task, Closer
  <2>2. ~Resumer("start") /\ ~Resumer("stop")
    BY <2>1 DEF Resumer, At
  <2> QED
    BY <1>0, <2>2 DEF Drains
<1>3. StoppedIsQuiet
  <2> SUFFICES ASSUME outcome = "stopped", AllQuiet, wakes = 0
               PROVE proc = "none" /\ restartTimers = {} /\ (tunnelUp => orphaned)
    BY DEF StoppedIsQuiet
  <2>1. \A t \in Task : pc[t] = "idle"
    BY DEF AllQuiet, Quiet, At
  <2>2. ~child /\ restartTimers = {} /\ ~tunnel
    BY <1>0, <2>1 DEF StoppedRests, Task, Closer
  <2>3. proc = "none"
    BY <1>0, <2>2 DEF KnownChild
  <2>4. tunnelUp => orphaned
    BY <1>0, <2>1, <2>2 DEF Tunnels, At
  <2> QED
    BY <2>2, <2>3, <2>4
<1>4. OrderlyStopSparesTurns
  BY <1>0 DEF Orderly, OrderlyStopSparesTurns
<1> QED
  BY <1>1, <1>2, <1>3, <1>4 DEF SupervisorInv

\* A stopped runtime is quiet, no daemon is left draining, and no orderly stop
\* cuts a turn short.
THEOREM SupervisorCorrect == SupervisorSpec => []SupervisorInv
<1>1. SupervisorSpec => []SupervisorIInv
  BY SupervisorStart, SupervisorStep, PTL DEF SupervisorSpec
<1> QED
  BY <1>1, SupervisorSound, PTL

\* A daemon process is started only where there is none: startDaemon() knows of
\* the child that runs, and restoreDrainedDaemon() looks whether it is gone.
THEOREM OneDaemonAtATime == SupervisorSpec => NoSecondDaemon
<1>1. SupervisorSpec => []SupervisorIInv
  BY SupervisorStart, SupervisorStep, PTL DEF SupervisorSpec
<1>2. SupervisorIInv /\ [SupervisorNext]_supervisorVars
        => [proc # "booting" /\ proc' = "booting" => proc = "none"]_supervisorVars
  <2> SUFFICES ASSUME SupervisorIInv, SupervisorNext, proc # "booting", proc' = "booting"
               PROVE proc = "none"
    BY DEF supervisorVars, daemonVars
  <2>0. KnownChild /\ Places /\ Types
    BY DEF SupervisorIInv
  <2> USE DEF Continue, Goto, StartDaemon, GreetChild, SpawnChild, daemonVars
  <2>1. ASSUME NEW name \in Child, TimerFires(name) PROVE proc = "none"
    BY <2>0, <2>1 DEF TimerFires, Child, KnownChild
  <2>2. ASSUME NEW t \in Task, AdoptTunnel(t) \/ TunnelReady(t) PROVE proc = "none"
    <3>1. t \in {"start", "stop", "tunnel"}
      BY <2>0, <2>2 DEF AdoptTunnel, TunnelReady, Places, At, Task, Closer, Child
    <3> QED
      BY <2>0, <2>2, <3>1 DEF AdoptTunnel, TunnelReady, TunnelStarted, KnownChild
  <2>3. ASSUME UndoStop PROVE proc = "none"
    BY <2>3 DEF UndoStop, StartsAnew
  <2>4. ASSUME NEW t \in Closer, Closing(t) PROVE FALSE
    BY <2>4 DEF Closing, Drain, DrainFails, StopTunnel, StopTunnelFails, Shutdown, ShutdownFails,
                Exited, ExitIsLate
  <2>5. ASSUME NEW t \in Task, Starting(t), ~AdoptTunnel(t), ~TunnelReady(t) PROVE FALSE
    BY <2>5 DEF Starting, StopOldTunnel, ConnectTunnel, TunnelFails, Hello, DaemonReady, DaemonFails,
                NoProcess, Verified, NotVerified
  <2>6. ~BeginStop /\ ~Settled /\ ~Check /\ ~Cleanup
    BY DEF BeginStop, Settled, Check, Cleanup, NoProcess
  <2>7. ~(DaemonBoots \/ AdmitTurn \/ FinishTurn \/ DaemonCloses \/ Environment)
    BY DEF DaemonBoots, AdmitTurn, FinishTurn, DaemonCloses, Environment, DaemonCrashes, NoProcess,
           TunnelDies, Wake, RequestStart, RequestStop
  <2>8. ~HandleExit /\ ~MonitorFails /\ ~MonitorAdopts
    BY DEF HandleExit, MonitorFails, MonitorAdopts
  <2> QED
    BY <2>1, <2>2, <2>3, <2>4, <2>5, <2>6, <2>7, <2>8 DEF SupervisorNext, Losses, Stopping
<1> QED
  BY <1>1, <1>2, PTL DEF SupervisorSpec, NoSecondDaemon

-----------------------------------------------------------------------------
(* The update of a source checkout *)

UpdaterPc ==
    {"idle", "open", "reopen", "read", "compare", "unlink", "write", "prepare", "assert", "docs",
     "obstruct", "merge", "resolve", "verify", "commit", "push", "catch", "finally", "stash", "unlock"}
SourceTypes ==
    /\ lock \in {"free", "empty", "dead"} \cup Updater
    /\ run \in [Updater -> [pc : UpdaterPc, target : Nat, saved : SUBSET LocalDoc, merging : BOOLEAN,
                            committed : BOOLEAN, backup : BOOLEAN, failed : BOOLEAN, stash : BOOLEAN]]
    /\ repo \in [merged : Nat, merge : Nat, origin : Nat]
    /\ upstream \in Nat /\ work \in {"none", "tree", "stash", "commit"}
    /\ docs \in [LocalDoc -> {"tree", "orphan"} \cup Updater]
    /\ kills \in Nat /\ setbacks \in Nat /\ spoiled \in BOOLEAN
\* Merged commits only grow, and what is being merged is newer.
Commits ==
    /\ repo.merged <= upstream /\ repo.origin <= repo.merged
    /\ ~GitReady => repo.merged < repo.merge /\ repo.merge <= upstream
    /\ \A u \in Updater : run[u].target <= upstream

Holds(u) == Updating(u) \/ run[u].pc = "unlock"
TakeoverIsSafe == ~TakeoverGap \/ kills = 0
\* Who works holds the lock, and one at most is about to write its pid into it.
Ownership == TakeoverIsSafe => \A u \in Updater :
    /\ Holds(u) => lock = u
    /\ run[u].pc = "write" => lock = "empty" /\ \A v \in Updater : run[v].pc = "write" => v = u
    /\ run[u].pc # "unlink"
\* Unless a process was killed every lock has its holder.
LockIsHeld == kills = 0 =>
    lock # "dead" /\ (lock = "free" \/ \E u \in Updater : Holds(u) \/ run[u].pc = "write")

\* Where documents, a merge and a stash of an update are while it runs.
Keeping(u) == run[u].pc \in {"docs", "obstruct", "merge", "resolve", "verify", "commit", "push", "catch", "finally"}
DocsAreSaved ==
    /\ \A u \in Updater : run[u].saved # {} => Keeping(u)
    /\ kills = 0 => \A d \in LocalDoc :
          /\ docs[d] \in Updater => d \in run[docs[d]].saved
          /\ docs[d] = "orphan" => spoiled
MergeIsOwned ==
    kills = 0 /\ ~spoiled /\ ~GitReady => \E u \in Updater :
        /\ run[u].pc \in {"resolve", "verify", "commit", "catch"}
        /\ run[u].merging /\ ~run[u].committed /\ run[u].backup
StashIsOwned ==
    /\ \A u \in Updater : run[u].stash \/ run[u].pc = "prepare" => Script(u)
    /\ kills = 0 /\ ~spoiled /\ work = "stash" => \E u \in Updater : run[u].stash /\ Updating(u)
\* What is committed is not aborted any more.
NothingCommitted ==
    \A u \in Updater : run[u].committed =>
        run[u].pc \in {"push", "catch", "finally", "stash", "unlock"}

SourceIInv ==
    /\ SourceTypes /\ Commits /\ Ownership /\ LockIsHeld /\ DocsAreSaved /\ MergeIsOwned
    /\ StashIsOwned /\ NothingCommitted

\* Every step preserves it: one case per action.
LEMMA SourceStep == SourceIInv /\ [SUNext]_suVars => SourceIInv'
<1> SUFFICES ASSUME SourceIInv, [SUNext]_suVars PROVE SourceIInv'
  OBVIOUS
<1> USE DEF MovesTo, Throw, Setback, Spoils, Fine, GitReady, Stale, Updating, Holds, TakeoverIsSafe, Keeping, Script
<1>0. /\ SourceTypes /\ Commits /\ Ownership /\ LockIsHeld /\ DocsAreSaved /\ MergeIsOwned
      /\ StashIsOwned /\ NothingCommitted
  BY DEF SourceIInv
<1>a. /\ {MAX_UPSTREAM, MAX_KILLS, MAX_SETBACKS} \subseteq Nat /\ TakeoverGap \in BOOLEAN
      /\ ScriptUpdater \subseteq Updater /\ Updater \cap {"free", "empty", "dead", "tree", "orphan"} = {}
  BY SourceBounds
<1>1. ASSUME NEW u \in Updater, BeginUpdate(u) PROVE SourceIInv'
  BY <1>0, <1>a, <1>1 DEF BeginUpdate, SourceIInv, Asleep, UpdaterPc, SourceTypes, Commits,
        Ownership, LockIsHeld, DocsAreSaved, NothingCommitted, MergeIsOwned, StashIsOwned
<1>2. ASSUME NEW u \in Updater, Killed(u) PROVE SourceIInv'
  BY <1>0, <1>a, <1>2 DEF Killed, SourceIInv, Asleep, UpdaterPc, SourceTypes, Commits, Ownership,
        LockIsHeld, DocsAreSaved, NothingCommitted, MergeIsOwned, StashIsOwned
<1>3. ASSUME NEW u \in Updater, Open(u) PROVE SourceIInv'
  <2>1. SourceTypes' /\ Commits' /\ Ownership' /\ LockIsHeld'
    BY <1>0, <1>a, <1>3 DEF Open, Asleep, UpdaterPc, SourceTypes, Commits, Ownership, LockIsHeld
  <2>2. DocsAreSaved' /\ MergeIsOwned' /\ StashIsOwned' /\ NothingCommitted'
    BY <1>0, <1>a, <1>3 DEF Open, SourceTypes, Asleep, DocsAreSaved, NothingCommitted,
          MergeIsOwned, Ownership, StashIsOwned
  <2> QED
    BY <2>1, <2>2 DEF SourceIInv
<1>4. ASSUME NEW u \in Updater, ReadLock(u) PROVE SourceIInv'
  BY <1>0, <1>a, <1>4 DEF ReadLock, SourceIInv, Asleep, UpdaterPc, SourceTypes, Commits,
        Ownership, LockIsHeld, DocsAreSaved, NothingCommitted, MergeIsOwned, StashIsOwned
<1>5. ASSUME NEW u \in Updater, Compare(u) PROVE SourceIInv'
  BY SMTT(40), <1>0, <1>a, <1>5 DEF Compare, SourceIInv, Asleep, UpdaterPc, SourceTypes, Commits, Ownership,
        LockIsHeld, DocsAreSaved, NothingCommitted, MergeIsOwned, StashIsOwned
<1>6. ASSUME NEW u \in Updater, Unlink(u) PROVE SourceIInv'
  BY <1>0, <1>a, <1>6 DEF Unlink, SourceIInv, Asleep, UpdaterPc, SourceTypes, Commits, Ownership,
        LockIsHeld, DocsAreSaved, NothingCommitted, MergeIsOwned, StashIsOwned
<1>7. ASSUME NEW u \in Updater, WriteLock(u) PROVE SourceIInv'
  BY <1>0, <1>a, <1>7 DEF WriteLock, SourceIInv, Asleep, UpdaterPc, SourceTypes, Commits,
        Ownership, LockIsHeld, DocsAreSaved, NothingCommitted, MergeIsOwned, StashIsOwned
<1>8. ASSUME NEW u \in Updater, Prepare(u) PROVE SourceIInv'
  BY SMTT(40), <1>0, <1>a, <1>8 DEF Prepare, CleanTree, SourceIInv, Asleep, UpdaterPc, SourceTypes, Commits,
        Ownership, LockIsHeld, DocsAreSaved, NothingCommitted, MergeIsOwned, StashIsOwned
<1>9. ASSUME NEW u \in Updater, Inspect(u) PROVE SourceIInv'
  BY SMTT(40), <1>0, <1>a, <1>9 DEF Inspect, CleanTree, SourceIInv, Asleep, UpdaterPc, SourceTypes, Commits,
        Ownership, LockIsHeld, DocsAreSaved, NothingCommitted, MergeIsOwned, StashIsOwned
<1>10. ASSUME NEW u \in Updater, SaveDoc(u) PROVE SourceIInv'
  <2>1. SourceTypes'
    BY SMTT(40), <1>0, <1>a, <1>10 DEF SaveDoc, Asleep, UpdaterPc, SourceTypes
  <2>2. /\ Commits' /\ Ownership' /\ LockIsHeld' /\ DocsAreSaved'
        /\ MergeIsOwned' /\ StashIsOwned' /\ NothingCommitted'
    BY <1>0, <1>a, <1>10 DEF SaveDoc, SourceTypes, Asleep, Commits, Ownership, LockIsHeld,
          DocsAreSaved, NothingCommitted, MergeIsOwned, StashIsOwned
  <2> QED
    BY <2>1, <2>2 DEF SourceIInv
<1>11. ASSUME NEW u \in Updater, Obstruct(u) PROVE SourceIInv'
  <2>1. SourceTypes' /\ Commits' /\ Ownership' /\ LockIsHeld'
    BY <1>0, <1>a, <1>11 DEF Obstruct, Asleep, UpdaterPc, SourceTypes, Commits, Ownership,
          LockIsHeld
  <2>2. DocsAreSaved' /\ MergeIsOwned' /\ StashIsOwned' /\ NothingCommitted'
    BY <1>0, <1>a, <1>11 DEF Obstruct, SourceTypes, Asleep, DocsAreSaved, NothingCommitted,
          MergeIsOwned, Ownership, StashIsOwned
  <2> QED
    BY <2>1, <2>2 DEF SourceIInv
<1>12. ASSUME NEW u \in Updater, Merge(u) PROVE SourceIInv'
  <2>1. SourceTypes' /\ Commits' /\ Ownership' /\ LockIsHeld'
    BY <1>0, <1>a, <1>12 DEF Merge, Asleep, UpdaterPc, SourceTypes, Commits, Ownership, LockIsHeld
  <2>2. DocsAreSaved' /\ MergeIsOwned' /\ StashIsOwned' /\ NothingCommitted'
    BY SMTT(40), <1>0, <1>a, <1>12 DEF Merge, SourceTypes, Asleep, DocsAreSaved, NothingCommitted,
          MergeIsOwned, Ownership, StashIsOwned
  <2> QED
    BY <2>1, <2>2 DEF SourceIInv
<1>13. ASSUME NEW u \in Updater, Resolve(u) PROVE SourceIInv'
  BY SMTT(40), <1>0, <1>a, <1>13 DEF Resolve, SourceIInv, Asleep, UpdaterPc, SourceTypes, Commits,
        Ownership, LockIsHeld, DocsAreSaved, NothingCommitted, MergeIsOwned, StashIsOwned
<1>14. ASSUME NEW u \in Updater, VerifySource(u) PROVE SourceIInv'
  <2>1. SourceTypes' /\ Commits' /\ Ownership' /\ LockIsHeld'
    BY <1>0, <1>a, <1>14 DEF VerifySource, Asleep, UpdaterPc, SourceTypes, Commits, Ownership,
          LockIsHeld
  <2>2. DocsAreSaved' /\ MergeIsOwned' /\ StashIsOwned' /\ NothingCommitted'
    BY <1>0, <1>a, <1>14 DEF VerifySource, SourceTypes, Asleep, DocsAreSaved, NothingCommitted,
          MergeIsOwned, Ownership, StashIsOwned
  <2> QED
    BY <2>1, <2>2 DEF SourceIInv
<1>15. ASSUME NEW u \in Updater, CommitMerge(u) PROVE SourceIInv'
  BY SMTT(40), <1>0, <1>a, <1>15 DEF CommitMerge, SourceIInv, Asleep, UpdaterPc, SourceTypes, Commits,
        Ownership, LockIsHeld, DocsAreSaved, NothingCommitted, MergeIsOwned, StashIsOwned
<1>16. ASSUME NEW u \in Updater, PushOrigin(u) PROVE SourceIInv'
  BY SMTT(40), <1>0, <1>a, <1>16 DEF PushOrigin, SourceIInv, Asleep, UpdaterPc, SourceTypes, Commits,
        Ownership, LockIsHeld, DocsAreSaved, NothingCommitted, MergeIsOwned, StashIsOwned
<1>17. ASSUME NEW u \in Updater, Catch(u) PROVE SourceIInv'
  <2>1. SourceTypes'
    <3>1. /\ run' = [run EXCEPT ![u].pc = "finally"] /\ repo' \in {repo, [repo EXCEPT !.merge = 0]}
          /\ UNCHANGED <<lock, upstream, work, docs, kills>>
      BY <1>17 DEF Catch
    <3>2. \/ setbacks' = setbacks /\ spoiled' = spoiled
          \/ setbacks' = setbacks + 1 /\ (spoiled' = spoiled \/ spoiled' = TRUE)
      BY <1>17 DEF Catch
    <3>3. setbacks' \in Nat
      BY <1>0, <3>2 DEF SourceTypes
    <3>4. spoiled' \in BOOLEAN
      BY Zenon, <1>0, <3>2 DEF SourceTypes
    <3> QED
      BY SMTT(40), <1>0, <3>1, <3>3, <3>4 DEF SourceTypes, UpdaterPc
  <2>2. /\ Commits' /\ Ownership' /\ LockIsHeld' /\ DocsAreSaved'
        /\ MergeIsOwned' /\ StashIsOwned' /\ NothingCommitted'
    BY <1>0, <1>a, <1>17 DEF Catch, SourceTypes, Asleep, Commits, Ownership, LockIsHeld,
          DocsAreSaved, NothingCommitted, MergeIsOwned, StashIsOwned
  <2> QED
    BY <2>1, <2>2 DEF SourceIInv
<1>18. ASSUME NEW u \in Updater, Finally(u) PROVE SourceIInv'
  <2>0. \/ /\ run[u].saved = {} /\ UNCHANGED <<docs, setbacks, spoiled>>
           /\ run' \in {[run EXCEPT ![u].pc = "stash"], [run EXCEPT ![u].pc = "unlock"]}
        \/ \E d \in run[u].saved :
              /\ run' = [run EXCEPT ![u].saved = @ \ {d}]
              /\ \/ docs' = [docs EXCEPT ![d] = "tree"] /\ UNCHANGED <<setbacks, spoiled>>
                 \/ docs' = [docs EXCEPT ![d] = "orphan"] /\ setbacks' = setbacks + 1 /\ spoiled' = TRUE
    BY <1>18 DEF Finally
  <2>1. SourceTypes'
    <3>1. run' \in [Updater -> [pc : UpdaterPc, target : Nat, saved : SUBSET LocalDoc, merging : BOOLEAN,
                            committed : BOOLEAN, backup : BOOLEAN, failed : BOOLEAN, stash : BOOLEAN]]
      BY <1>0, <2>0 DEF SourceTypes, UpdaterPc
    <3>2. docs' \in [LocalDoc -> {"tree", "orphan"} \cup Updater]
      BY <1>0, <2>0 DEF SourceTypes
    <3>3. setbacks' \in Nat
      BY <1>0, <2>0 DEF SourceTypes
    <3>4. spoiled' \in BOOLEAN
      BY Zenon, <1>0, <2>0 DEF SourceTypes
    <3> QED
      BY <1>0, <1>18, <3>1, <3>2, <3>3, <3>4 DEF Finally, SourceTypes
  <2>2. /\ Commits' /\ Ownership' /\ LockIsHeld' /\ DocsAreSaved'
        /\ MergeIsOwned' /\ StashIsOwned' /\ NothingCommitted'
    BY SMTT(40), <1>0, <1>a, <1>18 DEF Finally, SourceTypes, Asleep, Commits, Ownership, LockIsHeld,
          DocsAreSaved, NothingCommitted, MergeIsOwned, StashIsOwned
  <2> QED
    BY <2>1, <2>2 DEF SourceIInv
<1>19. ASSUME NEW u \in Updater, ApplyStash(u) PROVE SourceIInv'
  <2>1. SourceTypes'
    <3>1. run' = [run EXCEPT ![u].pc = "unlock"] /\ work' \in {work, "tree"}
          /\ UNCHANGED <<lock, repo, upstream, docs, kills>>
      BY <1>19 DEF ApplyStash
    <3>2. \/ setbacks' = setbacks /\ spoiled' = spoiled
          \/ setbacks' = setbacks + 1 /\ (spoiled' = spoiled \/ spoiled' = TRUE)
      BY <1>19 DEF ApplyStash
    <3>3. setbacks' \in Nat
      BY <1>0, <3>2 DEF SourceTypes
    <3>4. spoiled' \in BOOLEAN
      BY Zenon, <1>0, <3>2 DEF SourceTypes
    <3> QED
      BY <1>0, <3>1, <3>3, <3>4 DEF SourceTypes, UpdaterPc
  <2>2. /\ Commits' /\ Ownership' /\ LockIsHeld' /\ DocsAreSaved'
        /\ MergeIsOwned' /\ StashIsOwned' /\ NothingCommitted'
    BY <1>0, <1>a, <1>19 DEF ApplyStash, SourceTypes, Asleep, Commits, Ownership, LockIsHeld,
          DocsAreSaved, NothingCommitted, MergeIsOwned, StashIsOwned
  <2> QED
    BY <2>1, <2>2 DEF SourceIInv
<1>20. ASSUME NEW u \in Updater, Unlock(u) PROVE SourceIInv'
  <2>1. SourceTypes'
    BY <1>0, <1>a, <1>20 DEF Unlock, Asleep, UpdaterPc, SourceTypes
  <2>2. /\ Commits' /\ Ownership' /\ LockIsHeld' /\ DocsAreSaved'
        /\ MergeIsOwned' /\ StashIsOwned' /\ NothingCommitted'
    BY <1>0, <1>a, <1>20 DEF Unlock, SourceTypes, Asleep, Commits, Ownership, LockIsHeld,
          DocsAreSaved, NothingCommitted, MergeIsOwned, StashIsOwned
  <2> QED
    BY <2>1, <2>2 DEF SourceIInv
<1>21. ASSUME UserAborts PROVE SourceIInv'
  BY <1>0, <1>a, <1>21 DEF UserAborts, SourceIInv, Asleep, UpdaterPc, SourceTypes, Commits,
        Ownership, LockIsHeld, DocsAreSaved, NothingCommitted, MergeIsOwned, StashIsOwned
<1>22. ASSUME UserEdits PROVE SourceIInv'
  BY <1>0, <1>a, <1>22 DEF UserEdits, SourceIInv, Asleep, UpdaterPc, SourceTypes, Commits,
        Ownership, LockIsHeld, DocsAreSaved, NothingCommitted, MergeIsOwned, StashIsOwned
<1>23. ASSUME UpstreamMoves PROVE SourceIInv'
  BY <1>0, <1>a, <1>23 DEF UpstreamMoves, SourceIInv, Asleep, UpdaterPc, SourceTypes, Commits,
        Ownership, LockIsHeld, DocsAreSaved, NothingCommitted, MergeIsOwned, StashIsOwned
<1>24. CASE UNCHANGED suVars
  BY <1>0, <1>24 DEF suVars, SourceIInv, SourceTypes, Commits, Ownership, LockIsHeld, DocsAreSaved, MergeIsOwned, StashIsOwned, NothingCommitted
<1> QED
  BY <1>1, <1>2, <1>3, <1>4, <1>5, <1>6, <1>7, <1>8, <1>9, <1>10, <1>11, <1>12, <1>13,
      <1>14, <1>15, <1>16, <1>17, <1>18, <1>19, <1>20, <1>21, <1>22, <1>23, <1>24
  DEF SUNext, Advance, UpdaterStep

LEMMA SourceStart == SUInit => SourceIInv
<1> SUFFICES ASSUME SUInit PROVE SourceIInv
  OBVIOUS
<1> USE SourceBounds DEF SUInit, Asleep, GitReady, Updating, Holds, Keeping
<1>1. SourceTypes
  <2>1. run \in [Updater -> [pc : UpdaterPc, target : Nat, saved : SUBSET LocalDoc, merging : BOOLEAN,
                           committed : BOOLEAN, backup : BOOLEAN, failed : BOOLEAN, stash : BOOLEAN]]
    BY DEF UpdaterPc
  <2> QED
    BY <2>1 DEF SourceTypes
<1>4. Commits
  BY DEF Commits
<1>2. Ownership /\ LockIsHeld /\ DocsAreSaved
  BY DEF Ownership, LockIsHeld, DocsAreSaved
<1>3. MergeIsOwned /\ StashIsOwned /\ NothingCommitted
  BY DEF MergeIsOwned, StashIsOwned, NothingCommitted
<1> QED
  BY <1>1, <1>2, <1>3, <1>4 DEF SourceIInv

\* Where every process rests nobody holds the lock, keeps a document, a merge or a stash.
LEMMA SourceSound == SourceIInv => SourceInv /\ (TakeoverIsSafe => OneUpdater)
<1> SUFFICES ASSUME SourceIInv PROVE SourceInv /\ (TakeoverIsSafe => OneUpdater)
  OBVIOUS
<1>0. /\ SourceTypes /\ Commits /\ Ownership /\ LockIsHeld /\ DocsAreSaved /\ MergeIsOwned
      /\ StashIsOwned
  BY DEF SourceIInv
<1>1. SUTypeOK
  BY <1>0 DEF SUTypeOK, SourceTypes, Commits
<1>2. CheckoutIsWhole
  <2> SUFFICES ASSUME Resting, kills = 0
               PROVE  lock = "free" /\ (~spoiled => GitReady /\ work # "stash" /\ \A d \in LocalDoc : docs[d] = "tree")
    BY DEF CheckoutIsWhole
  <2> USE DEF Resting, Updating, Holds, Keeping
  <2>1. lock = "free"
    BY <1>0 DEF LockIsHeld
  <2>2. ~spoiled => GitReady /\ work # "stash"
    BY <1>0 DEF MergeIsOwned, StashIsOwned
  <2>3. ASSUME ~spoiled, NEW d \in LocalDoc PROVE docs[d] = "tree"
    BY <1>0, <2>3 DEF DocsAreSaved, SourceTypes
  <2> QED
    BY <2>1, <2>2, <2>3
<1>3. TakeoverIsSafe => OneUpdater
  BY <1>0 DEF Ownership, OneUpdater, Holds
<1> QED
  BY <1>1, <1>2, <1>3 DEF SourceInv

LEMMA SourceAlways == SUSpec => []SourceIInv
BY SourceStart, SourceStep, PTL DEF SUSpec

\* An update that ends leaves the checkout whole, for any processes, documents and commits,
\* whatever fails, and also where a stale lock may be taken over by two at once.
THEOREM SourceCorrect == SUSpec => []SourceInv
BY SourceAlways, SourceSound, PTL

\* One process at a time works on the checkout, as docs/UPSTREAM_UPDATE_WORKFLOW.md says, where
\* nothing runs between the comparison of a stale lock and its removal, or no process was killed.
THEOREM OneUpdaterCorrect == SUSpec => [](~TakeoverGap \/ kills = 0 => OneUpdater)
BY SourceAlways, SourceSound, PTL DEF TakeoverIsSafe

-----------------------------------------------------------------------------
(* Limits: what is kept of the books *)

\* A book of an account counts nothing before the account was first checked.
BookTypes(b) ==
    /\ DOMAIN b = {"plan", "since", "events"} /\ b.plan \in Plan
    /\ b.since \in {Never} \cup Nat
    /\ b.since = Never => b.plan = "unsupported" /\ b.events = {}
StoreTypes(s) ==
    /\ DOMAIN s = {"active", "book"} /\ s.active \in Opened(s) \cup {NoOne}
    /\ Opened(s) \subseteq Account /\ \A a \in Opened(s) : BookTypes(s.book[a])

\* A receipt kept is of a physical Send.
SentAs(x, a, e) ==
    /\ x.id = e.id /\ x.who = a /\ x.at = e.at
    /\ e.model = x.model \/ (e.model = "pro-unknown" /\ x.model # "other")
RealEvents(b, a) ==
    \A e \in b.events : /\ e.at >= b.since /\ \E x \in sends : SentAs(x, a, e)
                        /\ \A f \in b.events : f.id = e.id => f = e
RealBooks(s) == \A a \in Opened(s) : RealEvents(s.book[a], a)

SendTypes ==
    /\ IsFiniteSet(sends) /\ Cardinality(sends) <= MAX_SENDS
    /\ \A x \in sends : /\ x.id \in 1..Cardinality(sends) /\ x.who \in Account
                        /\ x.model \in Family \cup {"other"} /\ x.at \in Nat
    /\ \A x, y \in sends : x.id = y.id => x = y

LimitsFields ==
    /\ wall \in 0..MAX_TIME /\ pruned \in 0..MAX_TIME
    /\ signedIn.who \in Account /\ signedIn.tier \in {"pro", "prolite", "free"}
    /\ lmode \in {"automatic", "manual"} /\ sending \in {"none", "tracked", "untracked"}
    /\ gap \in BOOLEAN /\ checking \in BOOLEAN
    /\ limitsFile = [ok |-> limitsFile.ok, state |-> limitsFile.state] /\ limitsFile.ok \in BOOLEAN
    /\ limits.built \in BOOLEAN

\* The file holds what is counted; a store that was not built holds nothing.
StoreBooks ==
    /\ StoreTypes(limitsFile.state) /\ RealBooks(limitsFile.state)
    /\ MemoryIsTheFile /\ (~limits.built => limits.state = Empty)

\* Each receipt on its way is of a Send of the turn that runs.
ReceiptBooks ==
    \A r \in receipts :
        \E x \in sends : /\ x.id = r.id /\ x.at = r.at /\ r.key \in {x.who, NoOne}
                         /\ r.model = x.model \/ (r.model = "pro-unknown" /\ x.model # "other")

\* A check has the store open. So does a turn that runs, or the panel says so; one that is
\* not tracked found no plan to count for.
SendingBooks ==
    /\ receipts # {} => sending # "none"
    /\ checking => limits.built
    /\ sending # "none" => /\ lmode = "automatic" /\ ~checking
                           /\ gap \/ limits.built
                           /\ sending = "untracked" => gap \/ ~Enabled(limits.state)

\* Nothing is owed until the store is built, but for a gap.
ExcuseBooks == ~limits.built /\ ~gap => \A x \in sends : x.id \in excused

LimitsIInv == /\ LimitsFields /\ SendTypes /\ StoreBooks /\ ReceiptBooks /\ SendingBooks
              /\ ExcuseBooks /\ GapIsShown

\* A state without the receipts of before the retention is the state otherwise.
LEMMA Retained ==
    ASSUME NEW s, StoreTypes(s), NEW now
    PROVE  /\ Retain(s, now).active = s.active /\ Opened(Retain(s, now)) = Opened(s)
           /\ \A a \in Opened(s) :
                 /\ Retain(s, now).book[a].plan = s.book[a].plan
                 /\ Retain(s, now).book[a].since = s.book[a].since
                 /\ Retain(s, now).book[a].events = {e \in s.book[a].events : e.at > now - WEEK}
           /\ StoreTypes(Retain(s, now)) /\ (Enabled(Retain(s, now)) <=> Enabled(s))
<1> DEFINE kept(a) == [s.book[a] EXCEPT !.events = {e \in @ : e.at > now - WEEK}]
           books == [a \in Opened(s) |-> kept(a)]
           after == [s EXCEPT !.book = books]
<1>1. Retain(s, now) = after
  BY Zenon DEF Retain
<1>2. DOMAIN s = {"active", "book"} /\ \A a \in Opened(s) : BookTypes(s.book[a])
  BY DEF StoreTypes
<1>3. \A a \in Opened(s) :
         /\ DOMAIN kept(a) = {"plan", "since", "events"} /\ kept(a).plan = s.book[a].plan
         /\ kept(a).since = s.book[a].since
         /\ kept(a).events = {e \in s.book[a].events : e.at > now - WEEK}
  BY <1>2 DEF BookTypes
<1> HIDE DEF kept
<1>4. DOMAIN books = Opened(s) /\ \A a \in Opened(s) : books[a] = kept(a)
  OBVIOUS
<1> HIDE DEF books
<1>5. DOMAIN after = {"active", "book"} /\ after.active = s.active /\ after.book = books
  BY <1>2
<1> HIDE DEF after
<1>6. Opened(after) = Opened(s)
  BY <1>4, <1>5 DEF Opened
<1>7. \A a \in Opened(s) : /\ after.book[a].plan = s.book[a].plan /\ after.book[a].since = s.book[a].since
                           /\ after.book[a].events = {e \in s.book[a].events : e.at > now - WEEK}
                           /\ BookTypes(after.book[a])
  <2> TAKE a \in Opened(s)
  <2>1. after.book[a] = kept(a)
    BY <1>4, <1>5
  <2> QED
    BY <1>2, <1>3, <2>1 DEF BookTypes
<1>8. StoreTypes(after)
  BY <1>5, <1>6, <1>7 DEF StoreTypes
<1>9. PlanOf(after) = PlanOf(s)
  BY <1>5, <1>7 DEF PlanOf, StoreTypes
<1> QED
  BY <1>1, <1>5, <1>6, <1>7, <1>8, <1>9 DEF Enabled

LEMMA RetainedIsReal ==
    ASSUME NEW s, StoreTypes(s), RealBooks(s), NEW now PROVE RealBooks(Retain(s, now))
<1> DEFINE after == Retain(s, now)
<1>1. /\ Opened(after) = Opened(s)
      /\ \A a \in Opened(s) : /\ after.book[a].since = s.book[a].since
                              /\ after.book[a].events \subseteq s.book[a].events
  BY Retained
<1> HIDE DEF after
<1>2. RealBooks(after)
  BY <1>1 DEF RealBooks, RealEvents
<1> QED
  BY <1>2 DEF after

\* A receipt is taken into the book of the active account.
LEMMA Added ==
    ASSUME NEW s, StoreTypes(s), RealBooks(s), NEW r, Enabled(s), Accepts(s, r),
           NEW x \in sends, x.id = r.id, x.at = r.at, r.key \in {x.who, NoOne},
           r.model = x.model \/ (r.model = "pro-unknown" /\ x.model # "other")
    PROVE  /\ Add(s, r).active = s.active /\ Opened(Add(s, r)) = Opened(s)
           /\ \A a \in Opened(s) : /\ Add(s, r).book[a].since = s.book[a].since
                                   /\ s.book[a].events \subseteq Add(s, r).book[a].events
           /\ s.active \in Opened(s) /\ \E e \in Add(s, r).book[s.active].events : e.id = r.id
           /\ StoreTypes(Add(s, r)) /\ RealBooks(Add(s, r)) /\ Enabled(Add(s, r))
<1> DEFINE k == r.key
           n == [id |-> r.id, model |-> r.model, at |-> r.at]
           new == [s.book[k] EXCEPT !.events = @ \cup {n}]
           books == [s.book EXCEPT ![k] = new]
           after == [s EXCEPT !.book = books]
<1>1. Add(s, r) = after
  BY SMT DEF Add
<1>2. /\ DOMAIN s = {"active", "book"} /\ \A a \in Opened(s) : BookTypes(s.book[a])
      /\ s.active \in Opened(s) \cup {NoOne}
  BY DEF StoreTypes
<1>3. k = s.active /\ k \in Opened(s) /\ k # NoOne /\ k = x.who
  BY <1>2 DEF Accepts, Enabled, PlanOf
<1>4. n.id = r.id /\ n.model = r.model /\ n.at = r.at
  OBVIOUS
<1> HIDE DEF n
<1>5. /\ DOMAIN new = {"plan", "since", "events"} /\ new.plan = s.book[k].plan
      /\ new.since = s.book[k].since /\ new.events = s.book[k].events \cup {n}
  BY <1>2, <1>3 DEF BookTypes
<1> HIDE DEF new
<1>6. /\ DOMAIN books = Opened(s) /\ books[k] = new
      /\ \A a \in Opened(s) : a # k => books[a] = s.book[a]
  BY <1>3 DEF Opened
<1> HIDE DEF books
<1>7. DOMAIN after = {"active", "book"} /\ after.active = s.active /\ after.book = books
  BY <1>2
<1> HIDE DEF after
<1>8. Opened(after) = Opened(s)
  BY <1>6, <1>7 DEF Opened
<1>9. /\ s.book[k].plan # "unsupported" /\ r.at >= s.book[k].since
      /\ \A e \in s.book[k].events : e.id # r.id
  BY DEF Accepts
<1>10. \A a \in Opened(s) : /\ after.book[a].since = s.book[a].since
                            /\ after.book[a].plan = s.book[a].plan
                            /\ s.book[a].events \subseteq after.book[a].events
                            /\ BookTypes(after.book[a])
  <2> TAKE a \in Opened(s)
  <2>1. CASE a = k
    BY <1>2, <1>5, <1>6, <1>7, <1>9, <2>1 DEF BookTypes
  <2>2. CASE a # k
    BY <1>2, <1>6, <1>7, <2>2
  <2> QED
    BY <2>1, <2>2
<1>11. StoreTypes(after)
  BY <1>7, <1>8, <1>10 DEF StoreTypes
<1>12. RealBooks(after)
  <2> SUFFICES ASSUME NEW a \in Opened(s) PROVE RealEvents(after.book[a], a)
    BY <1>8 DEF RealBooks
  <2>1. RealEvents(s.book[a], a)
    BY DEF RealBooks
  <2>2. CASE a # k
    BY <1>6, <1>7, <2>1, <2>2
  <2>3. CASE a = k
    <3>1. SentAs(x, k, n)
      BY <1>3, <1>4 DEF SentAs
    <3>2. after.book[a].events = s.book[k].events \cup {n} /\ after.book[a].since = s.book[k].since
      BY <1>5, <1>6, <1>7, <2>3
    <3> QED
      BY <1>4, <1>9, <2>1, <2>3, <3>1, <3>2 DEF RealEvents
  <2> QED
    BY <2>2, <2>3
<1>13. Enabled(after)
  BY <1>3, <1>7, <1>10 DEF Enabled, PlanOf
<1>14. n \in after.book[s.active].events
  BY <1>3, <1>5, <1>6, <1>7
<1> QED
  BY <1>1, <1>3, <1>4, <1>7, <1>8, <1>10, <1>11, <1>12, <1>13, <1>14

\* The checked account becomes the active one.
LEMMA ConfiguredIsReal ==
    ASSUME NEW s, StoreTypes(s), RealBooks(s), signedIn.who \in Account, wall \in Nat
    PROVE  StoreTypes(Configured(s)) /\ RealBooks(Configured(s))
<1> DEFINE a == signedIn.who
           old == IF a \in Opened(s) THEN s.book[a] ELSE [since |-> Never, events |-> {}]
           new == [plan |-> DetectedPlan,
                   since |-> IF old.since # Never THEN old.since
                             ELSE IF DetectedPlan = "unsupported" THEN Never ELSE wall,
                   events |-> old.events]
           books == [b \in Opened(s) \cup {a} |-> IF b = a THEN new ELSE s.book[b]]
           after == [active |-> a, book |-> books]
<1>1. Configured(s) = after
  BY Zenon DEF Configured
<1>2. /\ \A b \in Opened(s) : BookTypes(s.book[b]) /\ RealEvents(s.book[b], b)
      /\ Opened(s) \subseteq Account
  BY DEF StoreTypes, RealBooks
<1>3. /\ old.since \in {Never} \cup Nat /\ (old.since = Never => old.events = {})
      /\ RealEvents(old, a)
  <2>1. CASE a \in Opened(s)
    BY <1>2, <2>1 DEF BookTypes
  <2>2. CASE a \notin Opened(s)
    BY <2>2 DEF RealEvents
  <2> QED
    BY <2>1, <2>2
<1> HIDE DEF old
<1>4. DetectedPlan \in Plan
  BY DEF DetectedPlan, Plan
<1>5. /\ BookTypes(new) /\ new.events = old.events
      /\ old.since # Never => new.since = old.since
  BY <1>3, <1>4, SMT DEF BookTypes, Never
<1>6. RealEvents(new, a)
  BY <1>3, <1>5 DEF RealEvents
<1> HIDE DEF new
<1>7. /\ DOMAIN books = Opened(s) \cup {a} /\ books[a] = new
      /\ \A b \in Opened(s) : b # a => books[b] = s.book[b]
  OBVIOUS
<1> HIDE DEF books
<1>8. Opened(after) = Opened(s) \cup {a} /\ after.book = books /\ after.active = a
      /\ DOMAIN after = {"active", "book"}
  BY <1>7 DEF Opened
<1> HIDE DEF after
<1>9. \A b \in Opened(after) : BookTypes(after.book[b]) /\ RealEvents(after.book[b], b)
  BY <1>2, <1>5, <1>6, <1>7, <1>8
<1> QED
  BY <1>1, <1>2, <1>8, <1>9 DEF StoreTypes, RealBooks

-----------------------------------------------------------------------------
(* What the store does *)

LEMMA OpenStore ==
    ASSUME LimitsFields, StoreBooks, CanOpen
    PROVE  /\ limitsFile = [ok |-> TRUE, state |-> StoreState] /\ limitsFile.state = StoreState
           /\ StoreTypes(StoreState) /\ RealBooks(StoreState)
<1>1. CASE limits.built
  <2>1. limitsFile = [ok |-> TRUE, state |-> limits.state] /\ StoreState = limits.state
    BY <1>1 DEF StoreBooks, MemoryIsTheFile, StoreState
  <2>2. limitsFile.state = limits.state
    BY <2>1
  <2> QED
    BY <2>1, <2>2 DEF StoreBooks
<1>2. CASE ~limits.built
  <2>1. limitsFile.ok = TRUE /\ StoreState = limitsFile.state
    BY <1>2 DEF CanOpen, LimitsFields, StoreState
  <2> QED
    BY <2>1 DEF StoreBooks, LimitsFields
<1> QED
  BY <1>1, <1>2

LEMMA SameBooks ==
    ASSUME StoreBooks, sends \subseteq sends', UNCHANGED <<limits, limitsFile>>
    PROVE  StoreBooks'
<1>1. RealBooks(limitsFile.state)'
  BY DEF StoreBooks, RealBooks, RealEvents, SentAs
<1> QED
  BY <1>1 DEF StoreBooks, StoreTypes, MemoryIsTheFile, Opened

\* The form of the file.
FileForm == limitsFile = [ok |-> limitsFile.ok, state |-> limitsFile.state] /\ limitsFile.ok \in BOOLEAN
            /\ limits.built \in BOOLEAN

LEMMA Committed ==
    ASSUME NEW s, StoreTypes(s), RealBooks(s), CommitTo(s), UNCHANGED sends
    PROVE  StoreBooks' /\ FileForm' /\ limits'.built /\ limits'.state = s
<1>1. limitsFile' = [ok |-> TRUE, state |-> s] /\ limits' = [built |-> TRUE, state |-> s]
  BY DEF CommitTo, Opens
<1>2. /\ limitsFile'.ok = TRUE /\ limitsFile'.state = s /\ limits'.built = TRUE /\ limits'.state = s
  BY <1>1
<1>3. RealBooks(limitsFile.state)' /\ StoreTypes(limitsFile.state)'
  BY <1>2 DEF RealBooks, RealEvents, SentAs, StoreTypes, Opened
<1> QED
  BY <1>1, <1>2, <1>3 DEF StoreBooks, MemoryIsTheFile, FileForm

LEMMA OpenedOnly ==
    ASSUME LimitsFields, StoreBooks, CanOpen, Opens(StoreState), UNCHANGED <<limitsFile, sends>>
    PROVE  StoreBooks' /\ FileForm' /\ limits'.built /\ limits'.state = StoreState
<1>1. limits' = [built |-> TRUE, state |-> StoreState]
  BY DEF Opens
<1>2. limits'.built = TRUE /\ limits'.state = StoreState
  BY <1>1
<1>3. limitsFile = [ok |-> TRUE, state |-> StoreState]
  BY OpenStore
<1>4. RealBooks(limitsFile.state)' /\ StoreTypes(limitsFile.state)'
  BY DEF StoreBooks, RealBooks, RealEvents, SentAs, StoreTypes, Opened
<1> QED
  BY <1>2, <1>3, <1>4 DEF StoreBooks, MemoryIsTheFile, FileForm, LimitsFields

LEMMA SeenLater ==
    ASSUME LimitsFields, Seen
    PROVE  pruned' \in 0..MAX_TIME /\ pruned <= pruned' /\ wall <= pruned' /\ pruned' \in Nat
  BY LimitsBounds, SMT DEF LimitsFields, Seen

\* What was owed before the store was used is owed only as long as its receipt is kept.
LEMMA StillCounted ==
    ASSUME LimitsIInv, CanOpen, ~gap, NEW s, NEW now \in Nat,
           s.active = StoreState.active, Enabled(StoreState),
           \A e \in StoreState.book[s.active].events :
              e.at > now - WEEK => e \in s.book[s.active].events,
           s.book[s.active].since = StoreState.book[s.active].since,
           pruned <= now,
           NEW x \in sends, x.who = s.active, x.id \notin excused,
           \A r \in receipts : r.id # x.id,
           x.at >= s.book[x.who].since, x.at > now - WEEK
    PROVE  \E e \in s.book[x.who].events : e.id = x.id
<1>1. limits.built /\ StoreState = limits.state
  BY DEF LimitsIInv, ExcuseBooks, StoreState
<1>2. x.at > pruned - WEEK
  <2>1. x.at \in Nat /\ pruned \in Nat /\ WEEK \in Nat
    BY LimitsBounds, SMT DEF LimitsIInv, SendTypes, LimitsFields
  <2> QED
    BY <2>1, SMT
<1>3. Owed(x)
  BY <1>1, <1>2 DEF Owed
<1>4. PICK e \in limits.state.book[x.who].events : e.id = x.id
  BY <1>1, <1>3 DEF LimitsIInv, GapIsShown
<1>5. x.who \in Opened(StoreState)
  <2>1. StoreTypes(StoreState)
    BY OpenStore DEF LimitsIInv
  <2> QED
    BY <2>1 DEF StoreTypes, Enabled, PlanOf
<1>6. PICK y \in sends : SentAs(y, x.who, e)
  <2>1. RealBooks(StoreState)
    BY OpenStore DEF LimitsIInv
  <2> QED
    BY <1>1, <1>4, <1>5, <2>1 DEF RealBooks, RealEvents
<1>7. y = x
  BY <1>4, <1>6 DEF SentAs, LimitsIInv, SendTypes
<1>8. e.at = x.at
  BY <1>6, <1>7 DEF SentAs
<1> QED
  BY <1>1, <1>4, <1>8

\* A snapshot prunes the books, or fails and says so.
LEMMA SnapshotKeeps ==
    ASSUME LimitsIInv, NEW tracks \in BOOLEAN, Snapshot(tracks),
           UNCHANGED <<wall, sends, receipts, excused>>
    PROVE  /\ StoreBooks' /\ FileForm' /\ pruned' \in 0..MAX_TIME /\ gap' \in BOOLEAN
           /\ ExcuseBooks' /\ GapIsShown' /\ (gap' \/ limits'.built)
           /\ limits.built => limits'.built
           /\ ~gap' => /\ ~gap /\ (tracks <=> lmode = "automatic" /\ Enabled(limits.state)')
                       /\ limits.built => (Enabled(limits.state)' <=> Enabled(limits.state))
<1>0. LimitsFields /\ StoreBooks /\ GapIsShown
  BY DEF LimitsIInv
<1>1. CASE /\ CanOpen /\ CommitTo(Retain(StoreState, wall)) /\ Seen /\ UNCHANGED gap
           /\ tracks = (lmode = "automatic" /\ Enabled(StoreState))
  <2> DEFINE s == Retain(StoreState, wall)
  <2>1. StoreTypes(StoreState) /\ RealBooks(StoreState)
    BY <1>0, <1>1, OpenStore
  <2>2. /\ s.active = StoreState.active /\ Opened(s) = Opened(StoreState)
        /\ \A a \in Opened(StoreState) :
              /\ s.book[a].since = StoreState.book[a].since
              /\ s.book[a].events = {e \in StoreState.book[a].events : e.at > wall - WEEK}
        /\ StoreTypes(s) /\ (Enabled(s) <=> Enabled(StoreState)) /\ RealBooks(s)
    BY <2>1, Retained, RetainedIsReal
  <2>3. CommitTo(s)
    BY <1>1
  <2> HIDE DEF s
  <2>4. StoreBooks' /\ FileForm' /\ limits'.built /\ limits'.state = s
    BY <2>2, <2>3, Committed
  <2>5. pruned' \in 0..MAX_TIME /\ pruned <= pruned' /\ wall <= pruned' /\ pruned' \in Nat
    BY <1>0, <1>1, SeenLater
  <2>6. Enabled(limits.state)' <=> Enabled(s)
    BY <2>4 DEF Enabled, PlanOf
  <2>7. GapIsShown'
    <3> SUFFICES ASSUME Enabled(limits.state)', ~gap', NEW x \in sends', Owed(x)'
                 PROVE  \E e \in limits'.state.book[x.who].events : e.id = x.id
      BY DEF GapIsShown
    <3>1. /\ x \in sends /\ x.who = s.active /\ x.id \notin excused
          /\ \A r \in receipts : r.id # x.id
          /\ x.at >= s.book[x.who].since /\ x.at > pruned' - WEEK
      BY <2>4 DEF Owed
    <3>2. s.active \in Opened(StoreState)
      BY <2>2, <2>6 DEF StoreTypes, Enabled, PlanOf
    <3>3. \A e \in StoreState.book[s.active].events :
             e.at > pruned' - WEEK => e \in s.book[s.active].events
      <4> SUFFICES ASSUME NEW e \in StoreState.book[s.active].events, e.at > pruned' - WEEK
                   PROVE  e.at > wall - WEEK
        BY <2>2, <3>2
      <4>1. e.at \in Nat
        <5>1. PICK y \in sends : SentAs(y, s.active, e)
          BY <2>1, <3>2 DEF RealBooks, RealEvents
        <5> QED
          BY <5>1 DEF SentAs, LimitsIInv, SendTypes
      <4> QED
        BY <1>0, <2>5, <4>1, LimitsBounds, SMT DEF LimitsFields
    <3>4. \E e \in s.book[x.who].events : e.id = x.id
      BY <1>1, <2>2, <2>5, <2>6, <3>1, <3>2, <3>3, StillCounted
    <3> QED
      BY <2>4, <3>4
  <2>8. ExcuseBooks'
    BY <2>4 DEF ExcuseBooks
  <2>9. limits.built => limits.state = StoreState
    BY DEF StoreState
  <2> QED
    BY <1>0, <1>1, <2>2, <2>4, <2>5, <2>6, <2>7, <2>8, <2>9 DEF LimitsFields
<1>2. CASE /\ CanOpen /\ HistoryWriteFails(Retain(StoreState, wall)) /\ Seen /\ gap' = TRUE
           /\ tracks = FALSE
  <2>1. Opens(StoreState) /\ UNCHANGED limitsFile
    BY <1>2 DEF HistoryWriteFails
  <2>2. StoreBooks' /\ FileForm' /\ limits'.built
    BY <1>0, <1>2, <2>1, OpenedOnly
  <2>3. pruned' \in 0..MAX_TIME
    BY <1>0, <1>2, SeenLater
  <2> QED
    BY <1>2, <2>2, <2>3 DEF ExcuseBooks, GapIsShown
<1>3. CASE ~CanOpen /\ gap' = TRUE /\ tracks = FALSE /\ StoreIdle
  <2>1. UNCHANGED <<limitsFile, limits, pruned>>
    BY <1>3 DEF StoreIdle
  <2>2. StoreBooks'
    BY <1>0, <2>1, SameBooks
  <2> QED
    BY <1>0, <1>3, <2>1, <2>2 DEF ExcuseBooks, GapIsShown, FileForm, LimitsFields, CanOpen
<1> QED
  BY <1>1, <1>2, <1>3 DEF Snapshot

-----------------------------------------------------------------------------
(* Limits: every step keeps the books *)

\* Where nothing is said to be missing before or after, a commit that only prunes keeps
\* what is owed.
LEMMA PrunedStillCounts ==
    ASSUME LimitsIInv, CanOpen, ~gap, Seen, NEW s, s.active = StoreState.active,
           Enabled(StoreState),
           \A a \in Opened(StoreState) :
              /\ s.book[a].since = StoreState.book[a].since
              /\ {e \in StoreState.book[a].events : e.at > wall - WEEK} \subseteq s.book[a].events,
           NEW x \in sends, x.who = s.active, x.id \notin excused,
           \A r \in receipts : r.id # x.id,
           x.at >= s.book[x.who].since, x.at > pruned' - WEEK
    PROVE  \E e \in s.book[x.who].events : e.id = x.id
<1>0. LimitsFields /\ StoreBooks
  BY DEF LimitsIInv
<1>1. pruned <= pruned' /\ wall <= pruned' /\ pruned' \in Nat
  BY <1>0, SeenLater
<1>2. StoreTypes(StoreState) /\ RealBooks(StoreState)
  BY <1>0, OpenStore
<1>3. s.active \in Opened(StoreState)
  BY <1>2 DEF StoreTypes, Enabled, PlanOf
<1>4. ASSUME NEW e \in StoreState.book[s.active].events, e.at > pruned' - WEEK
      PROVE  e \in s.book[s.active].events
  <2>1. PICK y \in sends : SentAs(y, s.active, e)
    BY <1>2, <1>3 DEF RealBooks, RealEvents
  <2>2. e.at \in Nat
    BY <2>1 DEF SentAs, LimitsIInv, SendTypes
  <2>3. e.at > wall - WEEK
    BY <1>0, <1>1, <1>4, <2>2, LimitsBounds, SMT DEF LimitsFields
  <2> QED
    BY <1>3, <2>3
<1> QED
  BY <1>1, <1>3, <1>4, StillCounted

\* What a handler of the store leaves.
StoreKept == /\ StoreBooks' /\ FileForm' /\ pruned' \in 0..MAX_TIME /\ gap' \in BOOLEAN
             /\ ExcuseBooks' /\ GapIsShown' /\ (gap' \/ limits'.built)
             /\ limits.built => limits'.built
             /\ ~gap' => /\ ~gap
                         /\ limits.built => (Enabled(limits.state)' <=> Enabled(limits.state))

LEMMA FailedStep ==
    ASSUME LimitsIInv, gap' = TRUE, UNCHANGED sends,
           \/ ~CanOpen /\ StoreIdle
           \/ CanOpen /\ Seen /\ \E s : HistoryWriteFails(s)
           \/ CanOpen /\ Seen /\ \E s : StoreTypes(s) /\ RealBooks(s) /\ CommitTo(s)
    PROVE  StoreKept
<1>0. LimitsFields /\ StoreBooks
  BY DEF LimitsIInv
<1>1. GapIsShown' /\ ExcuseBooks'
  BY DEF GapIsShown, ExcuseBooks
<1>2. CASE ~CanOpen /\ StoreIdle
  <2>1. UNCHANGED <<limitsFile, limits, pruned>>
    BY <1>2 DEF StoreIdle
  <2>2. StoreBooks'
    BY <1>0, <2>1, SameBooks
  <2> QED
    BY <1>0, <1>1, <2>1, <2>2 DEF StoreKept, FileForm, LimitsFields
<1>3. CASE CanOpen /\ Seen /\ \E s : HistoryWriteFails(s)
  <2>1. Opens(StoreState) /\ UNCHANGED limitsFile
    BY <1>3 DEF HistoryWriteFails
  <2>2. StoreBooks' /\ FileForm' /\ limits'.built
    BY <1>0, <1>3, <2>1, OpenedOnly
  <2>3. pruned' \in 0..MAX_TIME
    BY <1>0, <1>3, SeenLater
  <2> QED
    BY <1>1, <2>2, <2>3 DEF StoreKept
<1>4. CASE CanOpen /\ Seen /\ \E s : StoreTypes(s) /\ RealBooks(s) /\ CommitTo(s)
  <2>1. PICK s : StoreTypes(s) /\ RealBooks(s) /\ CommitTo(s)
    BY <1>4
  <2>2. StoreBooks' /\ FileForm' /\ limits'.built
    BY <2>1, Committed
  <2>3. pruned' \in 0..MAX_TIME
    BY <1>0, <1>4, SeenLater
  <2> QED
    BY <1>1, <2>2, <2>3 DEF StoreKept
<1> QED
  BY <1>2, <1>3, <1>4

\* A receipt that arrives is counted, refused because nothing is owed for it, or a gap.
LEMMA RecordKeeps ==
    ASSUME LimitsIInv, NEW r \in receipts, Record(r), receipts' = receipts \ {r},
           UNCHANGED <<wall, sends, excused, lmode>>
    PROVE  StoreKept
<1> DEFINE s == Retain(StoreState, wall)
<1>0. LimitsFields /\ StoreBooks /\ ReceiptBooks /\ SendingBooks /\ SendTypes
  BY DEF LimitsIInv
<1>1. lmode = "automatic"
  BY <1>0 DEF SendingBooks
<1>2. PICK x \in sends : /\ x.id = r.id /\ x.at = r.at /\ r.key \in {x.who, NoOne}
                         /\ r.model = x.model \/ (r.model = "pro-unknown" /\ x.model # "other")
  BY <1>0 DEF ReceiptBooks
<1>3. \/ ~CanOpen /\ StoreIdle /\ gap' = TRUE
      \/ CanOpen /\ ~Enabled(s) /\ CommitTo(s) /\ Seen /\ UNCHANGED gap
      \/ /\ CanOpen /\ Enabled(s) /\ Seen /\ r.key = s.active
         /\ Accepts(s, r) /\ CommitTo(Add(s, r)) /\ UNCHANGED gap
      \/ CanOpen /\ Seen /\ HistoryWriteFails(Add(s, r)) /\ gap' = TRUE
      \/ /\ CanOpen /\ Enabled(s) /\ Seen /\ r.key = s.active
         /\ ~Accepts(s, r) /\ CommitTo(s) /\ UNCHANGED gap
      \/ CanOpen /\ Seen /\ CommitTo(s) /\ gap' = TRUE
      \/ CanOpen /\ Seen /\ HistoryWriteFails(s) /\ gap' = TRUE
  BY <1>1, Zenon DEF Record
<1>4. ASSUME CanOpen
      PROVE  /\ StoreTypes(s) /\ RealBooks(s) /\ (Enabled(s) <=> Enabled(StoreState))
             /\ s.active = StoreState.active /\ Opened(s) = Opened(StoreState)
             /\ \A a \in Opened(StoreState) :
                  /\ s.book[a].since = StoreState.book[a].since
                  /\ s.book[a].events = {e \in StoreState.book[a].events : e.at > wall - WEEK}
  <2>1. StoreTypes(StoreState) /\ RealBooks(StoreState)
    BY <1>0, <1>4, OpenStore
  <2> QED
    BY <2>1, Retained, RetainedIsReal
<1>5. limits.built => limits.state = StoreState
  BY DEF StoreState
<1> HIDE DEF s
<1>6. CASE gap' = TRUE
  <2>1. \/ ~CanOpen /\ StoreIdle
        \/ CanOpen /\ Seen /\ \E t : HistoryWriteFails(t)
        \/ CanOpen /\ Seen /\ \E t : StoreTypes(t) /\ RealBooks(t) /\ CommitTo(t)
        \/ CanOpen /\ Seen /\ Enabled(s) /\ Accepts(s, r) /\ CommitTo(Add(s, r))
    BY <1>3, <1>4, Zenon
  <2>2. ASSUME CanOpen, Enabled(s), Accepts(s, r)
        PROVE  StoreTypes(Add(s, r)) /\ RealBooks(Add(s, r))
    BY <1>2, <1>4, <2>2, Added
  <2>3. \/ ~CanOpen /\ StoreIdle
        \/ CanOpen /\ Seen /\ \E t : HistoryWriteFails(t)
        \/ CanOpen /\ Seen /\ \E t : StoreTypes(t) /\ RealBooks(t) /\ CommitTo(t)
    BY <2>1, <2>2, Zenon
  <2> QED
    BY <1>6, <2>3, FailedStep
<1>7. CASE CanOpen /\ ~Enabled(s) /\ CommitTo(s) /\ Seen /\ UNCHANGED gap
  <2>1. StoreBooks' /\ FileForm' /\ limits'.built /\ limits'.state = s
    BY <1>4, <1>7, Committed
  <2>2. ~Enabled(limits.state)'
    BY <1>7, <2>1 DEF Enabled, PlanOf
  <2>3. pruned' \in 0..MAX_TIME
    BY <1>0, <1>7, SeenLater
  <2>4. limits.built => ~Enabled(limits.state)
    BY <1>4, <1>5, <1>7
  <2>5. GapIsShown' /\ ExcuseBooks'
    BY <2>1, <2>2 DEF GapIsShown, ExcuseBooks
  <2> QED
    BY <1>0, <1>7, <2>1, <2>2, <2>3, <2>4, <2>5 DEF StoreKept, LimitsFields
<1>8. ASSUME CanOpen, Enabled(s), Seen, UNCHANGED gap, NEW t, CommitTo(t),
             StoreTypes(t), RealBooks(t), Enabled(t), t.active = s.active,
             \A a \in Opened(s) : /\ t.book[a].since = s.book[a].since
                                  /\ s.book[a].events \subseteq t.book[a].events,
             x.who = s.active /\ x.at >= s.book[s.active].since /\ x.at > wall - WEEK
                => \E e \in t.book[s.active].events : e.id = r.id
      PROVE  StoreKept
  <2>1. StoreBooks' /\ FileForm' /\ limits'.built /\ limits'.state = t
    BY <1>8, Committed
  <2>2. Enabled(limits.state)'
    BY <1>8, <2>1 DEF Enabled, PlanOf
  <2>3. pruned' \in 0..MAX_TIME /\ pruned' \in Nat /\ wall <= pruned'
    BY <1>0, <1>8, SeenLater
  <2>4. s.active \in Opened(s)
    BY <1>4, <1>8 DEF StoreTypes, Enabled, PlanOf
  <2>5. GapIsShown'
    <3> SUFFICES ASSUME ~gap', NEW y \in sends', Owed(y)'
                 PROVE  \E e \in limits'.state.book[y.who].events : e.id = y.id
      BY DEF GapIsShown
    <3>1. /\ y \in sends /\ y.who = t.active /\ y.id \notin excused
          /\ \A q \in receipts \ {r} : q.id # y.id
          /\ y.at >= t.book[y.who].since /\ y.at > pruned' - WEEK
      BY <2>1 DEF Owed
    <3>2. CASE y.id = r.id
      <4>1. y = x
        BY <1>0, <1>2, <3>1, <3>2 DEF SendTypes
      <4>2. y.at > wall - WEEK
        <5>1. y.at \in Nat /\ wall \in Nat /\ WEEK \in Nat
          BY <1>0, <3>1, LimitsBounds DEF SendTypes, LimitsFields
        <5> QED
          BY <2>3, <3>1, <5>1, SMT
      <4>3. \E e \in t.book[s.active].events : e.id = r.id
        BY <1>8, <2>4, <3>1, <4>1, <4>2
      <4> QED
        BY <1>8, <2>1, <3>1, <3>2, <4>3
    <3>3. CASE y.id # r.id
      <4>1. \A q \in receipts : q.id # y.id
        BY <3>1, <3>3
      <4>2. \A a \in Opened(StoreState) :
              /\ t.book[a].since = StoreState.book[a].since
              /\ {e \in StoreState.book[a].events : e.at > wall - WEEK} \subseteq t.book[a].events
        BY <1>4, <1>8
      <4>3. ~gap /\ Enabled(StoreState) /\ t.active = StoreState.active
        BY <1>4, <1>8
      <4>4. \E e \in t.book[y.who].events : e.id = y.id
        BY <1>8, <3>1, <4>1, <4>2, <4>3, PrunedStillCounts
      <4> QED
        BY <2>1, <4>4
    <3> QED
      BY <3>2, <3>3
  <2>6. ExcuseBooks'
    BY <2>1 DEF ExcuseBooks
  <2>7. limits.built => Enabled(limits.state)
    BY <1>4, <1>5, <1>8
  <2> QED
    BY <1>0, <1>8, <2>1, <2>2, <2>3, <2>5, <2>6, <2>7 DEF StoreKept, LimitsFields
<1>9. CASE /\ CanOpen /\ Enabled(s) /\ Seen /\ r.key = s.active
           /\ Accepts(s, r) /\ CommitTo(Add(s, r)) /\ UNCHANGED gap
  <2> DEFINE t == Add(s, r)
  <2>1. /\ t.active = s.active
        /\ \A a \in Opened(s) : /\ t.book[a].since = s.book[a].since
                                /\ s.book[a].events \subseteq t.book[a].events
        /\ \E e \in t.book[s.active].events : e.id = r.id
        /\ StoreTypes(t) /\ RealBooks(t) /\ Enabled(t)
    BY <1>2, <1>4, <1>9, Added
  <2>2. CommitTo(t)
    BY <1>9
  <2> HIDE DEF t
  <2> QED
    BY <1>8, <1>9, <2>1, <2>2
<1>10. CASE /\ CanOpen /\ Enabled(s) /\ Seen /\ r.key = s.active
            /\ ~Accepts(s, r) /\ CommitTo(s) /\ UNCHANGED gap
  <2>1. s.book[s.active].plan # "unsupported"
    BY <1>10 DEF Enabled, PlanOf
  <2>2. x.at >= s.book[s.active].since /\ x.at > wall - WEEK
           => \E e \in s.book[s.active].events : e.id = r.id
    BY <1>2, <1>10, <2>1 DEF Accepts
  <2> QED
    BY <1>4, <1>8, <1>10, <2>2
<1> QED
  BY <1>3, <1>6, <1>7, <1>9, <1>10, Zenon

\* The fields that a step of the store leaves to the others.
LEMMA StoreFields ==
    ASSUME LimitsIInv, StoreKept, wall' \in 0..MAX_TIME, checking' \in BOOLEAN,
           sending' \in {"none", "tracked", "untracked"}, UNCHANGED <<signedIn, lmode>>
    PROVE  LimitsFields'
  BY DEF LimitsIInv, LimitsFields, StoreKept, FileForm

LEMMA SnapshotIsKept ==
    ASSUME LimitsIInv, NEW tracks \in BOOLEAN, Snapshot(tracks),
           UNCHANGED <<wall, sends, receipts, excused>>
    PROVE  StoreKept
  BY SnapshotKeeps DEF StoreKept

LEMMA TrackedTurnKeeps == ASSUME LimitsIInv, TrackedTurn PROVE LimitsIInv'
<1>1. PICK tracks \in BOOLEAN :
         Snapshot(tracks) /\ sending' = IF tracks THEN "tracked" ELSE "untracked"
  BY Zenon DEF TrackedTurn
<1>2. /\ sending = "none" /\ ~checking /\ lmode = "automatic"
      /\ UNCHANGED <<wall, signedIn, lmode, checking, sends, receipts, excused>>
  BY Zenon DEF TrackedTurn, PageIdle
<1>3. /\ gap' \/ limits'.built
      /\ ~gap' => (tracks <=> lmode = "automatic" /\ Enabled(limits.state)')
  BY <1>1, <1>2, SnapshotKeeps
<1>4. StoreKept
  BY <1>1, <1>2, SnapshotIsKept
<1>5. LimitsFields'
  BY <1>1, <1>2, <1>4, StoreFields DEF LimitsIInv, LimitsFields
<1>6. SendTypes' /\ ReceiptBooks'
  BY <1>2 DEF LimitsIInv, SendTypes, ReceiptBooks
<1>7. SendingBooks'
  BY <1>1, <1>2, <1>3 DEF SendingBooks
<1> QED
  BY <1>4, <1>5, <1>6, <1>7 DEF LimitsIInv, StoreKept

LEMMA PanelReadsKeeps == ASSUME LimitsIInv, PanelReads PROVE LimitsIInv'
<1>1. PICK tracks \in BOOLEAN : Snapshot(tracks)
  BY Zenon DEF PanelReads
<1>2. UNCHANGED <<wall, signedIn, lmode, checking, sending, sends, receipts, excused>>
  BY Zenon DEF PanelReads, PageIdle, TurnIdle
<1>3. StoreKept
  BY <1>1, <1>2, SnapshotIsKept
<1>4. LimitsFields'
  BY <1>2, <1>3, StoreFields DEF LimitsIInv, LimitsFields
<1>5. SendTypes' /\ ReceiptBooks'
  BY <1>2 DEF LimitsIInv, SendTypes, ReceiptBooks
<1>6. SendingBooks'
  BY <1>2, <1>3 DEF LimitsIInv, SendingBooks, StoreKept
<1> QED
  BY <1>3, <1>4, <1>5, <1>6 DEF LimitsIInv, StoreKept

LEMMA ReceiptArrivesKeeps == ASSUME LimitsIInv, ReceiptArrives PROVE LimitsIInv'
<1>1. PICK r \in receipts : Record(r) /\ receipts' = receipts \ {r}
  BY Zenon DEF ReceiptArrives
<1>2. UNCHANGED <<wall, signedIn, lmode, checking, sending, sends, excused>>
  BY Zenon DEF ReceiptArrives, PageIdle
<1>3. StoreKept
  BY <1>1, <1>2, RecordKeeps
<1>4. LimitsFields'
  BY <1>2, <1>3, StoreFields DEF LimitsIInv, LimitsFields
<1>5. SendTypes' /\ ReceiptBooks'
  BY <1>1, <1>2 DEF LimitsIInv, SendTypes, ReceiptBooks
<1>6. SendingBooks'
  BY <1>1, <1>2, <1>3 DEF LimitsIInv, SendingBooks, StoreKept
<1> QED
  BY <1>3, <1>4, <1>5, <1>6 DEF LimitsIInv, StoreKept

LEMMA SendKeeps ==
    ASSUME LimitsIInv, NEW model \in UsageModel \ {"pro-unknown"}, Send(model) PROVE LimitsIInv'
<1> DEFINE id == Cardinality(sends) + 1
           n == [id |-> id, who |-> signedIn.who, model |-> model, at |-> wall]
           told == {[id |-> id, key |-> k, model |-> m, at |-> wall] :
                       k \in AccountRead, m \in ModelRead(model)}
<1>0. LimitsFields /\ SendTypes /\ StoreBooks /\ ReceiptBooks /\ SendingBooks /\ GapIsShown
  BY DEF LimitsIInv
<1>1. /\ sending # "none" /\ Cardinality(sends) < MAX_SENDS /\ sends' = sends \cup {n}
      /\ UNCHANGED <<wall, signedIn, lmode, limitsFile, limits, pruned, gap, checking, sending,
                     excused>>
  BY SMT DEF Send, PageIdle, StoreIdle
<1>2. \/ receipts' = receipts /\ (sending = "tracked" => told = {})
      \/ \E r \in told : receipts' = receipts \cup {r}
  BY SMT DEF Send
<1>3. [id |-> id, key |-> NoOne, model |-> model, at |-> wall] \in told
  <2>1. NoOne \in AccountRead /\ model \in ModelRead(model)
    BY DEF AccountRead, ModelRead
  <2> QED
    BY <2>1
<1>4. \A r \in told : /\ r.id = id /\ r.at = wall /\ r.key \in {signedIn.who, NoOne}
                      /\ r.model = model \/ (r.model = "pro-unknown" /\ model # "other")
  <2>1. \A k \in AccountRead : k \in {signedIn.who, NoOne}
    BY DEF AccountRead
  <2>2. \A m \in ModelRead(model) : m = model \/ (m = "pro-unknown" /\ model # "other")
    BY DEF ModelRead
  <2> TAKE r \in told
  <2>0. PICK k \in AccountRead, m \in ModelRead(model) :
           r = [id |-> id, key |-> k, model |-> m, at |-> wall]
    OBVIOUS
  <2>3. r.id = id /\ r.key = k /\ r.model = m /\ r.at = wall
    BY <2>0
  <2> QED
    BY <2>1, <2>2, <2>3
<1>5. n.id = id /\ n.who = signedIn.who /\ n.model = model /\ n.at = wall
  OBVIOUS
<1> HIDE DEF n, told
<1>6. receipts \subseteq receipts' /\ \A r \in receipts' \ receipts : r \in told
  BY <1>2
<1>7. sending = "tracked" => \E r \in receipts' : r.id = id
  BY <1>2, <1>3, <1>4
<1>8. Cardinality(sends) \in Nat /\ IsFiniteSet(sends)
  BY <1>0, FS_CardinalityType DEF SendTypes
<1>9. n \notin sends /\ \A x \in sends : x.id # id
  BY <1>0, <1>5, <1>8, SMT DEF SendTypes
<1>10. IsFiniteSet(sends') /\ Cardinality(sends') = id
  BY <1>1, <1>8, <1>9, FS_AddElement
<1>11. SendTypes'
  <2>1. MAX_SENDS \in Nat
    BY LimitsBounds
  <2>2. Cardinality(sends') <= MAX_SENDS
    BY <1>1, <1>8, <1>10, <2>1, SMT
  <2>3. model \in Family \cup {"other"}
    BY DEF UsageModel
  <2>4. \A x \in sends' : /\ x.id \in 1..Cardinality(sends') /\ x.who \in Account
                          /\ x.model \in Family \cup {"other"} /\ x.at \in Nat
    <3> SUFFICES ASSUME NEW x \in sends'
                 PROVE  /\ x.id \in 1..id /\ x.who \in Account
                        /\ x.model \in Family \cup {"other"} /\ x.at \in Nat
      BY <1>10
    <3>1. CASE x \in sends
      BY <1>0, <1>8, <3>1 DEF SendTypes
    <3>2. CASE x = n
      BY <1>0, <1>5, <1>8, <2>3, <3>2, LimitsBounds DEF LimitsFields
    <3> QED
      BY <1>1, <3>1, <3>2
  <2>5. \A x, y \in sends' : x.id = y.id => x = y
    BY <1>0, <1>1, <1>5, <1>9 DEF SendTypes
  <2> QED
    BY <1>10, <2>2, <2>4, <2>5 DEF SendTypes
<1>12. StoreBooks'
  BY <1>0, <1>1, SameBooks
<1>13. ReceiptBooks'
  <2> SUFFICES ASSUME NEW r \in receipts'
               PROVE  \E x \in sends' :
                         /\ x.id = r.id /\ x.at = r.at /\ r.key \in {x.who, NoOne}
                         /\ r.model = x.model \/ (r.model = "pro-unknown" /\ x.model # "other")
    BY DEF ReceiptBooks
  <2>1. CASE r \in receipts
    BY <1>0, <1>1, <2>1 DEF ReceiptBooks
  <2>2. CASE r \in told
    BY <1>1, <1>4, <1>5, <2>2
  <2> QED
    BY <1>6, <2>1, <2>2
<1>14. SendingBooks'
  BY <1>0, <1>1 DEF SendingBooks, Enabled, PlanOf
<1>15. ExcuseBooks'
  BY <1>0, <1>1 DEF SendingBooks, ExcuseBooks
<1>16. GapIsShown'
  <2> SUFFICES ASSUME limits.built, Enabled(limits.state), ~gap, NEW x \in sends', Owed(x)'
               PROVE  \E e \in limits.state.book[x.who].events : e.id = x.id
    BY <1>1 DEF GapIsShown, Enabled, PlanOf
  <2>1. /\ x.who = limits.state.active /\ x.id \notin excused /\ \A r \in receipts' : r.id # x.id
        /\ x.at >= limits.state.book[x.who].since /\ x.at > pruned - WEEK
    BY <1>1 DEF Owed
  <2>2. CASE x \in sends
    BY <1>0, <1>6, <2>1, <2>2 DEF GapIsShown, Owed
  <2>3. CASE x = n
    <3>1. sending = "tracked"
      BY <1>0, <1>1 DEF SendingBooks, LimitsFields
    <3> QED
      BY <1>5, <1>7, <2>1, <2>3, <3>1
  <2> QED
    BY <1>1, <2>2, <2>3
<1>17. LimitsFields'
  BY <1>0, <1>1 DEF LimitsFields
<1> QED
  BY <1>11, <1>12, <1>13, <1>14, <1>15, <1>16, <1>17 DEF LimitsIInv

\* Receipts that are lost and turns that end owe nothing more.
LEMMA OutsideStepsKeep ==
    ASSUME LimitsIInv, UNCHANGED <<limitsFile, limits, sends, pruned, gap>>,
           excused \subseteq excused', LimitsFields', receipts' \subseteq receipts,
           \A r \in receipts \ receipts' : r.id \in excused', SendingBooks'
    PROVE  LimitsIInv'
<1>1. SendTypes' /\ ReceiptBooks'
  BY DEF LimitsIInv, SendTypes, ReceiptBooks
<1>2. StoreBooks'
  BY SameBooks DEF LimitsIInv
<1>3. ExcuseBooks'
  BY DEF LimitsIInv, ExcuseBooks
<1>4. GapIsShown'
  <2> SUFFICES ASSUME limits.built, Enabled(limits.state), ~gap, NEW x \in sends, Owed(x)'
               PROVE  \E e \in limits.state.book[x.who].events : e.id = x.id
    BY DEF GapIsShown, Enabled, PlanOf
  <2>1. Owed(x)
    BY DEF Owed
  <2> QED
    BY <2>1 DEF LimitsIInv, GapIsShown
<1> QED
  BY <1>1, <1>2, <1>3, <1>4 DEF LimitsIInv

LEMMA ReceiptLostKeeps == ASSUME LimitsIInv, ReceiptLost PROVE LimitsIInv'
<1>1. PICK r \in receipts : receipts' = receipts \ {r} /\ excused' = excused \cup {r.id}
  BY Zenon DEF ReceiptLost
<1>2. UNCHANGED <<wall, signedIn, lmode, limitsFile, limits, pruned, gap, checking, sending, sends>>
  BY Zenon DEF ReceiptLost, PageIdle, StoreIdle
<1>3. LimitsFields' /\ SendingBooks'
  BY <1>1, <1>2 DEF LimitsIInv, LimitsFields, SendingBooks, Enabled, PlanOf
<1> QED
  BY <1>1, <1>2, <1>3, OutsideStepsKeep

LEMMA TrackedTurnEndsKeeps == ASSUME LimitsIInv, TrackedTurnEnds PROVE LimitsIInv'
<1>1. /\ receipts = {} /\ sending' = "none"
      /\ UNCHANGED <<wall, signedIn, lmode, limitsFile, limits, pruned, gap, checking, sends,
                     receipts, excused>>
  BY Zenon DEF TrackedTurnEnds, PageIdle, StoreIdle
<1>2. LimitsFields' /\ SendingBooks'
  BY <1>1 DEF LimitsIInv, LimitsFields, SendingBooks
<1> QED
  BY <1>1, <1>2, OutsideStepsKeep

LEMMA ClockMovesKeeps == ASSUME LimitsIInv, ClockMoves PROVE LimitsIInv'
<1>1. /\ (wall < MAX_TIME /\ wall' = wall + 1) \/ (wall > 0 /\ wall' \in 0..(wall - 1))
      /\ UNCHANGED <<signedIn, lmode, limitsFile, limits, pruned, gap, checking, sending, sends,
                     receipts, excused>>
  BY Zenon DEF ClockMoves, TurnIdle
<1>2. wall' \in 0..MAX_TIME
  BY <1>1, LimitsBounds, SMT DEF LimitsIInv, LimitsFields
<1>3. LimitsFields' /\ SendingBooks'
  BY <1>1, <1>2 DEF LimitsIInv, LimitsFields, SendingBooks, Enabled, PlanOf
<1> QED
  BY <1>1, <1>3, OutsideStepsKeep

LEMMA UserChangesKeeps == ASSUME LimitsIInv, UserChanges PROVE LimitsIInv'
<1>1. /\ sending = "none"
      /\ \/ signedIn' \in [who : Account, tier : {"pro", "prolite", "free"}] /\ UNCHANGED lmode
         \/ lmode' \in {"automatic", "manual"} \ {lmode} /\ UNCHANGED signedIn
      /\ UNCHANGED <<wall, limitsFile, limits, pruned, gap, checking, sending, sends, receipts,
                     excused>>
  BY Zenon DEF UserChanges, TurnIdle
<1>2. LimitsFields' /\ SendingBooks'
  BY <1>1 DEF LimitsIInv, LimitsFields, SendingBooks
<1> QED
  BY <1>1, <1>2, OutsideStepsKeep

LEMMA CheckBeginsKeeps == ASSUME LimitsIInv, CheckBegins PROVE LimitsIInv'
<1>0. LimitsFields /\ StoreBooks /\ SendingBooks /\ GapIsShown /\ ExcuseBooks
  BY DEF LimitsIInv
<1>1. UNCHANGED <<wall, signedIn, lmode, sending, sends, receipts, limitsFile, pruned, excused>>
  BY Zenon DEF CheckBegins, PageIdle, TurnIdle
<1>2. \/ CanOpen /\ Opens(StoreState) /\ sending = "none" /\ checking' = TRUE /\ UNCHANGED gap
      \/ CanOpen /\ Opens(StoreState) /\ gap' = TRUE /\ checking' = FALSE
      \/ UNCHANGED limits /\ gap' = TRUE /\ checking' = FALSE
  BY Zenon DEF CheckBegins, CheckFails
<1>3. SendTypes' /\ ReceiptBooks'
  BY <1>1 DEF LimitsIInv, SendTypes, ReceiptBooks
<1>4. CASE CanOpen /\ Opens(StoreState)
  <2>1. StoreBooks' /\ FileForm' /\ limits'.built /\ limits'.state = StoreState
    BY <1>0, <1>1, <1>4, OpenedOnly
  <2>2. LimitsFields'
    BY <1>0, <1>1, <1>2, <2>1, Zenon DEF LimitsFields, FileForm
  <2>3. SendingBooks'
    BY <1>0, <1>1, <1>2, <2>1 DEF SendingBooks
  <2>4. ExcuseBooks'
    BY <2>1 DEF ExcuseBooks
  <2>5. GapIsShown'
    <3> SUFFICES ASSUME Enabled(limits.state)', ~gap', NEW x \in sends, Owed(x)'
                 PROVE  \E e \in limits'.state.book[x.who].events : e.id = x.id
      BY <1>1 DEF GapIsShown
    <3>1. ~gap
      BY <1>2
    <3>2. CASE limits.built
      <4>1. limits'.state = limits.state
        BY <2>1, <3>2 DEF StoreState
      <4>2. Owed(x) /\ Enabled(limits.state)
        BY <1>1, <4>1 DEF Owed, Enabled, PlanOf
      <4> QED
        BY <1>0, <3>1, <3>2, <4>1, <4>2 DEF GapIsShown
    <3>3. CASE ~limits.built
      BY <1>0, <1>1, <3>1, <3>3 DEF ExcuseBooks, Owed
    <3> QED
      BY <3>2, <3>3
  <2> QED
    BY <1>3, <2>1, <2>2, <2>3, <2>4, <2>5 DEF LimitsIInv
<1>5. CASE UNCHANGED limits /\ gap' = TRUE /\ checking' = FALSE
  <2>1. StoreBooks'
    BY <1>0, <1>1, <1>5, SameBooks
  <2>2. LimitsFields' /\ SendingBooks' /\ ExcuseBooks' /\ GapIsShown'
    BY <1>0, <1>1, <1>5 DEF LimitsFields, SendingBooks, ExcuseBooks, GapIsShown
  <2> QED
    BY <1>3, <2>1, <2>2 DEF LimitsIInv
<1> QED
  BY <1>2, <1>4, <1>5

LEMMA CheckEndsKeeps == ASSUME LimitsIInv, CheckEnds PROVE LimitsIInv'
<1> DEFINE s == Retain(StoreState, wall)
<1>0. LimitsFields /\ StoreBooks /\ SendingBooks
  BY DEF LimitsIInv
<1>1. UNCHANGED <<wall, signedIn, lmode, sending, sends, receipts>> /\ checking
  BY Zenon DEF CheckEnds, PageIdle, TurnIdle
<1>2. \/ /\ lmode = "automatic" /\ CommitTo(Configured(s)) /\ Seen /\ gap' = FALSE
         /\ checking' = FALSE /\ excused' = {e.id : e \in sends}
      \/ HistoryWriteFails(Configured(s)) /\ Seen /\ CheckFails /\ UNCHANGED excused
      \/ CheckFails /\ StoreIdle /\ UNCHANGED excused
  BY Zenon DEF CheckEnds
<1>3. SendTypes' /\ ReceiptBooks'
  BY <1>1 DEF LimitsIInv, SendTypes, ReceiptBooks
<1>4. sending = "none" /\ receipts = {}
  BY <1>0, <1>1 DEF SendingBooks
<1>5. CanOpen
  BY <1>0, <1>1 DEF SendingBooks, CanOpen
<1>6. CASE /\ CommitTo(Configured(s)) /\ Seen /\ gap' = FALSE
           /\ checking' = FALSE /\ excused' = {e.id : e \in sends}
  <2>1. StoreTypes(s) /\ RealBooks(s)
    BY <1>0, <1>5, OpenStore, Retained, RetainedIsReal
  <2>2. StoreTypes(Configured(s)) /\ RealBooks(Configured(s))
    <3>1. signedIn.who \in Account /\ wall \in Nat
      BY <1>0, LimitsBounds DEF LimitsFields
    <3> HIDE DEF s
    <3> QED
      BY <2>1, <3>1, ConfiguredIsReal
  <2>3. StoreBooks' /\ FileForm' /\ limits'.built
    BY <1>1, <1>6, <2>2, Committed
  <2>4. pruned' \in 0..MAX_TIME
    BY <1>0, <1>6, SeenLater
  <2>5. LimitsFields'
    BY <1>0, <1>1, <1>6, <2>3, <2>4 DEF LimitsFields, FileForm
  <2>6. ExcuseBooks' /\ GapIsShown'
    BY <1>1, <1>6 DEF ExcuseBooks, GapIsShown, Owed
  <2>7. SendingBooks'
    BY <1>0, <1>1, <1>4, <1>6, <2>3 DEF SendingBooks
  <2> QED
    BY <1>3, <2>3, <2>5, <2>6, <2>7 DEF LimitsIInv
<1>7. CASE HistoryWriteFails(Configured(s)) /\ Seen /\ CheckFails /\ UNCHANGED excused
  <2>1. gap' = TRUE /\ checking' = FALSE
    BY <1>7 DEF CheckFails
  <2>2. StoreKept
    BY <1>1, <1>5, <1>7, <2>1, FailedStep
  <2>3. LimitsFields'
    BY <1>0, <1>1, <2>1, <2>2, StoreFields DEF LimitsFields
  <2>4. SendingBooks'
    BY <1>0, <1>1, <1>4, <2>1 DEF SendingBooks
  <2> QED
    BY <1>3, <2>2, <2>3, <2>4 DEF LimitsIInv, StoreKept
<1>8. CASE CheckFails /\ StoreIdle /\ UNCHANGED excused
  <2>1. gap' = TRUE /\ checking' = FALSE /\ UNCHANGED <<limitsFile, limits, pruned>>
    BY <1>8 DEF CheckFails, StoreIdle
  <2>2. StoreBooks'
    BY <1>0, <1>1, <2>1, SameBooks
  <2>3. LimitsFields' /\ SendingBooks' /\ ExcuseBooks' /\ GapIsShown'
    BY <1>0, <1>1, <1>4, <2>1 DEF LimitsFields, SendingBooks, ExcuseBooks, GapIsShown
  <2> QED
    BY <1>3, <2>2, <2>3 DEF LimitsIInv
<1> QED
  BY <1>2, <1>6, <1>7, <1>8

LEMMA LauncherRestartsKeeps == ASSUME LimitsIInv, LauncherRestarts PROVE LimitsIInv'
<1>0. LimitsFields /\ StoreBooks
  BY DEF LimitsIInv
<1>1. /\ limitsFile' \in {limitsFile, [limitsFile EXCEPT !.ok = FALSE]}
      /\ limits' = [built |-> FALSE, state |-> Empty]
      /\ gap' = FALSE /\ checking' = FALSE /\ sending' = "none" /\ receipts' = {}
      /\ excused' = {e.id : e \in sends} /\ UNCHANGED <<wall, signedIn, lmode, sends, pruned>>
  BY Zenon DEF LauncherRestarts
<1>2. /\ limitsFile' = [ok |-> limitsFile'.ok, state |-> limitsFile.state]
      /\ limitsFile'.ok \in BOOLEAN /\ limitsFile'.state = limitsFile.state
  BY <1>0, <1>1 DEF LimitsFields
<1>3. ~limits'.built /\ limits'.state = Empty /\ limits'.built \in BOOLEAN
  BY <1>1
<1>4. StoreBooks'
  <2>1. StoreTypes(limitsFile.state)' /\ RealBooks(limitsFile.state)'
    BY <1>0, <1>1, <1>2 DEF StoreBooks, StoreTypes, RealBooks, RealEvents, SentAs, Opened
  <2> QED
    BY <1>3, <2>1 DEF StoreBooks, MemoryIsTheFile, Empty
<1>5. LimitsFields'
  BY <1>0, <1>1, <1>2, <1>3 DEF LimitsFields
<1>6. SendTypes' /\ ReceiptBooks' /\ SendingBooks'
  BY <1>1 DEF LimitsIInv, SendTypes, ReceiptBooks, SendingBooks
<1>7. ExcuseBooks' /\ GapIsShown'
  BY <1>1, <1>3 DEF ExcuseBooks, GapIsShown
<1> QED
  BY <1>4, <1>5, <1>6, <1>7 DEF LimitsIInv

LEMMA EmptyBooks == StoreTypes(Empty) /\ RealBooks(Empty)
  BY DEF StoreTypes, RealBooks, Empty, Opened

LEMMA FileRepairedKeeps == ASSUME LimitsIInv, FileRepaired PROVE LimitsIInv'
<1>0. LimitsFields /\ StoreBooks /\ SendingBooks /\ ExcuseBooks
  BY DEF LimitsIInv
<1>1. /\ ~limitsFile.ok /\ limitsFile' \in {[ok |-> TRUE, state |-> s] : s \in {limitsFile.state, Empty}}
      /\ UNCHANGED <<wall, signedIn, lmode, sending, sends, receipts, limits, pruned, gap, checking,
                     excused>>
  BY Zenon DEF FileRepaired, PageIdle, TurnIdle
<1>2. ~limits.built
  <2>1. CASE limits.built
    BY <1>0, <1>1, <2>1 DEF StoreBooks, MemoryIsTheFile
  <2> QED
    BY <2>1
<1>3. PICK s \in {limitsFile.state, Empty} : limitsFile' = [ok |-> TRUE, state |-> s]
  BY <1>1
<1>4. limitsFile'.ok = TRUE /\ limitsFile'.state = s
  BY <1>3
<1>5. StoreTypes(s) /\ RealBooks(s)
  BY <1>0, EmptyBooks DEF StoreBooks
<1>6. StoreBooks'
  <2>1. StoreTypes(limitsFile.state)' /\ RealBooks(limitsFile.state)'
    BY <1>1, <1>4, <1>5 DEF StoreTypes, RealBooks, RealEvents, SentAs, Opened
  <2> QED
    BY <1>0, <1>1, <1>2, <2>1 DEF StoreBooks, MemoryIsTheFile, Empty
<1>7. LimitsFields'
  BY <1>0, <1>1, <1>3, <1>4 DEF LimitsFields
<1>8. SendTypes' /\ ReceiptBooks' /\ SendingBooks' /\ ExcuseBooks' /\ GapIsShown'
  BY <1>0, <1>1, <1>2 DEF LimitsIInv, SendTypes, ReceiptBooks, SendingBooks, ExcuseBooks, GapIsShown,
     Enabled, PlanOf
<1> QED
  BY <1>6, <1>7, <1>8 DEF LimitsIInv

LEMMA StutterKeeps == ASSUME LimitsIInv, UNCHANGED limitsVars PROVE LimitsIInv'
<1>1. UNCHANGED <<wall, signedIn, lmode, limitsFile, limits, pruned, gap, checking, sending, sends,
                  receipts, excused>>
  BY DEF limitsVars
<1>2. LimitsFields' /\ SendingBooks'
  BY <1>1 DEF LimitsIInv, LimitsFields, SendingBooks, Enabled, PlanOf
<1> QED
  BY <1>1, <1>2, OutsideStepsKeep

LEMMA LimitsStart == LMInit => LimitsIInv
<1> SUFFICES ASSUME LMInit PROVE LimitsIInv
  OBVIOUS
<1>1. /\ wall = 0 /\ lmode = "automatic" /\ limitsFile = [ok |-> TRUE, state |-> Empty]
      /\ limits = [built |-> FALSE, state |-> Empty] /\ gap = FALSE /\ checking = FALSE
      /\ sending = "none" /\ sends = {} /\ receipts = {} /\ excused = {} /\ pruned = 0
  BY Zenon DEF LMInit
<1>2. signedIn.who \in Account /\ signedIn.tier \in {"pro", "prolite", "free"}
  <2>1. (CHOOSE x \in Account : TRUE) \in Account
    BY LimitsNames
  <2>2. PICK a \in Account : signedIn \in [who : {a}, tier : {"pro", "prolite", "free"}]
    BY <2>1, Zenon DEF LMInit
  <2> QED
    BY <2>2
<1>3. LimitsFields
  <2>1. wall \in 0..MAX_TIME /\ pruned \in 0..MAX_TIME
    BY <1>1, LimitsBounds
  <2>2. limitsFile.ok = TRUE /\ limitsFile.state = Empty /\ limits.built = FALSE
    BY <1>1
  <2> QED
    BY <1>1, <1>2, <2>1, <2>2 DEF LimitsFields
<1>4. SendTypes
  BY <1>1, FS_EmptySet, LimitsBounds DEF SendTypes
<1>5. StoreBooks
  BY <1>1, EmptyBooks DEF StoreBooks, MemoryIsTheFile
<1>6. ReceiptBooks /\ SendingBooks /\ ExcuseBooks /\ GapIsShown
  BY <1>1 DEF ReceiptBooks, SendingBooks, ExcuseBooks, GapIsShown
<1> QED
  BY <1>3, <1>4, <1>5, <1>6 DEF LimitsIInv

LEMMA LimitsStep == ASSUME LimitsIInv, [LMNext]_limitsVars PROVE LimitsIInv'
  BY TrackedTurnKeeps, ReceiptArrivesKeeps, ReceiptLostKeeps, TrackedTurnEndsKeeps, SendKeeps,
     PanelReadsKeeps, CheckBeginsKeeps, CheckEndsKeeps, UserChangesKeeps, ClockMovesKeeps,
     LauncherRestartsKeeps, FileRepairedKeeps, StutterKeeps, Zenon DEF LMNext

-----------------------------------------------------------------------------
(* Limits: what the panel may say *)

\* Things told apart by their identities, each the identity of another thing.
LEMMA NoMoreThan ==
    ASSUME NEW S, NEW T, IsFiniteSet(T), \A e \in S : \E x \in T : x.id = e.id,
           \A e, f \in S : e.id = f.id => e = f
    PROVE  IsFiniteSet(S) /\ Cardinality(S) <= Cardinality(T)
<1> DEFINE h == [e \in S |-> CHOOSE x \in T : x.id = e.id]
<1>1. \A e \in S : h[e] \in T /\ h[e].id = e.id
  OBVIOUS
<1>2. h \in Injection(S, T)
  <2>1. h \in [S -> T]
    BY <1>1
  <2>2. \A e, f \in S : h[e] = h[f] => e = f
    BY <1>1
  <2> QED
    BY <2>1, <2>2 DEF Injection, IsInjective
<1> QED
  BY <1>2, FS_Injection

LEMMA WindowShapes ==
    ASSUME NEW plan, NEW w \in Windows(plan)
    PROVE  /\ w.length \in Nat /\ w.length <= WEEK /\ "other" \notin w.models
           /\ \/ w.models = Family \cup {"pro-unknown"}
              \/ w.models \subseteq Family
<1>1. \/ w \in {[models |-> Family \cup {"pro-unknown"}, length |-> WEEK]}
      \/ w \in {[models |-> Family \cup {"pro-unknown"}, length |-> DAY]}
      \/ w \in {[models |-> {f}, length |-> IF f \in WeeklyFamily THEN WEEK ELSE DAY] : f \in Family}
  <2>1. CASE plan = "pro_100"
    BY <2>1 DEF Windows
  <2>2. CASE plan = "pro_200"
    BY <2>2 DEF Windows
  <2>3. CASE plan # "pro_100" /\ plan # "pro_200"
    <3>1. Windows(plan) = {}
      BY <2>3 DEF Windows
    <3> QED
      BY <3>1
  <2> QED
    BY <2>1, <2>2, <2>3
<1>2. "other" \notin Family /\ "pro-unknown" \notin Family
  BY LimitsNames
<1>3. DAY \in Nat /\ WEEK \in Nat /\ DAY <= WEEK
  BY LimitsBounds
<1>4. CASE w \in {[models |-> Family \cup {"pro-unknown"}, length |-> WEEK]}
  BY <1>2, <1>3, <1>4
<1>5. CASE w \in {[models |-> Family \cup {"pro-unknown"}, length |-> DAY]}
  BY <1>2, <1>3, <1>5
<1>6. CASE w \in {[models |-> {f}, length |-> IF f \in WeeklyFamily THEN WEEK ELSE DAY] : f \in Family}
  <2>1. PICK f \in Family :
          w = [models |-> {f}, length |-> IF f \in WeeklyFamily THEN WEEK ELSE DAY]
    BY <1>6
  <2>2. w.models = {f} /\ w.length \in {DAY, WEEK}
    BY <2>1
  <2> QED
    BY <1>2, <1>3, <2>2
<1> QED
  BY <1>1, <1>4, <1>5, <1>6

\* The books of a store that is built.
LEMMA BuiltBooks ==
    ASSUME LimitsIInv, limits.built
    PROVE  StoreTypes(limits.state) /\ RealBooks(limits.state)
<1>1. limitsFile.state = limits.state
  BY DEF LimitsIInv, StoreBooks, MemoryIsTheFile
<1> QED
  BY <1>1 DEF LimitsIInv, StoreBooks

LEMMA HonestWindows == LimitsIInv => WindowsAreHonest
<1> DEFINE s == limits.state
<1> SUFFICES ASSUME LimitsIInv, limits.built, Enabled(s), NEW w \in Windows(PlanOf(s))
             PROVE  LET mine == {x \in sends : x.who = s.active /\ x.model \in w.models
                                                /\ x.at > wall - w.length /\ x.at <= wall}
                        sure == Used(s, wall, w)
                        unsure == Uncertain(s, wall, w)
                    IN /\ sure <= Cardinality(mine)
                       /\ ~gap => Cardinality({x \in mine : Owed(x)}) <= sure + unsure
  BY Zenon DEF WindowsAreHonest
<1> DEFINE mine == {x \in sends : x.who = s.active /\ x.model \in w.models
                                   /\ x.at > wall - w.length /\ x.at <= wall}
           events == s.book[s.active].events
           recent == Recent(s, wall, w.length)
           sure == {e \in recent : e.model \in w.models}
           unsure == {e \in recent : e.model = "pro-unknown"}
           owed == {x \in mine : Owed(x)}
<1>1. StoreTypes(s) /\ RealBooks(s) /\ SendTypes /\ LimitsFields /\ GapIsShown
  BY BuiltBooks DEF LimitsIInv
<1>2. s.active \in Opened(s) /\ s.active # NoOne
  BY <1>1 DEF StoreTypes, Enabled, PlanOf
<1>3. recent = {e \in events : e.at > wall - WEEK /\ e.at <= wall /\ e.at > wall - w.length
                                /\ e.model # "other"}
  BY <1>2 DEF Recent
<1>4. /\ w.length \in Nat /\ w.length <= WEEK /\ "other" \notin w.models
      /\ w.models = Family \cup {"pro-unknown"} \/ w.models \subseteq Family
  BY WindowShapes
<1>5. /\ \A e \in events : \E x \in sends : SentAs(x, s.active, e)
      /\ \A e, f \in events : e.id = f.id => e = f
  BY <1>1, <1>2 DEF RealBooks, RealEvents
<1>6. /\ IsFiniteSet(sends) /\ \A x, y \in sends : x.id = y.id => x = y
      /\ \A x \in sends : x.model \in Family \cup {"other"} /\ x.at \in Nat
  BY <1>1 DEF SendTypes
<1>7. "other" \notin Family /\ "pro-unknown" \notin Family
  BY LimitsNames
<1> HIDE DEF s, events, recent
<1>8. Cardinality(sure) <= Cardinality(mine) /\ IsFiniteSet(sure)
  <2>1. \A e \in sure : \E x \in mine : x.id = e.id
    <3> TAKE e \in sure
    <3>1. e \in events /\ e.at <= wall /\ e.at > wall - w.length /\ e.model \in w.models
      BY <1>3
    <3>2. PICK x \in sends : SentAs(x, s.active, e)
      BY <1>5, <3>1
    <3>3. x.model \in w.models
      BY <1>4, <1>6, <1>7, <3>1, <3>2 DEF SentAs
    <3> QED
      BY <3>1, <3>2, <3>3 DEF SentAs
  <2>2. \A e, f \in sure : e.id = f.id => e = f
    BY <1>3, <1>5
  <2>3. IsFiniteSet(mine)
    BY <1>6, FS_Subset
  <2> HIDE DEF sure, mine
  <2> QED
    BY <2>1, <2>2, <2>3, NoMoreThan
<1>9. IsFiniteSet(unsure)
  <2>1. \A e \in unsure : \E x \in sends : x.id = e.id
    BY <1>3, <1>5 DEF SentAs
  <2>2. \A e, f \in unsure : e.id = f.id => e = f
    BY <1>3, <1>5
  <2> HIDE DEF unsure
  <2> QED
    BY <1>6, <2>1, <2>2, NoMoreThan
<1>10. ASSUME ~gap PROVE Cardinality(owed) <= Cardinality(sure) + Cardinality(unsure)
  <2>1. \A x \in owed : \E e \in sure \cup unsure : e.id = x.id
    <3> TAKE x \in owed
    <3>1. /\ x \in sends /\ x.who = s.active /\ x.model \in w.models
          /\ x.at > wall - w.length /\ x.at <= wall /\ Owed(x)
      OBVIOUS
    <3>2. PICK e \in events : e.id = x.id
      BY <1>1, <1>10, <3>1 DEF GapIsShown, s, events
    <3>3. PICK y \in sends : SentAs(y, s.active, e)
      BY <1>5, <3>2
    <3>4. y = x
      BY <1>6, <3>1, <3>2, <3>3 DEF SentAs
    <3>5. e.at = x.at /\ (e.model = x.model \/ e.model = "pro-unknown")
      BY <3>3, <3>4 DEF SentAs
    <3>6. e.model # "other"
      BY <1>4, <3>1, <3>5
    <3>7. e.at > wall - WEEK
      <4>1. e.at \in Nat /\ wall \in Nat /\ WEEK \in Nat
        BY <1>1, <1>6, <3>1, <3>5, LimitsBounds DEF LimitsFields
      <4> QED
        BY <1>4, <3>1, <3>5, <4>1, SMT
    <3>8. e \in recent
      BY <1>3, <3>1, <3>2, <3>5, <3>6, <3>7
    <3> QED
      BY <3>1, <3>2, <3>5, <3>8
  <2>2. \A x, y \in owed : x.id = y.id => x = y
    BY <1>6
  <2> HIDE DEF owed, sure, unsure
  <2>3. IsFiniteSet(sure \cup unsure) /\ Cardinality(sure \cup unsure) \in Nat
        /\ Cardinality(sure) \in Nat /\ Cardinality(unsure) \in Nat
        /\ Cardinality(sure \cap unsure) \in Nat
        /\ Cardinality(sure \cup unsure)
              = Cardinality(sure) + Cardinality(unsure) - Cardinality(sure \cap unsure)
    <3>1. IsFiniteSet(sure \cup unsure) /\ IsFiniteSet(sure \cap unsure)
      BY <1>8, <1>9, FS_Union, FS_Intersection
    <3> QED
      BY <1>8, <1>9, <3>1, FS_Union, FS_CardinalityType
  <2>4. IsFiniteSet(owed) /\ Cardinality(owed) <= Cardinality(sure \cup unsure)
    BY <2>1, <2>2, <2>3, NoMoreThan
  <2>5. Cardinality(owed) \in Nat
    BY <2>4, FS_CardinalityType
  <2> QED
    BY <2>3, <2>4, <2>5
<1>11. Used(s, wall, w) = Cardinality(sure) /\ Uncertain(s, wall, w) = Cardinality(unsure)
  BY DEF Used, Uncertain, recent
<1> QED
  BY <1>8, <1>10, <1>11, Zenon

LEMMA LimitsTypes == LimitsIInv => LimitsTypeOK
<1> SUFFICES ASSUME LimitsIInv, NEW e \in Counted(limits.state)
             PROVE  e.id \in 1..MAX_SENDS /\ e.model \in UsageModel
  BY DEF LimitsTypeOK, LimitsIInv, LimitsFields
<1>1. PICK a \in Opened(limits.state) : e \in limits.state.book[a].events
  BY DEF Counted
<1>2. CASE limits.built
  <2>1. RealBooks(limits.state)
    BY <1>2, BuiltBooks
  <2>2. PICK x \in sends : SentAs(x, a, e)
    BY <1>1, <2>1 DEF RealBooks, RealEvents
  <2>3. x.id \in 1..Cardinality(sends) /\ Cardinality(sends) \in Nat /\ Cardinality(sends) <= MAX_SENDS
        /\ x.model \in Family \cup {"other"}
    BY FS_CardinalityType DEF LimitsIInv, SendTypes
  <2>4. MAX_SENDS \in Nat
    BY LimitsBounds
  <2> QED
    BY <2>2, <2>3, <2>4 DEF SentAs, UsageModel
<1>3. CASE ~limits.built
  BY <1>1, <1>3 DEF LimitsIInv, StoreBooks, Empty, Opened
<1> QED
  BY <1>2, <1>3

LEMMA LimitsHold == LimitsIInv => LimitsInv
<1>1. ASSUME LimitsIInv PROVE BooksAreReal
  BY <1>1 DEF LimitsIInv, StoreBooks, BooksAreReal, RealBooks, RealEvents, SentAs
<1> QED
  BY <1>1, LimitsTypes, HonestWindows DEF LimitsInv, LimitsIInv, StoreBooks

\* Whatever the user does to the account, the plan, the mode and the clock, whichever
\* receipts are lost or writes fail, and wherever the launcher restarts: the panel claims no
\* message that was not sent from that account, memory never runs ahead of limits.json, and
\* every message owed is counted or the gap is shown (limits-store.cjs, limits-controller.cjs).
THEOREM LimitsCorrect == LMSpec => []LimitsInv
<1>1. LMInit => LimitsIInv
  BY LimitsStart
<1>2. LimitsIInv /\ [LMNext]_limitsVars => LimitsIInv'
  BY LimitsStep
<1>3. LimitsIInv => LimitsInv
  BY LimitsHold
<1> QED
  BY <1>1, <1>2, <1>3, PTL DEF LMSpec
=============================================================================
