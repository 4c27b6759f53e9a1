------------------------- MODULE IntegrationJournal -------------------------
(***************************************************************************)
(* The bridge's reversible edit of Codex' config.toml:                     *)
(* codex-integration.ts (install, deactivate, activate, uninstall),        *)
(* codex-integration-journal.ts (readJournal) and the writes with          *)
(* compensation of codex-integration-shared.ts.                            *)
(*                                                                         *)
(* A command reads the journal, computes the files it wants and writes     *)
(* them one by one; each write is atomic (a rename) and may fail, which    *)
(* rolls every file back to its snapshot.  The process may stop between    *)
(* any two writes.  The journal has a primary and a recovery copy, and     *)
(* readJournal reconciles them with config.toml.                           *)
(*                                                                         *)
(* Of config.toml the model keeps the route (openai_base_url) and whether  *)
(* the bridge's other marks (comment, realtime route, hook, features) are  *)
(* there; those are written and removed together with the route.  Journals *)
(* have version 10.  Codex edits and commands do not overlap.              *)
(***************************************************************************)
EXTENDS Naturals, Sequences, SequencesExt

CONSTANTS
    UserUrl,       \* routes a user may configure
    BridgeUrl,     \* routes of the bridge: one per port
    Absent,        \* no openai_base_url
    None,          \* a file that does not exist
    Unreadable,    \* readJournal throws
    Idle,          \* no command is running
    MAX_JOURNAL_FAULTS,    \* bound: writes that fail
    MAX_CRASHES,   \* bound: processes stopped halfway
    MAX_EDITS      \* bound: edits of the route by the user

ASSUME UrlAssumption == UserUrl \cap BridgeUrl = {} /\ Absent \notin UserUrl \cup BridgeUrl
ASSUME BoundAssumption == MAX_JOURNAL_FAULTS \in Nat /\ MAX_CRASHES \in Nat /\ MAX_EDITS \in Nat

Url == UserUrl \cup BridgeUrl \cup {Absent}
Text == [url: Url, managed: BOOLEAN]
Journal == [active: BOOLEAN, installed: BridgeUrl, previous: Url, reconnectOnStartup: BOOLEAN]
File == {"config", "primary", "recovery", "cache"}
VARIABLES
    files,          \* the file system: config.toml, both journals, models_cache.json
    job,            \* the running command: the writes it still has to do
    baseline,       \* the route the user last chose (history)
    disconnected,   \* the user disconnected, and has not connected since (history)
    journalFaults, crashes, edits

journalVars == <<files, job, baseline, disconnected, journalFaults, crashes, edits>>
counters == <<journalFaults, crashes, edits>>

FileSystem == [config: Text, primary: Journal \cup {None},
               recovery: Journal \cup {None}, cache: {None, "models"}]

ASSUME NoneAssumption == None \notin Journal
ASSUME IdleAssumption ==
    Idle \notin [todo: Seq(File), want: FileSystem, undo: FileSystem, restore: Seq(File),
                 rollback: BOOLEAN, disconnects: BOOLEAN]

\* A job: the writes left, what they write, the snapshots taken at the start and
\* the order that restores them, whether it rolls back, and whether the
\* completed command leaves the user disconnected.
IsJob(j) ==
    /\ ToSet(j.todo) \subseteq File /\ ToSet(j.restore) = File
    /\ j.want \in FileSystem /\ j.undo \in FileSystem
    /\ j.rollback \in BOOLEAN /\ j.disconnects \in BOOLEAN

JournalTypeOK ==
    /\ files \in FileSystem
    /\ job # Idle => IsJob(job)
    /\ baseline \in UserUrl \cup {Absent}
    /\ disconnected \in BOOLEAN
    /\ journalFaults \in 0..MAX_JOURNAL_FAULTS /\ crashes \in 0..MAX_CRASHES /\ edits \in 0..MAX_EDITS

JournalInit ==
    /\ \E url \in UserUrl \cup {Absent} :
          /\ files = [config |-> [url |-> url, managed |-> FALSE],
                      primary |-> None, recovery |-> None, cache |-> "models"]
          /\ baseline = url
    /\ job = Idle
    /\ disconnected = FALSE
    /\ journalFaults = 0 /\ crashes = 0 /\ edits = 0

-----------------------------------------------------------------------------
(* The route in config.toml and the journal that describes it.              *)

\* verifyOwnedInstalledRoute, verifyRestoredRoute, verifyManagedJournalState
OwnedRoute(text, j) == text.managed /\ text.url = j.installed
RestoredRoute(text, j) == ~text.managed /\ text.url = j.previous
Matches(j, text) == IF j.active THEN OwnedRoute(text, j) ELSE RestoredRoute(text, j)

InstalledText(url) == [url |-> url, managed |-> TRUE]
PlainText(url) == [url |-> url, managed |-> FALSE]

\* replacementBaseline: take the bridge's own marks out, keep what is not its.
ReplacementBaseline(text, j) ==
    IF ~j.active THEN text
    ELSE PlainText(IF text.url = j.installed THEN j.previous ELSE text.url)

\* readJournal: what the two copies and config.toml amount to.
ReadJournal(fs) ==
    LET p == fs.primary
        r == fs.recovery
        pm == p # None /\ Matches(p, fs.config)
        rm == r # None /\ Matches(r, fs.config)
    IN CASE p = r -> p
         [] p # None /\ r = None -> p
         [] p = None /\ r # None -> IF rm THEN r ELSE Unreadable
         [] OTHER -> IF pm = rm THEN Unreadable ELSE IF pm THEN p ELSE r

NeedsRepair(fs) == fs.primary # fs.recovery /\ ReadJournal(fs) # Unreadable

-----------------------------------------------------------------------------
(* Commands.  Each one starts from a journal that needs no repair.          *)

WriteOrder == <<"recovery", "config", "primary", "cache">>

\* Compensation restores the files in the opposite order of their snapshots.
Restoration(order) == Reverse(order)

Start(todo, want, disconnects) ==
    job' = [todo |-> todo, want |-> want, undo |-> files, restore |-> Restoration(WriteOrder),
            rollback |-> FALSE, disconnects |-> disconnects]

\* writeIntegrationState: the recovery copy first, the primary copy last.
WriteIntegrationState(j, text, disconnects) ==
    Start(WriteOrder, [config |-> text, primary |-> j, recovery |-> j, cache |-> None],
          disconnects)

Ready == job = Idle /\ ~NeedsRepair(files) /\ ReadJournal(files) # Unreadable
Read == ReadJournal(files)

\* A command that only reads still repairs the copies.
RepairJournal ==
    LET j == ReadJournal(files)
        both == files.primary # None /\ files.recovery # None
    IN /\ job = Idle /\ NeedsRepair(files)
       /\ Start(IF both THEN <<"recovery", "primary">>
                ELSE IF files.recovery = None THEN <<"recovery">> ELSE <<"primary">>,
                [files EXCEPT !.primary = j, !.recovery = j], FALSE)
       /\ UNCHANGED <<files, baseline, disconnected, counters>>

\* First installation: it refuses to replace a route without being told to.
InstallFirst(port, replaceExistingRoute) ==
    /\ Ready /\ Read = None
    /\ files.config.url = Absent \/ replaceExistingRoute
    /\ WriteIntegrationState(
          [active |-> TRUE, installed |-> port, previous |-> files.config.url,
           reconnectOnStartup |-> FALSE],
          InstalledText(port), FALSE)
    /\ disconnected' = FALSE
    /\ UNCHANGED <<files, baseline, counters>>

\* Setup runs again over an installation.
Reinstall(port, replaceExistingRoute, preserveDisconnectedRoute) ==
    LET old == Read
        owned == Matches(old, files.config)
        base == ReplacementBaseline(files.config, old)
        updated == [active |-> TRUE, installed |-> port,
                    previous |-> IF owned THEN old.previous ELSE base.url,
                    reconnectOnStartup |-> FALSE]
        keep == preserveDisconnectedRoute /\ ~old.active
    IN /\ Ready /\ old # None
       /\ owned \/ replaceExistingRoute
       /\ IF keep
          THEN WriteIntegrationState(
                  [updated EXCEPT !.active = FALSE,
                                  !.reconnectOnStartup = old.reconnectOnStartup],
                  PlainText(updated.previous), FALSE)
          ELSE WriteIntegrationState(updated, InstalledText(port), FALSE)
       /\ disconnected' = (disconnected /\ keep)
       /\ UNCHANGED <<files, baseline, counters>>

\* Disconnect, by the user or (forRuntimeRecovery) by a launcher that will
\* reconnect when its runtime is back.
Deactivate(forRuntimeRecovery) ==
    LET j == Read IN
    /\ Ready /\ j # None
    /\ Matches(j, files.config)
    /\ \/ /\ j.active
          /\ WriteIntegrationState(
                [j EXCEPT !.active = FALSE, !.reconnectOnStartup = forRuntimeRecovery],
                PlainText(j.previous), ~forRuntimeRecovery)
       \/ /\ ~j.active /\ ~forRuntimeRecovery /\ j.reconnectOnStartup
          /\ Start(<<"recovery", "config", "primary">>,
                   [files EXCEPT !.recovery = [j EXCEPT !.reconnectOnStartup = FALSE],
                                 !.primary = [j EXCEPT !.reconnectOnStartup = FALSE]], TRUE)
    /\ UNCHANGED <<files, baseline, disconnected, counters>>

\* Connect, by the user or (recoveryOnly) by a launcher whose runtime is back.
Activate(recoveryOnly) ==
    LET j == Read IN
    /\ Ready /\ j # None
    /\ ~j.active /\ RestoredRoute(files.config, j)
    /\ recoveryOnly => j.reconnectOnStartup
    /\ WriteIntegrationState(
          [j EXCEPT !.active = TRUE, !.reconnectOnStartup = FALSE],
          InstalledText(j.installed), FALSE)
    /\ disconnected' = (disconnected /\ recoveryOnly)
    /\ UNCHANGED <<files, baseline, counters>>

\* The route is restored before either copy is removed.
Uninstall ==
    LET j == Read IN
    /\ Ready /\ j # None
    /\ Matches(j, files.config)
    /\ LET order == <<"config", "cache", "primary", "recovery">>
       IN job' = [todo |-> order, restore |-> Restoration(order), undo |-> files,
                  want |-> [config |-> PlainText(j.previous), primary |-> None,
                            recovery |-> None, cache |-> None],
                  rollback |-> FALSE, disconnects |-> FALSE]
    /\ UNCHANGED <<files, baseline, disconnected, counters>>

-----------------------------------------------------------------------------
(* Execution of a command.                                                  *)

Finished(todo) == IF Len(todo) = 1 THEN Idle ELSE [job EXCEPT !.todo = Tail(@)]

WriteNext ==
    /\ job # Idle /\ ~job.rollback
    /\ files' = [files EXCEPT ![Head(job.todo)] = job.want[Head(job.todo)]]
    /\ job' = Finished(job.todo)
    /\ disconnected' = (disconnected \/ (Len(job.todo) = 1 /\ job.disconnects))
    /\ UNCHANGED <<baseline, counters>>

\* A write fails: every file is restored, the last one first.
WriteFails ==
    /\ job # Idle /\ ~job.rollback
    /\ journalFaults < MAX_JOURNAL_FAULTS /\ journalFaults' = journalFaults + 1
    /\ job' = [job EXCEPT !.rollback = TRUE, !.todo = job.restore]
    /\ UNCHANGED <<files, baseline, disconnected, crashes, edits>>

\* Mutant: the model cache is dropped once more instead of restored.
RestoreExceptCache ==
    /\ job # Idle /\ job.rollback
    /\ files' = IF Head(job.todo) = "cache" THEN files
                ELSE [files EXCEPT ![Head(job.todo)] = job.undo[Head(job.todo)]]
    /\ job' = Finished(job.todo)
    /\ UNCHANGED <<baseline, disconnected, counters>>

RestoreNext ==
    /\ job # Idle /\ job.rollback
    /\ files' = [files EXCEPT ![Head(job.todo)] = job.undo[Head(job.todo)]]
    /\ job' = Finished(job.todo)
    /\ UNCHANGED <<baseline, disconnected, counters>>

\* A restoration that fails is reported and skipped.
RestoreFails ==
    /\ job # Idle /\ job.rollback
    /\ journalFaults < MAX_JOURNAL_FAULTS /\ journalFaults' = journalFaults + 1
    /\ job' = Finished(job.todo)
    /\ UNCHANGED <<files, baseline, disconnected, crashes, edits>>

Crash ==
    /\ job # Idle
    /\ crashes < MAX_CRASHES /\ crashes' = crashes + 1
    /\ job' = Idle
    /\ UNCHANGED <<files, baseline, disconnected, journalFaults, edits>>

-----------------------------------------------------------------------------
(* The user and Codex.                                                      *)

EditRoute(url) ==
    /\ job = Idle
    /\ edits < MAX_EDITS /\ edits' = edits + 1
    /\ url # files.config.url
    /\ files' = [files EXCEPT !.config.url = url]
    /\ baseline' = url
    /\ UNCHANGED <<job, disconnected, journalFaults, crashes>>

FetchModels ==
    /\ job = Idle /\ files.cache = None
    /\ files' = [files EXCEPT !.cache = "models"]
    /\ UNCHANGED <<job, baseline, disconnected, counters>>

JournalNext ==
    \/ RepairJournal
    \/ \E port \in BridgeUrl, replace \in BOOLEAN :
          \/ InstallFirst(port, replace)
          \/ \E preserve \in BOOLEAN : Reinstall(port, replace, preserve)
    \/ \E recovery \in BOOLEAN : Deactivate(recovery) \/ Activate(recovery)
    \/ Uninstall
    \/ WriteNext \/ WriteFails \/ RestoreNext \/ RestoreFails \/ Crash
    \/ \E url \in UserUrl \cup {Absent} : EditRoute(url)
    \/ FetchModels

JournalSpec == JournalInit /\ [][JournalNext]_journalVars

-----------------------------------------------------------------------------
(* Properties.                                                              *)

\* While config.toml routes Codex to the bridge, a copy of the journal owns
\* that route and remembers the route the user had, wherever the process may
\* stop: the evidence that takes the bridge out again is never lost, unless both
\* a write and its restoration fail (which the command reports).
BaselineIsKept ==
    journalFaults < 2 /\ files.config.managed /\ files.config.url \in BridgeUrl =>
        \E j \in {files.primary, files.recovery} \ {None} :
            OwnedRoute(files.config, j) /\ j.previous = baseline

\* A command whose write fails leaves every file as it found it, unless a
\* restoration fails too or the process stops.
FailureChangesNothing ==
    [][job # Idle /\ job.rollback /\ job' = Idle /\ crashes' = crashes /\ journalFaults <= 1
          => files' = job.undo \/ journalFaults' # journalFaults]_journalVars

\* After the user has disconnected the bridge, only the user connects it
\* again: no repair, setup or runtime recovery brings the route back.
DisconnectIsHonoured ==
    disconnected =>
        /\ ~files.config.managed
        /\ ReadJournal(files) \notin {None, Unreadable} => ~ReadJournal(files).reconnectOnStartup

\* The files are sound, whatever write fails and wherever a process stops: types, the
\* user's route on record, the user's disconnection honoured, and no half of a command.
JournalInv == JournalTypeOK /\ BaselineIsKept /\ DisconnectIsHonoured
JournalHolds == []JournalInv /\ FailureChangesNothing

\* "If the process stops between those writes, the physical config
\* unambiguously selects the completed state" (codex-integration-shared.ts:389):
\* nothing but an edit by the user leaves a journal that cannot be read.
StopIsUnambiguous ==
    edits = 0 /\ job = Idle => ReadJournal(files) # Unreadable
=============================================================================
