---------------------------- MODULE LauncherUpdate ----------------------------
(***************************************************************************)
(* The update of a packaged launcher: the controller that checks and        *)
(* prepares a release (update.cjs), the quit it asks for (main.cjs), the    *)
(* detached worker that replaces the application once the launcher is gone  *)
(* (update-worker.cjs), and the next start, which installs the runtime      *)
(* bundle of the version it runs (runtime-install.cjs).                     *)
(*                                                                          *)
(* Versions are numbers; 0 is "nothing there".  Every step of the worker    *)
(* and of the bundle's installation may fail (MAX_UPDATE_FAULTS), and the   *)
(* machine may lose power between any two steps (MAX_POWER_CUTS).           *)
(***************************************************************************)
EXTENDS Naturals, FiniteSets

CONSTANTS UpdatePlatform,    \* process.platform
          MAX_RELEASE,       \* newest version ever published
          UPDATE_RETRIES,    \* entries of UPDATE_CHECK_RETRY_DELAYS_MS
          MAX_UPDATE_FAULTS, MAX_POWER_CUTS

ASSUME UpdateBounds == {MAX_RELEASE, UPDATE_RETRIES, MAX_UPDATE_FAULTS, MAX_POWER_CUTS} \subseteq Nat

Nothing == 0
Version == 1 .. MAX_RELEASE

VARIABLES platform,
          feed,      \* releases/latest: its version, and whether all its assets are there
          ctl,       \* createUpdateController: state, candidate, checked, failedChecks, retry timer
          prep,      \* the pending promise of beginInstall, and the IPC handler after it
          temp,      \* the temporary directory of that install: absent, or what it holds
          exit,      \* requestQuit: shutdownInProgress, and how far it is
          worker,    \* update-worker.cjs
          volume,      \* target, next and previous of the worker; versions and wrapper on Linux
          app,       \* the launcher: off, starting or up, and the version it loaded
          bundle,    \* versions/<v>: the installed runtime bundles, and the replacement's files
          upFaults, powerCuts

luVars == <<platform, feed, ctl, prep, temp, exit, worker, volume, app, bundle, upFaults, powerCuts>>

NoCopy    == [bundle EXCEPT !.tmp = "none", !.back = ""]
NoReplacement == [NoCopy EXCEPT !.prev = "none"]
UpdateFault     == upFaults < MAX_UPDATE_FAULTS /\ upFaults' = upFaults + 1
NoUpdateFault   == UNCHANGED upFaults
NewController == [status |-> "idle", candidate |-> Nothing, checked |-> FALSE, failed |-> 0, retry |-> FALSE]
Ctl(s)    == [ctl EXCEPT !.status = s]
NoQuit    == [pc |-> "none", install |-> FALSE]
IdleWorker      == [pc |-> "none", version |-> Nothing]
NoWorker  == [pc |-> "none", version |-> Nothing, from |-> Nothing, parent |-> FALSE]
NoTemp    == [there |-> FALSE, asset |-> "none"]

(***************************************************************************)
(* Checking for a release                                                   *)
(***************************************************************************)
\* checkOnce, when the renderer is loaded; the retry timer of a check that failed.
CheckOnce == /\ app.st = "up" /\ ~ctl.checked
             /\ ctl' = [ctl EXCEPT !.status = "checking", !.checked = TRUE]
             /\ UNCHANGED <<platform, feed, prep, temp, exit, worker, volume, app, bundle, upFaults, powerCuts>>

RetryCheck == /\ app.st = "up" /\ ctl.retry
              /\ ctl' = [ctl EXCEPT !.retry = FALSE,
                                    !.status = IF ctl.status = "error" THEN "checking" ELSE @]
              /\ UNCHANGED <<platform, feed, prep, temp, exit, worker, volume, app, bundle, upFaults, powerCuts>>

\* compareVersions, compareTeehoReleases; both assets listed, under the release's own URLs.
Newer       == feed.version > app.version
AssetsThere == feed.whole

UpdateCheckFails == [ctl EXCEPT !.status = "error", !.failed = @ + 1, !.retry = ctl.failed < UPDATE_RETRIES]

\* check: an older or equal release clears the candidate; a release whose assets
\* are not all there is an error like a failed request.
CheckAnswer ==
  /\ app.st = "up" /\ ctl.status = "checking"
  /\ \/ /\ ~Newer
        /\ ctl' = [ctl EXCEPT !.status = "up-to-date", !.candidate = Nothing]
        /\ NoUpdateFault
     \/ /\ Newer /\ AssetsThere
        /\ ctl' = [ctl EXCEPT !.status = "available", !.candidate = feed.version]
        /\ NoUpdateFault
     \/ /\ Newer /\ ~AssetsThere
        /\ ctl' = UpdateCheckFails
        /\ NoUpdateFault
     \/ ctl' = UpdateCheckFails /\ UpdateFault
  /\ UNCHANGED <<platform, feed, prep, temp, exit, worker, volume, app, bundle, powerCuts>>

\* External: the project publishes a release, its files some time after its tag.
Publish == /\ \/ feed.version < MAX_RELEASE /\ feed' = [version |-> feed.version + 1, whole |-> FALSE]
              \/ ~feed.whole /\ feed' = [feed EXCEPT !.whole = TRUE]
           /\ UNCHANGED <<platform, ctl, prep, temp, exit, worker, volume, app, bundle, upFaults, powerCuts>>

(***************************************************************************)
(* Preparing the install: beginInstall                                      *)
(***************************************************************************)
\* launcher:update-install; linuxUpdateInstallation refuses a launcher that was not
\* started through its wrapper.  Bound of the model: no second install while the worker
\* of an earlier launcher is still at work.  Without a directory to work in the request
\* fails outside the try: the state stays "downloading" until the launcher is restarted.
BeginInstall ==
  /\ app.st = "up" /\ prep.pc = "none" /\ worker.pc = "none"
  /\ ctl.status = "available" /\ ctl.candidate # Nothing
  /\ ctl' = Ctl("downloading")
  /\ \/ /\ prep' = [pc |-> "download", version |-> ctl.candidate]
        /\ temp' = [there |-> TRUE, asset |-> "none"]
        /\ NoUpdateFault
     \/ UNCHANGED <<prep, temp>> /\ UpdateFault
  /\ UNCHANGED <<platform, feed, exit, worker, volume, app, bundle, powerCuts>>

\* downloadText and downloadFile: a redirect to another scheme, a stalled body or a
\* status other than 200 ends the download; the bytes that arrive may be the wrong ones.
Download ==
  /\ app.st = "up" /\ prep.pc = "download"
  /\ \/ temp' = [temp EXCEPT !.asset = "good"] /\ prep' = [prep EXCEPT !.pc = "verify"] /\ NoUpdateFault
     \/ temp' = [temp EXCEPT !.asset = "bad"]  /\ prep' = [prep EXCEPT !.pc = "verify"] /\ UpdateFault
     \/ prep' = [prep EXCEPT !.pc = "failed"] /\ UpdateFault /\ UNCHANGED temp
  /\ UNCHANGED <<platform, feed, ctl, exit, worker, volume, app, bundle, powerCuts>>

\* sha256 against checksums.txt; the archive is unpacked, the worker and its job copied.
Verify ==
  /\ app.st = "up" /\ prep.pc = "verify"
  /\ prep' = [prep EXCEPT !.pc = IF temp.asset = "good" THEN "spawn" ELSE "failed"]
  /\ UNCHANGED <<platform, feed, ctl, temp, exit, worker, volume, app, bundle, upFaults, powerCuts>>
\* spawnWorker; the handler then asks for the quit.  On Linux the job names the image of
\* the launcher that prepared it.
SpawnWorker ==
  /\ app.st = "up" /\ prep.pc = "spawn"
  /\ \/ /\ prep' = [prep EXCEPT !.pc = "quit"] /\ ctl' = Ctl("installing")
        /\ worker' = [pc |-> "waiting", version |-> prep.version, from |-> app.version, parent |-> TRUE]
        /\ NoUpdateFault
     \/ prep' = [prep EXCEPT !.pc = "failed"] /\ UpdateFault /\ UNCHANGED <<ctl, worker>>
  /\ UNCHANGED <<platform, feed, temp, exit, volume, app, bundle, powerCuts>>

InstallFails ==
  /\ app.st = "up" /\ prep.pc = "failed"
  /\ prep' = IdleWorker /\ temp' = NoTemp /\ ctl' = Ctl("available")
  /\ UNCHANGED <<platform, feed, exit, worker, volume, app, bundle, upFaults, powerCuts>>

(***************************************************************************)
(* Quitting                                                                 *)
(***************************************************************************)
\* cancelInstall: kill the worker, remove its directory, offer the release again.
Cancelled ==
  /\ prep' = IdleWorker /\ worker' = NoWorker /\ temp' = NoTemp /\ ctl' = Ctl("available")

\* requestQuit for the update.  It is refused while another quit runs or an operation is
\* active; refused, the handler takes the install back.
QuitForUpdate ==
  /\ app.st = "up" /\ prep.pc = "quit"
  /\ \/ /\ exit = NoQuit
        /\ exit' = [pc |-> "shutdown", install |-> TRUE]
        /\ prep' = [prep EXCEPT !.pc = "asked"]
        /\ UNCHANGED <<ctl, temp, worker>>
     \/ Cancelled /\ UNCHANGED exit
  /\ UNCHANGED <<platform, feed, volume, app, bundle, upFaults, powerCuts>>

\* The window is closed, the tray's Quit, SIGTERM.
QuitByUser ==
  /\ app.st = "up" /\ exit.pc = "none"
  /\ exit' = [pc |-> "shutdown", install |-> FALSE]
  /\ UNCHANGED <<platform, feed, ctl, prep, temp, worker, volume, app, bundle, upFaults, powerCuts>>

\* The supervisor's shutdown, the session, the descriptor and the control server; then
\* exitCommitted and the process ends.
QuitStep ==
  /\ app.st = "up" /\ exit.pc \in {"shutdown", "persist"}
  /\ \/ /\ exit.pc = "shutdown"
        /\ exit' = [exit EXCEPT !.pc = "persist"]
        /\ UNCHANGED <<ctl, prep, worker, app>>
     \/ /\ exit.pc = "persist"
        /\ exit' = NoQuit
        /\ app' = [st |-> "off", version |-> Nothing]
        /\ prep' = IdleWorker /\ ctl' = NewController
        /\ worker' = [worker EXCEPT !.parent = FALSE]
  /\ UNCHANGED <<platform, feed, temp, volume, bundle, upFaults, powerCuts>>

QuitFailsSilently ==
  /\ app.st = "up" /\ exit.pc \in {"shutdown", "persist"}
  /\ UpdateFault
  /\ exit' = NoQuit
  /\ UNCHANGED <<platform, feed, ctl, prep, temp, worker, volume, app, bundle, powerCuts>>

\* A step throws: quitting is taken back, and so is the update that asked for it.
QuitFails ==
  /\ app.st = "up" /\ exit.pc \in {"shutdown", "persist"}
  /\ UpdateFault
  /\ exit' = NoQuit
  /\ (exit.install => Cancelled)
  /\ (~exit.install => UNCHANGED <<ctl, prep, temp, worker>>)
  /\ UNCHANGED <<platform, feed, volume, app, bundle, powerCuts>>

(***************************************************************************)
(* The worker                                                               *)
(***************************************************************************)
Move(pc)  == worker' = [worker EXCEPT !.pc = pc]
Relaunch  == Move("relaunch")
\* requireFile(job.source)
Staged    == temp.there /\ temp.asset = "good"
Rest      == UNCHANGED <<platform, feed, ctl, prep, exit, app, bundle, powerCuts>>

\* waitForParent; it gives up after two minutes, outside the try that relaunches.
ParentGone == /\ worker.pc = "waiting" /\ ~worker.parent /\ Move("install")
              /\ UNCHANGED temp /\ UNCHANGED volume /\ NoUpdateFault /\ Rest
ParentStays == /\ worker.pc = "waiting" /\ worker.parent
               /\ worker' = NoWorker
               /\ UNCHANGED temp /\ UNCHANGED volume /\ UpdateFault /\ Rest

\* updateMac: a copy beside the target, then two renames.
MacCopy == /\ platform = "darwin" /\ worker.pc = "install"
           /\ \/ Staged /\ Move("aside") /\ volume' = [volume EXCEPT !.next = worker.version] /\ NoUpdateFault
              \/ Relaunch /\ UNCHANGED volume /\ (Staged => UpdateFault) /\ (~Staged => NoUpdateFault)
           /\ UNCHANGED temp /\ Rest
MacAside == /\ worker.pc = "aside"
            /\ \/ volume.target # Nothing /\ Move("put") /\ NoUpdateFault
                  /\ volume' = [volume EXCEPT !.previous = volume.target, !.target = Nothing]
               \/ volume.target # Nothing /\ Relaunch /\ UpdateFault /\ UNCHANGED volume
               \/ volume.target = Nothing /\ Relaunch /\ NoUpdateFault /\ UNCHANGED volume
            /\ UNCHANGED temp /\ Rest
MacPut == /\ worker.pc = "put"
          /\ \/ Move("clean") /\ NoUpdateFault
                /\ volume' = [volume EXCEPT !.target = volume.next, !.next = Nothing]
             \/ Move("restore") /\ UpdateFault /\ UNCHANGED volume
          /\ UNCHANGED temp /\ Rest
MacRestore == /\ worker.pc = "restore"
              /\ \/ Relaunch /\ NoUpdateFault
                    /\ volume' = [volume EXCEPT !.target = volume.previous, !.previous = Nothing]
                 \/ Relaunch /\ UpdateFault /\ UNCHANGED volume
              /\ UNCHANGED temp /\ Rest
\* updateWindows: the silent installer does the replacing (external: it may fail before
\* it has touched the target).
WindowsInstall == /\ platform = "win32" /\ worker.pc = "install"
                  /\ \/ Staged /\ Move("clean") /\ volume' = [volume EXCEPT !.target = worker.version] /\ NoUpdateFault
                     \/ Relaunch /\ UNCHANGED volume /\ (Staged => UpdateFault) /\ (~Staged => NoUpdateFault)
                  /\ UNCHANGED temp /\ Rest

\* updateLinux: the new AppImage beside the old one, then the wrapper, then the old one
\* goes, which is the one the job names and not the one the wrapper named.
LinuxInstall == /\ platform = "linux" /\ worker.pc = "install"
                /\ \/ Staged /\ Move("wrap") /\ NoUpdateFault
                      /\ volume' = [volume EXCEPT !.images = @ \cup {worker.version}]
                   \/ Relaunch /\ UNCHANGED volume /\ (Staged => UpdateFault) /\ (~Staged => NoUpdateFault)
                /\ UNCHANGED temp /\ Rest
LinuxWrap == /\ worker.pc = "wrap"
             /\ \/ Move("drop") /\ volume' = [volume EXCEPT !.target = worker.version] /\ NoUpdateFault
                \/ Relaunch /\ UpdateFault /\ UNCHANGED volume
             /\ UNCHANGED temp /\ Rest
LinuxDrop == /\ worker.pc = "drop"
             /\ \/ Move("clean") /\ volume' = [volume EXCEPT !.images = @ \ {worker.from}] /\ NoUpdateFault
                \/ Relaunch /\ UpdateFault /\ UNCHANGED volume
             /\ UNCHANGED temp /\ Rest

\* What the user starts: the application at the target, or the image the wrapper names.
Starts == IF platform = "linux" THEN volume.target \in volume.images ELSE volume.target # Nothing

Loaded == app' = IF app.st = "off" /\ Starts THEN [st |-> "starting", version |-> volume.target] ELSE app

\* The relaunch of the new application, or of whatever is there after a failure; the
\* temporary directory goes only after a success.
WorkerEnds ==
  /\ worker.pc \in {"clean", "relaunch"}
  /\ Loaded /\ worker' = NoWorker
  /\ volume' = IF worker.pc = "clean" THEN [volume EXCEPT !.previous = Nothing] ELSE volume
  /\ temp' = IF worker.pc = "clean" THEN NoTemp ELSE temp
  /\ NoUpdateFault /\ UNCHANGED <<platform, feed, ctl, prep, exit, bundle, powerCuts>>

(***************************************************************************)
(* The start of the launcher and its runtime bundle                         *)
(***************************************************************************)
StartByUser == /\ app.st = "off" /\ Starts /\ Loaded
               /\ UNCHANGED <<platform, feed, ctl, prep, temp, exit, worker, volume, bundle, upFaults, powerCuts>>

Installed(v) == bundle.at[v]
\* inspectRuntimeBundle: the manifest names this very build, and every file it lists is
\* there, unchanged, and none besides.
ManifestMatches(b) == b \in {"part", "whole"}
FilesMatch(b)      == b \in {"other", "whole"}
ValidBundle(b)     == ManifestMatches(b) /\ FilesMatch(b)
Boots == UNCHANGED <<platform, feed, ctl, prep, temp, exit, worker, volume, powerCuts>>

\* waitForPackagedRuntimeSource: the package beside the executable must be this version's.
PackageIsOurs == (IF platform = "linux" THEN app.version ELSE volume.target) = app.version

AppStartFails == app' = [st |-> "off", version |-> Nothing]

\* ensurePackagedRuntime: a valid bundle is used as it is.
UseBundle == /\ app.st = "starting" /\ bundle.back = ""
             /\ PackageIsOurs /\ ValidBundle(Installed(app.version))
             /\ app' = [app EXCEPT !.st = "up"]
             /\ NoUpdateFault /\ UNCHANGED bundle /\ Boots
NoPackage == /\ app.st = "starting" /\ bundle.back = "" /\ ~PackageIsOurs
             /\ AppStartFails /\ NoUpdateFault /\ UNCHANGED bundle /\ Boots

\* It copies the package to a temporary directory and validates the copy.
CopyBundle == /\ app.st = "starting" /\ bundle.back = ""
              /\ PackageIsOurs /\ ~ValidBundle(Installed(app.version))
              /\ \/ bundle' = [bundle EXCEPT !.tmp = "whole", !.back = "move"] /\ NoUpdateFault /\ UNCHANGED app
                 \/ bundle' = NoCopy /\ AppStartFails /\ UpdateFault
              /\ Boots
\* The old directory aside, the copy into its place, validated again.
MoveAside == /\ app.st = "starting" /\ bundle.back = "move"
             /\ \/ /\ bundle' = [bundle EXCEPT !.prev = Installed(app.version), !.back = "put",
                                               !.at[app.version] = "none"]
                   /\ NoUpdateFault /\ UNCHANGED app
                \/ bundle' = NoCopy /\ AppStartFails /\ UpdateFault
             /\ Boots
PutBundle == /\ app.st = "starting" /\ bundle.back = "put"
             /\ \/ /\ bundle' = [NoReplacement EXCEPT !.at[app.version] = bundle.tmp]
                   /\ NoUpdateFault /\ UNCHANGED app
                \/ bundle' = [bundle EXCEPT !.back = "restore"] /\ UpdateFault /\ UNCHANGED app
             /\ Boots
\* A failure puts the old directory back; the finally clause tries once more.
RestoreBundle == /\ app.st = "starting" /\ bundle.back \in {"restore", "finally"}
                 /\ \/ bundle' = [NoReplacement EXCEPT !.at[app.version] = bundle.prev] /\ AppStartFails /\ NoUpdateFault
                    \/ /\ bundle.back = "restore" /\ UpdateFault
                       /\ bundle' = [bundle EXCEPT !.back = "finally"] /\ UNCHANGED app
                    \/ bundle.back = "finally" /\ UpdateFault /\ bundle' = NoCopy /\ AppStartFails
                 /\ Boots
(***************************************************************************)
(* External: power lost, a bundle removed by a cleaner                      *)
(***************************************************************************)
PowerCut ==
  /\ powerCuts < MAX_POWER_CUTS
  /\ powerCuts' = powerCuts + 1
  /\ app' = [st |-> "off", version |-> Nothing]
  /\ worker' = NoWorker /\ prep' = IdleWorker
  /\ exit' = NoQuit
  /\ ctl' = NewController
  /\ volume' = [volume EXCEPT !.cut = @ \/ worker.pc \in {"put", "restore"}]
  /\ bundle' = NoCopy
  /\ UNCHANGED <<platform, feed, temp, upFaults>>

Cleaned == /\ powerCuts < MAX_POWER_CUTS
           /\ powerCuts' = powerCuts + 1
           /\ bundle.back = ""
           /\ \E v \in Version : Installed(v) = "whole" /\ bundle' = [bundle EXCEPT !.at[v] = "part"]
           /\ UNCHANGED <<platform, feed, ctl, prep, temp, exit, worker, volume, app, upFaults>>

LUInit ==
  /\ platform \in UpdatePlatform
  /\ feed = [version |-> 1, whole |-> TRUE]
  /\ ctl = NewController
  /\ prep = IdleWorker /\ worker = NoWorker /\ temp = NoTemp
  /\ exit = NoQuit
  /\ volume = [target |-> 1, next |-> Nothing, previous |-> Nothing, images |-> {1}, cut |-> FALSE]
  /\ app = [st |-> "off", version |-> Nothing]
  /\ bundle \in [at : {[v \in Version |-> IF v = 1 THEN s ELSE "none"] : s \in {"none", "part", "other", "whole"}},
                 tmp : {"none"}, prev : {"none"}, back : {""}]
  /\ upFaults = 0 /\ powerCuts = 0

Checking   == CheckOnce \/ RetryCheck \/ CheckAnswer
Preparing  == Download \/ Verify \/ SpawnWorker \/ InstallFails
Quitting   == QuitForUpdate \/ QuitStep
Replacing  == ParentGone \/ ParentStays \/ MacCopy \/ MacAside \/ MacPut \/ MacRestore
              \/ WindowsInstall \/ LinuxInstall \/ LinuxWrap \/ LinuxDrop \/ WorkerEnds
Booting    == UseBundle \/ NoPackage \/ CopyBundle \/ MoveAside \/ PutBundle \/ RestoreBundle

LUNext == \/ Checking \/ Publish \/ BeginInstall \/ Preparing \/ Quitting \/ QuitByUser \/ QuitFails
          \/ Replacing \/ StartByUser \/ Booting \/ PowerCut \/ Cleaned

\* Requests, copies and waits of the updater have deadlines; nobody is obliged to check, to
\* install or to start the launcher.
UpdateFairness == WF_luVars(Preparing) /\ WF_luVars(Quitting) /\ WF_luVars(Replacing) /\ WF_luVars(Booting)

(***************************************************************************)
(* Properties                                                               *)
(***************************************************************************)
LUTypeOK ==
  /\ ctl.candidate \in Version \cup {Nothing} /\ ctl.failed <= UPDATE_RETRIES + 1
  /\ volume.target \in Version \cup {Nothing} /\ volume.images \subseteq Version
  /\ app.st \in {"off", "starting", "up"}

\* What the user starts is there and whole after every step of an update, whatever failed
\* and whenever the power went: only inside the two renames of macOS, after a power cut
\* between them, or when the second rename and its undoing both failed, is there nothing.
ApplicationSurvives ==
  \/ Starts
  \/ worker.pc \in {"put", "restore"}
  \/ volume.cut
  \/ platform = "darwin" /\ upFaults >= 2 /\ volume.previous # Nothing

\* A worker replaces the application only while the launcher that spawned it still wants
\* it: with the quit taken back there is no worker left to swap the application under the
\* running launcher, or to install it when the user quits later for another reason.
NoStrayWorker ==
  worker.parent => app.st = "up" /\ prep.pc \in {"quit", "asked"}

\* A bundle that is moved aside comes back, unless the power went or every rename
\* failed: a launcher whose replacement failed keeps the bundle directory it had.
BundleKept == bundle.back = "" /\ bundle.prev # "none" => powerCuts > 0 \/ upFaults >= 3

\* An install that was begun ends, installed or taken back, and so does a start.
UpdateSettles ==
  /\ (prep.pc # "none" \/ worker.pc # "none") ~> (prep.pc = "none" /\ worker.pc = "none")
  /\ (app.st = "starting") ~> (app.st # "starting")

\* The application outlives every failure of its update: types, a whole application, no
\* worker without a master, no bundle left aside.
UpdateInv == LUTypeOK /\ ApplicationSurvives /\ NoStrayWorker /\ BundleKept

\* An update ends, with an application that starts and one master at every step.
UpdateHolds == []UpdateInv /\ UpdateSettles
=============================================================================
