---------------------------- MODULE LauncherSetup ----------------------------
(***************************************************************************)
(* The launcher's main process around one runtime: start-up, the setup      *)
(* operations a user asks for, and their undoing.                           *)
(*                                                                          *)
(* An operation is a transaction over things no single store owns: the      *)
(* configuration, the tunnel keys, the Codex integration and (on macOS) the *)
(* terminal-managed service, all files a SETUP CHILD PROCESS writes one by  *)
(* one, and the running daemon, which was started from a configuration and  *)
(* answers only to that configuration's control token.  The launcher keeps  *)
(* a checkpoint of the files, stops the runtime, runs the child, starts the *)
(* runtime again, and on any failure restores the files and the runtime.    *)
(* What it tells the user lives in a state file of its own.                 *)
(*                                                                          *)
(* The supervisor's and the route's own steps are RuntimeSupervisor's and   *)
(* IntegrationJournal's: here each is one call with the answers it can give *)
(***************************************************************************)
EXTENDS Naturals, FiniteSets

CONSTANTS
    Setting,             \* the boolean settings in play
    MAX_SETUPS,          \* configurations written (bound of the model)
    MAX_SETUP_FAULTS,    \* failures of a step (bound)
    MAX_BOOTS,           \* launcher starts (bound)
    CommitCanFail,       \* whether the browser may refuse the new mode
    FoundOwners          \* who may manage the installation found (bound of the model)

ASSUME SetupBounds ==
    /\ Setting \subseteq {"bigger", "zeroPro", "approve", "skills", "fresh", "chats", "composer"}
    /\ {MAX_SETUPS, MAX_SETUP_FAULTS, MAX_BOOTS} \subseteq Nat
    /\ CommitCanFail \in BOOLEAN /\ FoundOwners \subseteq {"none", "external", "launcher"}

VARIABLES
    host,       \* [at, ver]: the launcher process, where its start-up is, its version
    disk,       \* [cfg, keys, route, models, svc]: the files a setup changes
    live,       \* the daemon on the port: the configuration it runs, and whose child it is
    op,         \* the operation in progress (lifecycleOperation)
    orphan,     \* a setup child whose launcher no longer waits for it
    store,      \* launcher-state.json
    codex,      \* [busy, seen]: a turn is running; the models of the last catalogue
    spoilt,     \* history: an undo failed, or an orphan wrote after it was let go
    setups, setupFaults, boots

setupVars == <<host, disk, live, op, orphan, store, codex, spoilt, setups, setupFaults, boots>>

Inter == {"automatic", "manual"}
NoTunnels == [m \in Inter |-> 0]
NoConfig == [owner |-> "none", mode |-> "browser", inter |-> "automatic", on |-> {},
             ver |-> 0, legacy |-> FALSE, tun |-> NoTunnels, gen |-> 0]
NoRuntime == [cfg |-> NoConfig, by |-> "nobody", fetched |-> FALSE]
Runtime(c, by) == [cfg |-> c, by |-> by, fetched |-> FALSE]
NoOp == [name |-> "none"]

HasOwner(c) == c.owner # "none"

\* The models the integration offers to Codex depend on these alone.
Models(c) == <<c.inter, c.on \cap {"bigger", "zeroPro"}>>

Offered(c) == IF HasOwner(c) THEN Models(c) ELSE <<>>

-----------------------------------------------------------------------------
(* What setup.ts makes of a request and the configuration it finds.         *)

Interaction(r, c) ==
    CASE r.name \in {"mcp", "mode"} -> r.arg
      [] r.name = "upgrade" \/ (r.name = "core" /\ HasOwner(c)) -> c.inter
      [] OTHER -> store.inter

Toggled(r, c) ==
    IF r.name # "set" THEN c.on
    ELSE IF r.arg \in c.on THEN c.on \ {r.arg} ELSE c.on \cup {r.arg}

\* Setup writes "no automatic approval" whenever the flag is absent, and neither
\* the core nor the MCP setup passes it; an upgrade passes it in Automatic mode.
KeepsApproval(r, c) ==
    /\ r.name \notin {"core", "mcp"}
    /\ r.name = "upgrade" => c.inter = "automatic"

NewConfig(r, c, ver, gen) ==
    LET inter == Interaction(r, c)
        mode == IF r.name = "mcp" THEN "full" ELSE c.mode
        on == (IF KeepsApproval(r, c) THEN Toggled(r, c) ELSE Toggled(r, c) \ {"approve"})
              \ (IF inter = "manual" THEN {"bigger", "skills"} ELSE {})
        tun == IF r.fresh THEN [c.tun EXCEPT ![inter] = gen] ELSE c.tun
    IN [owner |-> "launcher", mode |-> mode, inter |-> inter, on |-> on, ver |-> ver,
        legacy |-> FALSE, tun |-> tun, gen |-> gen]

\* preflightSetup: Zero Risk needs the full harness and refuses what it cannot
\* offer; the full harness needs credentials of its own for the mode.
PreflightPasses(r, d) ==
    LET c == NewConfig(r, d.cfg, host.ver, setups) IN
    /\ c.inter = "manual" => c.mode = "full" /\ Toggled(r, d.cfg) \cap {"bigger", "skills"} \subseteq d.cfg.on
    /\ c.mode = "full" => c.tun[c.inter] # 0 /\ (r.fresh \/ d.keys[c.inter] # 0)

-----------------------------------------------------------------------------
(* The supervisor's two calls, as relations from the runtime before to      *)
(* what they return and the runtime after.                                  *)

Ours(l) == l.by \in {"child", "stale"}

\* A running daemon is taken for the configured one by its health answer, which
\* names the harness mode and the release and nothing else of the configuration.
Healthy(c, l) == l.by # "nobody" /\ l.cfg.mode = c.mode /\ l.cfg.ver = c.ver

\* Its control calls are authorised by the token of its own configuration.
Obeys(c, l) == l.cfg.gen = c.gen

Stands(status, l) == [status |-> status, live |-> l]

Started(c) == {Stands("ready", Runtime(c, "child")), Stands("throws", NoRuntime)}

StartOutcomes(c, l) ==
    CASE c.owner = "none" -> {Stands(IF Ours(l) THEN "external" ELSE "not-configured", l)}
      [] c.owner = "external" -> {Stands("needs-setup", l)}
      [] c.owner = "launcher" /\ c.ver # host.ver ->
            IF l.by # "nobody" /\ ~Obeys(c, l) THEN {Stands("external", l)}
            ELSE {Stands("needs-setup", NoRuntime)}
      [] OTHER ->
            CASE l.by = "nobody" -> Started(c)
              [] l.by = "child" -> IF Healthy(c, l) THEN {Stands("ready", l)}
                                   ELSE {Stands("throws", NoRuntime)}
              [] l.by = "stale" -> IF Obeys(c, l) /\ ~codex.busy THEN Started(c)
                                   ELSE {Stands("external", l)}
              [] OTHER -> {Stands("external", l)}

StopOutcomes(c, l) ==
    CASE c.owner = "external" -> {Stands("throws", l)}
      [] c.owner # "external" /\ l.by = "nobody" -> {Stands("stopped", l)}
      [] c.owner = "none" /\ l.by # "nobody" -> {Stands(IF Ours(l) THEN "throws" ELSE "stopped", l)}
      [] OTHER -> IF Ours(l) /\ Healthy(c, l) /\ Obeys(c, l) /\ ~codex.busy
                  THEN {Stands("stopped", NoRuntime), Stands("throws", l)}
                  ELSE {Stands("throws", l)}

\* A call whose failure the runtime did not force costs one of the bounded faults.
Costs(outcomes, o) ==
    /\ setupFaults' = setupFaults + (IF o.status = "throws" /\ Cardinality(outcomes) > 1 THEN 1 ELSE 0)
    /\ setupFaults' <= MAX_SETUP_FAULTS

CallStart(c, l, o) == o \in StartOutcomes(c, l) /\ Costs(StartOutcomes(c, l), o)
CallStop(c, l, o) == o \in StopOutcomes(c, l) /\ Costs(StopOutcomes(c, l), o)
Outcome == [status : {"ready", "throws", "external", "needs-setup", "not-configured", "stopped"},
            live : {live, NoRuntime, Runtime(disk.cfg, "child")}]

Fault == setupFaults < MAX_SETUP_FAULTS /\ setupFaults' = setupFaults + 1

-----------------------------------------------------------------------------
(* The operations a user asks for: one at a time (currentOperation), none   *)
(* before start-up has ended (runtimeChannels), none beside a child that    *)
(* would not die, and some of them not while a Codex turn has a tab.  The   *)
(* window offers the settings once the integration is installed.            *)

Free == host.at = "ready" /\ op = NoOp /\ orphan = NoOp

BeginOp(name, arg, fresh, at) ==
    /\ op' = [name |-> name, arg |-> arg, fresh |-> fresh, prev |-> disk.cfg, copy |-> disk,
              at |-> at, child |-> FALSE, tried |-> FALSE]
    /\ UNCHANGED <<disk, live, orphan, codex, spoilt, setupFaults, boots>>

BeginSetup(name, arg, fresh) ==
    /\ setups' = setups + 1
    /\ BeginOp(name, arg, fresh, "preflight")
    /\ UNCHANGED store

SetupCore ==
    /\ Free /\ setups < MAX_SETUPS /\ UNCHANGED host
    /\ ~HasOwner(disk.cfg) => store.inter = "automatic"
    /\ BeginSetup("core", "none", FALSE)

HasCredentials(m) == disk.cfg.mode = "full" /\ disk.cfg.tun[m] # 0 /\ disk.keys[m] # 0

SetupMcp(m, replace) ==
    /\ Free /\ setups < MAX_SETUPS /\ UNCHANGED host
    /\ BeginSetup("mcp", m, replace \/ ~HasCredentials(m))

SetInteractionMode(m) ==
    /\ Free /\ setups < MAX_SETUPS /\ UNCHANGED host
    /\ HasOwner(disk.cfg) /\ store.core /\ store.inter # m /\ HasCredentials(m) /\ ~codex.busy
    /\ BeginSetup("mode", m, FALSE)

Available(s) ==
    /\ s \in {"skills", "approve", "fresh"} => disk.cfg.inter = "automatic"
    /\ s = "zeroPro" => disk.cfg.inter = "manual" /\ disk.cfg.mode = "full"

SetSetting(s) ==
    /\ Free /\ setups < MAX_SETUPS /\ UNCHANGED host
    /\ HasOwner(disk.cfg) /\ store.core /\ Available(s) /\ (codex.busy => s = "bigger")
    /\ BeginSetup("set", s, FALSE)

Rename ==
    /\ Free /\ setups < MAX_SETUPS /\ UNCHANGED host
    /\ HasOwner(disk.cfg) /\ store.core /\ ~codex.busy
    /\ BeginSetup("rename", "none", FALSE)

UninstallAll ==
    /\ Free /\ UNCHANGED <<host, store, setups>>
    /\ BeginOp("uninstall", "none", FALSE, "halt")

\* The doctor and then the connector: what becomes of it is one flag.
VerifyMcp ==
    /\ Free
    /\ \E ok \in BOOLEAN :
          /\ ok => disk.cfg.mode = "full" /\ live.by = "child"
          /\ store' = [store EXCEPT !.mcpDone = ok]
    /\ UNCHANGED <<host, disk, live, op, orphan, codex, spoilt, setups, setupFaults, boots>>

-----------------------------------------------------------------------------
(* One setup: preflight, stop, the child's own steps, start, commit.        *)

OpAt(p) == op.name # "none" /\ op.at = p
OpGoes(p) == op' = [op EXCEPT !.at = p]

Preflight ==
    /\ OpAt("preflight")
    /\ \/ PreflightPasses(op, disk) /\ OpGoes("stop") /\ UNCHANGED setupFaults
       \/ ~PreflightPasses(op, disk) /\ OpGoes("failed") /\ UNCHANGED setupFaults
       \/ Fault /\ OpGoes("failed")
    /\ UNCHANGED <<host, disk, live, orphan, store, codex, spoilt, setups, boots>>

\* A terminal-managed installation is left to the child to take over; the
\* launcher only makes sure that nothing of its own is running beside it.
StopRuntime ==
    /\ OpAt("stop")
    /\ \E o \in Outcome :
          /\ IF op.prev.owner = "external"
             THEN /\ o = Stands(IF Ours(live) THEN "throws" ELSE "stopped", live)
                  /\ UNCHANGED setupFaults
             ELSE CallStop(disk.cfg, live, o)
          /\ live' = o.live
          /\ IF o.status = "stopped" THEN op' = [op EXCEPT !.at = "keys", !.child = TRUE]
             ELSE OpGoes("undo")
    /\ UNCHANGED <<host, disk, orphan, store, codex, spoilt, setups, boots>>

\* setup.ts: the key file, then the takeover of a terminal-managed service, then
\* the configuration, then the Codex integration.
NextStep(at) == CASE at = "keys" -> "service" [] at = "service" -> "save"
                  [] at = "save" -> "install" [] OTHER -> "start"

ChildStep(o, cfg) ==
    CASE o.at = "keys" -> [disk EXCEPT !.keys = IF o.fresh THEN [@ EXCEPT ![cfg.inter] = cfg.tun[cfg.inter]] ELSE @]
      [] o.at = "service" -> [disk EXCEPT !.svc = FALSE]
      [] o.at = "save" -> [disk EXCEPT !.cfg = cfg]
      [] o.at = "install" ->
            [disk EXCEPT !.models = Models(cfg),
                         !.route = IF o.name = "upgrade" /\ @ \in {"off", "recover"} THEN @ ELSE "active"]

\* uninstallService stops the daemon it removes.
ChildRuntime(o) == IF o.at = "service" /\ live.by = "service" THEN NoRuntime ELSE live

InChild(o) == o.name # "none" /\ o.at \in {"keys", "service", "save", "install"}
ConfigOf(o) == NewConfig(o, o.prev, host.ver, setups)

RunChild ==
    /\ InChild(op)
    /\ disk' = ChildStep(op, ConfigOf(op))
    /\ live' = ChildRuntime(op)
    /\ OpGoes(NextStep(op.at))
    /\ UNCHANGED <<host, orphan, store, codex, spoilt, setups, setupFaults, boots>>

\* The child fails, or is killed at its time limit.  One that will not die is
\* reported dead all the same, and the undo begins beside it.
ChildFails ==
    /\ InChild(op) /\ Fault
    /\ \E survives \in BOOLEAN :
          orphan' = IF survives THEN [op EXCEPT !.prev = ConfigOf(op)] ELSE orphan
    /\ OpGoes("undo")
    /\ UNCHANGED <<host, disk, live, store, codex, spoilt, setups, boots>>

\* (An orphan carries the configuration it was about to write.)
OrphanRuns ==
    /\ orphan # NoOp
    /\ disk' = ChildStep(orphan, orphan.prev)
    /\ live' = ChildRuntime(orphan)
    /\ orphan' = IF orphan.at = "install" THEN NoOp ELSE [orphan EXCEPT !.at = NextStep(@)]
    /\ spoilt' = (spoilt \/ disk' # disk)
    /\ UNCHANGED <<host, op, store, codex, setups, setupFaults, boots>>

OrphanDies ==
    /\ orphan # NoOp
    /\ orphan' = NoOp
    /\ UNCHANGED <<host, disk, live, op, store, codex, spoilt, setups, setupFaults, boots>>

StartNew ==
    /\ OpAt("start")
    /\ \E o \in Outcome :
          /\ CallStart(disk.cfg, live, o)
          /\ live' = o.live
          /\ op' = [op EXCEPT !.tried = TRUE, !.at = IF o.status = "ready" THEN "commit" ELSE "undo"]
    /\ UNCHANGED <<host, disk, orphan, store, codex, spoilt, setups, boots>>

-----------------------------------------------------------------------------
(* The end of an operation that succeeded: the handler's own state.         *)

Copies(S, on, cfg) == (on \ S) \cup (cfg.on \cap S)
CoreCopies == {"zeroPro", "fresh", "chats", "approve"}

Recorded(o, s, cfg) ==
    LET reset == [s EXCEPT !.core = TRUE, !.verified = FALSE, !.restart = TRUE, !.mcpDone = FALSE] IN
    CASE o.name = "core" -> [reset EXCEPT !.on = Copies(CoreCopies, @, cfg), !.mcp = cfg.mode = "full"]
      [] o.name = "mcp" -> [reset EXCEPT !.inter = o.arg, !.mcp = TRUE,
                              !.on = Copies(CoreCopies, @, cfg) \ (IF o.arg = "manual" THEN {"bigger", "skills"} ELSE {})]
      [] o.name = "mode" -> [s EXCEPT !.inter = o.arg, !.verified = FALSE, !.restart = TRUE,
                              !.on = Copies(CoreCopies \ {"zeroPro"}, @, cfg)
                                     \ (IF o.arg = "manual" THEN {"bigger", "skills"} ELSE {})]
      [] o.name = "set" -> [s EXCEPT !.on = Copies({o.arg}, @, cfg),
                              !.verified = @ /\ o.arg \notin {"bigger", "zeroPro"},
                              !.restart = @ \/ o.arg \in {"bigger", "zeroPro"}]
      [] o.name = "rename" -> [s EXCEPT !.mcpDone = FALSE]
      [] o.name = "upgrade" -> [reset EXCEPT !.on = cfg.on \cup (@ \cap {"composer"}), !.mcp = cfg.mode = "full"]

\* The browser's own part of a mode change happens inside the rollback boundary.
Commit ==
    /\ OpAt("commit")
    /\ \/ /\ op' = NoOp
          /\ store' = Recorded(op, store, disk.cfg)
          /\ host' = [host EXCEPT !.at = IF op.name = "upgrade" THEN "sync" ELSE @]
          /\ UNCHANGED setupFaults
       \/ /\ CommitCanFail /\ op.name \in {"mcp", "mode"} /\ op.arg # store.inter
          /\ Fault /\ OpGoes("undo")
          /\ UNCHANGED <<store, host>>
    /\ UNCHANGED <<disk, live, orphan, codex, spoilt, setups, boots>>

-----------------------------------------------------------------------------
(* Undoing.                                                                 *)

\* An upgrade cannot run the older configuration again: it stops the candidate
\* before it restores the files, and leaves the rest to the next start.
Compatible(o) == o.name = "upgrade" => o.prev.ver = host.ver

\* A first setup is stopped whatever became of it; so is a candidate the older
\* files would not fit.
StopsFirst(o) == IF HasOwner(o.prev) THEN ~Compatible(o) /\ o.tried ELSE o.child

\* Everything the checkpoint names is written back, one file after the other:
\* a file that cannot be is reported, and the others are restored all the same.
Restored(copy, lost) ==
    [f \in DOMAIN disk |-> IF f \in lost THEN disk[f] ELSE copy[f]]

RestoreFiles ==
    \/ disk' = op.copy /\ UNCHANGED <<spoilt, setupFaults>>
    \/ \E f \in {"cfg", "keys", "models"} :
          /\ Fault
          /\ disk' = Restored(op.copy, IF f = "models" THEN {"models", "route"} ELSE {f})
          /\ spoilt' = (spoilt \/ disk' # op.copy)

UndoSetup ==
    /\ OpAt("undo")
    /\ IF HasOwner(op.prev) \/ op.child
       THEN \E o \in Outcome \cup {Stands("stopped", live)} :
              /\ IF StopsFirst(op) THEN o \in StopOutcomes(disk.cfg, live) ELSE o = Stands("stopped", live)
              /\ live' = o.live
              \* Only the first setup restores its files although the stop failed.
              /\ IF o.status = "stopped" \/ ~HasOwner(op.prev) THEN RestoreFiles
                 ELSE spoilt' = TRUE /\ UNCHANGED <<disk, setupFaults>>
       ELSE UNCHANGED <<disk, live, spoilt, setupFaults>>
    /\ OpGoes(IF Compatible(op) THEN "recover" ELSE "failed")
    /\ UNCHANGED <<host, orphan, store, codex, setups, boots>>

\* Only a configuration that is the one before is started again.  A terminal-
\* managed installation is repaired with its own commands.
RecoverPrevious ==
    /\ OpAt("recover")
    /\ CASE disk.cfg # op.prev -> UNCHANGED <<live, setupFaults>>
         [] disk.cfg = op.prev /\ op.prev.owner = "external" ->
               /\ live' = IF live.by = "nobody" /\ disk.svc THEN Runtime(op.prev, "service") ELSE live
               /\ UNCHANGED setupFaults
         [] OTHER -> \E o \in Outcome : CallStart(disk.cfg, live, o) /\ live' = o.live
    /\ OpGoes("failed")
    /\ UNCHANGED <<host, disk, orphan, store, codex, spoilt, setups, boots>>

\* The operation's error reaches the window; a failed upgrade ends start-up's
\* first part and sends it to the fail-safe.
Fails ==
    /\ OpAt("failed")
    /\ op' = NoOp
    /\ host' = [host EXCEPT !.at = IF op.name = "upgrade" THEN "failsafe" ELSE @]
    /\ UNCHANGED <<disk, live, orphan, store, codex, spoilt, setups, setupFaults, boots>>

-----------------------------------------------------------------------------
(* Removing the integration.                                                *)

Halt ==
    /\ OpAt("halt")
    /\ \E o \in Outcome :
          /\ IF disk.cfg.owner = "external"
             THEN o = Stands(IF Ours(live) THEN "throws" ELSE "stopped", live) /\ UNCHANGED setupFaults
             ELSE CallStop(disk.cfg, live, o)
          /\ live' = o.live
          /\ OpGoes(IF o.status = "stopped" THEN "remove" ELSE "release")
    /\ UNCHANGED <<host, disk, orphan, store, codex, spoilt, setups, boots>>

Emptied == [store EXCEPT !.core = FALSE, !.verified = FALSE, !.restart = TRUE, !.mcp = FALSE,
                         !.mcpDone = FALSE, !.inter = "automatic", !.on = {}]

Remove ==
    /\ OpAt("remove")
    /\ \/ /\ disk' = [cfg |-> NoConfig, keys |-> NoTunnels, route |-> "none", models |-> <<>>, svc |-> FALSE]
          /\ live' = IF live.by = "service" THEN NoRuntime ELSE live
          /\ store' = Emptied /\ op' = NoOp /\ spoilt' = FALSE
          /\ UNCHANGED setupFaults
       \/ /\ Fault /\ OpGoes("release")
          /\ UNCHANGED <<disk, live, store, spoilt>>
    /\ UNCHANGED <<host, orphan, codex, setups, boots>>

\* Codex is at least given back its own route when the removal fails.
Release ==
    /\ OpAt("release")
    /\ \/ disk' = [disk EXCEPT !.route = IF @ = "none" THEN @ ELSE "off"] /\ UNCHANGED setupFaults
       \/ Fault /\ UNCHANGED disk
    /\ OpGoes("failed")
    /\ UNCHANGED <<host, live, orphan, store, codex, spoilt, setups, boots>>

-----------------------------------------------------------------------------
(* Start-up: boot -> upgrade? -> sync -> start -> route -> ready, or the    *)
(* fail-safe that gives Codex its previous route back.                      *)

Boot ==
    /\ host.at = "down" /\ boots < MAX_BOOTS
    /\ \E v \in {host.ver, host.ver + 1} : host' = [at |-> "upgrade", ver |-> v]
    /\ boots' = boots + 1
    /\ store' = IF HasOwner(disk.cfg) THEN [store EXCEPT !.inter = disk.cfg.inter] ELSE store
    /\ UNCHANGED <<disk, live, op, orphan, codex, spoilt, setups, setupFaults>>

UpgradeManaged ==
    /\ host.at = "upgrade" /\ op = NoOp
    /\ LET c == disk.cfg IN
       CASE c.owner # "launcher" \/ (c.ver = host.ver /\ ~c.legacy) ->
               /\ host' = [host EXCEPT !.at = "sync"]
               /\ UNCHANGED <<disk, live, op, orphan, store, codex, spoilt, setups, setupFaults, boots>>
         [] c.owner = "launcher" /\ c.ver > host.ver ->
               /\ host' = [host EXCEPT !.at = "failsafe"]
               /\ UNCHANGED <<disk, live, op, orphan, store, codex, spoilt, setups, setupFaults, boots>>
         [] OTHER -> BeginSetup("upgrade", "none", FALSE) /\ UNCHANGED host

\* The settings of the configuration win over the launcher's own.
SyncSettings ==
    /\ host.at = "sync"
    /\ host' = [host EXCEPT !.at = "start"]
    /\ store' = IF HasOwner(disk.cfg) THEN [store EXCEPT !.on = disk.cfg.on] ELSE store
    /\ UNCHANGED <<disk, live, op, orphan, codex, spoilt, setups, setupFaults, boots>>

StartConfigured ==
    /\ host.at = "start"
    /\ \E o \in Outcome :
          /\ CallStart(disk.cfg, live, o)
          /\ live' = o.live
          /\ host' = [host EXCEPT !.at = CASE o.status = "ready" -> "route"
                                            [] o.status = "not-configured" -> "unset"
                                            [] OTHER -> "failsafe"]
    /\ UNCHANGED <<disk, op, orphan, store, codex, spoilt, setups, boots>>

\* A route the user left disconnected stays so; one that a failed start took away
\* comes back.
ConnectRoute ==
    /\ host.at = "route"
    /\ \/ /\ disk.route \in {"active", "off"}
          /\ host' = [host EXCEPT !.at = "settle"]
          /\ UNCHANGED <<disk, live, store, setupFaults>>
       \/ /\ disk.route = "recover"
          /\ disk' = [disk EXCEPT !.route = "active"]
          /\ store' = [store EXCEPT !.verified = FALSE, !.restart = TRUE]
          /\ host' = [host EXCEPT !.at = "settle"]
          /\ UNCHANGED <<live, setupFaults>>
       \/ /\ disk.route \in {"none", "recover"}
          /\ IF disk.route = "recover" THEN Fault ELSE UNCHANGED setupFaults
          /\ \E o \in StopOutcomes(disk.cfg, live) :
                live' = IF disk.route = "recover" THEN o.live ELSE live
          /\ host' = [host EXCEPT !.at = "failsafe"]
          /\ UNCHANGED <<disk, store>>
    /\ UNCHANGED <<op, orphan, codex, spoilt, setups, boots>>

Settle ==
    /\ host.at = "settle"
    /\ host' = [host EXCEPT !.at = "ready"]
    /\ store' = [store EXCEPT !.core = TRUE, !.mcp = disk.cfg.mode = "full", !.on = disk.cfg.on,
                              !.mcpDone = @ /\ disk.cfg.mode = "full"]
    /\ UNCHANGED <<disk, live, op, orphan, codex, spoilt, setups, setupFaults, boots>>

\* (A mutant: the fail-safe's own failure is not caught, and start-up is left open.)
FailSafeUncaught ==
    /\ host.at \in {"unset", "failsafe"}
    /\ \/ /\ disk' = [disk EXCEPT !.route = IF @ = "active" THEN "recover" ELSE @]
          /\ store' = [store EXCEPT !.core = FALSE, !.verified = FALSE]
          /\ host' = [host EXCEPT !.at = "ready"]
          /\ UNCHANGED setupFaults
       \/ Fault /\ host' = [host EXCEPT !.at = "lost"] /\ UNCHANGED <<disk, store>>
    /\ UNCHANGED <<live, op, orphan, codex, spoilt, setups, boots>>

\* restoreCodexRouteAfterRuntimeFailure, and what the launcher then says of itself.
FailSafe ==
    /\ host.at \in {"unset", "failsafe"}
    /\ LET gone == host.at = "unset"
           said == [store EXCEPT !.core = FALSE, !.verified = FALSE,
                                 !.mcp = @ /\ ~gone, !.mcpDone = @ /\ ~gone]
       IN \/ /\ disk' = [disk EXCEPT !.route = IF @ = "active" THEN "recover" ELSE @]
             /\ store' = [said EXCEPT !.restart = @ \/ disk.route # "none"]
             /\ UNCHANGED setupFaults
          \/ Fault /\ store' = said /\ UNCHANGED disk
    /\ host' = [host EXCEPT !.at = "ready"]
    /\ UNCHANGED <<live, op, orphan, codex, spoilt, setups, boots>>

-----------------------------------------------------------------------------
(* Codex, the monitor of its catalogue, the user, the machine.              *)

Routed == disk.route = "active" /\ live.by # "nobody"

TurnStarts ==
    /\ Routed /\ ~codex.busy
    /\ codex' = [codex EXCEPT !.busy = TRUE]
    /\ UNCHANGED <<host, disk, live, op, orphan, store, spoilt, setups, setupFaults, boots>>

\* (A turn ends on its own, with its daemon, or because the user cancels it.)
TurnEnds ==
    /\ codex.busy
    /\ codex' = [codex EXCEPT !.busy = FALSE]
    /\ UNCHANGED <<host, disk, live, op, orphan, store, spoilt, setups, setupFaults, boots>>

Fetch ==
    /\ Routed /\ Ours(live)
    /\ codex' = [codex EXCEPT !.seen = Models(live.cfg)]
    /\ live' = [live EXCEPT !.fetched = TRUE]
    /\ UNCHANGED <<host, disk, op, orphan, store, spoilt, setups, setupFaults, boots>>

\* The monitor asks the daemon that runs how many catalogues it has served.
Monitor ==
    /\ host.at = "ready" /\ store.core /\ ~store.verified
    /\ live.fetched
    /\ store' = [store EXCEPT !.verified = TRUE, !.restart = FALSE]
    /\ UNCHANGED <<host, disk, live, op, orphan, codex, spoilt, setups, setupFaults, boots>>

UserDisconnects ==
    /\ op = NoOp /\ orphan = NoOp /\ host.at \in {"ready", "down"}
    /\ disk.route = "active"
    /\ disk' = [disk EXCEPT !.route = "off"]
    /\ UNCHANGED <<host, live, op, orphan, store, codex, spoilt, setups, setupFaults, boots>>

\* Quitting waits for the operation and stops the daemon, its turns cancelled.
Quit ==
    /\ host.at = "ready" /\ op = NoOp /\ orphan = NoOp
    /\ live.by = "child" => Obeys(disk.cfg, live)
    /\ host' = [host EXCEPT !.at = "down"]
    /\ live' = IF live.by = "child" THEN NoRuntime ELSE live
    /\ codex' = [codex EXCEPT !.busy = FALSE]
    /\ UNCHANGED <<disk, op, orphan, store, spoilt, setups, setupFaults, boots>>

\* The launcher dies: its daemon and its setup child may go on without it.
LauncherDies ==
    /\ host.at # "down" /\ boots < MAX_BOOTS /\ orphan = NoOp
    /\ Fault
    /\ host' = [host EXCEPT !.at = "down"]
    /\ \E daemonSurvives, childSurvives \in BOOLEAN :
          /\ live' = CASE live.by = "child" -> IF daemonSurvives THEN [live EXCEPT !.by = "stale"] ELSE NoRuntime
                       [] OTHER -> live
          /\ orphan' = IF InChild(op) /\ childSurvives THEN [op EXCEPT !.prev = ConfigOf(op)] ELSE NoOp
    /\ op' = NoOp
    /\ spoilt' = (spoilt \/ op # NoOp)
    /\ UNCHANGED <<disk, store, codex, setups, boots>>

-----------------------------------------------------------------------------
External == [NoConfig EXCEPT !.owner = "external", !.mode = "full", !.ver = 1,
                             !.tun = [NoTunnels EXCEPT !["automatic"] = 1], !.gen = 1]
Managed(m, inter, ver, on) ==
    [owner |-> "launcher", mode |-> m, inter |-> inter, on |-> on, ver |-> ver, legacy |-> FALSE,
     tun |-> IF m = "full" THEN [i \in Inter |-> 1] ELSE NoTunnels, gen |-> 1]

\* A machine as the launcher finds it: nothing, a terminal-managed installation, or
\* its own, of this version or the one before.
Found == {NoConfig, External, Managed("browser", "automatic", 1, {}), [Managed("full", "automatic", 2, Setting \cap {"bigger", "approve"}) EXCEPT !.legacy = TRUE],
          Managed("full", "manual", 2, Setting \cap {"zeroPro"})}

LSInit ==
    /\ setups = 1 /\ setupFaults = 0 /\ boots = 0
    /\ op = NoOp /\ orphan = NoOp /\ spoilt = FALSE
    /\ host = [at |-> "down", ver |-> 2]
    /\ \E c \in {f \in Found : f.owner \in FoundOwners} :
          /\ disk = [cfg |-> c, keys |-> c.tun, route |-> IF HasOwner(c) THEN "active" ELSE "none",
                     models |-> Offered(c), svc |-> c.owner = "external"]
          /\ live = IF c.owner = "external" THEN Runtime(c, "service") ELSE NoRuntime
          /\ LET ours == c.owner = "launcher"
             IN /\ store = [core |-> ours, verified |-> ours, restart |-> FALSE, mcp |-> ours /\ c.mode = "full",
                            mcpDone |-> ours /\ c.mode = "full", inter |-> c.inter, on |-> c.on]
                /\ codex = [busy |-> FALSE, seen |-> IF ours THEN Models(c) ELSE <<>>]

OperationStep ==
    \/ Preflight \/ StopRuntime \/ RunChild \/ ChildFails \/ StartNew \/ Commit
    \/ UndoSetup \/ RecoverPrevious \/ Fails \/ Halt \/ Remove \/ Release

StartupStep ==
    \/ UpgradeManaged \/ SyncSettings \/ StartConfigured \/ ConnectRoute \/ Settle \/ FailSafe

LSNext ==
    \/ SetupCore \/ Rename \/ UninstallAll \/ VerifyMcp
    \/ \E m \in Inter : SetInteractionMode(m) \/ (\E replace \in BOOLEAN : SetupMcp(m, replace))
    \/ \E s \in Setting : SetSetting(s)
    \/ OperationStep \/ StartupStep \/ OrphanRuns \/ OrphanDies
    \/ Boot \/ TurnStarts \/ TurnEnds \/ Fetch \/ Monitor \/ UserDisconnects \/ Quit \/ LauncherDies

\* Commands and health checks have deadlines; users and turns owe nothing.
SetupFairness == WF_setupVars(OperationStep) /\ WF_setupVars(StartupStep)
LSSpec == LSInit /\ [][LSNext]_setupVars /\ SetupFairness

-----------------------------------------------------------------------------
(* Properties.                                                              *)

AtRest == host.at = "ready" /\ op = NoOp /\ orphan = NoOp /\ ~spoilt

\* The daemon the launcher runs was started from the configuration on disk, whose
\* token is the only one that can stop it (runtime.cjs:1610, "Never restore old
\* process inputs underneath a live candidate").
RuntimeFitsItsConfig == AtRest /\ live.by = "child" => live.cfg = disk.cfg

\* At rest the stores agree: the daemon, the tunnel's identity and its key, the
\* models installed in Codex, the launcher's own settings and its claim that Codex
\* has seen the models.  An operation that failed has put every file back.
SetupInv ==
    /\ RuntimeFitsItsConfig
    /\ AtRest =>
          /\ disk.cfg.mode = "full" => disk.keys[disk.cfg.inter] = disk.cfg.tun[disk.cfg.inter]
          /\ disk.cfg.owner = "launcher" /\ disk.route # "none" => disk.models = Models(disk.cfg)
          /\ store.core => store.on = disk.cfg.on /\ store.inter = disk.cfg.inter
          /\ store.mcpDone => disk.cfg.mode = "full"
          /\ store.verified /\ disk.route = "active" => codex.seen = Models(disk.cfg)
    /\ OpAt("failed") /\ op.name # "uninstall" /\ ~spoilt => disk = op.copy
    /\ store.verified => ~store.restart

\* Every operation ends, and start-up always reaches the point where the window's
\* operations are let through (finishRuntimeStartup).
SetupSettles ==
    /\ op # NoOp ~> op = NoOp
    /\ host.at = "upgrade" ~> host.at \in {"ready", "down"}

\* Set-ups, settings and starts of the launcher end, and leave the stores in agreement.
SetupHolds == []SetupInv /\ SetupSettles
=============================================================================
