-------------------------- MODULE DaemonLifecycle --------------------------
(***************************************************************************)
(* The processes of the desktop application and the files they find each   *)
(* other by: the GUI (app/setup.rs, app/exit.rs, app/daemon.rs), the       *)
(* daemon it spawns (daemon/mod.rs), the easytier-core the daemon spawns   *)
(* (easytier/process.rs), and the cleaning up after processes of earlier   *)
(* sessions (cleanup.rs), on Linux.                                        *)
(*                                                                         *)
(* One GUI runs at a time.  Session n of it spawns daemon n, and daemon n  *)
(* spawns core n.  Every process may be killed between any two steps.      *)
(***************************************************************************)
EXTENDS Naturals

CONSTANTS MaxSessions,  \* bound: sessions of the GUI
          Tries,        \* 10 in the code: how many ports the daemon tries
          Foreign,      \* IPC ports that another program may listen on
          Edits,        \* IPC ports that the user may configure
          Rpc,          \* the RPC port of the core, which is no IPC port
          MaxFaults,    \* bound: processes killed, ports taken, settings changed
          None          \* no file, no target

Ids == 1..MaxSessions

ASSUME NumbersAssumption == MaxSessions \in Nat /\ Tries \in Nat \ {0} /\ MaxFaults \in Nat
ASSUME PortsAssumption == Foreign \subseteq Nat /\ Edits \subseteq Nat
ASSUME NoneAssumption == None \notin Nat /\ Rpc \notin Nat \cup {None}

VARIABLES
    gui,       \* session number, place, whether it is exiting, daemon being ended
    cport,     \* the port of the IpcClient made at the start (spaces)
    gport,     \* the port of GLOBAL_IPC, set by its first use (exit, logs)
    ready,     \* DaemonReadyState.ready
    poll,      \* the thread that polls for readiness: where it is
    seen,      \* the port it has read from the state file
    config,    \* DAEMON_IPC_PORT in the configuration file
    gconfig,   \* the GUI's copy of it, reloaded when the file has changed
    daemon,    \* per daemon: where it is
    dport,     \* the port it starts to try from, then the one it listens on
    boot,      \* its boot task
    core,      \* per core: "none", "starting", "listening", "dead"
    pidfile,   \* easytier-core.pid
    state,     \* daemon_state.json: the port in it
    signal,    \* daemon_ready.signal
    foreign,   \* the ports that other programs do listen on
    faults,    \* how many of them there were
    cause      \* ghost: what has gone wrong so far

files == <<pidfile, state, signal, config, foreign>>
client == <<cport, gport, ready, poll, seen>>
vars == <<gui, client, gconfig, daemon, dport, boot, core, files, faults, cause>>

\* "lost": a core was killed.  "unseen": cleaning up without a PID file missed a
\* core that was not listening yet, or lsof failed.  "twins": a session started
\* beside an earlier daemon that lsof did not show on the configured port.
\* In this session: "moved", the configured port was taken; "edited", it was
\* changed by the user; "stale", the poll had read
\* the files of an earlier daemon when the new one removed them; "squat", what
\* answered the poll was another program.
Causes == {"lost", "unseen", "twins", "moved", "edited", "stale", "squat"}

Init ==
    /\ gui = [n |-> 0, at |-> "off", exiting |-> FALSE, end |-> None]
    /\ cport = None /\ gport = None /\ ready = FALSE /\ poll = "off" /\ seen = None
    /\ config = 0 /\ gconfig = 0
    /\ daemon = [d \in Ids |-> "none"] /\ dport = [d \in Ids |-> None]
    /\ boot = [d \in Ids |-> "none"] /\ core = [c \in Ids |-> "none"]
    /\ pidfile = None /\ state = None /\ signal = FALSE
    /\ foreign = {} /\ faults = 0 /\ cause = {}

Alive(d) == daemon[d] \notin {"none", "dead"}
CoreAlive(c) == core[c] \in {"starting", "listening"}
Listens(d) == daemon[d] \in {"publish", "serve", "stop", "leave"}
\* What a process knows ends with it.
EndDaemon(d) ==
    /\ daemon' = [daemon EXCEPT ![d] = "dead"]
    /\ dport' = [dport EXCEPT ![d] = None] /\ boot' = [boot EXCEPT ![d] = "none"]
EndGui(left) ==
    /\ gui' = [gui EXCEPT !.at = "off", !.exiting = left]
    /\ cport' = None /\ gport' = None /\ ready' = FALSE /\ gconfig' = 0
    /\ poll' = "off" /\ seen' = None
EndCore(c) == core' = [core EXCEPT ![c] = "dead"]

Taken(p) ==
    \/ p \in foreign
    \/ \E d \in Ids : Listens(d) /\ dport[d] = p
    \/ p = Rpc /\ \E c \in Ids : core[c] = "listening"

\* What comes from outside the application comes MaxFaults times at most.
Fault == faults < MaxFaults /\ faults' = faults + 1

-----------------------------------------------------------------------------
(* cleanup_easytier_daemon, called by the GUI and by a daemon without a    *)
(* handle of its core: by PID file, and only without one by port.          *)

\* Mutant: the PID file is not looked at.
CleanByPort ==
    /\ \/ \E c \in Ids : core[c] = "listening" /\ EndCore(c)
       \/ (\A c \in Ids : core[c] # "listening") /\ UNCHANGED core
    /\ pidfile' = None /\ UNCHANGED cause

\* The last alternative: find_listener_pid finds none, because no core listens
\* or because lsof fails.
cleanup_easytier_daemon ==
    \/ /\ pidfile # None /\ ~CoreAlive(pidfile)
       /\ pidfile' = None
       /\ UNCHANGED <<core, cause>>
    \/ /\ pidfile # None /\ CoreAlive(pidfile)
       /\ EndCore(pidfile) /\ pidfile' = None
       /\ UNCHANGED cause
    \/ /\ pidfile = None
       /\ \E c \in Ids : core[c] = "listening" /\ EndCore(c)
       /\ UNCHANGED <<pidfile, cause>>
    \/ /\ pidfile = None
       /\ cause' = cause \cup (IF \E c \in Ids : CoreAlive(c) THEN {"unseen"} ELSE {})
       /\ UNCHANGED <<core, pidfile>>

-----------------------------------------------------------------------------
(* The GUI                                                                 *)

GuiAt(a) == gui.at = a
GuiGoto(a) == gui' = [gui EXCEPT !.at = a]

\* The configuration is read before anything else.
GuiStart ==
    /\ GuiAt("off") /\ gui.n < MaxSessions
    /\ gui' = [n |-> gui.n + 1, at |-> "sweep", exiting |-> FALSE, end |-> None]
    /\ gconfig' = config
    /\ cause' = cause \ ({"moved", "stale", "squat"} \cup
                         IF state = None /\ \A d \in Ids : ~Alive(d) THEN {"edited"} ELSE {})
    /\ UNCHANGED <<client, daemon, dport, boot, core, files, faults>>

\* cleanup_orphan_daemon: the daemon that listens on the configured port, if lsof
\* shows it.
Sweep ==
    /\ GuiAt("sweep")
    /\ \/ \E d \in Ids :
            /\ Listens(d) /\ dport[d] = gconfig
            /\ gui' = [gui EXCEPT !.at = "term", !.end = d]
            /\ \/ daemon[d] = "publish" /\ EndDaemon(d)
               \/ /\ daemon[d] # "publish"
                  /\ daemon' = [daemon EXCEPT ![d] = IF @ = "serve" THEN "stop" ELSE @]
                  /\ UNCHANGED <<dport, boot>>
            /\ UNCHANGED cause
       \/ /\ GuiGoto("clean")
          /\ cause' = cause \cup (IF ~gui.exiting /\ (\E d \in Ids : Alive(d)) THEN {"twins"} ELSE {})
          /\ UNCHANGED <<daemon, dport, boot>>
    /\ UNCHANGED <<client, gconfig, core, files, faults>>

\* terminate_process: five seconds for the SIGTERM, then SIGKILL.
Terminate ==
    /\ GuiAt("term")
    /\ \/ daemon[gui.end] = "dead" /\ UNCHANGED <<daemon, dport, boot>>
       \/ daemon[gui.end] # "dead" /\ EndDaemon(gui.end)
    /\ gui' = [gui EXCEPT !.at = "clean", !.end = None]
    /\ UNCHANGED <<client, gconfig, core, files, faults, cause>>

CleanCore ==
    /\ GuiAt("clean")
    /\ cleanup_easytier_daemon
    /\ \/ gui.exiting /\ EndGui(TRUE)
       \/ ~gui.exiting /\ GuiGoto("spawn") /\ UNCHANGED <<client, gconfig>>
    /\ UNCHANGED <<daemon, dport, boot, state, signal, config, foreign, faults>>

\* Without a daemon the GUI goes on, and nothing is polled.
spawn_daemon ==
    /\ GuiAt("spawn")
    /\ \/ daemon' = [daemon EXCEPT ![gui.n] = "new"] /\ poll' = "idle"
       \/ UNCHANGED <<daemon, poll>>
    /\ GuiGoto("client")
    /\ UNCHANGED <<cport, gport, ready, seen, gconfig, dport, boot, core, files, faults, cause>>

\* from_data_dir: the client is made at once, whatever the daemon has written.
\* Mutant: without a state file the default port is taken, not the configured one.
MakeClientAtDefault ==
    /\ GuiAt("client")
    /\ cport' = IF state # None THEN state ELSE 0
    /\ GuiGoto("up")
    /\ UNCHANGED <<gport, ready, poll, seen, cause, gconfig, daemon, dport, boot, core, files, faults>>

MakeClient ==
    /\ GuiAt("client")
    /\ cport' = IF state # None THEN state ELSE gconfig
    /\ GuiGoto("up")
    /\ UNCHANGED <<gport, ready, poll, seen, cause, gconfig, daemon, dport, boot, core, files, faults>>

(* One round of the thread that polls for readiness: its own process and   *)
(* the signal file, the port in the state file, a connection to it.        *)

PollFrame == UNCHANGED <<gui, cport, gport, gconfig, daemon, dport, boot, core, files, faults>>

\* At the end of the exit the handle has been dropped and counts as alive.
PollSignal ==
    /\ poll = "idle" /\ (Alive(gui.n) \/ (gui.exiting /\ ~GuiAt("wait")))
    /\ signal /\ poll' = "state"
    /\ PollFrame /\ UNCHANGED <<ready, seen, cause>>

PollState ==
    /\ poll = "state"
    /\ poll' = IF state # None THEN "connect" ELSE "idle"
    /\ seen' = state
    /\ PollFrame /\ UNCHANGED <<ready, cause>>

PollConnect ==
    /\ poll = "connect" /\ seen' = None
    /\ \/ /\ Taken(seen) /\ poll' = "off" /\ ready' = TRUE
          /\ cause' = cause \cup (IF seen \in foreign THEN {"squat"} ELSE {})
       \/ ~Taken(seen) /\ poll' = "idle" /\ UNCHANGED <<ready, cause>>
    /\ PollFrame

(* The configuration of the GUI                                            *)

ConfigFrame ==
    UNCHANGED <<gui, client, daemon, dport, boot, core, pidfile, state, signal, foreign>>

Reload ==
    /\ ~GuiAt("off") /\ gconfig # config
    /\ gconfig' = config
    /\ ConfigFrame /\ UNCHANGED <<config, faults, cause>>

\* set_app_config saves all settings: a new port, or, with another setting, the
\* port in memory.
set_app_config ==
    /\ GuiAt("up") /\ Fault
    /\ \E p \in Edits \cup {gconfig} :
         /\ p # config
         /\ config' = p /\ gconfig' = p
    /\ cause' = cause \cup {"edited"}
    /\ ConfigFrame

\* get_global: whichever command comes first fixes the port.
UseGlobal ==
    /\ GuiAt("up") /\ gport = None
    /\ gport' = gconfig
    /\ UNCHANGED <<gui, cport, ready, poll, seen, gconfig, daemon, dport, boot, core, files, faults, cause>>

\* The exit handler asks whoever listens on that port to shut down.
Exit ==
    /\ GuiAt("up")
    /\ gui' = [gui EXCEPT !.at = "wait", !.exiting = TRUE]
    /\ gport' = IF gport = None THEN gconfig ELSE gport
    /\ UNCHANGED <<cport, ready, poll, seen, gconfig, daemon, dport, boot, core, files, faults, cause>>

Shutdown(d) ==
    /\ GuiAt("wait")
    /\ daemon[d] = "serve" /\ dport[d] = gport
    /\ daemon' = [daemon EXCEPT ![d] = "stop"]
    /\ UNCHANGED <<gui, client, gconfig, dport, boot, core, files, faults, cause>>

\* Eight seconds for the daemon, then its child handle is killed.
WaitOrKill ==
    /\ GuiAt("wait")
    /\ \/ ~Alive(gui.n) /\ UNCHANGED <<daemon, dport, boot>>
       \/ Alive(gui.n) /\ EndDaemon(gui.n)
    /\ GuiGoto("sweep")
    /\ UNCHANGED <<client, gconfig, core, files, faults, cause>>

-----------------------------------------------------------------------------
(* The daemon                                                              *)

DaemonGoto(d, a) == daemon' = [daemon EXCEPT ![d] = a]

\* Daemon::new removes what an earlier daemon has left.
\* Mutant: it leaves them there.
NewKeepingFiles(d) ==
    /\ daemon[d] = "new" /\ DaemonGoto(d, "bind")
    /\ dport' = [dport EXCEPT ![d] = config]
    /\ UNCHANGED <<gui, client, gconfig, boot, core, files, faults, cause>>

\* Mutant: the configured port is not read yet.
NewWithoutPort(d) ==
    /\ daemon[d] = "new" /\ DaemonGoto(d, "bind")
    /\ state' = None /\ signal' = FALSE
    /\ UNCHANGED <<gui, client, gconfig, dport, boot, core, pidfile, config, foreign,
                   faults, cause>>

New(d) ==
    /\ daemon[d] = "new" /\ DaemonGoto(d, "bind")
    /\ state' = None /\ signal' = FALSE
    /\ dport' = [dport EXCEPT ![d] = config]
    /\ cause' = cause \cup (IF poll \in {"state", "connect"} THEN {"stale"} ELSE {})
    /\ UNCHANGED <<gui, client, gconfig, boot, core, pidfile, config, foreign, faults>>

\* The first free port of those it tries; another one than configured becomes
\* the configured one.
Tried(d) == dport[d]..(dport[d] + Tries - 1)

Bind(d) ==
    /\ daemon[d] = "bind"
    /\ \/ \E p \in Tried(d) :
            /\ ~Taken(p) /\ \A q \in Tried(d) : q < p => Taken(q)
            /\ dport' = [dport EXCEPT ![d] = p]
            /\ \/ p = dport[d] /\ UNCHANGED <<config, cause>>
               \/ p # dport[d] /\ config' = p /\ cause' = cause \cup {"moved"}
            /\ DaemonGoto(d, "publish") /\ UNCHANGED boot
       \/ /\ \A p \in Tried(d) : Taken(p)
          /\ EndDaemon(d) /\ UNCHANGED <<config, cause>>
    /\ UNCHANGED <<gui, client, gconfig, core, pidfile, state, signal, foreign, faults>>

\* The state file, the signal file, the boot task, the handler of SIGTERM and
\* the watchdog.
Publish(d) ==
    /\ daemon[d] = "publish" /\ DaemonGoto(d, "serve")
    /\ state' = dport[d] /\ signal' = TRUE
    /\ boot' = [boot EXCEPT ![d] = "spawn"]
    /\ UNCHANGED <<gui, client, gconfig, dport, core, pidfile, config, foreign, faults, cause>>

\* Mutant: it takes any GUI for its own.
WatchdogAnyGui(d) ==
    /\ daemon[d] = "serve" /\ GuiAt("off")
    /\ DaemonGoto(d, "stop")
    /\ UNCHANGED <<gui, client, gconfig, dport, boot, core, files, faults, cause>>

\* The GUI that started the daemon has gone.
Watchdog(d) ==
    /\ daemon[d] = "serve" /\ (gui.n # d \/ GuiAt("off"))
    /\ DaemonGoto(d, "stop")
    /\ UNCHANGED <<gui, client, gconfig, dport, boot, core, files, faults, cause>>

\* stop_easytier: the child is killed and the PID file removed; without a
\* handle the PID file and the port are asked.
StopCore(d) ==
    /\ daemon[d] = "stop" /\ DaemonGoto(d, "leave")
    /\ \/ boot[d] = "held" /\ EndCore(d) /\ pidfile' = None /\ UNCHANGED cause
       \/ boot[d] # "held" /\ cleanup_easytier_daemon
    /\ UNCHANGED <<gui, client, gconfig, dport, boot, state, signal, config, foreign, faults>>

\* The files are removed, whoever wrote them; the boot task ends.
Leave(d) ==
    /\ daemon[d] = "leave" /\ EndDaemon(d)
    /\ state' = None /\ signal' = FALSE
    /\ UNCHANGED <<gui, client, gconfig, core, pidfile, config, foreign, faults, cause>>

-----------------------------------------------------------------------------
(* The boot task and the core                                              *)

BootGoto(d, a) == boot' = [boot EXCEPT ![d] = a]
Boots(d, a) == boot[d] = a /\ Alive(d)
BootFrame ==
    UNCHANGED <<gui, client, gconfig, daemon, dport, state, signal, config, foreign, faults, cause>>

SpawnCore(d) ==
    /\ Boots(d, "spawn")
    /\ \/ BootGoto(d, "pid") /\ core' = [core EXCEPT ![d] = "starting"]
       \/ BootGoto(d, "failed") /\ UNCHANGED core
    /\ BootFrame /\ UNCHANGED pidfile

\* A write that fails is passed over.
WritePid(d) ==
    /\ Boots(d, "pid") /\ BootGoto(d, "poll")
    /\ pidfile' \in {d, pidfile}
    /\ BootFrame /\ UNCHANGED core

\* The RPC port answers, whoever listens there; or 20 s have passed, and the
\* kill of the child, a future that is not awaited, does nothing.
AwaitPort(d) ==
    /\ Boots(d, "poll")
    /\ \/ Taken(Rpc) /\ BootGoto(d, "held")
       \/ ~Taken(Rpc) /\ BootGoto(d, "failed")
    /\ BootFrame /\ UNCHANGED <<core, pidfile>>

\* A core that cannot bind its RPC port exits.
CoreListen(c) ==
    /\ core[c] = "starting"
    /\ core' = [core EXCEPT ![c] = IF Taken(Rpc) THEN "dead" ELSE "listening"]
    /\ BootFrame /\ UNCHANGED <<boot, pidfile>>

-----------------------------------------------------------------------------
(* The rest of the machine                                                 *)

\* Another program takes a free port, that of the core too.
Occupy ==
    /\ Fault
    /\ \E p \in (Foreign \cup {Rpc}) \ foreign : ~Taken(p) /\ foreign' = foreign \cup {p}
    /\ UNCHANGED <<gui, client, gconfig, daemon, dport, boot, core, pidfile, state, signal,
                   config, cause>>

\* The user edits the configuration file.
EditFile ==
    /\ Fault
    /\ \E p \in Edits : p # config /\ config' = p
    /\ cause' = cause \cup {"edited"}
    /\ ConfigFrame /\ UNCHANGED gconfig

\* A process is killed from outside, or faults.
Crash ==
    /\ Fault
    /\ \/ ~GuiAt("off") /\ EndGui(FALSE) /\ UNCHANGED <<daemon, dport, boot, core, cause>>
       \/ \E d \in Ids : Alive(d) /\ EndDaemon(d) /\ UNCHANGED <<gui, client, gconfig, core, cause>>
       \/ \E c \in Ids : /\ CoreAlive(c) /\ EndCore(c) /\ cause' = cause \cup {"lost"}
                         /\ UNCHANGED <<gui, client, gconfig, daemon, dport, boot>>
    /\ UNCHANGED files

PollSteps == PollSignal \/ PollState \/ PollConnect
ConfigSteps == Reload \/ set_app_config \/ EditFile
GuiSteps == Sweep \/ Terminate \/ CleanCore \/ spawn_daemon \/ MakeClient \/ WaitOrKill
DaemonSteps(d) == \/ New(d) \/ Bind(d) \/ Publish(d) \/ StopCore(d) \/ Leave(d)
BootSteps(d) == SpawnCore(d) \/ WritePid(d) \/ AwaitPort(d)

Next ==
    \/ GuiStart \/ GuiSteps \/ PollSteps \/ ConfigSteps \/ UseGlobal \/ Exit \/ Occupy
    \/ \E d \in Ids : DaemonSteps(d) \/ Watchdog(d) \/ Shutdown(d) \/ BootSteps(d) \/ CoreListen(d)
    \/ Crash

\* A daemon that runs goes on, and its watchdog's timer fires.  Nobody has to
\* start the GUI, to close it or to kill anything.
Fairness == \A d \in Ids : WF_vars(DaemonSteps(d) \/ Watchdog(d))

Spec == Init /\ [][Next]_vars /\ Fairness

-----------------------------------------------------------------------------
\* Every variable holds what the processes can make of it.
TypeOK ==
    /\ gui \in [n : 0..MaxSessions, exiting : BOOLEAN, end : Ids \cup {None},
                at : {"off", "sweep", "term", "clean", "spawn", "client", "up", "wait"}]
    /\ cport \in Nat \cup {None} /\ gport \in Nat \cup {None} /\ ready \in BOOLEAN
    /\ poll \in {"off", "idle", "state", "connect"} /\ seen \in Nat \cup {None}
    /\ poll = "connect" <=> seen # None
    /\ config \in Nat /\ gconfig \in Nat
    /\ daemon \in [Ids -> {"none", "new", "bind", "publish", "serve", "stop", "leave", "dead"}]
    /\ dport \in [Ids -> Nat \cup {None}]
    /\ \A d \in Ids : dport[d] = None <=> daemon[d] \in {"none", "new", "dead"}
    /\ boot \in [Ids -> {"none", "spawn", "pid", "poll", "held", "failed"}]
    /\ core \in [Ids -> {"none", "starting", "listening", "dead"}]
    /\ pidfile \in Ids \cup {None} /\ state \in Nat \cup {None} /\ signal \in BOOLEAN
    /\ foreign \in SUBSET (Foreign \cup {Rpc}) /\ faults \in 0..MaxFaults /\ cause \in SUBSET Causes

Exited == GuiAt("off") /\ gui.exiting
Orphan(d) == Alive(d) /\ (gui.n # d \/ GuiAt("off"))

\* The exit cleanup (app/exit.rs, cleanup.rs) leaves neither a daemon nor a
\* core behind, of this session or of an earlier one, whenever daemons were
\* killed and PID files not written, unless a core without a PID file was not
\* seen on the RPC port, or a session began beside the daemon of an earlier one.
ExitLeavesNone ==
    Exited /\ cause \cap {"unseen", "twins"} = {} => \A d \in Ids : ~Alive(d) /\ ~CoreAlive(d)

\* In a session whose daemon got the configured port and whose configured port
\* was not edited, the clients of the GUI are at the port of its own daemon
\* whenever that one listens, whatever state file an earlier daemon has left,
\* unless the session began beside an earlier daemon.
ClientsReachDaemon ==
    ~GuiAt("off") /\ Listens(gui.n) /\ cause \cap {"moved", "edited", "twins"} = {} =>
        cport \in {None, dport[gui.n]} /\ gport \in {None, dport[gui.n]}

\* The GUI says ready only after its own daemon has bound its port, and has
\* published it too unless the poll had already read the files of an earlier
\* daemon when the new one removed them; what answers the poll is no earlier
\* daemon, unless the session began beside one or another program answers.
ReadyIsOwn ==
    ready /\ cause \cap {"twins", "squat"} = {} =>
        /\ daemon[gui.n] \notin {"none", "new", "bind"}
        /\ "stale" \notin cause => daemon[gui.n] # "publish"

\* While the GUI is up, a daemon of its that holds a core holds its own, and
\* that one listens, unless another program has the RPC port: a core of an
\* earlier session, however that one ended, is not in the way, unless one was
\* lost or not seen, or an earlier daemon is still alive.
HeldCoreIsOwn ==
    GuiAt("up") /\ boot[gui.n] = "held" /\ daemon[gui.n] = "serve" /\ Rpc \notin foreign
        /\ cause \cap {"lost", "unseen", "twins"} = {} => core[gui.n] = "listening"

\* A daemon whose GUI has gone, however it went, ends (the watchdog of
\* daemon/mod.rs, which is only spawned once the daemon is up).
OrphansEnd == \A d \in Ids : Orphan(d) ~> ~Alive(d)
=============================================================================
