------------------------ MODULE DaemonLifecycleProofs ------------------------
(***************************************************************************)
(* TLAPS proofs about DaemonLifecycle, for every number of sessions, of    *)
(* ports tried and of faults, and every set of foreign and edited ports.   *)
(***************************************************************************)
EXTENDS DaemonLifecycle, TLAPS

USE DEF client

PortInv ==
    /\ config \in Nat /\ gconfig \in Nat
    /\ cport \in Nat \cup {None} /\ gport \in Nat \cup {None} /\ state \in Nat \cup {None}
    /\ dport \in [Ids -> Nat \cup {None}]

\* Where the processes are: the daemons of later sessions do not exist yet, nor
\* that of this one before it is spawned; a boot task runs in a daemon that
\* serves, a core was spawned by one; a GUI that exits was up.
PlaceInv ==
    /\ GuiAt("off") \/ gui.n \in Ids
    /\ \A d \in Ids : d > gui.n => daemon[d] = "none"
    /\ gui.at \in {"sweep", "term", "clean", "spawn"} /\ ~gui.exiting => daemon[gui.n] = "none"
    /\ gui.at \in {"spawn", "client", "up"} => ~gui.exiting
    /\ GuiAt("wait") => gui.exiting
    /\ GuiAt("term") => gui.end \in Ids /\ daemon[gui.end] # "none"
    /\ \A d \in Ids : boot[d] = "none" <=> daemon[d] \notin {"serve", "stop", "leave"}
    /\ \A d \in Ids : core[d] # "none" => daemon[d] \notin {"none", "new", "bind", "publish"}
    /\ ready \/ poll # "off" => gui.at \in {"client", "up"} \/ (gui.exiting /\ ~GuiAt("off"))
    /\ GuiAt("off") => cport = None /\ gport = None
TypeInv == TypeOK /\ PlaceInv

NoDaemon == \A d \in Ids : ~Alive(d)

\* Unless a session has started beside an earlier daemon, one daemon at most is
\* alive: the one this session has spawned, or the one it is ending.
OneInv ==
    "twins" \notin cause =>
      /\ \A d, e \in Ids : Alive(d) /\ Alive(e) => d = e
      /\ gui.at \in {"clean", "spawn"} => NoDaemon
      /\ GuiAt("term") => \A d \in Ids : Alive(d) => d = gui.end
      /\ gui.at \in {"client", "up", "wait"} => \A d \in Ids : Alive(d) => d = gui.n
      /\ gui.exiting /\ ~GuiAt("wait") => NoDaemon

\* The files of an earlier daemon are gone from the moment the next one has
\* begun until it publishes its own, and the poll has not read them before.
ReadyInv ==
    "twins" \notin cause =>
      /\ \A d \in Ids : daemon[d] \in {"bind", "publish"} => state = None /\ ~signal
      /\ "stale" \notin cause =>
           \A d \in Ids : daemon[d] \in {"bind", "publish"} => poll \notin {"state", "connect"}
      /\ ReadyIsOwn

\* One port, unless the user changes it: the configured one is that of the living
\* daemon and of the state file, and, until a daemon moves it, the one the GUI
\* has read.
ClientInv ==
    /\ cause \cap {"moved", "edited"} = {} /\ ~GuiAt("off") => gconfig = config
    /\ cause \cap {"twins", "edited"} = {} => /\ state \in {None, config}
                                           /\ \A d \in Ids : dport[d] \in {None, config}
    /\ cause \cap {"moved", "twins", "edited"} = {} => cport \in {None, config} /\ gport \in {None, config}

NoCore == \A c \in Ids : ~CoreAlive(c)

\* Unless one was not seen, there is one core at most; it is the living daemon's
\* own, and no other one is in the PID file.
OneCore ==
    /\ \A c \in Ids : CoreAlive(c) => pidfile \in {None, c}
    /\ \A d \in Ids : Alive(d) => pidfile \in {None, d}
    /\ \A b, c \in Ids : CoreAlive(b) /\ CoreAlive(c) => b = c
    /\ \A c, d \in Ids : CoreAlive(c) /\ Alive(d) => c = d
    /\ GuiAt("spawn") => pidfile = None
    /\ GuiAt("spawn") \/ Exited => NoCore
CoreInv ==
    cause \cap {"unseen", "twins"} = {} =>
      /\ OneCore
      /\ "lost" \notin cause /\ Rpc \notin foreign =>
           \A d \in Ids : boot[d] = "held" /\ daemon[d] = "serve" => core[d] = "listening"
-----------------------------------------------------------------------------
(* Types                                                                   *)

GuiPlaces == {"off", "sweep", "term", "clean", "spawn", "client", "up", "wait"}
GuiType == [n : 0..MaxSessions, exiting : BOOLEAN, end : Ids \cup {None}, at : GuiPlaces]
DaemonPlaces == {"none", "new", "bind", "publish", "serve", "stop", "leave", "dead"}
BootPlaces == {"none", "spawn", "pid", "poll", "held", "failed"}
CorePlaces == {"none", "starting", "listening", "dead"}
PollPlaces == {"off", "idle", "state", "connect"}

\* The parts of the type invariant beside PortInv and PlaceInv.
PollOK == poll \in PollPlaces /\ seen \in Nat \cup {None} /\ (poll = "connect" <=> seen # None)
GuiOK == /\ gui \in GuiType /\ ready \in BOOLEAN /\ signal \in BOOLEAN
         /\ foreign \in SUBSET (Foreign \cup {Rpc}) /\ faults \in 0..MaxFaults /\ cause \in SUBSET Causes
ProcOK == /\ daemon \in [Ids -> DaemonPlaces] /\ boot \in [Ids -> BootPlaces]
          /\ core \in [Ids -> CorePlaces] /\ pidfile \in Ids \cup {None}
NoneOK == \A d \in Ids : dport[d] = None <=> daemon[d] \in {"none", "new", "dead"}
GuiPlace ==
    /\ GuiAt("off") \/ gui.n \in Ids
    /\ \A d \in Ids : d > gui.n => daemon[d] = "none"
    /\ gui.at \in {"sweep", "term", "clean", "spawn"} /\ ~gui.exiting => daemon[gui.n] = "none"
    /\ gui.at \in {"spawn", "client", "up"} => ~gui.exiting
    /\ GuiAt("wait") => gui.exiting
    /\ GuiAt("term") => gui.end \in Ids /\ daemon[gui.end] # "none"
    /\ ready \/ poll # "off" => gui.at \in {"client", "up"} \/ (gui.exiting /\ ~GuiAt("off"))
    /\ GuiAt("off") => cport = None /\ gport = None
ProcPlace ==
    /\ \A d \in Ids : boot[d] = "none" <=> daemon[d] \notin {"serve", "stop", "leave"}
    /\ \A d \in Ids : core[d] # "none" => daemon[d] \notin {"none", "new", "bind", "publish"}

\* The type invariant in parts.
LEMMA TypeParts == TypeInv <=> GuiOK /\ PollOK /\ ProcOK /\ NoneOK /\ PortInv /\ GuiPlace /\ ProcPlace
<1>1. PlaceInv <=> GuiPlace /\ ProcPlace
  BY DEF PlaceInv, GuiPlace, ProcPlace
<1> QED
  BY <1>1 DEF TypeInv, TypeOK, GuiOK, PollOK, ProcOK, NoneOK, PortInv, GuiType, GuiPlaces, DaemonPlaces,
     BootPlaces, CorePlaces, PollPlaces

\* The same after a step.
LEMMA TypePartsNext ==
    TypeInv' <=> GuiOK' /\ PollOK' /\ ProcOK' /\ NoneOK' /\ PortInv' /\ GuiPlace' /\ ProcPlace'
<1>1. PlaceInv' <=> GuiPlace' /\ ProcPlace'
  BY DEF PlaceInv, GuiPlace, ProcPlace
<1> QED
  BY <1>1 DEF TypeInv, TypeOK, GuiOK, PollOK, ProcOK, NoneOK, PortInv, GuiType, GuiPlaces, DaemonPlaces,
     BootPlaces, CorePlaces, PollPlaces
-----------------------------------------------------------------------------
(* What a step does to the processes                                       *)

\* The ways in which the daemons and their boot tasks change.
Still == UNCHANGED <<daemon, dport, boot>>
Ends(d) == Alive(d) /\ EndDaemon(d)
Halts(d) == daemon[d] = "serve" /\ daemon' = [daemon EXCEPT ![d] = "stop"] /\ UNCHANGED <<dport, boot>>
Spawns == GuiAt("spawn") /\ daemon' = [daemon EXCEPT ![gui.n] = "new"] /\ UNCHANGED <<dport, boot>>
Begins(d) == /\ daemon[d] = "new" /\ daemon' = [daemon EXCEPT ![d] = "bind"]
             /\ dport' = [dport EXCEPT ![d] = config] /\ UNCHANGED boot
Binds(d, p) == /\ daemon[d] = "bind" /\ daemon' = [daemon EXCEPT ![d] = "publish"] /\ UNCHANGED boot
               /\ dport' = [dport EXCEPT ![d] = p] /\ p \in Tried(d)
Publishes(d) == /\ daemon[d] = "publish" /\ daemon' = [daemon EXCEPT ![d] = "serve"]
                /\ boot' = [boot EXCEPT ![d] = "spawn"] /\ UNCHANGED dport
Stops(d) == daemon[d] = "stop" /\ daemon' = [daemon EXCEPT ![d] = "leave"] /\ UNCHANGED <<dport, boot>>
BootMoves(d) == /\ Alive(d) /\ boot[d] \in {"spawn", "pid", "poll"} /\ UNCHANGED <<daemon, dport>>
                /\ boot' \in {[boot EXCEPT ![d] = b] : b \in {"pid", "poll", "held", "failed"}}

Moves ==
    \/ Still \/ Spawns
    \/ \E d \in Ids : \/ Ends(d) \/ Halts(d) \/ Begins(d) \/ (\E p \in Nat : Binds(d, p)) \/ Publishes(d)
                      \/ Stops(d) \/ BootMoves(d)

\* Every step changes them in one of these ways.
LEMMA ProcessSteps ==
    ASSUME TypeInv, Next
    PROVE  Moves
<1>0. ProcOK /\ GuiPlace /\ PortInv /\ NoneOK
  BY TypeParts
<1>1. ASSUME NEW d \in Ids, Listens(d) PROVE Alive(d)
  BY <1>1 DEF Listens, Alive
<1>2. CASE Sweep
  <2>1. ASSUME NEW d \in Ids, Listens(d),
               \/ daemon[d] = "publish" /\ EndDaemon(d)
               \/ /\ daemon[d] # "publish"
                  /\ daemon' = [daemon EXCEPT ![d] = IF @ = "serve" THEN "stop" ELSE @]
                  /\ UNCHANGED <<dport, boot>>
        PROVE  Moves
    <3>1. CASE daemon[d] = "publish" /\ EndDaemon(d)
      BY <1>1, <2>1, <3>1 DEF Moves, Ends
    <3>2. CASE /\ daemon' = [daemon EXCEPT ![d] = IF @ = "serve" THEN "stop" ELSE @]
               /\ UNCHANGED <<dport, boot>>
      <4>1. CASE daemon[d] = "serve"
        BY <3>2, <4>1 DEF Moves, Halts
      <4>2. CASE daemon[d] # "serve"
        BY <1>0, <3>2, <4>2 DEF Moves, Still, ProcOK
      <4> QED
        BY <4>1, <4>2
    <3> QED
      BY <2>1, <3>1, <3>2
  <2> QED
    BY <1>2, <2>1 DEF Sweep, Moves, Still
<1>3. CASE Terminate
  <2>1. gui.end \in Ids /\ (daemon[gui.end] # "dead" => Alive(gui.end))
    BY <1>0, <1>3 DEF Terminate, GuiPlace, Alive
  <2> QED
    BY <1>3, <2>1 DEF Terminate, Moves, Still, Ends
<1>4. CASE WaitOrKill
  <2>1. gui.n \in Ids
    BY <1>0, <1>4 DEF WaitOrKill, GuiPlace, GuiAt
  <2> QED
    BY <1>4, <2>1 DEF WaitOrKill, Moves, Still, Ends
<1>5. CASE spawn_daemon
  BY <1>5 DEF spawn_daemon, Moves, Spawns, Still
<1>6. CASE Crash
  BY <1>6 DEF Crash, Moves, Still, Ends
<1>7. ASSUME NEW d \in Ids, Watchdog(d) \/ Shutdown(d) \/ New(d) \/ Publish(d) \/ StopCore(d) \/ Leave(d)
      PROVE  Moves
  <2>1. CASE Watchdog(d) \/ Shutdown(d)
    BY <2>1 DEF Watchdog, Shutdown, DaemonGoto, Moves, Halts
  <2>2. CASE New(d)
    BY <2>2 DEF New, DaemonGoto, Moves, Begins
  <2>3. CASE Publish(d)
    BY <2>3 DEF Publish, DaemonGoto, Moves, Publishes
  <2>4. CASE StopCore(d)
    BY <2>4 DEF StopCore, DaemonGoto, Moves, Stops
  <2>5. CASE Leave(d)
    BY <2>5 DEF Leave, Alive, Moves, Ends
  <2> QED
    BY <1>7, <2>1, <2>2, <2>3, <2>4, <2>5
<1>8. ASSUME NEW d \in Ids, Bind(d) PROVE Moves
  <2>1. daemon[d] = "bind" /\ Alive(d) /\ dport[d] \in Nat
    BY <1>0, <1>8 DEF Bind, Alive, PortInv, NoneOK
  <2>2. CASE EndDaemon(d)
    BY <2>1, <2>2 DEF Moves, Ends
  <2>3. ASSUME NEW p \in Tried(d), dport' = [dport EXCEPT ![d] = p], DaemonGoto(d, "publish"), UNCHANGED boot
        PROVE  Moves
    <3>1. p \in Nat
      BY <2>1, <2>3, NumbersAssumption DEF Tried
    <3> QED
      BY <2>1, <2>3, <3>1 DEF DaemonGoto, Moves, Binds
  <2> QED
    BY <1>8, <2>2, <2>3 DEF Bind
<1>9. ASSUME NEW d \in Ids, BootSteps(d) PROVE Moves
  <2>1. BootMoves(d)
    BY <1>9 DEF BootSteps, SpawnCore, WritePid, AwaitPort, Boots, BootGoto, BootFrame, BootMoves
  <2> QED
    BY <2>1 DEF Moves
<1>10. CASE \/ GuiStart \/ CleanCore \/ MakeClient \/ PollSteps \/ ConfigSteps \/ UseGlobal \/ Exit \/ Occupy
            \/ \E d \in Ids : CoreListen(d)
  BY <1>10 DEF GuiStart, CleanCore, MakeClient, PollSteps, PollSignal, PollState, PollConnect, PollFrame,
     ConfigSteps, Reload, set_app_config, EditFile, ConfigFrame, UseGlobal, Exit, Occupy, CoreListen,
     BootFrame, Moves, Still
<1> QED
  BY <1>2, <1>3, <1>4, <1>5, <1>6, <1>7, <1>8, <1>9, <1>10 DEF Next, GuiSteps, DaemonSteps

-----------------------------------------------------------------------------
(* Types are kept                                                          *)

\* A step's effect on the cores: one appears only for a daemon that serves.
LEMMA CoreSteps ==
    ASSUME TypeInv, Next
    PROVE  /\ core' \in [Ids -> CorePlaces] /\ pidfile' \in Ids \cup {None}
           /\ \A c \in Ids : core'[c] # "none" => core[c] # "none" \/ boot[c] # "none"
<1> DEFINE G == /\ core' \in [Ids -> CorePlaces] /\ pidfile' \in Ids \cup {None}
                /\ \A c \in Ids : core'[c] # "none" => core[c] # "none" \/ boot[c] # "none"
<1>0. ProcOK /\ core \in [Ids -> CorePlaces] /\ pidfile \in Ids \cup {None}
  BY TypeParts DEF ProcOK
<1>1. CASE UNCHANGED <<core, pidfile>>
  BY <1>0, <1>1
<1>2. ASSUME NEW c \in Ids, EndCore(c), core[c] # "none" \/ boot[c] # "none", pidfile' \in {pidfile, None}
      PROVE  G
  BY <1>0, <1>2 DEF EndCore, CorePlaces
<1>3. CASE cleanup_easytier_daemon
  <2>1. pidfile # None => pidfile \in Ids
    BY <1>0
  <2>2. CASE core' = core /\ pidfile' \in {pidfile, None}
    BY <1>0, <2>2
  <2>3. CASE \E c \in Ids : EndCore(c) /\ CoreAlive(c) /\ pidfile' \in {pidfile, None}
    BY <1>2, <2>3 DEF CoreAlive
  <2> QED
    BY <1>3, <2>1, <2>2, <2>3 DEF cleanup_easytier_daemon, CoreAlive
<1>4. CASE CleanCore
  BY <1>3, <1>4 DEF CleanCore
<1>5. ASSUME NEW d \in Ids, StopCore(d) PROVE G
  BY <1>2, <1>3, <1>5 DEF StopCore
<1>6. ASSUME NEW d \in Ids, BootSteps(d) PROVE G
  <2>1. CASE SpawnCore(d)
    BY <1>0, <2>1 DEF SpawnCore, Boots, CorePlaces
  <2>2. CASE WritePid(d)
    BY <1>0, <2>2 DEF WritePid
  <2>3. CASE AwaitPort(d)
    BY <1>0, <2>3 DEF AwaitPort
  <2> QED
    BY <1>6, <2>1, <2>2, <2>3 DEF BootSteps
<1>7. ASSUME NEW d \in Ids, CoreListen(d) PROVE G
  BY <1>0, <1>7 DEF CoreListen, CorePlaces
<1>8. CASE Crash
  BY <1>0, <1>2, <1>8 DEF Crash, CoreAlive, files
<1>9. CASE \/ GuiStart \/ Sweep \/ Terminate \/ spawn_daemon \/ MakeClient \/ WaitOrKill \/ PollSteps
           \/ ConfigSteps \/ UseGlobal \/ Exit \/ Occupy
  BY <1>1, <1>9 DEF GuiStart, Sweep, Terminate, spawn_daemon, MakeClient, WaitOrKill, PollSteps, PollSignal,
     PollState, PollConnect, PollFrame, ConfigSteps, Reload, set_app_config, EditFile, ConfigFrame, UseGlobal,
     Exit, Occupy, files
<1>10. ASSUME NEW d \in Ids, New(d) \/ Bind(d) \/ Publish(d) \/ Leave(d) \/ Watchdog(d) \/ Shutdown(d) PROVE G
  BY <1>1, <1>10 DEF New, Bind, Publish, Leave, Watchdog, Shutdown, files
<1> QED
  BY <1>4, <1>5, <1>6, <1>7, <1>8, <1>9, <1>10 DEF Next, GuiSteps, DaemonSteps

\* What a step does to a daemon: it is spawned only by the GUI, and what has
\* tried its ports does not do so again.
LEMMA DaemonSteady ==
    ASSUME TypeInv, Moves
    PROVE  /\ daemon' \in [Ids -> DaemonPlaces] /\ boot' \in [Ids -> BootPlaces] /\ NoneOK'
           /\ \A d \in Ids : boot'[d] = "none" <=> daemon'[d] \notin {"serve", "stop", "leave"}
           /\ \A d \in Ids : daemon[d] \notin {"none", "new", "bind", "publish"} =>
                                daemon'[d] \notin {"none", "new", "bind", "publish"}
           /\ \A d \in Ids : daemon[d] # "none" => daemon'[d] # "none"
           /\ \A d \in Ids : daemon[d] = "none" => daemon'[d] = "none" \/ (GuiAt("spawn") /\ d = gui.n)
<1> DEFINE G == /\ daemon' \in [Ids -> DaemonPlaces] /\ boot' \in [Ids -> BootPlaces] /\ NoneOK'
                /\ \A d \in Ids : boot'[d] = "none" <=> daemon'[d] \notin {"serve", "stop", "leave"}
                /\ \A d \in Ids : daemon[d] \notin {"none", "new", "bind", "publish"} =>
                                     daemon'[d] \notin {"none", "new", "bind", "publish"}
                /\ \A d \in Ids : daemon[d] # "none" => daemon'[d] # "none"
                /\ \A d \in Ids : daemon[d] = "none" => daemon'[d] = "none" \/ (GuiAt("spawn") /\ d = gui.n)
<1>0. /\ daemon \in [Ids -> DaemonPlaces] /\ boot \in [Ids -> BootPlaces] /\ NoneOK /\ DOMAIN dport = Ids
      /\ \A d \in Ids : boot[d] = "none" <=> daemon[d] \notin {"serve", "stop", "leave"}
  BY TypeParts DEF ProcOK, ProcPlace, PortInv
<1>n. None \notin Nat
  BY NoneAssumption
<1>1. CASE Still
  BY <1>0, <1>1 DEF Still, NoneOK
<1>2. CASE Spawns
  <2>1. gui.n \in Ids /\ daemon[gui.n] = "none"
    BY <1>2, TypeParts DEF Spawns, GuiPlace, GuiAt
  <2> QED
    BY <1>0, <1>2, <2>1 DEF Spawns, NoneOK, DaemonPlaces
<1>3. ASSUME NEW d \in Ids, Ends(d) PROVE G
  BY <1>0, <1>3 DEF Ends, Alive, EndDaemon, NoneOK, DaemonPlaces, BootPlaces
<1>4. ASSUME NEW d \in Ids, Halts(d) PROVE G
  BY <1>0, <1>4 DEF Halts, NoneOK, DaemonPlaces
<1>5. ASSUME NEW d \in Ids, Begins(d) PROVE G
  <2>1. config # None
    BY <1>n, TypeParts DEF PortInv
  <2> QED
    BY <1>0, <1>5, <2>1 DEF Begins, NoneOK, DaemonPlaces
<1>6. ASSUME NEW d \in Ids, NEW p \in Nat, Binds(d, p) PROVE G
  BY <1>0, <1>6, <1>n DEF Binds, NoneOK, DaemonPlaces
<1>7. ASSUME NEW d \in Ids, Publishes(d) PROVE G
  BY <1>0, <1>7 DEF Publishes, NoneOK, DaemonPlaces, BootPlaces
<1>8. ASSUME NEW d \in Ids, Stops(d) PROVE G
  BY <1>0, <1>8 DEF Stops, NoneOK, DaemonPlaces
<1>9. ASSUME NEW d \in Ids, BootMoves(d) PROVE G
  BY <1>0, <1>9 DEF BootMoves, NoneOK, BootPlaces
<1> QED
  BY <1>1, <1>2, <1>3, <1>4, <1>5, <1>6, <1>7, <1>8, <1>9 DEF Moves

\* The processes' part of the type invariant is kept.
LEMMA ProcTypes ==
    ASSUME TypeInv, Next
    PROVE  ProcOK' /\ NoneOK' /\ ProcPlace'
<1>1. ProcPlace
  BY TypeParts
<1>2. Moves
  BY ProcessSteps
<1> QED
  BY <1>1, <1>2, CoreSteps, DaemonSteady DEF ProcOK, ProcPlace
\* The GUI's record and the other plain variables keep their types.
LEMMA GuiTypes ==
    ASSUME TypeInv, Next
    PROVE  GuiOK'
<1>0. /\ GuiOK /\ gui \in GuiType /\ ready \in BOOLEAN /\ signal \in BOOLEAN
      /\ foreign \in SUBSET (Foreign \cup {Rpc})
      /\ faults \in 0..MaxFaults /\ cause \in SUBSET Causes /\ MaxFaults \in Nat /\ MaxSessions \in Nat
  BY TypeParts, NumbersAssumption DEF GuiOK
<1>1. ASSUME NEW a \in GuiPlaces, NEW x \in BOOLEAN, NEW e \in Ids \cup {None}
      PROVE  /\ [gui EXCEPT !.at = a] \in GuiType
             /\ [gui EXCEPT !.at = a, !.exiting = x] \in GuiType
             /\ [gui EXCEPT !.at = a, !.end = e] \in GuiType
  BY <1>0 DEF GuiType
<1>2. {"off", "sweep", "term", "clean", "spawn", "client", "up", "wait"} \subseteq GuiPlaces
  BY DEF GuiPlaces
<1>3. ASSUME gui' \in GuiType, ready' \in BOOLEAN, UNCHANGED <<signal, foreign, faults>>, cause' \in SUBSET Causes
      PROVE  GuiOK'
  BY <1>0, <1>3 DEF GuiOK
<1>4. ASSUME cleanup_easytier_daemon PROVE cause' \in SUBSET Causes
  BY <1>0, <1>4 DEF cleanup_easytier_daemon, Causes
<1>5. CASE GuiStart
  <2>1. gui.n + 1 \in 0..MaxSessions
    BY <1>0, <1>5 DEF GuiStart, GuiType
  <2>2. [n |-> gui.n + 1, at |-> "sweep", exiting |-> FALSE, end |-> None] \in GuiType
    BY <2>1, <1>2 DEF GuiType
  <2> QED
    BY <1>0, <1>3, <1>5, <2>2 DEF GuiStart, files
<1>6. CASE Sweep
  <2>1. ready' = ready /\ UNCHANGED <<signal, foreign, faults>>
    BY <1>6 DEF Sweep, files
  <2>2. CASE \E d \in Ids : gui' = [gui EXCEPT !.at = "term", !.end = d] /\ UNCHANGED cause
    <3>1. ASSUME NEW d \in Ids PROVE [gui EXCEPT !.at = "term", !.end = d] \in GuiType
      BY <1>1, <1>2
    <3> QED
      BY <1>0, <1>3, <2>1, <2>2, <3>1
  <2>3. CASE GuiGoto("clean") /\ cause' \in {cause, cause \cup {"twins"}}
    BY <1>0, <1>1, <1>2, <1>3, <2>1, <2>3 DEF GuiGoto, Causes
  <2> QED
    BY <1>6, <2>2, <2>3 DEF Sweep
<1>7. CASE Terminate
  <2>1. gui' \in GuiType
    BY <1>1, <1>2, <1>7 DEF Terminate
  <2> QED
    BY <1>0, <1>3, <1>7, <2>1 DEF Terminate, files
<1>8. CASE WaitOrKill
  <2>1. gui' \in GuiType
    BY <1>1, <1>2, <1>8 DEF WaitOrKill, GuiGoto
  <2> QED
    BY <1>0, <1>3, <1>8, <2>1 DEF WaitOrKill, files
<1>9. CASE CleanCore
  <2>1. gui' \in GuiType
    BY <1>1, <1>2, <1>9 DEF CleanCore, EndGui, GuiGoto
  <2>2. ready' \in BOOLEAN
    BY <1>0, <1>9 DEF CleanCore, EndGui
  <2> QED
    BY <1>0, <1>3, <1>4, <1>9, <2>1, <2>2 DEF CleanCore
<1>10. CASE spawn_daemon \/ MakeClient
  <2>1. gui' \in GuiType
    BY <1>1, <1>2, <1>10 DEF spawn_daemon, MakeClient, GuiGoto
  <2> QED
    BY <1>0, <1>3, <1>10, <2>1 DEF spawn_daemon, MakeClient, files
<1>11. CASE Exit
  <2>1. gui' \in GuiType
    BY <1>1, <1>2, <1>11 DEF Exit
  <2> QED
    BY <1>0, <1>3, <1>11, <2>1 DEF Exit, files
<1>12. CASE PollSteps
  <2>1. cause' \in SUBSET Causes /\ ready' \in BOOLEAN
    BY <1>0, <1>12 DEF PollSteps, PollSignal, PollState, PollConnect, Causes
  <2> QED
    BY <1>0, <1>3, <1>12, <2>1 DEF PollSteps, PollSignal, PollState, PollConnect, PollFrame, files
<1>13. CASE Reload \/ UseGlobal
  BY <1>0, <1>3, <1>13 DEF Reload, ConfigFrame, UseGlobal, files
<1>20. CASE set_app_config \/ EditFile
  <2>1. cause' \in SUBSET Causes
    BY <1>0, <1>20 DEF set_app_config, EditFile, Causes
  <2>2. faults' \in 0..MaxFaults
    BY <1>0, <1>20 DEF set_app_config, EditFile, Fault
  <2> QED
    BY <1>0, <1>20, <2>1, <2>2 DEF set_app_config, EditFile, ConfigFrame, GuiOK
<1>14. CASE Occupy
  <2>1. faults' \in 0..MaxFaults
    BY <1>0, <1>14 DEF Occupy, Fault
  <2> QED
    BY <1>0, <1>14, <2>1 DEF Occupy, GuiOK
<1>15. CASE Crash
  <2>1. faults' \in 0..MaxFaults /\ UNCHANGED <<signal, foreign>>
    BY <1>0, <1>15 DEF Crash, Fault, files
  <2>2. CASE EndGui(FALSE) /\ UNCHANGED cause
    <3>1. gui' \in GuiType
      BY <1>1, <1>2, <2>2 DEF EndGui
    <3> QED
      BY <1>0, <2>1, <2>2, <3>1 DEF EndGui, GuiOK
  <2>3. CASE UNCHANGED <<gui, ready, cause>>
    BY <1>0, <2>1, <2>3 DEF GuiOK
  <2>4. CASE cause' = cause \cup {"lost"} /\ UNCHANGED <<gui, ready>>
    BY <1>0, <2>1, <2>4 DEF GuiOK, Causes
  <2> QED
    BY <1>15, <2>2, <2>3, <2>4 DEF Crash
<1>16. ASSUME NEW d \in Ids, Publish(d) \/ Watchdog(d) \/ Shutdown(d) \/ Leave(d) PROVE GuiOK'
  BY <1>0, <1>16 DEF Publish, Watchdog, Shutdown, Leave, files, GuiOK
<1>17. ASSUME NEW d \in Ids, StopCore(d) \/ New(d) PROVE GuiOK'
  <2>1. cause' \in SUBSET Causes
    BY <1>0, <1>4, <1>17 DEF StopCore, New, Causes
  <2> QED
    BY <1>0, <1>17, <2>1 DEF StopCore, New, GuiOK
<1>18. ASSUME NEW d \in Ids, Bind(d) PROVE GuiOK'
  <2>1. cause' \in SUBSET Causes
    BY <1>0, <1>18 DEF Bind, Causes
  <2> QED
    BY <1>0, <1>18, <2>1 DEF Bind, GuiOK
<1>19. ASSUME NEW d \in Ids, BootSteps(d) \/ CoreListen(d) PROVE GuiOK'
  BY <1>0, <1>19 DEF BootSteps, SpawnCore, WritePid, AwaitPort, CoreListen, BootFrame, GuiOK
<1> QED
  BY <1>5, <1>6, <1>7, <1>8, <1>9, <1>10, <1>11, <1>12, <1>13, <1>14, <1>15, <1>16, <1>17, <1>18, <1>19,
     <1>20 DEF Next, GuiSteps, DaemonSteps, ConfigSteps

\* The poll goes from place to place, and knows a port when it is to connect.
LEMMA PollTypes ==
    ASSUME TypeInv, Next
    PROVE  PollOK'
<1>0. PollOK /\ PortInv
  BY TypeParts
<1>1. CASE UNCHANGED <<poll, seen>>
  BY <1>0, <1>1 DEF PollOK
<1>2. CASE PollSteps
  BY <1>0, <1>2 DEF PollSteps, PollSignal, PollState, PollConnect, PollOK, PollPlaces, PortInv
<1>3. CASE spawn_daemon
  <2>1. poll = "off"
    BY <1>3, TypeParts DEF spawn_daemon, GuiPlace, GuiAt
  <2> QED
    BY <1>0, <1>3, <2>1 DEF spawn_daemon, PollOK, PollPlaces
<1>4. ASSUME NEW x, EndGui(x) PROVE PollOK'
  BY <1>4 DEF EndGui, PollOK, PollPlaces
<1>5. CASE CleanCore \/ Crash
  BY <1>1, <1>4, <1>5 DEF CleanCore, Crash
<1> QED
  BY <1>1, <1>2, <1>3, <1>5 DEF Next, GuiSteps, DaemonSteps, BootSteps, GuiStart, Sweep, Terminate, MakeClient,
     WaitOrKill, ConfigSteps, Reload, set_app_config, EditFile, ConfigFrame, UseGlobal, Exit, Occupy, New, Bind,
     Publish, StopCore, Leave, Watchdog, Shutdown, SpawnCore, WritePid, AwaitPort, CoreListen, BootFrame

\* Where a port comes from: from another place of the same state, unless a
\* daemon binds or the user changes it.
LEMMA PortSteps ==
    ASSUME TypeInv, Next, ~\E d \in Ids : \E p \in Nat : Binds(d, p), ~set_app_config, ~EditFile
    PROVE  /\ config' = config /\ gconfig' \in {gconfig, config, 0} /\ cport' \in {cport, None, state, gconfig}
           /\ gport' \in {gport, None, gconfig} /\ state' \in {state, None} \cup {dport[d] : d \in Ids}
           /\ dport' \in [Ids -> {None, config} \cup {dport[d] : d \in Ids}]
<1>0. DOMAIN dport = Ids /\ dport \in [Ids -> {dport[d] : d \in Ids}] /\ PortInv /\ NoneOK
  BY TypeParts DEF PortInv
<1>1. dport' \in [Ids -> {None, config} \cup {dport[d] : d \in Ids}]
  <2>1. Moves
    BY ProcessSteps
  <2>2. CASE UNCHANGED dport
    BY <1>0, <2>2
  <2>3. CASE \E d \in Ids : dport' = [dport EXCEPT ![d] = None] \/ dport' = [dport EXCEPT ![d] = config]
    BY <1>0, <2>3
  <2> QED
    BY <2>1, <2>2, <2>3 DEF Moves, Still, Spawns, Ends, EndDaemon, Halts, Begins, Publishes, Stops, BootMoves
<1>2. config' = config
  <2>1. ASSUME NEW d \in Ids, Bind(d) PROVE config' = config
    <3>1. dport[d] \in Nat
      BY <1>0, <2>1 DEF Bind, PortInv, NoneOK
    <3>2. ASSUME NEW p \in Tried(d) PROVE p \in Nat
      BY <3>1, NumbersAssumption DEF Tried
    <3> QED
      BY <2>1, <3>2 DEF Bind, Binds, DaemonGoto
  <2> QED
    BY <2>1 DEF Next, GuiSteps, DaemonSteps, BootSteps, GuiStart, Sweep, Terminate, CleanCore, spawn_daemon,
       MakeClient, WaitOrKill, PollSteps, PollSignal, PollState, PollConnect, PollFrame, ConfigSteps, Reload,
       set_app_config, EditFile, ConfigFrame, UseGlobal, Exit, Occupy, New, Publish, StopCore, Leave,
       Watchdog, Shutdown, SpawnCore, WritePid, AwaitPort, CoreListen, BootFrame, Crash, files
<1>3. gconfig' \in {gconfig, config, 0} /\ cport' \in {cport, None, state, gconfig} /\ gport' \in {gport, None, gconfig}
  BY DEF Next, GuiSteps, DaemonSteps, BootSteps, GuiStart, Sweep, Terminate, CleanCore, spawn_daemon, MakeClient,
     WaitOrKill, PollSteps, PollSignal, PollState, PollConnect, PollFrame, ConfigSteps, Reload, set_app_config, EditFile,
     ConfigFrame, UseGlobal, Exit, Occupy, New, Bind, Publish, StopCore, Leave, Watchdog, Shutdown,
     SpawnCore, WritePid, AwaitPort, CoreListen, BootFrame, Crash, EndGui, files
<1>4. state' \in {state, None} \cup {dport[d] : d \in Ids}
  BY DEF Next, GuiSteps, DaemonSteps, BootSteps, GuiStart, Sweep, Terminate, CleanCore, spawn_daemon, MakeClient,
     WaitOrKill, PollSteps, PollSignal, PollState, PollConnect, PollFrame, ConfigSteps, Reload, set_app_config, EditFile,
     ConfigFrame, UseGlobal, Exit, Occupy, New, Bind, Publish, StopCore, Leave, Watchdog, Shutdown,
     SpawnCore, WritePid, AwaitPort, CoreListen, BootFrame, Crash, files
<1> QED
  BY <1>1, <1>2, <1>3, <1>4
\* What a daemon that binds does to the ports.
LEMMA BindSteps ==
    ASSUME TypeInv, Next, NEW d \in Ids, NEW p \in Nat, Binds(d, p)
    PROVE  /\ UNCHANGED <<gui, cport, gport, ready, gconfig, core, pidfile, state, signal, foreign, faults>>
           /\ \/ p = dport[d] /\ config' = config /\ cause' = cause
              \/ config' = p /\ cause' = cause \cup {"moved"}
<1>0. ProcOK /\ GuiPlace /\ NoneOK /\ PortInv
  BY TypeParts
<1>1. daemon[d] = "bind" /\ daemon'[d] = "publish"
  BY <1>0 DEF Binds, ProcOK
<1>2. Bind(d)
  <2>1. ASSUME NEW e \in Ids, Bind(e) PROVE e = d
    <3>1. \/ daemon' = [daemon EXCEPT ![e] = "publish"] \/ daemon' = [daemon EXCEPT ![e] = "dead"]
      BY <2>1 DEF Bind, DaemonGoto, EndDaemon
    <3> QED
      BY <1>0, <1>1, <3>1 DEF ProcOK
  <2>2. ASSUME NEW e, EndDaemon(e) PROVE FALSE
    BY <1>0, <1>1, <2>2 DEF EndDaemon, ProcOK
  <2>3. CASE Sweep
    BY <1>0, <1>1, <2>2, <2>3 DEF Sweep, ProcOK
  <2>4. ~Terminate /\ ~WaitOrKill /\ ~Crash
    BY <1>1, <2>2 DEF Terminate, WaitOrKill, Crash
  <2>5. ~spawn_daemon
    BY <1>0, <1>1 DEF spawn_daemon, ProcOK
  <2>6. \A e \in Ids : /\ ~New(e) /\ ~Publish(e) /\ ~StopCore(e) /\ ~Watchdog(e) /\ ~Shutdown(e)
    BY <1>0, <1>1 DEF New, Publish, StopCore, Watchdog, Shutdown, DaemonGoto, ProcOK
  <2>7. \A e \in Ids : ~Leave(e)
    BY <2>2 DEF Leave
  <2> QED
    BY <1>1, <2>1, <2>3, <2>4, <2>5, <2>6, <2>7 DEF Next, GuiSteps, DaemonSteps, BootSteps, GuiStart,
       CleanCore, MakeClient, PollSteps, PollSignal, PollState, PollConnect, PollFrame, ConfigSteps, Reload,
       set_app_config, EditFile, ConfigFrame, UseGlobal, Exit, Occupy, SpawnCore, WritePid, AwaitPort,
       CoreListen, BootFrame
<1>3. ~EndDaemon(d)
  BY <1>0, <1>1 DEF EndDaemon, ProcOK
<1>4. \A q \in Nat : dport' = [dport EXCEPT ![d] = q] => q = p
  BY <1>0 DEF Binds, PortInv
<1>5. dport[d] \in Nat
  BY <1>0, <1>1 DEF PortInv, NoneOK
<1>6. Tried(d) \subseteq Nat
  BY <1>5, NumbersAssumption DEF Tried
<1>7. \/ p = dport[d] /\ config' = config /\ cause' = cause
      \/ config' = p /\ cause' = cause \cup {"moved"}
  BY <1>2, <1>3, <1>4, <1>6 DEF Bind
<1> QED
  BY <1>2, <1>7 DEF Bind

\* Ports stay ports.
LEMMA PortTypes ==
    ASSUME TypeInv, Next
    PROVE  PortInv'
<1>0. PortInv /\ DOMAIN dport = Ids /\ {dport[d] : d \in Ids} \subseteq Nat \cup {None}
  BY TypeParts DEF PortInv
<1>1. ASSUME ~\E d \in Ids : \E p \in Nat : Binds(d, p), ~set_app_config, ~EditFile
      PROVE  PortInv'
  BY <1>0, <1>1, PortSteps DEF PortInv
<1>2. ASSUME NEW d \in Ids, NEW p \in Nat, Binds(d, p)
      PROVE  PortInv'
  <2>1. UNCHANGED <<cport, gport, gconfig, state>> /\ (config' = config \/ config' = p)
    BY <1>2, BindSteps
  <2>2. dport' \in [Ids -> Nat \cup {None}]
    BY <1>0, <1>2 DEF Binds, PortInv
  <2> QED
    BY <1>0, <2>1, <2>2 DEF PortInv
<1>3. CASE set_app_config \/ EditFile
  BY <1>0, <1>3, PortsAssumption DEF set_app_config, EditFile, ConfigFrame, PortInv
<1> QED
  BY <1>1, <1>2, <1>3

\* Only the GUI spawns a daemon.
LEMMA SpawnSteps ==
    ASSUME TypeInv, Next, Spawns
    PROVE  spawn_daemon /\ gui.n \in Ids /\ daemon[gui.n] = "none"
<1>0. ProcOK /\ GuiPlace
  BY TypeParts
<1>1. gui.n \in Ids /\ daemon[gui.n] = "none" /\ daemon'[gui.n] = "new"
  BY <1>0 DEF Spawns, ProcOK, GuiPlace, GuiAt
<1>2. ASSUME NEW e, EndDaemon(e) PROVE FALSE
  BY <1>0, <1>1, <1>2 DEF EndDaemon, ProcOK
<1>3. ~Sweep /\ ~Terminate /\ ~WaitOrKill
  BY <1>0, <1>1 DEF Spawns, GuiAt, Sweep, Terminate, WaitOrKill
<1>4. ~Crash
  BY <1>1, <1>2 DEF Crash
<1>5. \A e \in Ids : /\ ~New(e) /\ ~Publish(e) /\ ~StopCore(e) /\ ~Watchdog(e) /\ ~Shutdown(e)
  BY <1>0, <1>1 DEF New, Publish, StopCore, Watchdog, Shutdown, DaemonGoto, ProcOK
<1>6. \A e \in Ids : ~Leave(e) /\ ~Bind(e)
  BY <1>0, <1>1, <1>2 DEF Leave, Bind, DaemonGoto, ProcOK
<1> QED
  BY <1>1, <1>3, <1>4, <1>5, <1>6 DEF Next, GuiSteps, DaemonSteps, BootSteps, GuiStart, CleanCore, MakeClient,
     PollSteps, PollSignal, PollState, PollConnect, PollFrame, ConfigSteps, Reload, set_app_config, EditFile,
     ConfigFrame, UseGlobal, Exit, Occupy, SpawnCore, WritePid, AwaitPort, CoreListen, BootFrame

\* A daemon appears in no other way, and does not disappear.
LEMMA NoneSteps ==
    ASSUME TypeInv, Next
    PROVE  /\ \A d \in Ids : daemon[d] # "none" => daemon'[d] # "none"
           /\ ~spawn_daemon => \A d \in Ids : daemon[d] = "none" => daemon'[d] = "none"
<1>1. Moves /\ ProcOK
  BY TypeParts, ProcessSteps
<1>2. Spawns => spawn_daemon
  BY SpawnSteps
<1>3. \A d \in Ids : daemon[d] # "none" => daemon'[d] # "none"
  BY <1>1, DaemonSteady
<1>4. ASSUME ~Spawns, NEW d \in Ids, daemon[d] = "none" PROVE daemon'[d] = "none"
  BY <1>1, <1>4 DEF Moves, Still, Ends, EndDaemon, Alive, Halts, Begins, Binds, Publishes, Stops, BootMoves, ProcOK
<1> QED
  BY <1>2, <1>3, <1>4

\* The GUI's part of the state that its steps change.
GuiStill == UNCHANGED <<gui, client>>

\* Every step that is none of the GUI's own leaves that part alone.
LEMMA GuiStays ==
    ASSUME Next, ~GuiStart, ~GuiSteps, ~PollSteps, ~UseGlobal, ~Exit, ~(Crash /\ EndGui(FALSE))
    PROVE  GuiStill
<1>1. CASE Crash
  BY <1>1 DEF Crash, GuiStill
<1> QED
  BY <1>1 DEF Next, DaemonSteps, BootSteps, ConfigSteps, Reload, set_app_config, EditFile, ConfigFrame,
     Occupy, New, Bind, Publish, StopCore, Leave, Watchdog, Shutdown, SpawnCore, WritePid, AwaitPort,
     CoreListen, BootFrame, GuiStill

\* The GUI is where its daemon's place lets it be.
LEMMA GuiPlaceKept ==
    ASSUME TypeInv, Next
    PROVE  GuiPlace'
<1>0. /\ GuiPlace /\ GuiOK /\ gui \in GuiType /\ ready \in BOOLEAN /\ ProcOK /\ PortInv
      /\ None \notin Nat /\ MaxSessions \in Nat
  BY TypeParts, NoneAssumption, NumbersAssumption DEF GuiOK
<1>1. /\ \A d \in Ids : daemon[d] # "none" => daemon'[d] # "none"
      /\ ~spawn_daemon => \A d \in Ids : daemon[d] = "none" => daemon'[d] = "none"
  BY NoneSteps
<1>2. CASE GuiStart
  <2>1. /\ gui' = [n |-> gui.n + 1, at |-> "sweep", exiting |-> FALSE, end |-> None]
        /\ UNCHANGED <<cport, gport, ready, poll, daemon>>
    BY <1>2 DEF GuiStart
  <2>2. gui'.n = gui.n + 1 /\ gui'.at = "sweep" /\ ~gui'.exiting /\ gui'.n \in Ids /\ gui'.n > gui.n
    BY <1>0, <1>2, <2>1 DEF GuiStart, GuiType, Ids
  <2>3. \A d \in Ids : d > gui'.n => d > gui.n
    BY <1>0, <2>2 DEF Ids, GuiType
  <2>4. ~ready /\ poll = "off"
    BY <1>0, <1>2 DEF GuiStart, GuiPlace, GuiAt
  <2> QED
    BY <1>0, <2>1, <2>2, <2>3, <2>4 DEF GuiPlace, GuiAt
<1>3. CASE Sweep
  <2>0. ~spawn_daemon /\ UNCHANGED <<cport, gport, ready, poll>> /\ gui.at = "sweep"
    BY <1>3 DEF Sweep, spawn_daemon, GuiAt
  <2>1. ASSUME NEW d \in Ids, Listens(d), gui' = [gui EXCEPT !.at = "term", !.end = d]
        PROVE  GuiPlace'
    <3>1. gui'.at = "term" /\ gui'.end = d /\ gui'.n = gui.n /\ gui'.exiting = gui.exiting
      BY <1>0, <2>1 DEF GuiType
    <3>2. daemon[d] # "none"
      BY <2>1 DEF Listens
    <3> QED
      BY <1>0, <1>1, <2>0, <3>1, <3>2 DEF GuiPlace, GuiAt
  <2>2. CASE GuiGoto("clean")
    <3>1. gui'.at = "clean" /\ gui'.n = gui.n /\ gui'.exiting = gui.exiting
      BY <1>0, <2>2 DEF GuiType, GuiGoto
    <3> QED
      BY <1>0, <1>1, <2>0, <3>1 DEF GuiPlace, GuiAt
  <2> QED
    BY <1>3, <2>1, <2>2 DEF Sweep
<1>4. CASE Terminate
  <2>1. ~spawn_daemon /\ UNCHANGED <<cport, gport, ready, poll>> /\ gui.at = "term"
    BY <1>4 DEF Terminate, spawn_daemon, GuiAt
  <2>2. gui'.at = "clean" /\ gui'.n = gui.n /\ gui'.exiting = gui.exiting
    BY <1>0, <1>4 DEF Terminate, GuiType
  <2> QED
    BY <1>0, <1>1, <2>1, <2>2 DEF GuiPlace, GuiAt
<1>5. ASSUME NEW x \in BOOLEAN, EndGui(x), UNCHANGED daemon PROVE GuiPlace'
  <2>1. gui'.at = "off" /\ gui'.n = gui.n
    BY <1>0, <1>5 DEF EndGui, GuiType
  <2> QED
    BY <1>0, <1>5, <2>1 DEF GuiPlace, GuiAt, EndGui
<1>6. CASE CleanCore
  <2>1. CASE ~gui.exiting /\ GuiGoto("spawn") /\ UNCHANGED <<cport, gport, ready, poll, daemon>>
    <3>1. gui'.at = "spawn" /\ gui'.n = gui.n /\ gui'.exiting = gui.exiting /\ gui.at = "clean"
      BY <1>0, <1>6, <2>1 DEF GuiType, GuiGoto, CleanCore, GuiAt
    <3> QED
      BY <1>0, <2>1, <3>1 DEF GuiPlace, GuiAt
  <2> QED
    BY <1>5, <1>6, <2>1 DEF CleanCore
<1>7. CASE spawn_daemon
  <2>1. /\ gui.at = "spawn" /\ gui'.at = "client" /\ gui'.n = gui.n /\ gui'.exiting = gui.exiting
        /\ UNCHANGED <<cport, gport, ready>>
    BY <1>0, <1>7 DEF spawn_daemon, GuiType, GuiGoto, GuiAt
  <2>2. gui.n \in Ids
    BY <1>0, <2>1 DEF GuiPlace, GuiAt
  <2>3. \A d \in Ids : d > gui.n => daemon'[d] = daemon[d]
    BY <1>0, <1>7, <2>2 DEF spawn_daemon, ProcOK, Ids
  <2> QED
    BY <1>0, <2>1, <2>2, <2>3 DEF GuiPlace, GuiAt
<1>8. CASE MakeClient
  <2>1. /\ gui.at = "client" /\ gui'.at = "up" /\ gui'.n = gui.n /\ gui'.exiting = gui.exiting
        /\ UNCHANGED <<gport, ready, poll, daemon>>
    BY <1>0, <1>8 DEF MakeClient, GuiType, GuiGoto, GuiAt
  <2> QED
    BY <1>0, <2>1 DEF GuiPlace, GuiAt
<1>9. CASE WaitOrKill
  <2>1. /\ gui.at = "wait" /\ gui'.at = "sweep" /\ gui'.n = gui.n /\ gui'.exiting = gui.exiting
        /\ UNCHANGED <<cport, gport, ready, poll>> /\ ~spawn_daemon
    BY <1>0, <1>9 DEF WaitOrKill, GuiType, GuiGoto, GuiAt, spawn_daemon
  <2> QED
    BY <1>0, <1>1, <2>1 DEF GuiPlace, GuiAt
<1>10. CASE Exit
  <2>1. /\ gui.at = "up" /\ gui'.at = "wait" /\ gui'.n = gui.n /\ gui'.exiting = TRUE
        /\ UNCHANGED <<cport, ready, poll, daemon>>
    BY <1>0, <1>10 DEF Exit, GuiType, GuiAt
  <2> QED
    BY <1>0, <2>1 DEF GuiPlace, GuiAt
<1>11. CASE UseGlobal
  BY <1>0, <1>11 DEF UseGlobal, GuiPlace, GuiAt
<1>12. CASE GuiStill /\ ~spawn_daemon
  BY <1>0, <1>1, <1>12 DEF GuiStill, GuiPlace, GuiAt
<1>13. CASE PollSteps
  BY <1>0, <1>13 DEF PollSteps, PollSignal, PollState, PollConnect, PollFrame, GuiPlace, GuiAt
<1>14. CASE Crash /\ EndGui(FALSE)
  <2>1. CASE UNCHANGED daemon
    BY <1>5, <1>14, <2>1
  <2>2. CASE UNCHANGED gui
    <3>1. gui.at = "off"
      BY <1>0, <1>14, <2>2 DEF EndGui, GuiType
    <3>2. ~spawn_daemon
      BY <3>1 DEF spawn_daemon, GuiAt
    <3> QED
      BY <1>0, <1>1, <1>14, <2>2, <3>1, <3>2 DEF GuiPlace, GuiAt, EndGui
  <2> QED
    BY <1>14, <2>1, <2>2 DEF Crash
<1> QED
  BY <1>2, <1>3, <1>4, <1>6, <1>7, <1>8, <1>9, <1>10, <1>11, <1>12, <1>13, <1>14, GuiStays DEF GuiSteps

\* The first state.
LEMMA InitTypes == Init => TypeInv
<1> SUFFICES ASSUME Init PROVE TypeInv
  OBVIOUS
<1>1. GuiOK
  <2>1. 0 \in 0..MaxSessions /\ 0 \in 0..MaxFaults
    BY NumbersAssumption
  <2>2. [n |-> 0, at |-> "off", exiting |-> FALSE, end |-> None] \in GuiType
    BY <2>1 DEF GuiType, GuiPlaces
  <2> QED
    BY <2>1, <2>2 DEF Init, GuiOK
<1>2. ProcOK /\ NoneOK /\ ProcPlace
  BY DEF Init, ProcOK, NoneOK, ProcPlace, DaemonPlaces, BootPlaces, CorePlaces
<1>3. PortInv /\ PollOK
  BY DEF Init, PortInv, PollOK, PollPlaces
<1>4. GuiPlace
  BY DEF Init, GuiPlace, GuiAt
<1> QED
  BY <1>1, <1>2, <1>3, <1>4, TypeParts

\* Every step keeps the type invariant.
LEMMA TypeKept ==
    ASSUME TypeInv, [Next]_vars
    PROVE  TypeInv'
<1>1. CASE Next
  BY <1>1, GuiTypes, PollTypes, ProcTypes, PortTypes, GuiPlaceKept, TypePartsNext
<1>2. CASE UNCHANGED vars
  <2>1. GuiOK /\ PollOK /\ ProcOK /\ NoneOK /\ PortInv /\ GuiPlace /\ ProcPlace
    BY TypeParts
  <2>2. GuiOK' /\ ProcOK' /\ NoneOK' /\ ProcPlace'
    BY <1>2, <2>1 DEF vars, files, GuiOK, ProcOK, NoneOK, ProcPlace
  <2>3. PortInv' /\ PollOK'
    BY <1>2, <2>1 DEF vars, files, PortInv, PollOK
  <2>4. GuiPlace'
    BY <1>2, <2>1 DEF vars, files, GuiPlace, GuiAt
  <2> QED
    BY <2>2, <2>3, <2>4, TypePartsNext
<1> QED
  BY <1>1, <1>2

\* TypeOK: every file, port and place holds what the processes can make of it,
\* and the poll for readiness (app/setup.rs) has a port whenever it connects.
THEOREM TypeCorrect == Spec => []TypeOK
<1>1. TypeInv => TypeOK
  BY DEF TypeInv
<1> QED
  BY InitTypes, TypeKept, <1>1, PTL DEF Spec

-----------------------------------------------------------------------------
(* One daemon                                                              *)

\* A daemon comes to life by being spawned, and in no other way.
LEMMA AliveSteps ==
    ASSUME TypeInv, Next
    PROVE  \A d \in Ids : Alive(d)' => Alive(d) \/ (spawn_daemon /\ d = gui.n)
<1>1. Moves /\ ProcOK
  BY TypeParts, ProcessSteps
<1>2. Spawns => spawn_daemon
  BY SpawnSteps
<1>3. ASSUME Spawns, NEW d \in Ids, Alive(d)' PROVE Alive(d) \/ d = gui.n
  BY <1>1, <1>3 DEF Spawns, Alive, ProcOK
<1>4. ASSUME ~Spawns, NEW d \in Ids, Alive(d)' PROVE Alive(d)
  BY <1>1, <1>4 DEF Moves, Still, Ends, EndDaemon, Alive, Halts, Begins, Binds, Publishes, Stops, BootMoves, ProcOK
<1> QED
  BY <1>2, <1>3, <1>4

\* What has gone wrong stays so; a new session begins at the configured port.
LEMMA CauseGrows ==
    ASSUME Next
    PROVE  /\ cause \ {"moved", "edited", "stale", "squat"} \subseteq cause'
           /\ ~GuiStart => cause \subseteq cause'
<1>1. CASE Crash \/ Sweep \/ Terminate \/ WaitOrKill
  BY <1>1 DEF Crash, Sweep, Terminate, WaitOrKill
<1>2. ASSUME NEW d \in Ids, CleanCore \/ StopCore(d) PROVE cause \subseteq cause'
  BY <1>2 DEF CleanCore, StopCore, cleanup_easytier_daemon
<1>3. ASSUME NEW d \in Ids, Bind(d) \/ Leave(d) PROVE cause \subseteq cause'
  BY <1>3 DEF Bind, Leave
<1>4. CASE CleanCore
  BY <1>4 DEF CleanCore, cleanup_easytier_daemon
<1> QED
  BY <1>1, <1>2, <1>3, <1>4 DEF Next, GuiSteps, DaemonSteps, BootSteps, GuiStart, spawn_daemon, MakeClient,
     PollSteps, PollSignal, PollState, PollConnect, PollFrame, ConfigSteps, Reload, set_app_config, EditFile,
     ConfigFrame, UseGlobal, Exit, Occupy, New, Publish, Watchdog, Shutdown,
     SpawnCore, WritePid, AwaitPort, CoreListen, BootFrame

\* A daemon that has ended is not alive.
LEMMA EndedDaemon ==
    ASSUME TypeInv, NEW d \in Ids, EndDaemon(d)
    PROVE  ~Alive(d)' /\ \A e \in Ids \ {d} : daemon'[e] = daemon[e]
BY TypeParts DEF EndDaemon, Alive, ProcOK

\* Where the GUI goes by its own steps.
LEMMA GuiGoes ==
    ASSUME TypeInv, Next
    PROVE  /\ gui.at \in GuiPlaces /\ gui.exiting \in BOOLEAN /\ gui.n \in 0..MaxSessions
           /\ gui' \in GuiType
           /\ GuiStart => gui.at = "off" /\ gui'.at = "sweep" /\ gui'.exiting = FALSE /\ gui'.n = gui.n + 1
           /\ Sweep => gui.at = "sweep" /\ gui'.at \in {"term", "clean"} /\ gui'.exiting = gui.exiting /\ gui'.n = gui.n
           /\ Terminate => gui.at = "term" /\ gui'.at = "clean" /\ gui'.exiting = gui.exiting /\ gui'.n = gui.n
           /\ CleanCore => gui.at = "clean" /\ gui'.exiting = gui.exiting /\ gui'.n = gui.n
                           /\ gui'.at = (IF gui.exiting THEN "off" ELSE "spawn")
           /\ spawn_daemon => gui.at = "spawn" /\ gui'.at = "client" /\ gui'.exiting = gui.exiting /\ gui'.n = gui.n
           /\ MakeClient => gui.at = "client" /\ gui'.at = "up" /\ gui'.exiting = gui.exiting /\ gui'.n = gui.n
           /\ WaitOrKill => gui.at = "wait" /\ gui'.at = "sweep" /\ gui'.exiting = gui.exiting /\ gui'.n = gui.n
           /\ Exit => gui.at = "up" /\ gui'.at = "wait" /\ gui'.exiting = TRUE /\ gui'.n = gui.n
           /\ Crash /\ EndGui(FALSE) => gui'.at = "off" /\ gui'.exiting = FALSE /\ gui'.n = gui.n
           /\ PollSteps \/ UseGlobal => gui' = gui
<1>1. gui \in GuiType
  BY TypeParts DEF GuiOK
<1>2. gui' \in GuiType
  BY GuiTypes DEF GuiOK
<1>3. gui.at \in GuiPlaces /\ gui.exiting \in BOOLEAN /\ gui.n \in 0..MaxSessions
  BY <1>1 DEF GuiType
<1>4. GuiStart => gui.at = "off" /\ gui'.at = "sweep" /\ gui'.exiting = FALSE /\ gui'.n = gui.n + 1
  BY DEF GuiStart, GuiAt
<1>5. Sweep => gui.at = "sweep" /\ gui'.at \in {"term", "clean"} /\ gui'.exiting = gui.exiting /\ gui'.n = gui.n
  BY <1>1 DEF Sweep, GuiAt, GuiGoto, GuiType
<1>6. Terminate => gui.at = "term" /\ gui'.at = "clean" /\ gui'.exiting = gui.exiting /\ gui'.n = gui.n
  BY <1>1 DEF Terminate, GuiAt, GuiType
<1>7. CleanCore => gui.at = "clean" /\ gui'.exiting = gui.exiting /\ gui'.n = gui.n
                   /\ gui'.at = (IF gui.exiting THEN "off" ELSE "spawn")
  BY <1>1, <1>3 DEF CleanCore, GuiAt, GuiGoto, GuiType, EndGui
<1>8. /\ spawn_daemon => gui.at = "spawn" /\ gui'.at = "client" /\ gui'.exiting = gui.exiting /\ gui'.n = gui.n
      /\ MakeClient => gui.at = "client" /\ gui'.at = "up" /\ gui'.exiting = gui.exiting /\ gui'.n = gui.n
      /\ WaitOrKill => gui.at = "wait" /\ gui'.at = "sweep" /\ gui'.exiting = gui.exiting /\ gui'.n = gui.n
  BY <1>1 DEF spawn_daemon, MakeClient, WaitOrKill, GuiAt, GuiGoto, GuiType
<1>9. /\ Exit => gui.at = "up" /\ gui'.at = "wait" /\ gui'.exiting = TRUE /\ gui'.n = gui.n
      /\ Crash /\ EndGui(FALSE) => gui'.at = "off" /\ gui'.exiting = FALSE /\ gui'.n = gui.n
      /\ PollSteps \/ UseGlobal => gui' = gui
  BY <1>1 DEF Exit, EndGui, PollSteps, PollSignal, PollState, PollConnect, PollFrame, UseGlobal, GuiAt, GuiType
<1> QED
  BY <1>2, <1>3, <1>4, <1>5, <1>6, <1>7, <1>8, <1>9

\* Every step keeps one daemon at most.
LEMMA OneKept ==
    ASSUME TypeInv, OneInv, [Next]_vars
    PROVE  OneInv'
<1>u. CASE UNCHANGED vars
  BY <1>u DEF vars, files, OneInv, NoDaemon, Alive, GuiAt
<1> SUFFICES ASSUME Next, "twins" \notin cause'
             PROVE  OneInv'
  BY <1>u DEF OneInv
<1>0. /\ "twins" \notin cause
      /\ \A d, e \in Ids : Alive(d) /\ Alive(e) => d = e
      /\ gui.at \in {"clean", "spawn"} => NoDaemon
      /\ gui.at = "term" => \A d \in Ids : Alive(d) => d = gui.end
      /\ gui.at \in {"client", "up", "wait"} => \A d \in Ids : Alive(d) => d = gui.n
      /\ gui.exiting /\ gui.at # "wait" => NoDaemon
      /\ GuiPlace /\ ProcOK
  BY CauseGrows, TypeParts DEF OneInv, GuiAt
<1>1. \A d \in Ids : Alive(d)' => Alive(d) \/ (spawn_daemon /\ d = gui.n)
  BY AliveSteps
<1>2. CASE spawn_daemon
  <2>1. gui'.at = "client" /\ gui'.n = gui.n /\ ~gui'.exiting
    BY <1>0, <1>2, GuiGoes DEF GuiPlace
  <2>2. NoDaemon
    BY <1>0, <1>2, GuiGoes
  <2> QED
    BY <1>1, <2>1, <2>2 DEF OneInv, NoDaemon, GuiAt
<1>3. ASSUME ~spawn_daemon PROVE OneInv'
  <2>1. \A d \in Ids : Alive(d)' => Alive(d)
    BY <1>1, <1>3
  <2>2. NoDaemon => NoDaemon'
    BY <2>1 DEF NoDaemon
  <2>3. \A d, e \in Ids : Alive(d)' /\ Alive(e)' => d = e
    BY <1>0, <2>1
  <2>4. CASE GuiStart
    BY <2>3, <2>4, GuiGoes DEF OneInv, GuiAt
  <2>5. CASE Sweep
    <3>1. ASSUME NEW d \in Ids, Listens(d), gui' = [gui EXCEPT !.at = "term", !.end = d] PROVE OneInv'
      <4>1. gui'.at = "term" /\ gui'.end = d /\ gui'.exiting = gui.exiting
        BY <3>1, TypeParts DEF GuiOK, GuiType
      <4>2. Alive(d)
        BY <3>1 DEF Listens, Alive
      <4> QED
        BY <1>0, <2>1, <2>2, <2>3, <2>5, <4>1, <4>2, GuiGoes DEF OneInv, GuiAt
    <3>2. CASE /\ cause' = cause \cup (IF ~gui.exiting /\ (\E d \in Ids : Alive(d)) THEN {"twins"} ELSE {})
               /\ GuiGoto("clean")
      <4>1. NoDaemon
        <5>1. CASE gui.exiting
          BY <1>0, <2>5, <5>1, GuiGoes
        <5>2. CASE ~gui.exiting
          BY <3>2, <5>2 DEF NoDaemon
        <5> QED
          BY <5>1, <5>2
      <4>2. gui'.at = "clean"
        BY <3>2, TypeParts DEF GuiOK, GuiType, GuiGoto
      <4> QED
        BY <2>2, <2>3, <4>1, <4>2 DEF OneInv, GuiAt
    <3> QED
      BY <2>5, <3>1, <3>2 DEF Sweep
  <2>6. CASE Terminate
    <3>1. gui.at = "term" /\ gui'.at = "clean" /\ gui.end \in Ids
      BY <1>0, <2>6, GuiGoes DEF GuiPlace, GuiAt
    <3>2. ASSUME NEW d \in Ids, d = gui.end PROVE ~Alive(d)'
      <4>1. CASE daemon[gui.end] = "dead" /\ UNCHANGED daemon
        BY <3>2, <4>1 DEF Alive
      <4>2. CASE EndDaemon(gui.end)
        BY <3>2, <4>2, EndedDaemon
      <4> QED
        BY <2>6, <4>1, <4>2 DEF Terminate
    <3>3. NoDaemon'
      BY <1>0, <2>1, <3>1, <3>2 DEF NoDaemon
    <3> QED
      BY <2>3, <3>1, <3>3 DEF OneInv, GuiAt
  <2>7. CASE CleanCore
    BY <1>0, <2>2, <2>3, <2>7, GuiGoes DEF OneInv, GuiAt
  <2>8. CASE MakeClient \/ Exit
    BY <1>0, <2>1, <2>2, <2>3, <2>8, GuiGoes DEF OneInv, GuiAt
  <2>9. CASE WaitOrKill
    <3>1. gui.at = "wait" /\ gui'.at = "sweep" /\ gui.n \in Ids
      BY <1>0, <2>9, GuiGoes DEF GuiPlace, GuiAt
    <3>2. ASSUME NEW d \in Ids, d = gui.n PROVE ~Alive(d)'
      <4>1. CASE ~Alive(gui.n) /\ UNCHANGED daemon
        BY <3>2, <4>1 DEF Alive
      <4>2. CASE EndDaemon(gui.n)
        BY <3>2, <4>2, EndedDaemon
      <4> QED
        BY <2>9, <4>1, <4>2 DEF WaitOrKill
    <3>3. NoDaemon'
      BY <1>0, <2>1, <3>1, <3>2 DEF NoDaemon
    <3> QED
      BY <2>3, <3>1, <3>3 DEF OneInv, GuiAt
  <2>10. CASE Crash /\ EndGui(FALSE)
    BY <2>3, <2>10, GuiGoes DEF OneInv, GuiAt
  <2>11. CASE UNCHANGED gui
    BY <1>0, <2>1, <2>2, <2>3, <2>11 DEF OneInv, GuiAt
  <2> QED
    BY <1>3, <2>4, <2>5, <2>6, <2>7, <2>8, <2>9, <2>10, <2>11, GuiGoes, GuiStays DEF GuiSteps, GuiStill
<1> QED
  BY <1>2, <1>3

-----------------------------------------------------------------------------
(* Readiness                                                               *)

\* Who writes the state file and the signal file.
LEMMA FileSteps ==
    ASSUME Next
    PROVE  \/ UNCHANGED <<state, signal>>
           \/ state' = None /\ signal' = FALSE
           \/ \E d \in Ids : Publish(d)
BY DEF Next, GuiSteps, DaemonSteps, BootSteps, GuiStart, Sweep, Terminate, CleanCore, spawn_daemon, MakeClient,
   WaitOrKill, PollSteps, PollSignal, PollState, PollConnect, PollFrame, ConfigSteps, Reload, set_app_config, EditFile,
     ConfigFrame, UseGlobal, Exit, Occupy, New, Bind, StopCore, Leave, Watchdog, Shutdown,
   SpawnCore, WritePid, AwaitPort, CoreListen, BootFrame, Crash, files

\* A daemon begins by Daemon::new.
LEMMA NewSteps ==
    ASSUME TypeInv, Next, NEW d \in Ids, Begins(d)
    PROVE  New(d)
<1>0. ProcOK
  BY TypeParts
<1>1. daemon[d] = "new" /\ daemon'[d] = "bind"
  BY <1>0 DEF Begins, ProcOK
<1>2. ASSUME NEW e, EndDaemon(e) PROVE FALSE
  BY <1>0, <1>1, <1>2 DEF EndDaemon, ProcOK
<1>3. ~Sweep
  BY <1>0, <1>1, <1>2 DEF Sweep, ProcOK
<1>4. ~Terminate /\ ~WaitOrKill /\ ~Crash
  BY <1>1, <1>2 DEF Terminate, WaitOrKill, Crash
<1>5. ~spawn_daemon
  BY <1>0, <1>1 DEF spawn_daemon, ProcOK
<1>6. \A e \in Ids : ~Publish(e) /\ ~StopCore(e) /\ ~Watchdog(e) /\ ~Shutdown(e)
  BY <1>0, <1>1 DEF Publish, StopCore, Watchdog, Shutdown, DaemonGoto, ProcOK
<1>7. \A e \in Ids : ~Leave(e) /\ ~Bind(e)
  BY <1>0, <1>1, <1>2 DEF Leave, Bind, DaemonGoto, ProcOK
<1>8. \A e \in Ids : New(e) => e = d
  BY <1>0, <1>1 DEF New, DaemonGoto, ProcOK
<1> QED
  BY <1>1, <1>3, <1>4, <1>5, <1>6, <1>7, <1>8 DEF Next, GuiSteps, DaemonSteps, BootSteps, GuiStart, CleanCore,
     MakeClient, PollSteps, PollSignal, PollState, PollConnect, PollFrame, ConfigSteps, Reload,
     set_app_config, EditFile, ConfigFrame, UseGlobal, Exit, Occupy, SpawnCore, WritePid, AwaitPort,
     CoreListen, BootFrame

\* A daemon is on its way to publish its port only if it was before, or begins.
LEMMA EarlySteps ==
    ASSUME TypeInv, Next, NEW d \in Ids
    PROVE  /\ daemon'[d] \in {"bind", "publish"} => daemon[d] \in {"bind", "publish"} \/ New(d)
           /\ daemon'[d] \in {"new", "bind"} => daemon[d] \in {"new", "bind"} \/ (spawn_daemon /\ d = gui.n)
           /\ daemon'[d] = "publish" => daemon[d] \in {"bind", "publish"}
<1>1. Moves /\ ProcOK
  BY TypeParts, ProcessSteps
<1>2. Spawns => spawn_daemon
  BY SpawnSteps
<1>3. \A e \in Ids : Begins(e) => New(e)
  BY NewSteps
<1>4. ASSUME daemon'[d] # daemon[d]
      PROVE  \/ daemon'[d] = "dead" \/ Begins(d)
             \/ daemon[d] = "bind" /\ daemon'[d] = "publish"
             \/ daemon'[d] \in {"serve", "stop", "leave"}
             \/ Spawns /\ d = gui.n /\ daemon'[d] = "new"
  BY <1>1, <1>4 DEF Moves, Still, Spawns, Ends, EndDaemon, Halts, Begins, Binds, Publishes, Stops, BootMoves, ProcOK
<1>5. Begins(d) => daemon[d] = "new" /\ daemon'[d] = "bind"
  BY <1>1 DEF Begins, ProcOK
<1>6. CASE daemon'[d] = daemon[d]
  BY <1>6
<1>7. CASE daemon'[d] # daemon[d]
  BY <1>2, <1>3, <1>4, <1>5, <1>7
<1> QED
  BY <1>6, <1>7

\* Who moves the poll on, and who says that the daemon is ready.
LEMMA PollChanges ==
    ASSUME Next
    PROVE  /\ poll' = poll \/ PollSteps \/ poll' \in {"off", "idle"}
           /\ ready' => ready \/ (PollConnect /\ ~ready)
<1>1. CASE PollSteps
  BY <1>1 DEF PollSteps, PollSignal, PollState, PollConnect
<1>2. CASE ~PollSteps
  <2>1. GuiStart \/ Sweep \/ Terminate \/ MakeClient \/ WaitOrKill \/ UseGlobal \/ Exit \/ GuiStill =>
          poll' = poll /\ ready' = ready
    BY DEF GuiStart, Sweep, Terminate, MakeClient, WaitOrKill, UseGlobal, Exit, GuiStill
  <2>2. \A x : EndGui(x) => poll' = "off" /\ ready' = FALSE
    BY DEF EndGui
  <2>3. spawn_daemon => poll' \in {poll, "idle"} /\ ready' = ready
    BY DEF spawn_daemon
  <2>4. CleanCore => EndGui(TRUE) \/ (poll' = poll /\ ready' = ready)
    BY DEF CleanCore
  <2>5. poll' \in {poll, "off", "idle"} /\ ready' \in {ready, FALSE}
    BY <1>2, <2>1, <2>2, <2>3, <2>4, GuiStays DEF GuiSteps
  <2>6. ready' => ready
    BY <2>5, Zenon
  <2> QED
    BY <2>5, <2>6
<1> QED
  BY <1>1, <1>2

\* Every step keeps ReadyInv.
LEMMA ReadyKept ==
    ASSUME TypeInv, OneInv, ReadyInv, [Next]_vars
    PROVE  ReadyInv'
<1>u. CASE UNCHANGED vars
  BY <1>u DEF vars, files, ReadyInv, ReadyIsOwn
<1> SUFFICES ASSUME Next, "twins" \notin cause'
             PROVE  ReadyInv'
  BY <1>u DEF ReadyInv
<1>0. /\ "twins" \notin cause /\ GuiPlace /\ ProcOK /\ gui.exiting \in BOOLEAN
      /\ \A d, e \in Ids : Alive(d) /\ Alive(e) => d = e
      /\ gui.at \in {"client", "up", "wait"} => \A d \in Ids : Alive(d) => d = gui.n
      /\ gui.exiting /\ gui.at # "wait" => NoDaemon
      /\ \A d \in Ids : daemon[d] \in {"bind", "publish"} => state = None /\ ~signal
      /\ "stale" \notin cause => \A d \in Ids : daemon[d] \in {"bind", "publish"} => poll \notin {"state", "connect"}
      /\ ReadyIsOwn
  BY CauseGrows, TypeParts DEF OneInv, ReadyInv, GuiAt, GuiOK, GuiType
<1>1. ASSUME NEW d \in Ids, daemon'[d] \in {"bind", "publish"} PROVE state' = None /\ ~signal'
  <2>1. CASE New(d)
    BY <2>1 DEF New
  <2>2. CASE daemon[d] \in {"bind", "publish"}
    <3>1. ASSUME NEW e \in Ids, Publish(e) PROVE FALSE
      <4>1. e = d
        BY <1>0, <2>2, <3>1 DEF Publish, Alive
      <4> QED
        BY <1>0, <1>1, <3>1, <4>1 DEF Publish, DaemonGoto, ProcOK
    <3>2. state = None /\ signal = FALSE
      BY <1>0, <2>2, TypeParts DEF GuiOK
    <3>3. UNCHANGED <<state, signal>> \/ (state' = None /\ signal' = FALSE)
      BY <3>1, FileSteps
    <3> QED
      BY <3>2, <3>3
  <2> QED
    BY <1>1, <2>1, <2>2, EarlySteps
<1>2. ASSUME "stale" \notin cause', NEW d \in Ids, daemon'[d] \in {"bind", "publish"}
      PROVE  poll' \notin {"state", "connect"}
  <2>1. CASE New(d)
    BY <1>2, <2>1 DEF New
  <2>2. CASE daemon[d] \in {"bind", "publish"}
    <3>1. signal = FALSE
      BY <1>0, <2>2, TypeParts DEF GuiOK
    <3>2. CASE GuiStart
      <4>1. poll = "off" /\ poll' = poll
        BY <1>0, <3>2 DEF GuiStart, GuiPlace, GuiAt
      <4> QED
        BY <4>1
    <3>3. CASE ~GuiStart
      <4>1. poll \notin {"state", "connect"}
        BY <1>0, <1>2, <2>2, <3>3, CauseGrows
      <4>2. CASE poll' # poll
        BY <3>1, <4>1, <4>2, PollChanges DEF PollSteps, PollSignal, PollState, PollConnect
      <4> QED
        BY <4>1, <4>2
    <3> QED
      BY <3>2, <3>3
  <2> QED
    BY <1>2, <2>1, <2>2, EarlySteps
<1>3. ASSUME ready', "squat" \notin cause'
      PROVE  /\ daemon'[gui'.n] \notin {"none", "new", "bind"}
             /\ "stale" \notin cause' => daemon'[gui'.n] # "publish"
  <2>1. CASE PollConnect /\ ~ready
    <3>1. /\ gui' = gui /\ daemon' = daemon /\ seen \notin foreign /\ Taken(seen) /\ poll = "connect"
          /\ seen # Rpc /\ cause' = cause
      <4>1. seen # Rpc
        BY TypeParts, NoneAssumption DEF PollOK
      <4> QED
        BY <1>3, <2>1, <4>1 DEF PollConnect, PollFrame
    <3>2. PICK d \in Ids : Listens(d)
      BY <3>1 DEF Taken
    <3>3. Alive(d) /\ ~NoDaemon
      BY <3>2 DEF Listens, Alive, NoDaemon
    <3>4. gui.at \in {"client", "up", "wait"}
      BY <1>0, <3>1, <3>3 DEF GuiPlace, GuiAt
    <3>5. d = gui.n
      BY <1>0, <3>3, <3>4
    <3>6. "stale" \notin cause => daemon[d] # "publish"
      BY <1>0, <3>1
    <3> QED
      BY <3>1, <3>2, <3>5, <3>6 DEF Listens
  <2>2. CASE ready
    <3>1. gui.at # "off" /\ (gui.at \in {"client", "up"} \/ gui.exiting) /\ gui.n \in Ids
      BY <1>0, <2>2 DEF GuiPlace, GuiAt
    <3>2. ~GuiStart /\ ~spawn_daemon
      BY <1>0, <3>1, GuiGoes DEF GuiPlace
    <3>3. gui'.n = gui.n
      BY <3>2, GuiGoes, GuiStays DEF GuiSteps, GuiStill
    <3>4. cause \subseteq cause'
      BY <3>2, CauseGrows
    <3>5. daemon[gui.n] \notin {"none", "new", "bind"} /\ ("stale" \notin cause => daemon[gui.n] # "publish")
      BY <1>0, <1>3, <2>2, <3>4 DEF ReadyIsOwn
    <3>6. daemon'[gui.n] # "none"
      BY <3>1, <3>5, NoneSteps
    <3> QED
      BY <3>1, <3>2, <3>3, <3>4, <3>5, <3>6, EarlySteps
  <2> QED
    BY <1>3, <2>1, <2>2, PollChanges
<1> QED
  BY <1>1, <1>2, <1>3 DEF ReadyInv, ReadyIsOwn

\* The first state keeps what the invariants below the types say.
LEMMA InitOne == Init => OneInv /\ ReadyInv
BY DEF Init, OneInv, ReadyInv, ReadyIsOwn, NoDaemon, Alive, GuiAt

\* ReadyIsOwn: the poll for readiness (app/setup.rs) finds nothing ready before
\* this session's daemon has bound its port, whatever files a killed daemon has
\* left and however the three steps of the poll fall between the daemon's; and
\* not before it has published the port, unless the poll was overtaken by the
\* removal of the earlier files (Daemon::new).
THEOREM ReadyMeansPublished == Spec => []ReadyIsOwn
<1>1. ReadyInv => ReadyIsOwn
  BY DEF ReadyInv, ReadyIsOwn
<1> QED
  BY InitTypes, TypeKept, InitOne, OneKept, ReadyKept, <1>1, PTL DEF Spec

\* Unless a session began beside a living daemon, one daemon at most is alive,
\* and none once the cleanup before a spawn (app/setup.rs) or after an exit
\* (app/exit.rs) has ended what it found.
THEOREM OneDaemon == Spec => []OneInv
BY InitTypes, TypeKept, InitOne, OneKept, PTL DEF Spec

-----------------------------------------------------------------------------
(* The GUI's clients                                                       *)

\* Every step keeps ClientInv.
LEMMA ClientKept ==
    ASSUME TypeInv, OneInv, ReadyInv, ClientInv, [Next]_vars
    PROVE  ClientInv'
<1>u. CASE UNCHANGED vars
  BY <1>u DEF vars, files, ClientInv, GuiAt
<1> SUFFICES ASSUME Next
             PROVE  ClientInv'
  BY <1>u
<1>0. /\ GuiPlace /\ ProcOK /\ NoneOK /\ PortInv /\ DOMAIN dport = Ids
      /\ cause \cap {"moved", "edited"} = {} /\ gui.at # "off" => gconfig = config
      /\ cause \cap {"twins", "edited"} = {} => state \in {None, config} /\ \A d \in Ids : dport[d] \in {None, config}
      /\ cause \cap {"moved", "twins", "edited"} = {} => cport \in {None, config} /\ gport \in {None, config}
  BY TypeParts DEF ClientInv, GuiAt, PortInv
<1>1. ASSUME NEW d \in Ids, NEW p \in Nat, Binds(d, p) PROVE ClientInv'
  <2>1. /\ UNCHANGED <<gui, cport, gport, ready, gconfig, core, pidfile, state, signal, foreign, faults>>
        /\ \/ p = dport[d] /\ config' = config /\ cause' = cause
           \/ config' = p /\ cause' = cause \cup {"moved"}
    BY <1>1, BindSteps
  <2>2. ASSUME "twins" \notin cause
        PROVE  state' = None /\ \A e \in Ids : dport'[e] \in {None, p}
    <3>1. state = None
      BY <1>1, <2>2 DEF ReadyInv, Binds
    <3>2. ASSUME NEW e \in Ids, e # d PROVE dport[e] = None
      <4>1. ~Alive(e)
        BY <1>1, <2>2, <3>2 DEF OneInv, Binds, Alive
      <4> QED
        BY <1>0, <4>1 DEF Alive, NoneOK
    <3> QED
      BY <1>0, <1>1, <2>1, <3>1, <3>2 DEF Binds
  <2>3. CASE p = dport[d] /\ config' = config /\ cause' = cause
    <3>1. p # None
      BY NoneAssumption
    <3>2. cause \cap {"twins", "edited"} = {} => p = config
      BY <1>0, <2>3, <3>1
    <3> QED
      BY <1>0, <2>1, <2>2, <2>3, <3>2 DEF ClientInv, GuiAt
  <2>4. CASE config' = p /\ cause' = cause \cup {"moved"}
    BY <2>2, <2>4 DEF ClientInv
  <2> QED
    BY <2>1, <2>3, <2>4
<1>3. CASE set_app_config \/ EditFile
  BY <1>3 DEF set_app_config, EditFile, ClientInv
<1>2. ASSUME ~\E d \in Ids : \E p \in Nat : Binds(d, p), ~set_app_config, ~EditFile PROVE ClientInv'
  <2>1. /\ config' = config /\ state' \in {state, None} \cup {dport[d] : d \in Ids}
        /\ dport' \in [Ids -> {None, config} \cup {dport[d] : d \in Ids}]
    BY <1>2, PortSteps
  <2>2. cause' \cap {"twins", "edited"} = {} => state' \in {None, config'} /\ \A d \in Ids : dport'[d] \in {None, config'}
    <3>1. CASE cause' \cap {"twins", "edited"} = {} => cause \cap {"twins", "edited"} = {}
      BY <1>0, <2>1, <3>1
    <3>2. CASE GuiStart /\ "edited" \notin cause' /\ "edited" \in cause
      <4>1. state = None /\ (\A d \in Ids : ~Alive(d)) /\ UNCHANGED <<state, dport>>
        BY <3>2 DEF GuiStart, files
      <4>2. \A d \in Ids : dport[d] = None
        BY <1>0, <4>1 DEF Alive, NoneOK, ProcOK, DaemonPlaces
      <4> QED
        BY <4>1, <4>2
    <3> QED
      BY <3>1, <3>2, CauseGrows
  <2>3. CASE GuiStart
    <3>1. gui.at = "off" /\ gconfig' = config /\ UNCHANGED <<cport, gport>>
      BY <2>3 DEF GuiStart, GuiAt
    <3>2. cport' = None /\ gport' = None
      BY <1>0, <3>1 DEF GuiPlace, GuiAt
    <3> QED
      BY <2>1, <2>2, <3>1, <3>2 DEF ClientInv
  <2>4. ASSUME NEW x, EndGui(x) PROVE ClientInv'
    <3>1. gui'.at = "off" /\ cport' = None /\ gport' = None
      BY <2>4, TypeParts DEF EndGui, GuiOK, GuiType
    <3> QED
      BY <2>2, <3>1 DEF ClientInv, GuiAt
  <2>5. ASSUME ~GuiStart, gui'.at # "off" => gui.at # "off",
               gconfig' \in {gconfig, config},
               cport' # cport => cport' \in {state, gconfig} /\ gui.at # "off",
               gport' # gport => gport' = gconfig /\ gui.at # "off"
        PROVE  ClientInv'
    <3>1. cause \subseteq cause'
      BY <2>5, CauseGrows
    <3>2. cause' \cap {"moved", "edited"} = {} /\ gui'.at # "off" => gconfig' = config'
      BY <1>0, <2>1, <2>5, <3>1
    <3>3. cause' \cap {"moved", "twins", "edited"} = {} => cport' \in {None, config'} /\ gport' \in {None, config'}
      BY <1>0, <2>1, <2>5, <3>1
    <3> QED
      BY <2>2, <3>2, <3>3 DEF ClientInv, GuiAt
  <2>6. CASE Sweep \/ Terminate \/ spawn_daemon \/ WaitOrKill
    <3>1. UNCHANGED <<cport, gport, gconfig>> /\ gui.at # "off" /\ ~GuiStart
      BY <2>6 DEF Sweep, Terminate, spawn_daemon, WaitOrKill, GuiAt, GuiStart
    <3> QED
      BY <2>5, <3>1
  <2>7. CASE CleanCore
    <3>1. CASE UNCHANGED <<cport, gport, gconfig>>
      BY <2>5, <2>7, <3>1 DEF CleanCore, GuiAt, GuiStart
    <3> QED
      BY <2>4, <2>7, <3>1 DEF CleanCore
  <2>8. CASE MakeClient \/ UseGlobal \/ Exit
    <3>1. /\ gui.at # "off" /\ ~GuiStart /\ UNCHANGED gconfig
          /\ cport' # cport => cport' \in {state, gconfig}
          /\ gport' # gport => gport' = gconfig
      BY <2>8 DEF MakeClient, UseGlobal, Exit, GuiAt, GuiStart
    <3> QED
      BY <2>5, <3>1
  <2>11. CASE PollSteps
    <3>1. poll # "off" /\ UNCHANGED <<gui, cport, gport, gconfig>>
      BY <2>11 DEF PollSteps, PollSignal, PollState, PollConnect, PollFrame
    <3>2. ~GuiStart
      BY <1>0, <3>1 DEF GuiStart, GuiPlace, GuiAt
    <3> QED
      BY <2>5, <3>1, <3>2
  <2>9. CASE GuiStill /\ ~GuiStart /\ gconfig' \in {gconfig, config}
    BY <2>5, <2>9 DEF GuiStill
  <2>10. GuiStill /\ ~(Crash /\ EndGui(FALSE)) /\ ~GuiStart /\ ~GuiSteps => gconfig' \in {gconfig, config}
    BY <1>2 DEF Next, DaemonSteps, BootSteps, PollSteps, PollSignal, PollState, PollConnect, PollFrame,
       ConfigSteps, Reload, UseGlobal, Exit, Occupy, New, Bind, Publish, StopCore, Leave, Watchdog, Shutdown,
       SpawnCore, WritePid, AwaitPort, CoreListen, BootFrame, Crash
  <2> QED
    BY <2>3, <2>4, <2>6, <2>7, <2>8, <2>9, <2>10, <2>11, GuiStays DEF GuiSteps
<1> QED
  BY <1>1, <1>2, <1>3

\* The first state.
LEMMA InitClient == Init => ClientInv
BY DEF Init, ClientInv, GuiAt

\* ClientsReachDaemon: the client made at once from the state file or the
\* configuration (from_data_dir), and the one GLOBAL_IPC keeps from its first
\* use, are at the port of this session's daemon, in a session whose daemon got
\* the configured port, in which the user did not change that port
\* (set_app_config), and that began beside no living daemon.
THEOREM ClientsFindDaemon == Spec => []ClientsReachDaemon
<1>1. TypeInv /\ ClientInv => ClientsReachDaemon
  <2> SUFFICES ASSUME TypeInv, ClientInv, ~GuiAt("off"), Listens(gui.n),
                      cause \cap {"moved", "edited", "twins"} = {}
               PROVE  cport \in {None, dport[gui.n]} /\ gport \in {None, dport[gui.n]}
    BY DEF ClientsReachDaemon
  <2>1. gui.n \in Ids
    BY TypeParts DEF GuiPlace
  <2>2. dport[gui.n] # None
    BY <2>1, TypeParts DEF NoneOK, Listens
  <2> QED
    BY <2>1, <2>2 DEF ClientInv
<1> QED
  BY InitTypes, TypeKept, InitOne, OneKept, ReadyKept, InitClient, ClientKept, <1>1, PTL DEF Spec

-----------------------------------------------------------------------------
(* The cores                                                               *)

\* Who changes the cores and the PID file.
LEMMA CoreChanges ==
    ASSUME Next
    PROVE  /\ \/ UNCHANGED <<core, pidfile>> \/ CleanCore \/ Crash
              \/ \E d \in Ids : StopCore(d) \/ SpawnCore(d) \/ WritePid(d) \/ CoreListen(d)
           /\ foreign \subseteq foreign'
<1>1. foreign \subseteq foreign'
  BY DEF Next, GuiSteps, DaemonSteps, BootSteps, GuiStart, Sweep, Terminate, spawn_daemon, MakeClient, CleanCore,
     WaitOrKill, PollSteps, PollSignal, PollState, PollConnect, PollFrame, ConfigSteps, Reload, set_app_config,
     EditFile, ConfigFrame, UseGlobal, Exit, Occupy, New, Bind, Publish, StopCore, Leave, Watchdog, Shutdown,
     SpawnCore, WritePid, AwaitPort, CoreListen, BootFrame, Crash, files
<1>2. \/ UNCHANGED <<core, pidfile>> \/ CleanCore \/ Crash
      \/ \E d \in Ids : StopCore(d) \/ SpawnCore(d) \/ WritePid(d) \/ CoreListen(d)
  BY DEF Next, GuiSteps, DaemonSteps, BootSteps, GuiStart, Sweep, Terminate, spawn_daemon, MakeClient,
     WaitOrKill, PollSteps, PollSignal, PollState, PollConnect, PollFrame, ConfigSteps, Reload, set_app_config,
     EditFile, ConfigFrame, UseGlobal, Exit, Occupy, New, Bind, Publish, Leave, Watchdog, Shutdown,
     AwaitPort, BootFrame, files
<1> QED
  BY <1>1, <1>2

\* Which steps change the boot tasks.
LEMMA BootChanges ==
    ASSUME TypeInv, Next
    PROVE  \/ UNCHANGED boot
           \/ \E d \in Ids : EndDaemon(d) \/ Publish(d) \/ SpawnCore(d) \/ WritePid(d) \/ AwaitPort(d)
<1>1. Terminate => gui.end \in Ids
  BY TypeParts DEF Terminate, GuiPlace
<1>2. WaitOrKill => gui.n \in Ids
  BY TypeParts DEF WaitOrKill, GuiPlace, GuiAt
<1> QED
  BY <1>1, <1>2 DEF Next, GuiSteps, DaemonSteps, BootSteps, GuiStart, Sweep, Terminate, CleanCore,
     spawn_daemon, MakeClient, WaitOrKill, PollSteps, PollSignal, PollState, PollConnect, PollFrame,
     ConfigSteps, Reload, set_app_config, EditFile, ConfigFrame, UseGlobal, Exit, Occupy, New, Bind, StopCore,
     Leave, Watchdog, Shutdown, CoreListen, BootFrame, Crash

\* A daemon that serves comes to hold a core by the poll of the RPC port, where
\* a core listens if no other program does.
LEMMA HeldSteps ==
    ASSUME TypeInv, Next, NEW d \in Ids, boot'[d] = "held", daemon'[d] = "serve", Rpc \notin foreign
    PROVE  /\ daemon[d] = "serve"
           /\ boot[d] = "held" \/ (AwaitPort(d) /\ \E c \in Ids : core[c] = "listening")
<1>0. ProcOK /\ ProcPlace /\ Moves
  BY TypeParts, ProcessSteps
<1>1. daemon[d] = "serve"
  BY <1>0 DEF Moves, Still, Spawns, Ends, EndDaemon, Halts, Begins, Binds, Publishes, Stops, BootMoves, ProcOK
<1>2. ASSUME NEW e \in Ids, EndDaemon(e) PROVE boot[d] = "held"
  BY <1>0, <1>2 DEF EndDaemon, ProcOK
<1>3. ASSUME NEW e \in Ids, Publish(e) \/ SpawnCore(e) \/ WritePid(e) PROVE boot[d] = "held"
  BY <1>0, <1>3 DEF Publish, SpawnCore, WritePid, BootGoto, ProcOK
<1>4. ASSUME NEW e \in Ids, AwaitPort(e)
      PROVE  boot[d] = "held" \/ (AwaitPort(d) /\ \E c \in Ids : core[c] = "listening")
  <2>1. \A b \in Ids : dport[b] # Rpc
    BY NoneAssumption, TypeParts DEF PortInv
  <2>2. Taken(Rpc) => \E c \in Ids : core[c] = "listening"
    BY <2>1 DEF Taken
  <2>3. CASE Taken(Rpc) /\ BootGoto(e, "held")
    BY <1>0, <1>4, <2>2, <2>3 DEF BootGoto, ProcOK
  <2>4. CASE BootGoto(e, "failed")
    BY <1>0, <2>4 DEF BootGoto, ProcOK
  <2> QED
    BY <1>4, <2>3, <2>4 DEF AwaitPort
<1> QED
  BY <1>1, <1>2, <1>3, <1>4, BootChanges

\* cleanup_easytier_daemon ends the one core there is, which no PID file hides,
\* unless it does not see it.
LEMMA CleanSteps ==
    ASSUME TypeInv, OneCore, cleanup_easytier_daemon, "unseen" \notin cause'
    PROVE  pidfile' = None /\ NoCore'
<1>0. core \in [Ids -> CorePlaces] /\ pidfile \in Ids \cup {None}
  BY TypeParts DEF ProcOK
<1>1. pidfile' = None
  BY DEF cleanup_easytier_daemon
<1>2. /\ \A c \in Ids : CoreAlive(c) => pidfile \in {None, c}
      /\ \A b, c \in Ids : CoreAlive(b) /\ CoreAlive(c) => b = c
  BY DEF OneCore
<1>3. ASSUME NEW b \in Ids, CoreAlive(b), EndCore(b) PROVE NoCore'
  BY <1>0, <1>2, <1>3 DEF EndCore, CoreAlive, NoCore
<1>4. CASE pidfile # None /\ ~CoreAlive(pidfile) /\ UNCHANGED core
  BY <1>1, <1>2, <1>4 DEF CoreAlive, NoCore
<1>5. CASE pidfile # None /\ CoreAlive(pidfile) /\ EndCore(pidfile)
  BY <1>0, <1>1, <1>3, <1>5
<1>6. CASE \E c \in Ids : core[c] = "listening" /\ EndCore(c)
  BY <1>1, <1>3, <1>6 DEF CoreAlive
<1>7. CASE /\ cause' = cause \cup (IF \E c \in Ids : CoreAlive(c) THEN {"unseen"} ELSE {})
           /\ UNCHANGED core
  BY <1>1, <1>7 DEF CoreAlive, NoCore
<1> QED
  BY <1>1, <1>4, <1>5, <1>6, <1>7 DEF cleanup_easytier_daemon

\* Every step keeps OneCore.
LEMMA OneCoreKept ==
    ASSUME TypeInv, OneInv, OneCore, Next, cause' \cap {"unseen", "twins"} = {}
    PROVE  OneCore'
<1>0. /\ cause \cap {"unseen", "twins"} = {}
      /\ GuiPlace /\ ProcOK /\ core \in [Ids -> CorePlaces] /\ pidfile \in Ids \cup {None}
  BY CauseGrows, TypeParts DEF ProcOK
<1>1. /\ \A c \in Ids : CoreAlive(c) => pidfile \in {None, c}
      /\ \A d \in Ids : Alive(d) => pidfile \in {None, d}
      /\ \A b, c \in Ids : CoreAlive(b) /\ CoreAlive(c) => b = c
      /\ \A c, d \in Ids : CoreAlive(c) /\ Alive(d) => c = d
      /\ gui.at = "spawn" => pidfile = None
      /\ gui.at = "spawn" \/ (gui.at = "off" /\ gui.exiting) => NoCore
  BY DEF OneCore, GuiAt, Exited
<1>2. /\ \A d, e \in Ids : Alive(d) /\ Alive(e) => d = e
      /\ gui.at \in {"clean", "spawn"} => NoDaemon
      /\ gui.exiting /\ gui.at # "wait" => NoDaemon
  BY <1>0 DEF OneInv, GuiAt
<1>3. \A d \in Ids : Alive(d)' => Alive(d) \/ (spawn_daemon /\ d = gui.n)
  BY AliveSteps
<1>4. CASE CleanCore
  <2>1. pidfile' = None /\ NoCore'
    BY <1>0, <1>4, CleanSteps DEF CleanCore
  <2> QED
    BY <2>1 DEF OneCore, NoCore
<1>5. ASSUME NEW d \in Ids, StopCore(d) PROVE OneCore'
  <2>1. Alive(d)
    BY <1>5 DEF StopCore, Alive
  <2>2. CASE cleanup_easytier_daemon
    BY <2>2, CleanSteps DEF OneCore, NoCore
  <2>3. CASE EndCore(d) /\ pidfile' = None
    <3>1. NoCore'
      BY <1>0, <1>1, <2>1, <2>3 DEF NoCore, EndCore, CoreAlive
    <3> QED
      BY <2>3, <3>1 DEF OneCore, NoCore
  <2> QED
    BY <1>5, <2>2, <2>3 DEF StopCore
\* A living daemon: the GUI is not where it has just cleaned up.
<1>6. ASSUME NEW d \in Ids, Alive(d), UNCHANGED <<gui, daemon>>
      PROVE  /\ ~GuiAt("spawn")' /\ ~Exited'
             /\ \A e \in Ids : Alive(e)' => e = d
  <2>1. gui.at # "spawn" /\ ~(gui.at = "off" /\ gui.exiting)
    BY <1>2, <1>6 DEF NoDaemon
  <2> QED
    BY <1>2, <1>6, <2>1 DEF Alive, GuiAt, Exited
<1>7. ASSUME NEW d \in Ids, SpawnCore(d) PROVE OneCore'
  <2>1. Alive(d) /\ UNCHANGED <<gui, daemon, pidfile>>
    BY <1>7 DEF SpawnCore, Boots, BootFrame
  <2>2. core' \in {core, [core EXCEPT ![d] = "starting"]}
    BY <1>7 DEF SpawnCore
  <2>3. \A c \in Ids : CoreAlive(c)' => c = d
    BY <1>0, <1>1, <2>1, <2>2 DEF CoreAlive
  <2> QED
    BY <1>1, <1>6, <2>1, <2>3 DEF OneCore
<1>8. ASSUME NEW d \in Ids, WritePid(d) PROVE OneCore'
  <2>1. Alive(d) /\ UNCHANGED <<gui, daemon, core>> /\ pidfile' \in {d, pidfile}
    BY <1>8 DEF WritePid, Boots, BootFrame
  <2>2. \A c \in Ids : CoreAlive(c)' => c = d
    BY <1>1, <2>1 DEF CoreAlive
  <2> QED
    BY <1>1, <1>6, <2>1, <2>2 DEF OneCore
\* A step that ends a core or leaves the cores alone.
<1>9. ASSUME \A c \in Ids : CoreAlive(c)' => CoreAlive(c), pidfile' = pidfile, ~CleanCore
      PROVE  OneCore'
  <2>1. spawn_daemon => NoCore /\ pidfile = None
    BY <1>1, GuiGoes
  <2>2. /\ \A d \in Ids : Alive(d)' => pidfile' \in {None, d}
        /\ \A c, d \in Ids : CoreAlive(c)' /\ Alive(d)' => c = d
    BY <1>1, <1>3, <1>9, <2>1 DEF NoCore
  <2>3. \/ gui'.at # "spawn" /\ gui'.at # "off"
        \/ gui'.at = "off" /\ gui'.exiting = FALSE
        \/ gui' = gui
    <3>1. GuiStart \/ Sweep \/ Terminate \/ spawn_daemon \/ MakeClient \/ WaitOrKill \/ Exit =>
            gui'.at # "spawn" /\ gui'.at # "off"
      BY GuiGoes
    <3>2. Crash /\ EndGui(FALSE) => gui'.at = "off" /\ gui'.exiting = FALSE
      BY GuiGoes
    <3>3. PollSteps \/ UseGlobal => gui' = gui
      BY GuiGoes
    <3>4. GuiStill => gui' = gui
      BY DEF GuiStill
    <3> QED
      BY <1>9, <3>1, <3>2, <3>3, <3>4, GuiStays DEF GuiSteps
  <2>4. (GuiAt("spawn")' => pidfile' = None) /\ (GuiAt("spawn")' \/ Exited' => NoCore')
    BY <1>1, <1>9, <2>3 DEF GuiAt, Exited, NoCore
  <2> QED
    BY <1>1, <1>9, <2>2, <2>4 DEF OneCore
<1>10. ASSUME NEW d \in Ids, CoreListen(d) PROVE OneCore'
  <2>1. core[d] = "starting" /\ UNCHANGED <<gui, pidfile>>
        /\ core' \in {[core EXCEPT ![d] = "dead"], [core EXCEPT ![d] = "listening"]}
    BY <1>10 DEF CoreListen, BootFrame
  <2>2. \A c \in Ids : CoreAlive(c)' => CoreAlive(c)
    BY <1>0, <2>1 DEF CoreAlive
  <2> QED
    BY <1>4, <1>9, <2>1, <2>2
<1>11. CASE Crash
  <2>1. pidfile' = pidfile /\ (core' = core \/ \E c \in Ids : EndCore(c))
    BY <1>11 DEF Crash, files
  <2>2. \A c \in Ids : CoreAlive(c)' => CoreAlive(c)
    BY <1>0, <2>1 DEF CoreAlive, EndCore
  <2> QED
    BY <1>4, <1>9, <2>1, <2>2
<1>12. CASE UNCHANGED <<core, pidfile>>
  BY <1>4, <1>9, <1>12 DEF CoreAlive
<1> QED
  BY <1>4, <1>5, <1>7, <1>8, <1>10, <1>11, <1>12, CoreChanges

\* Every step keeps CoreInv.
LEMMA CoreKept ==
    ASSUME TypeInv, OneInv, CoreInv, [Next]_vars
    PROVE  CoreInv'
<1>u. CASE UNCHANGED vars
  BY <1>u DEF vars, files, CoreInv, OneCore, NoCore, CoreAlive, Alive, GuiAt, Exited
<1> SUFFICES ASSUME Next, cause' \cap {"unseen", "twins"} = {}
             PROVE  CoreInv'
  BY <1>u DEF CoreInv
<1>0. OneCore /\ cause \cap {"unseen", "twins"} = {}
  BY CauseGrows DEF CoreInv
<1>1. OneCore'
  BY <1>0, OneCoreKept
<1>2. ASSUME "lost" \notin cause', Rpc \notin foreign', NEW d \in Ids, boot'[d] = "held", daemon'[d] = "serve"
      PROVE  core'[d] = "listening"
  <2>0. "lost" \notin cause /\ Rpc \notin foreign /\ ProcOK
    BY <1>2, CauseGrows, CoreChanges, TypeParts
  <2>1. daemon[d] = "serve" /\ (boot[d] = "held" \/ (AwaitPort(d) /\ \E c \in Ids : core[c] = "listening"))
    BY <1>2, <2>0, HeldSteps
  <2>2. Alive(d)
    BY <2>1 DEF Alive
  <2>3. core[d] = "listening"
    <3>1. CASE boot[d] = "held"
      BY <1>0, <2>0, <2>1, <3>1 DEF CoreInv
    <3>2. ASSUME NEW c \in Ids, core[c] = "listening" PROVE core[d] = "listening"
      BY <1>0, <2>2, <3>2 DEF OneCore, CoreAlive
    <3> QED
      BY <2>1, <3>1, <3>2
  <2>4. \A e \in Ids : Alive(e) => e = d
    BY <1>0, <2>2 DEF OneInv
  <2>5. ~CleanCore
    BY <1>0, <2>2 DEF CleanCore, OneInv, NoDaemon, GuiAt
  <2>6. ~Crash \/ core' = core
    BY <1>2 DEF Crash
  <2>7. \A e \in Ids : ~StopCore(e)
    BY <2>1, <2>4 DEF StopCore, Alive
  <2>8. ASSUME NEW e \in Ids, SpawnCore(e) PROVE core' = core
    <3>1. e = d /\ boot'[d] = "held" /\ boot[e] = "spawn"
      BY <1>2, <2>4, <2>8 DEF SpawnCore, Boots
    <3> QED
      BY <2>0, <2>8, <3>1 DEF SpawnCore, BootGoto, ProcOK
  <2>9. ASSUME NEW e \in Ids, CoreListen(e) PROVE core'[d] = "listening"
    BY <2>0, <2>3, <2>9 DEF CoreListen, ProcOK
  <2>10. \A e \in Ids : WritePid(e) => core' = core
    BY DEF WritePid
  <2> QED
    BY <2>3, <2>5, <2>6, <2>7, <2>8, <2>9, <2>10, CoreChanges
<1> QED
  BY <1>1, <1>2 DEF CoreInv

\* The first state.
LEMMA InitCore == Init => CoreInv
BY DEF Init, CoreInv, OneCore, NoCore, CoreAlive, Alive, Exited, GuiAt

\* ExitLeavesNone: after an orderly exit (app/exit.rs, cleanup.rs) no daemon
\* and no core is alive, for every order of the steps of the GUI, the daemon and
\* its boot task, whichever processes were killed and whichever PID files could
\* not be written, unless a clean-up without a PID file did not see a core on
\* the RPC port, or a session began beside a living daemon.
THEOREM ExitIsClean == Spec => []ExitLeavesNone
<1>1. OneInv /\ CoreInv => ExitLeavesNone
  BY DEF OneInv, CoreInv, OneCore, ExitLeavesNone, Exited, GuiAt, NoDaemon, NoCore
<1> QED
  BY InitTypes, TypeKept, InitOne, OneKept, InitCore, CoreKept, <1>1, PTL DEF Spec

\* HeldCoreIsOwn: although the boot task takes any answer on the RPC port for
\* its core's (easytier/process.rs), the core that answers is its own while it
\* serves the GUI that is up, unless another program listens there, a core was
\* killed or not seen by a clean-up, or a session began beside a living daemon.
THEOREM HeldMeansOwn == Spec => []HeldCoreIsOwn
<1>1. TypeInv /\ CoreInv => HeldCoreIsOwn
  <2> SUFFICES ASSUME TypeInv, CoreInv, GuiAt("up"), boot[gui.n] = "held", daemon[gui.n] = "serve",
                      Rpc \notin foreign, cause \cap {"lost", "unseen", "twins"} = {}
               PROVE  core[gui.n] = "listening"
    BY DEF HeldCoreIsOwn
  <2>1. gui.n \in Ids
    BY TypeParts DEF GuiPlace, GuiAt
  <2> QED
    BY <2>1 DEF CoreInv
<1> QED
  BY InitTypes, TypeKept, InitOne, OneKept, InitCore, CoreKept, <1>1, PTL DEF Spec
=============================================================================
