---------------------------- MODULE SpaceSession ----------------------------
(***************************************************************************)
(* The session of a space on the desktop: SpaceManager (space/manager.rs), *)
(* the four local servers it starts for a connected space, the background  *)
(* task that looks for peers, the file servers of FileServerRegistry       *)
(* (file/registry.rs) and the database rows.                               *)
(*                                                                         *)
(* GUI commands, the registry's sync thread and the discover tasks run     *)
(* concurrently; a step is what one of them does between two awaits.  The  *)
(* daemon is abstract: an IPC call takes effect or not, its answer may be  *)
(* an error although it did, and a call that was given up may take effect  *)
(* later (EasyTierDaemon and IpcChannel have the details).  The locks that *)
(* are held across awaits are in SpaceLocks, except connect_handles, which *)
(* disconnect holds while it awaits a task; that they can block for ever   *)
(* is represented by wedged.                                               *)
(***************************************************************************)
EXTENDS Naturals, FiniteSets

CONSTANTS Spaces,     \* space ids
          Residue,    \* the id of a space modulo 1000
          Kinds,      \* the kinds of local servers
          Fields,     \* settings a patch or an edit may make
          Known,      \* those that the daemon's patch_config applies
          Malformed,  \* those that NetworkConfig cannot be read with
          Tasks,      \* concurrently served GUI commands
          May,        \* the commands that are issued for each space
          MaxOps,     \* bound: commands issued
          MaxRetries, \* RETRY_DELAYS.len()
          None        \* no task, no token, no configuration

OpNames == {"create", "connect", "disconnect", "delete", "patch", "list", "update", "file"}
AllKinds == {"chat", "file", "voice", "screen"}
Ids == 1..MaxOps      \* a discover task is named after the command that spawned it

ASSUME KindsAssumption == Kinds \in SUBSET AllKinds
ASSUME FieldsAssumption == Known \subseteq Fields \ Malformed
ASSUME MayAssumption == May \in [Spaces -> SUBSET OpNames]
ASSUME NumbersAssumption == /\ Residue \in [Spaces -> 0..999]
                            /\ MaxOps \in Nat /\ MaxRetries \in Nat \ {0}
ASSUME NoneAssumption == /\ None \notin Spaces \cup Tasks /\ None \notin Ids
                         /\ \A c \in SUBSET Fields : c # None

\* The port of a space's server; the ranges of two kinds overlap.
Base == [chat |-> 18000, voice |-> 18100, screen |-> 18200, file |-> 19000]
Port(s, k) == Base[k] + Residue[s]

\* The order in which connect stops and starts the servers, and the one in
\* which disconnect stops them.
ConnectOrder == [chat |-> 1, file |-> 2, voice |-> 3, screen |-> 4]
DisconnectOrder == [chat |-> 1, voice |-> 2, screen |-> 3, file |-> 4]
IsFirst(k, todo, order) == k \in todo /\ \A j \in todo : order[k] <= order[j]

VARIABLES
    rows,      \* spaces in the database
    born,      \* ids ever used
    dbcfg,     \* config_json of a row
    mem,       \* SpaceManager.spaces: "absent", "Disconnected" or "Connected"
    run,       \* daemon: networks that run
    listed,    \* daemon: what ListSpaces answers
    dcfg,      \* daemon: the configuration it saved for a space
    socks,     \* listening sockets
    servers,   \* chat_servers, file_servers, voice_servers, screen_servers
    registry,  \* FileServerRegistry.servers
    clients,   \* chat_clients
    token,     \* cancel_tokens
    handle,    \* connect_handles
    holder,    \* the task that holds connect_handles across an await
    disc,      \* discover tasks
    op,        \* the operation a GUI task is in
    sync,      \* the registry's sync thread
    late,      \* daemon calls that were given up and are still under way
    wedged,    \* spaces will never be granted again
    issued,    \* commands issued so far
    mixed,     \* ghost: spaces whose session is no longer a plain sequence
    apart      \* ghost: spaces whose configuration one side changed alone

database == <<rows, born, dbcfg>>
daemon == <<run, listed, dcfg>>
sockets == <<socks, servers, registry>>
peers == <<clients, token, handle, holder, disc>>
vars == <<database, mem, daemon, sockets, peers, op, sync, late, wedged, issued, mixed, apart>>

Doing(n, s, a) == [name |-> n, sp |-> s, at |-> a, todo |-> {}, cfg |-> {}, id |-> None]
Idle == Doing("none", None, "idle")
SyncIdle == [at |-> "rows", rows |-> {}, listed |-> {}]

Init ==
    /\ rows \in {R \in SUBSET Spaces : \A s \in Spaces \ R : "create" \in May[s]} /\ born = rows
    /\ dbcfg = [s \in Spaces |-> {}]
    /\ mem = [s \in Spaces |-> "absent"]
    /\ run = {} /\ listed = {} /\ dcfg = [s \in Spaces |-> None]
    /\ socks = {} /\ servers = [k \in Kinds |-> {}] /\ registry = {}
    /\ clients = {} /\ token = [s \in Spaces |-> None] /\ handle = [s \in Spaces |-> None]
    /\ holder = None
    /\ disc = [d \in Ids |-> [sp |-> None, at |-> "unborn", tries |-> 0, cancelled |-> FALSE]]
    /\ op = [t \in Tasks |-> Idle] /\ sync = SyncIdle /\ issued = 0
    /\ late = {} /\ wedged = FALSE /\ mixed = {} /\ apart = {}

-----------------------------------------------------------------------------
(* Commands                                                                *)

At(t, a) == op[t].at = a
Goto(t, a) == op' = [op EXCEPT ![t].at = a]
Return(t) == op' = [op EXCEPT ![t] = Idle]
OnSpace(s) == {t \in Tasks : op[t].sp = s}
Overlaps(s) == s \in Spaces /\ OnSpace(s) # {}
Unfinished(s) == {d \in Ids : disc[d].sp = s /\ disc[d].at # "done"}

\* A command is issued.
Start(t, n, s, a) ==
    /\ op[t] = Idle /\ issued < MaxOps /\ (s \in Spaces => n \in May[s])
    /\ issued' = issued + 1
    /\ op' = [op EXCEPT ![t] = [Doing(n, s, a) EXCEPT !.id = issued + 1]]
    /\ mixed' = IF Overlaps(s) THEN mixed \cup {s} ELSE mixed
    /\ apart' = IF Overlaps(s) THEN apart \cup {s} ELSE apart
    /\ UNCHANGED <<database, mem, daemon, sockets, peers, sync>>

Create(t, s) == s \notin born /\ Start(t, "create", s, "row")   \* also join
Connect(t, s) == Start(t, "connect", s, "ask")
\* Also leave, and each disconnect of shutdown_all.
Disconnect(t, s) == Start(t, "disconnect", s, "cancel")
Delete(t, s) == Start(t, "delete", s, "owner")
PatchConfig(t, s) == Start(t, "patch", s, "save")
List(t) == Start(t, "list", None, "rows")

\* A command ends with an error, or is over.
Finish(t) ==
    /\ Return(t)
    /\ UNCHANGED <<database, mem, daemon, sockets, peers, sync, issued, mixed, apart>>

\* `?': the database, the daemon, the owner check or the memory refuses.
Fail(t) ==
    /\ op[t].at \in {"row", "config", "ask", "read", "owner", "unrow"}
    /\ Finish(t)

\* update_space_config (commands/space.rs): only the database changes.
UpdateSpaceConfig(s, c) ==
    /\ "update" \in May[s] /\ issued < MaxOps /\ issued' = issued + 1
    /\ dbcfg' = IF s \in rows THEN [dbcfg EXCEPT ![s] = c] ELSE dbcfg
    /\ apart' = apart \cup {s}
    /\ UNCHANGED <<rows, born, mem, daemon, sockets, peers, op, sync, mixed>>

-----------------------------------------------------------------------------
(* create, join, delete and list                                           *)

\* The row (and, for create, the member) is inserted first.
InsertRow(t) ==
    /\ At(t, "row") /\ op[t].name = "create" /\ op[t].sp \notin born
    /\ rows' = rows \cup {op[t].sp} /\ born' = born \cup {op[t].sp}
    /\ Goto(t, "config")
    /\ UNCHANGED <<dbcfg, mem, daemon, sockets, peers, sync, issued, mixed, apart>>

\* The configuration is saved and the space pushed.
PushSpace(t) ==
    /\ At(t, "config") /\ ~wedged
    /\ mem' = [mem EXCEPT ![op[t].sp] = "Disconnected"]
    /\ Return(t)
    /\ UNCHANGED <<database, daemon, sockets, peers, sync, issued, mixed, apart>>

CheckOwner(t) ==
    /\ At(t, "owner") /\ ~wedged /\ mem[op[t].sp] # "absent"
    /\ Goto(t, "cancel")
    /\ UNCHANGED <<database, mem, daemon, sockets, peers, sync, issued, mixed, apart>>

DeleteRow(t) ==
    /\ At(t, "unrow")
    /\ rows' = rows \ {op[t].sp} /\ dbcfg' = [dbcfg EXCEPT ![op[t].sp] = {}]
    /\ Goto(t, "retain")
    /\ UNCHANGED <<born, mem, daemon, sockets, peers, sync, issued, mixed, apart>>

Retain(t) ==
    /\ At(t, "retain") /\ ~wedged
    /\ mem' = [mem EXCEPT ![op[t].sp] = "absent"]
    /\ Return(t)
    /\ UNCHANGED <<database, daemon, sockets, peers, sync, issued, mixed, apart>>

\* Mutant: spaces that are no longer in the database stay in memory.
MergedSpaces(R, L) == [s \in Spaces |-> IF s \in L \cap R THEN "Connected"
                                        ELSE IF s \in R THEN "Disconnected" ELSE mem[s]]

\* What list makes of the rows and of the daemon's answer, both read earlier.
ListedSpaces(R, L) == [s \in Spaces |-> IF s \in L \cap R THEN "Connected"
                                        ELSE IF s \in R THEN "Disconnected" ELSE "absent"]

\* The command list: the rows, the daemon's answer (none when the call
\* fails), and then the memory is overwritten.
ListRows(t) ==
    /\ At(t, "rows")
    /\ op' = [op EXCEPT ![t].todo = rows, ![t].at = "store"]
    /\ UNCHANGED <<database, mem, daemon, sockets, peers, sync, issued, mixed, apart>>

ListStore(t) ==
    /\ At(t, "store") /\ ~wedged
    /\ \E L \in {listed, {}} : mem' = ListedSpaces(op[t].todo, L)
    /\ Return(t)
    /\ UNCHANGED <<database, daemon, sockets, peers, sync, issued, mixed, apart>>

-----------------------------------------------------------------------------
(* connect                                                                 *)

\* ListSpaces; the other spaces it names are disconnected, whatever the answer.
ClearOthers(t) ==
    /\ At(t, "ask")
    /\ \E gone \in SUBSET (listed \ {op[t].sp}) : run' = run \ gone /\ listed' = listed \ gone
    /\ Goto(t, "read")
    /\ UNCHANGED <<database, mem, dcfg, sockets, peers, sync, issued, mixed, apart>>

\* One malformed setting, and the saved configuration is replaced by the
\* space's name, secret and defaults.
get_effective_config(c) == IF c \cap Malformed = {} THEN c ELSE {}

ReadConfig(t) ==
    /\ At(t, "read") /\ ~wedged /\ mem[op[t].sp] # "absent"
    /\ op' = [op EXCEPT ![t].cfg = get_effective_config(dbcfg[op[t].sp]), ![t].at = "send"]
    /\ UNCHANGED <<database, mem, daemon, sockets, peers, sync, issued, mixed, apart>>

\* ConnectSpace answers Ok: the space runs, alone unless the others could not
\* be cleared, and is not listed.
SendOk(t) ==
    LET s == op[t].sp IN
    /\ At(t, "send")
    /\ run' \in {{s}, run \cup {s}} /\ listed' = listed \ {s}
    /\ dcfg' = [dcfg EXCEPT ![s] = op[t].cfg]
    /\ op' = [op EXCEPT ![t].todo = Kinds, ![t].at = "stop"]
    /\ apart' = IF OnSpace(s) = {t} /\ get_effective_config(dbcfg[s]) = op[t].cfg
                THEN apart \ {s} ELSE apart
    /\ UNCHANGED <<database, mem, sockets, peers, sync, issued, mixed>>

\* What a ConnectSpace that gets no Ok may have done: the others are cleared,
\* the configuration is saved, the network is started.
ConnectEffect(s, c) ==
    \/ run' \in {{}, run} /\ listed' = listed \ {s} /\ UNCHANGED dcfg
    \/ /\ dcfg' = [dcfg EXCEPT ![s] = c]
       /\ \/ run' \in {{}, run, run \cup {s}} /\ listed' = listed \cup {s}
          \/ run' \in {{s}, run \cup {s}} /\ listed' = listed \ {s}

SendFails(t) ==
    /\ At(t, "send")
    /\ UNCHANGED daemon \/ ConnectEffect(op[t].sp, op[t].cfg)
    /\ apart' = apart \cup {op[t].sp}
    /\ Return(t)
    /\ UNCHANGED <<database, mem, sockets, peers, sync, issued, mixed>>

\* remove from the map and stop: the listener is told to end and closes later.
StopServer(s, k) ==
    /\ servers' = [servers EXCEPT ![k] = @ \ {s}]
    /\ socks' = IF s \in servers[k]
                THEN {IF x = [sp |-> s, kind |-> k, owner |-> "manager", live |-> TRUE]
                      THEN [x EXCEPT !.live = FALSE] ELSE x : x \in socks}
                ELSE socks
    /\ UNCHANGED registry

\* Mutant: connect forgets an old server without stopping it.
ForgetOld(t) ==
    /\ At(t, "stop")
    /\ \E k \in Kinds :
         /\ IsFirst(k, op[t].todo, ConnectOrder)
         /\ servers' = [servers EXCEPT ![k] = @ \ {op[t].sp}]
         /\ op' = IF op[t].todo = {k} THEN [op EXCEPT ![t].todo = Kinds, ![t].at = "bind"]
                  ELSE [op EXCEPT ![t].todo = @ \ {k}]
    /\ UNCHANGED <<socks, registry, database, mem, daemon, peers, sync, issued, mixed, apart>>

StopOld(t) ==
    /\ At(t, "stop")
    /\ \E k \in Kinds :
         /\ IsFirst(k, op[t].todo, ConnectOrder)
         /\ StopServer(op[t].sp, k)
         /\ op' = IF op[t].todo = {k} THEN [op EXCEPT ![t].todo = Kinds, ![t].at = "bind"]
                  ELSE [op EXCEPT ![t].todo = @ \ {k}]
    /\ UNCHANGED <<database, mem, daemon, peers, sync, issued, mixed, apart>>

PortFree(s, k) == \A x \in socks : Port(x.sp, x.kind) # Port(s, k)
Listen(s, k, o) == socks' = socks \cup {[sp |-> s, kind |-> k, owner |-> o, live |-> TRUE]}

BindServer(t) ==
    /\ At(t, "bind")
    /\ \E k \in Kinds :
         /\ IsFirst(k, op[t].todo, ConnectOrder)
         /\ PortFree(op[t].sp, k) /\ Listen(op[t].sp, k, "manager")
    /\ Goto(t, "insert")
    /\ UNCHANGED <<servers, registry, database, mem, daemon, peers, sync, issued, mixed, apart>>

\* The port is taken, by another server of this process or by somebody else:
\* connect returns an error while the network and the servers started so far run.
BindFails(t) ==
    /\ At(t, "bind")
    /\ mixed' = mixed \cup {op[t].sp}
    /\ Return(t)
    /\ UNCHANGED <<database, mem, daemon, sockets, peers, sync, issued, apart>>

InsertServer(t) ==
    /\ At(t, "insert")
    /\ \E k \in Kinds :
         /\ IsFirst(k, op[t].todo, ConnectOrder)
         /\ servers' = [servers EXCEPT ![k] = @ \cup {op[t].sp}]
         /\ op' = IF op[t].todo = {k} THEN [op EXCEPT ![t].todo = {}, ![t].at = "token"]
                  ELSE [op EXCEPT ![t].todo = @ \ {k}, ![t].at = "bind"]
    /\ UNCHANGED <<socks, registry, database, mem, daemon, peers, sync, issued, mixed, apart>>

\* A new token; an older task that still runs is no longer known.
Spawn(t) ==
    LET s == op[t].sp IN
    /\ At(t, "token")
    /\ token' = [token EXCEPT ![s] = op[t].id]
    /\ disc' = [disc EXCEPT ![op[t].id] = [sp |-> s, at |-> "check", tries |-> 0, cancelled |-> FALSE]]
    /\ mixed' = IF Unfinished(s) # {} THEN mixed \cup {s} ELSE mixed
    /\ Goto(t, "handle")
    /\ UNCHANGED <<clients, handle, holder, database, mem, daemon, sockets, sync, issued, apart>>

InsertHandle(t) ==
    /\ At(t, "handle") /\ holder = None
    /\ handle' = [handle EXCEPT ![op[t].sp] = op[t].id]
    /\ Return(t)
    /\ UNCHANGED <<clients, token, holder, disc, database, mem, daemon, sockets, sync, issued,
                   mixed, apart>>

-----------------------------------------------------------------------------
(* disconnect                                                              *)

\* A disconnect that runs alone, and knows the only discover task, starts a
\* plain sequence of commands again.
PlainAgain(t) ==
    LET s == op[t].sp IN
    mixed' = IF OnSpace(s) = {t} /\ Unfinished(s) \subseteq {handle[s]} THEN mixed \ {s} ELSE mixed

CancelToken(t) ==
    LET d == token[op[t].sp] IN
    /\ At(t, "cancel")
    /\ token' = [token EXCEPT ![op[t].sp] = None]
    /\ disc' = IF d = None THEN disc ELSE [disc EXCEPT ![d].cancelled = TRUE]
    /\ Goto(t, "take")
    /\ UNCHANGED <<clients, handle, holder, database, mem, daemon, sockets, sync, issued,
                   apart>>
    /\ PlainAgain(t)

\* Mutant: the task is not awaited.
TakeAndGoOn(t) ==
    /\ At(t, "take") /\ holder = None
    /\ handle' = [handle EXCEPT ![op[t].sp] = None]
    /\ op' = [op EXCEPT ![t].todo = Kinds, ![t].at = "halt"]
    /\ UNCHANGED <<clients, token, holder, disc, database, mem, daemon, sockets, sync, issued,
                   mixed, apart>>

\* The handle is taken and awaited under the write guard.
TakeHandle(t) ==
    LET d == handle[op[t].sp] IN
    /\ At(t, "take") /\ holder = None
    /\ handle' = [handle EXCEPT ![op[t].sp] = None]
    /\ IF d = None
       THEN op' = [op EXCEPT ![t].todo = Kinds, ![t].at = "halt"] /\ UNCHANGED holder
       ELSE op' = [op EXCEPT ![t].id = d, ![t].at = "await"] /\ holder' = t
    /\ UNCHANGED <<clients, token, disc, database, mem, daemon, sockets, sync, issued, mixed, apart>>

AwaitTask(t) ==
    /\ At(t, "await") /\ disc[op[t].id].at = "done"
    /\ holder' = None
    /\ op' = [op EXCEPT ![t].todo = Kinds, ![t].at = "halt"]
    /\ UNCHANGED <<clients, token, handle, disc, database, mem, daemon, sockets, sync, issued,
                   mixed, apart>>

HaltServer(t) ==
    /\ At(t, "halt")
    /\ \E k \in Kinds :
         /\ IsFirst(k, op[t].todo, DisconnectOrder)
         /\ StopServer(op[t].sp, k)
         /\ op' = IF op[t].todo = {k} THEN [op EXCEPT ![t].todo = {}, ![t].at = "client"]
                  ELSE [op EXCEPT ![t].todo = @ \ {k}]
    /\ UNCHANGED <<database, mem, daemon, peers, sync, issued, mixed, apart>>

RemoveClient(t) ==
    /\ At(t, "client")
    /\ clients' = clients \ {op[t].sp}
    /\ Goto(t, "leave")
    /\ UNCHANGED <<token, handle, holder, disc, database, mem, daemon, sockets, sync, issued,
                   mixed, apart>>

\* DisconnectSpace: Ok also when the core could not be told; delete goes on
\* only after Ok.
Leave(t) ==
    LET s == op[t].sp IN
    /\ At(t, "leave")
    /\ \/ run' \in {run \ {s}, run} /\ listed' = listed \ {s}
       \/ UNCHANGED <<run, listed>>
    /\ \/ op[t].name = "delete" /\ Goto(t, "unrow")
       \/ Return(t)
    /\ UNCHANGED <<database, mem, dcfg, sockets, peers, sync, issued, mixed, apart>>

-----------------------------------------------------------------------------
(* patch_config                                                            *)

\* Mutant: the patch of a space that is not shown as connected is not saved.
SavePatchIfConnected(t) ==
    /\ At(t, "save")
    /\ \E f \in SUBSET Fields :
         /\ op' = [op EXCEPT ![t].cfg = f, ![t].at = "apply"]
         /\ dbcfg' = IF mem[op[t].sp] = "Connected" THEN [dbcfg EXCEPT ![op[t].sp] = @ \cup f] ELSE dbcfg
         /\ apart' = IF f \subseteq Known /\ dbcfg[op[t].sp] \cap Malformed = {} THEN apart
                     ELSE apart \cup {op[t].sp}
    /\ UNCHANGED <<rows, born, mem, daemon, sockets, peers, sync, issued, mixed>>

\* The database first, which takes every setting; an error there is ignored.
\* What the daemon does not know, or what makes the row unreadable, sets the
\* two apart.
SavePatch(t) ==
    LET s == op[t].sp IN
    /\ At(t, "save")
    /\ \E f \in SUBSET Fields :
         /\ op' = [op EXCEPT ![t].cfg = f, ![t].at = "apply"]
         /\ \/ /\ dbcfg' = IF s \in rows THEN [dbcfg EXCEPT ![s] = @ \cup f] ELSE dbcfg
               /\ apart' = IF f \subseteq Known /\ dbcfg[s] \cap Malformed = {} THEN apart
                           ELSE apart \cup {s}
            \/ UNCHANGED dbcfg /\ apart' = apart \cup {s}
    /\ UNCHANGED <<rows, born, mem, daemon, sockets, peers, sync, issued, mixed>>

\* The daemon merges what it knows of the patch into the configuration it has
\* and runs it.
PatchEffect(s, f) ==
    /\ dcfg[s] # None /\ dcfg' = [dcfg EXCEPT ![s] = @ \cup (f \cap Known)]
    /\ listed' = listed \cup {s}

ApplyPatch(t) ==
    LET s == op[t].sp IN
    /\ At(t, "apply")
    /\ PatchEffect(s, op[t].cfg) /\ run' = run \cup {s}
    /\ Return(t)
    /\ UNCHANGED <<database, mem, sockets, peers, sync, issued, mixed, apart>>

\* An error: not applied, or applied and the answer lost.
PatchFails(t) ==
    LET s == op[t].sp IN
    /\ At(t, "apply")
    /\ \/ UNCHANGED daemon
       \/ PatchEffect(s, op[t].cfg) /\ run' \in {run \cup {s}, run \ {s}}
    /\ apart' = apart \cup {s}
    /\ Return(t)
    /\ UNCHANGED <<database, mem, sockets, peers, sync, issued, mixed>>

-----------------------------------------------------------------------------
(* Calls that were given up                                                *)

LateCall(n, s, c) == [name |-> n, sp |-> s, cfg |-> c]
CallOf == [send |-> "connect", apply |-> "patch", leave |-> "disconnect"]

\* The 30 s of IpcClient::send are over while the daemon is still at it: to the
\* command this is a call that failed without an effect.
GivesUp(t) ==
    \/ /\ op[t].at \in DOMAIN CallOf /\ UNCHANGED daemon /\ op'[t] = Idle
       /\ late' = late \cup {LateCall(CallOf[op[t].at], op[t].sp, op[t].cfg)}
    \/ /\ At(t, "ask") /\ op'[t].at = "read"
       /\ \E S \in SUBSET (listed' \ {op[t].sp}) :
             late' = late \cup {LateCall("disconnect", s, {}) : s \in S}

\* It takes effect after all.
LateEffect ==
    /\ \E c \in late :
         /\ late' = late \ {c}
         /\ \/ c.name = "connect" /\ ConnectEffect(c.sp, c.cfg) /\ apart' = apart \cup {c.sp}
            \/ /\ c.name = "patch" /\ PatchEffect(c.sp, c.cfg)
               /\ run' \in {run \cup {c.sp}, run \ {c.sp}} /\ apart' = apart \cup {c.sp}
            \/ /\ c.name = "disconnect"
               /\ run' = run \ {c.sp} /\ listed' = listed \ {c.sp} /\ UNCHANGED <<dcfg, apart>>
    /\ UNCHANGED <<database, mem, sockets, peers, op, sync, wedged, issued, mixed>>

-----------------------------------------------------------------------------
(* discover_and_connect_peers                                              *)

DiscAt(d, a) == disc[d].at = a
DiscGoto(d, a) == disc' = [disc EXCEPT ![d].at = a]
DiscFrame == UNCHANGED <<token, handle, holder, database, mem, daemon, sockets, op, sync, issued,
                         mixed, apart>>

\* The top of the loop and the timer: a cancelled task returns.
DiscCheck(d) ==
    /\ disc[d].at \in {"check", "sleep"}
    /\ \/ disc[d].cancelled /\ DiscGoto(d, "done")
       \/ ~disc[d].cancelled /\ DiscGoto(d, IF DiscAt(d, "check") THEN "ask" ELSE "check")
    /\ UNCHANGED clients /\ DiscFrame

\* Mutant: the task asks for ever.
DiscAskForever(d) ==
    /\ DiscAt(d, "ask")
    /\ disc' = [disc EXCEPT ![d].tries = @ + 1, ![d].at = "sleep"]
    /\ UNCHANGED clients /\ DiscFrame

\* get_space_status: the address is there, or it is asked again.
DiscAsk(d) ==
    /\ DiscAt(d, "ask")
    /\ \/ DiscGoto(d, "peers")
       \/ disc' = [disc EXCEPT ![d].tries = @ + 1,
                               ![d].at = IF disc[d].tries + 1 >= MaxRetries THEN "done" ELSE "sleep"]
    /\ UNCHANGED clients /\ DiscFrame

\* Mutant: the task removes its own handle when it is done.
DiscPeersAndHandle(d) ==
    /\ DiscAt(d, "peers") /\ holder = None
    /\ DiscGoto(d, "done")
    /\ clients' \in {clients, clients \cup {disc[d].sp}}
    /\ DiscFrame

\* get_peers and, if it answers, the client; the token is not looked at again.
DiscPeers(d) ==
    /\ DiscAt(d, "peers")
    /\ DiscGoto(d, "done")
    /\ clients' \in {clients, clients \cup {disc[d].sp}}
    /\ DiscFrame

-----------------------------------------------------------------------------
(* Listeners and the registry of file servers                              *)

\* The accept loop sees that it was stopped, up to a second later.
CloseListener ==
    /\ \E x \in socks : ~x.live /\ socks' = socks \ {x}
    /\ UNCHANGED <<servers, registry, database, mem, daemon, peers, op, sync, issued, mixed, apart>>

RegistryFrame == UNCHANGED <<servers, database, mem, daemon, peers, op, mixed, apart>>

\* Looked up, bound and inserted under the write guard of the registry.
get_or_start(s) ==
    \/ s \in registry /\ UNCHANGED <<socks, registry>>
    \/ /\ s \notin registry /\ PortFree(s, "file")
       /\ Listen(s, "file", "registry") /\ registry' = registry \cup {s}
    \/ s \notin registry /\ UNCHANGED <<socks, registry>>

stop(s) ==
    /\ registry' = registry \ {s}
    /\ socks' = {IF x = [sp |-> s, kind |-> "file", owner |-> "registry", live |-> TRUE]
                 THEN [x EXCEPT !.live = FALSE] ELSE x : x \in socks}

\* receive_file and the file routes start the registry's server themselves.
FileCommand(s) ==
    /\ "file" \in May[s] \cap Kinds /\ issued < MaxOps /\ issued' = issued + 1
    /\ get_or_start(s)
    /\ RegistryFrame /\ UNCHANGED sync

\* sync: list, and then every space of the list.
SyncList ==
    \/ /\ sync.at = "rows"
       /\ sync' = [at |-> "ipc", rows |-> rows, listed |-> {}]
       /\ UNCHANGED <<database, mem, daemon, sockets, peers, op, issued, mixed, apart>>
    \/ /\ sync.at = "ipc" /\ ~wedged
       /\ \E L \in {listed, {}} : /\ mem' = ListedSpaces(sync.rows, L)
                                  /\ sync' = [sync EXCEPT !.at = "each", !.listed = L]
       /\ UNCHANGED <<database, daemon, sockets, peers, op, issued, mixed, apart>>

SyncEach ==
    /\ sync.at = "each"
    /\ \/ /\ sync.rows = {} /\ sync' = SyncIdle
          /\ UNCHANGED <<socks, registry>>
       \/ \E s \in sync.rows :
            /\ IF s \in sync.listed /\ "file" \in Kinds THEN get_or_start(s) ELSE stop(s)
            /\ sync' = [sync EXCEPT !.rows = @ \ {s}]
    /\ RegistryFrame /\ UNCHANGED issued

-----------------------------------------------------------------------------
(* The lock of SpaceManager.spaces                                         *)

\* A command that holds spaces for reading waits for a lock (connect's second
\* read, connect or shutdown_all at the chat servers) while create, delete,
\* list or the sync is queued to write it (SpaceLocks!WedgeNeedsHeldSpaces).
Wedge ==
    /\ ~wedged /\ wedged' = TRUE
    /\ \E t \in Tasks : /\ op[t].name \in {"connect", "disconnect"}
                        /\ op[t].at \in {"read", "stop", "insert", "halt"}
    /\ sync.at = "ipc" \/ \E t \in Tasks : op[t].at \in {"config", "retain", "store"}
    /\ UNCHANGED <<database, mem, daemon, sockets, peers, op, sync, late, issued, mixed, apart>>

-----------------------------------------------------------------------------
Commands(t) ==
    \/ \E s \in Spaces : \/ Create(t, s) \/ Connect(t, s) \/ Disconnect(t, s)
                         \/ Delete(t, s) \/ PatchConfig(t, s)
    \/ List(t)

Steps(t) ==
    \/ Fail(t) \/ InsertRow(t) \/ PushSpace(t) \/ CheckOwner(t) \/ DeleteRow(t) \/ Retain(t)
    \/ ListRows(t) \/ ListStore(t)
    \/ ClearOthers(t) \/ ReadConfig(t) \/ SendOk(t) \/ SendFails(t) \/ StopOld(t)
    \/ BindServer(t) \/ BindFails(t) \/ InsertServer(t) \/ Spawn(t) \/ InsertHandle(t)
    \/ CancelToken(t) \/ TakeHandle(t) \/ AwaitTask(t) \/ HaltServer(t) \/ RemoveClient(t)
    \/ Leave(t) \/ SavePatch(t) \/ ApplyPatch(t) \/ PatchFails(t)

Discover(d) == DiscCheck(d) \/ DiscAsk(d) \/ DiscPeers(d)
Sync == SyncList \/ SyncEach

Quiet == UNCHANGED <<late, wedged>>
Proceed(t) == Steps(t) /\ (UNCHANGED late \/ GivesUp(t)) /\ UNCHANGED wedged

Next ==
    \/ \E t \in Tasks : (Commands(t) /\ Quiet) \/ Proceed(t)
    \/ \E s \in Spaces : FileCommand(s) /\ Quiet
    \/ \E s \in Spaces, c \in SUBSET Fields : UpdateSpaceConfig(s, c) /\ Quiet
    \/ \E d \in Ids : Discover(d) /\ Quiet
    \/ CloseListener /\ Quiet
    \/ Sync /\ Quiet
    \/ LateEffect
    \/ Wedge

\* A command that has begun, a spawned task, the sync thread and the accept
\* loops go on; daemon calls return (IpcChannel!CallsReturn), and so do the
\* awaits of spaces unless the manager is wedged (SpaceLocks!OpsFinish).
\* Nobody has to issue a command, and a call given up may never take effect.
Fairness ==
    /\ \A t \in Tasks : WF_vars(Proceed(t))
    /\ \A d \in Ids : WF_vars(Discover(d) /\ Quiet)
    /\ WF_vars(Sync /\ Quiet)
    /\ WF_vars(CloseListener /\ Quiet)

Spec == Init /\ [][Next]_vars /\ Fairness

-----------------------------------------------------------------------------
\* Every variable holds what the code can store in it; a discover task gives up
\* after its last retry.
OpPlaces == {"idle", "row", "config", "ask", "read", "send", "stop", "bind", "insert", "token",
             "handle", "owner", "cancel", "take", "await", "halt", "client", "leave", "unrow",
             "retain", "rows", "store", "save", "apply"}
DiscPlaces == {"unborn", "check", "ask", "sleep", "peers", "done"}
Socket == [sp : Spaces, kind : AllKinds, owner : {"manager", "registry"}, live : BOOLEAN]
TypeOK ==
    /\ rows \in SUBSET Spaces /\ born \in SUBSET Spaces
    /\ dbcfg \in [Spaces -> SUBSET Fields]
    /\ mem \in [Spaces -> {"absent", "Disconnected", "Connected"}]
    /\ run \in SUBSET Spaces /\ listed \in SUBSET Spaces
    /\ dcfg \in [Spaces -> {None} \cup SUBSET Fields]
    /\ socks \in SUBSET Socket /\ servers \in [Kinds -> SUBSET Spaces]
    /\ registry \in SUBSET Spaces /\ clients \in SUBSET Spaces
    /\ token \in [Spaces -> Ids \cup {None}] /\ handle \in [Spaces -> Ids \cup {None}]
    /\ holder \in Tasks \cup {None}
    /\ disc \in [Ids -> [sp : Spaces \cup {None}, at : DiscPlaces, tries : 0..MaxRetries, cancelled : BOOLEAN]]
    /\ op \in [Tasks -> [name : OpNames \cup {"none"}, sp : Spaces \cup {None}, at : OpPlaces,
                         todo : SUBSET (Spaces \cup Kinds), cfg : SUBSET Fields, id : Ids \cup {None}]]
    /\ sync \in [at : {"rows", "ipc", "each"}, rows : SUBSET Spaces, listed : SUBSET Spaces]
    /\ late \in SUBSET [name : {"connect", "patch", "disconnect"}, sp : Spaces, cfg : SUBSET Fields] /\ wedged \in BOOLEAN
    /\ issued \in 0..MaxOps /\ mixed \in SUBSET Spaces /\ apart \in SUBSET Spaces

\* Somebody can still stop every server that accepts connections: a running
\* listener is in a map, or its connect is about to put it there; and a map
\* never holds a server whose listener has gone.  No order of connects,
\* disconnects and syncs overwrites one server by another.
InsertPending(s, k) == \E t \in Tasks : /\ At(t, "insert") /\ op[t].sp = s
                                        /\ IsFirst(k, op[t].todo, ConnectOrder)
ListenersAreKnown ==
    /\ \A x \in socks : x.live =>
          IF x.owner = "registry" THEN x.sp \in registry
          ELSE x.sp \in servers[x.kind] \/ InsertPending(x.sp, x.kind)
    /\ \A k \in Kinds : \A s \in servers[k] :
          [sp |-> s, kind |-> k, owner |-> "manager", live |-> TRUE] \in socks

\* Outside its operations the session of a space is all there or all gone: the
\* token of the discover task, its handle and the four servers come and go
\* together, and no chat client or task is left behind, unless commands for the
\* space overlapped, a bind failed, or a reconnect abandoned a running task.
AllOrNothing ==
    \A s \in Spaces \ mixed : OnSpace(s) = {} =>
        \/ token[s] # None /\ handle[s] = token[s] /\ \A k \in Kinds : s \in servers[k]
        \/ /\ token[s] = None /\ handle[s] = None /\ s \notin clients
           /\ \A k \in Kinds : s \notin servers[k]
           /\ Unfinished(s) = {}

\* What the daemon has for a space that runs is what a reconnect would send it,
\* unless an edit was saved without a reconnect, a patch made a setting that the
\* daemon ignores or that makes the row unreadable, a call failed or took effect
\* after it was given up, or commands overlapped.
ConfigAgrees ==
    \A s \in Spaces \ apart :
        (OnSpace(s) = {} /\ s \in run /\ s \in rows) => dcfg[s] = get_effective_config(dbcfg[s])

\* Every command returns unless the manager is wedged: disconnect's wait for the
\* discover task, under the lock that other connects and disconnects need, ends.
CommandsReturn == \A t \in Tasks : (op[t] # Idle) ~> (op[t] = Idle \/ wedged)

\* Memory and registry recover from stale writes of list and from commands that
\* failed half-way: in the end the manager knows exactly the spaces of the
\* database, and no space that is not connected has a registry file server,
\* unless the manager is wedged.
SyncConverges ==
    <>[](wedged \/ (/\ {s \in Spaces : mem[s] # "absent"} = rows
                    /\ registry \cap rows \subseteq listed))
=============================================================================
