# A TLA+ development for homeTier

homeTier connects the machines of a household into private *spaces* over
EasyTier. This directory models the parts of its Rust code in which concurrency,
failures and ordering decide whether it is correct, model-checks them with TLC
and proves the central results with TLAPS. Paths below are relative to
`src-tauri/src/` unless they start with another directory.

## 1. The system

| Component | State | Operations | Interacts with |
|---|---|---|---|
| `daemon/mod.rs` | `connected_spaces`, the easytier-core process, one task per IPC connection | ConnectSpace, DisconnectSpace, PatchConfig, UpgradeVersion, SwitchBinary, Shutdown, queries; boot task; GUI watchdog | `easytier/`, IPC clients |
| `easytier/mod.rs` `EasyTierManager` | `{id}.toml` and `{id}.json` in the configuration directory | `start_network`, `stop_network`, `patch_config`, `restart_all_instances`, `list_running` | management RPC of easytier-core (vendored) |
| `daemon/client.rs` `IpcClient` | one TCP connection behind a tokio `Mutex` | `send` and its wrappers | daemon |
| `space/manager.rs` `SpaceManager` | `spaces` and one map each of chat, file, voice and screen servers, chat clients, tokens, task handles, all tokio `RwLock`s; rows in SQLite | `create`, `join`, `list`, `connect`, `disconnect`, `delete`, `patch_config`, `shutdown_all`, discover task | IPC, `db/`, servers |
| `config_store/` | pending map and channel; index in memory; `versions.json`; content files | `submit`, consumer, `store`, `get_file`, `clear`, TCP service | commands, HTTP routes, remote nodes |
| `file/` | file servers of the registry, transfers | `sync` every 2 s, `send_file`, progress task, upload handler, `receive_file` | SpaceManager, peers |
| `chat/`, `voice/`, `screen/` | listeners, message queue | start, stop, broadcast, signalling | SpaceManager, peers |
| `server/` | event bus, sessions | axum handlers, which are cancelled when their client goes away | all managers |
| `app/`, `cleanup.rs` | daemon child process, PID files, state and signal file, configured port | setup, readiness poll, exit handler, killing of orphans | daemon, easytier-core |
| `resources/easytier_lib` (vendored), `peers/peer_ospf_route.rs` | versioned information of all peers, one sync session per neighbour | building, sending, handling and answering sync requests, route table, expiry | the same code on other machines |
| `proxy/`, `log/`, `db/`, `config/`, `crypto/`, `platform/`, `commands/`, `qr/`, `utils/`, the React frontend | caches, ring buffer, tables, none | forwarding, storage, conversion, wrappers | |

What makes it hard:

* **Handlers interleave.** The daemon serves each connection in a task of its own
  and holds no lock across a handler. Every file operation and RPC is a point at
  which another handler may run.
* **Answers carry no id.** All callers of an IPC client share its connection, and an
  answer is matched to a request by its position. Timeouts, reconnects, daemon
  restarts and dropped futures must not shift the positions.
* **Files are state.** The list of running networks, the configuration a patch
  starts from and the versions of the configuration store live in files that are
  written in several steps, in a process that may die between any two.
* **Processes outlive each other.** GUI, daemon and core are three processes that
  find each other by files and ports. Each may be killed at any step, and the next
  session has to cope with what the last one left.
* **Sessions are made of parts.** A connected space is a network in the daemon, four
  listeners, a token, a task handle, a chat client and database rows, which several
  commands create and remove one by one, with errors in between.
* **Peers learn from each other** through requests that are lost, late or answered
  after the session they belong to has ended.
* **Locks are held across awaits**, and tokio's `RwLock` is fair: a queued writer
  blocks later readers, also readers that hold a guard already.

## 2. Modules

| Module | Models |
|---|---|
| `EasyTierDaemon` | `daemon/mod.rs`, `easytier/mod.rs`, `easytier/process.rs` and the management RPC of the vendored easytier-core |
| `IpcChannel` | `daemon/client.rs` `send`, `daemon/mod.rs` `handle_connection` |
| `RpcService` | abstract: what `send` promises its callers; implemented by `IpcChannel` |
| `ConfigStore` | `config_store/queue.rs`, `config_store/store.rs`, and their callers |
| `SpaceLocks` | the locks `spaces` and `chat_servers` of the desktop `SpaceManager`, the exit handler, the chat listener, the file server sync |
| `SpaceSession` | the session of a space on the desktop: `space/manager.rs`, the life of its chat, file, voice and screen servers, `file/registry.rs`, the space commands |
| `DaemonLifecycle` | `app/setup.rs`, `app/exit.rs`, `app/daemon.rs`, `cleanup.rs`, the start and the end of the daemon (`daemon/mod.rs`) and of easytier-core (`easytier/process.rs`) |
| `RouteSync` | the sync sessions of the vendored `peers/peer_ospf_route.rs` |
| `FileTransfer` | `commands/file.rs`, `file/transfer.rs`, the upload handler of `file/server.rs` |
| `MCEasyTierDaemon`, `MCIpcChannel`, `MCSpaceLocks`, `MCSpaceSession`, `MCRouteSync` | symmetry, bounds and constants for TLC |
| `EasyTierDaemonProofs`, `IpcChannelProofs`, `ConfigStoreProofs`, `SpaceLocksProofs`, `SpaceSessionProofs`, `DaemonLifecycleProofs`, `RouteSyncProofs` | theorems about the module of that name |

A definition that begins with the comment "Mutant:" is a plausible bug of the
definition that follows it. It is not part of the specification: putting it in
the place of the original must make TLC find the property it is meant for
violated (`PROJECT.json`, "mutants").

### EasyTierDaemon

`core` is the boot task and then easytier-core (`clean`: old files are being
removed, `spawn`: the process is being started, `up`, `down`); `inst` is the
core's instance map; `toml` and `json` are the files; `pc` and `req` are the
position and the locals of each handler. A configuration is the set of fields set
in it; `Identity` stands for network name and secret. Three sets say which fields
survive which conversion: `Sent` those that `build_proto_config` passes on to the core
(not an `mtu` outside `flags`, nor `port_forwards`, `disable_ipv6` and
`disable_encryption`), `Dumped` those in the toml of `to_easytier_config`, `Patchable`
those that `patch_config` looks for. One action is what a handler does between two
points at which another one can run, and a file write is two, because `fs::write`
empties a file before it fills it:

| Code | Actions |
|---|---|
| accept loop, `handle_request` | `ConnectSpace`, `DisconnectSpace`, `PatchConfig`, `RestartAll`, `Push`, `Unpush` |
| `start_network` | `RetainOk` or `RetainFails`, `Prepare`, `EmptyToml`, `WriteToml`, `EmptyJson`, `WriteJson`, `RunStarts`, `RunBreaks` or `RunRefused`, `Tidy` |
| `stop_network` | `Delete`, `RemoveToml` |
| `patch_config` | `ReadAndPatch`, the four steps of `generate_config`, `RunStarts`, `RunBreaks` or `RunRefused` |
| `restart_all_instances` | `ListRunning`, `RestartNext`, `RunStarts`, `RunBreaks` or `RunRefused` |
| every `?` before the last step | `Fail`, or the failing disjunct of the action |
| boot task, processes | `CleanStale`, `SpawnCore`, `CoreExit`, `NewSession` |

The `stop_network` calls that `stop_all` makes at a shutdown are disconnects by a
further handler. Two details of the vendored core decide several results and are
modelled from its source: an instance whose configuration file is gone counts as
read-only and cannot be overwritten (`common/config.rs:1139`), and a core started
with `--config-dir` runs every toml it finds (`core.rs:1391`).
`read_network_config`'s fallback for a missing json looks for `network_name`
between the section header and the next line that starts with `[`; the header is
such a line, so the fallback yields the default configuration.

An emptied toml reads as the default configuration, an emptied json (`CutOff`) as an
error. The core writes the toml of an instance too, and only logs a failure
(`CoreWrites`). A core may be started while a handler that was accepted early has its
toml half written. Simplifications: a write that stops part-way is one that stopped
before its first byte, and a resumed file keeps the id of its space, although a toml
without `instance_id` gets a random one.

The ghost variable `excuse` collects what has happened since the last undisturbed
`clear_all_instances`. The invariants say which of these events each promise
depends on, so they are statements about all histories and not only about
faultless ones.

Assumption: the core ends with its daemon. `stop_easytier` ends it in a shutdown,
and `cleanup_all` kills it by PID file or port before the next daemon is started;
`DaemonLifecycle` says from which events this follows (`ExitLeavesNone`,
`HeldCoreIsOwn`).

### IpcChannel

The module is one `IpcClient` and its connections. The GUI has several, each with a
connection and a Mutex of its own: the `SpaceManager`'s (`app/setup.rs:227`, 264),
`GLOBAL_IPC` (`daemon/client.rs:294`) and the one-shot connections of `send_sync` and
`ping_sync`, which the log thread uses (`app/setup.rs:237`). They share nothing on the
client's side, so a property of the module is a property of each of them; they meet
only in the daemon, whose handlers overlap freely in `EasyTierDaemon`. Accordingly
`OverlapIsAbandoned` speaks of two requests of *one* client.

Requests are numbered in the order in which their callers get the Mutex, so the
bytes on a connection are in numerical order; `where` is the connection a request
was written to and `phase` is where the request, then its response, is. `half` is
the set of connections whose next response has lost its four length bytes.
`MayCancel` is `FALSE` for the desktop GUI, whose commands run to completion, and
`TRUE` in server mode, where hyper drops the future of a handler whose client has
gone. The length and the content of a request are written in two steps (`WriteLen`,
`WriteOk`): a call cancelled between them leaves a length whose content the daemon takes
from the requests behind it (`Misread`), which yields an error and executes nothing.
Simplifications: a request fits the socket buffer, so its writes need no timeout;
requests that are malformed or too large are not sent.

### ConfigStore

A file is its version. `std::fs::write` is a truncation and a write; `disk` may be
`Torn` between the two, and an unreadable `versions.json` loads like a missing one.
`Restart` may come after every step. The ghost `excused` records that `clear()`
overlapped a store or a download, or that `versions.json` could not be written or
removed; `clear()` takes no lock, and then the order of writes guarantees nothing.

### SpaceLocks

An operation is the sequence of its lock acquisitions, releases, daemon calls and
early returns, in program order, and a small interpreter runs the sequences of all
tasks against tokio's fair `RwLock` (external: modelled from its documentation and
its use). `connect` keeps the guard of `manager.rs:423` until it returns;
`shutdown_all` keeps the one of 498; the chat listener keeps `chat_servers` of
`app/setup.rs:507`. `shutdown_all` disconnects one space; further ones repeat the
same acquisitions. The other maps are left out because nobody who holds one of
them waits for these two.

### SpaceSession

Each GUI command is a record `op[t]` whose field `at` is the await it is at. A step
is what happens between two awaits, in the order of the code:

| Code | Actions |
|---|---|
| `create`, `join` | `Create`, `InsertRow`, `PushSpace` |
| `list` | `List`, `ListRows`, `ListStore` |
| `connect` | `Connect`, `ClearOthers`, `ReadConfig`, `SendOk` or `SendFails`, `StopOld` for each kind, then `BindServer` or `BindFails` and `InsertServer` for each kind, `Spawn`, `InsertHandle` |
| `disconnect`, `leave`, each round of `shutdown_all` | `Disconnect`, `CancelToken`, `TakeHandle`, `AwaitTask`, `HaltServer` for each kind, `RemoveClient`, `Leave` |
| `delete` | `Delete`, `CheckOwner`, the steps of `disconnect`, `DeleteRow`, `Retain` |
| `patch_config`, `update_space_config` | `PatchConfig`, `SavePatch`, `ApplyPatch` or `PatchFails`; `UpdateSpaceConfig` |
| `discover_and_connect_peers` | `DiscCheck`, `DiscAsk`, `DiscPeers` |
| accept loops | `CloseListener`: a stopped listener frees its port up to a second later |
| `FileServerRegistry`, its sync thread | `FileCommand`, `SyncList`, `SyncEach` |

The daemon is abstract: `run`, `listed` and `dcfg`. An IPC call succeeds (a connect
then leaves the other networks running if they could not be cleared), or fails with or
without its effect, or is given up after 30 s and takes effect later or never (`late`,
`GivesUp`, `LateEffect`). `patch_config` of the manager merges every key of a patch into
`config_json`, while the daemon's applies the `Known` ones and answers Ok; one
`Malformed` value in the row and `get_effective_config` falls back to the space's name
and secret. The lock `connect_handles`, which `disconnect` holds while it awaits the
discover task, is modelled (`holder`). That `spaces` can block for ever, which is the
subject of `SpaceLocks`, is the step `Wedge`: it may come whenever a command that holds
`spaces` across another wait meets a queued writer, and no command, sync or task gets
`spaces` afterwards. `CommandsReturn` and `SyncConverges` therefore say "unless
wedged". A bind may
always fail, because another program may own the port. Of the ghosts, `mixed` names
the spaces whose session is no longer the result of a plain sequence of commands
(overlap, failed bind, a reconnect that abandoned a task), and `apart` those whose
configuration was changed on one side only: an edit, a failed or late call, a setting
the daemon ignores or that makes the row unreadable, an overlap.

### DaemonLifecycle

Session `n` of the GUI spawns daemon `n`, and daemon `n` spawns core `n`; `boot` is
the daemon's boot task, the only one that knows the core's handle. `pidfile`,
`state`, `signal` and `config` are the four files, and `gconfig`, `cport` and `gport`
are the GUI's copies of the port, taken at three different times. The readiness poll is
three steps (`PollSignal`, `PollState`, `PollConnect`), so the files it has read may be
gone when it connects. The configured port has three writers: a daemon that had to move
(`Bind`), the settings dialog, which saves memory and file (`set_app_config`), and the
user's editor (`EditFile`); the GUI reloads the file when it has changed (`Reload`).
`AwaitPort` takes whoever listens on the RPC port for the core, and a core that cannot
bind it exits, so another program there is held as a core. `Crash` kills any process
after any step, and `Occupy` lets another program take an IPC port or the RPC port;
these and the edits are the events from outside, `MaxFaults` of them. Not counted, and
possible at every occasion, are an `lsof` that fails, a PID file that is not written, a
daemon or a core that cannot be spawned. The ghost `cause` collects what the promises
depend on:

| Cause | Event | Voids |
|---|---|---|
| `lost` | a core was killed | `HeldCoreIsOwn` |
| `unseen` | a cleanup without a PID file missed a core that was not listening yet, or `lsof` failed | `ExitLeavesNone`, `HeldCoreIsOwn` |
| `twins` | a session began beside a daemon that was not seen on the configured port | all four safety properties |
| `moved`, `edited` | the configured port was taken, or changed by the user | `ClientsReachDaemon` |
| `stale` | the poll was between two of its steps when the new daemon removed the files | the "published" half of `ReadyIsOwn` |
| `squat` | another program answered the poll | `ReadyIsOwn` |

Simplifications: Linux and one user; PID reuse is ignored; ending a core is one step,
ending a daemon is two, because it handles SIGTERM; the two files of `Publish` are
written in one step; the RPCs of `stop_all` are in `EasyTierDaemon`; ports are numbered
from the one that is configured at first, and the overflow of the ten-port range at
65535 (`daemon/mod.rs:92`) is left out. An edit of `EASYTIER_RPC_PORT` makes the port
fallback of the cleanup look in the wrong place, which the model has as a failing
`lsof`; nothing else about that setting is modelled.

### RouteSync

Each peer publishes two versioned items: its `RoutePeerInfo` and the set of peers it
is connected to (`hist` has every version of the latter). A session sends those items
that were updated since the last successful sync (`since`), that the other side is
not known to have (`saved`) and whose peer the route table reaches (`reach`); the
others wait in `unreach`. Sending, handling, the answer and a timeout are separate
actions, with everything else between them, so a request may be handled after its
session has gone and an answer may come after the items have changed. Connections go
as a list or as the whole cached bitmap, whichever the code's size estimate picks
(`UsesBitmap`). `since` is what the comparison of `last_update` with
`last_sync_succ_timestamp` yields, kept as a set of items because the order of the
timestamps is all that the code uses; iteration ends at the first older item, which
is sound because `OrderedHashMap` is walked from the newest one on. Version 0 and a
missing item are the same to every comparison. A peer draws its id at random when it
starts, so a restart is a new peer. `Initiators` is a constant: their election
(3296-3404), foreign networks, credentials, group trust, link costs and the removal of
saved versions after 60 s are not modelled. Ghosts: `forgot`, the items
`clear_expired_peer` has removed, and `skipped`, the items a session has lost sight of.

The cached bitmap is replaced only for a later version of the items (2529-2534), so of
two computations that overlap the first one's stays, made with the route table it found:
`Recompute` has that outcome too, as an event of the plan. `clear_expired_peer` removes
a peer that is unreachable for 90 s or silent for 3660 s, then computes the routes anew
(2898). A peer's own item is redrawn every 3600 s and so stays below that age; that a
jump of the clock or a suspended machine may remove it, and its version then begins
again at 1, is left out. `Handle` is one step for 3544-3590: there is no await in
between, and what another thread could see there is what it sees before or after, apart
from the overlapping computation above. A request that is lost with its link needs no
action of its own: its session ends, and nothing distinguishes it from a request that
was never sent (adding the loss does not add a state).

### FileTransfer

A body is the number of 64 KiB chunks stored and whether the framing of HTTP's chunked
encoding is in it; it can be decrypted only if it is whole and unframed. The progress
tasks of the calls of `send_file`, which share one status entry, run beside them, and
every step may fail where the code returns an error. A stream that ends early is stored
as far as it came and answered with 200 (`file/server.rs:174`); the sender sees the error
of its own side, and a failed write leaves a part or the old file.
That reqwest sends a streamed body without a Content-Length (`ContentLength`) is
external; the rest is the code of sender and server.

## 3. Runs

| Run | Checks | Bounds | Result |
|---|---|---|---|
| `daemon` | `TypeOK`, `ExclusionUnlessExcused`, `AppliedIsSaved`, `IdentityUnlessTorn`, `BootStartsNothing` | 2 spaces, 2 handlers, one field of each kind (applied, saved but not sent, passed over) beside the identity, `MaxAnomalies` = 1 | holds, 5.2 million states |
| `daemon_list_running` | `ListsAllRunning` | 1 handler | violated |
| `ipc_desktop` | `TypeOK`, `KeptStreamIsQuiet`, `OverlapIsAbandoned`, `ImplementsService`, `CallsReturn` | 3 callers of one client, `MaxReq` = 4, `MaxConn` = 3 | holds |
| `ipc_web` | `CrossTalkNeedsCancel`, `KeptStreamIsQuiet` | 2 callers, the same bounds, cancellation | holds |
| `config_store` | `TypeOK`, `PendingHasToken`, `ContentBacksIndex`, `DownloadNotOlder`, `IndexCatchesUp`, `NoRollback`, `TasksAreTaken` | 2 names, versions 0 and 1, 2 clients, `MaxSubmits` = 3 | holds |
| `locks` | `TypeOK`, `WedgeNeedsHeldSpaces`, `OpsFinish` | a GUI command, sync, listener, exit handler | holds |
| `locks_exit` | `ExitCompletes` | a GUI command, sync, exit handler | violated |
| `session` | `TypeOK`, `ListenersAreKnown`, `AllOrNothing`, `ConfigAgrees`, `CommandsReturn`, `SyncConverges` | 1 space, 2 kinds of server, 2 tasks, a known, an ignored and a malformed setting, `MaxOps` = 2, `MaxRetries` = 2 | holds, 340,000 states |
| `lifecycle` | `TypeOK`, `ExitLeavesNone`, `ClientsReachDaemon`, `ReadyIsOwn`, `HeldCoreIsOwn`, `OrphansEnd` | 2 sessions, 2 ports tried, 1 foreign IPC port and the RPC port, 1 edited port, `MaxFaults` = 1 | holds, 1.6 million states |
| `route_sync` | `TypeOK`, `NotAhead`, `SavedIsHeld`, `NoSilentGap`, `Converges` | 3 peers in a line, 3 plans of link changes | holds, 146,000 states |
| `route_unreachable` | `UnreachableKept` | the same | violated |
| `transfer` | `CompletedIsStored` | 2 members, 2 chunks | violated |

Why the bounds are enough for the interesting cases.

* Exclusion, overlap and cross-talk need two of each kind; a third caller lets one
  time out, one be served on a new connection and one wait. `MaxAnomalies` stops a
  history, after it has been checked, once it holds more than one anomaly other than
  `torn`; the promises are void by then, and the theorems cover longer histories.
* Two versions are enough for an order, and 0 is the lowest value of the unsigned
  version. Three submissions give a store, a pending task and a replacement.
* `session`: two commands of the same space in all orders and interleavings, beside
  the sync thread, old listeners and a discover task. `file` is the kind of server
  that has two owners, `voice` one that has not; chat and screen take the same path as
  voice. A second space meets the first only through ports and through the daemon.
  Two retries distinguish the first from the last.
* `lifecycle`: a session and the one that finds what it left. One event from outside,
  a crash of any process, a port taken or a port edited, may come after any step, beside
  any number of failing spawns, PID file writes and `lsof` calls; the theorems cover
  several events. A foreign program on the first port makes the daemon move, two tries
  let it succeed or fail, and one on the RPC port takes the place of the core.
* `route_sync`: in a line of three the outer peers depend on what the middle one
  passes on, which is where reachability, bitmaps and forwarded items matter. The
  plans are a link that breaks and heals, a meeting with one loss, change or expiry,
  and a peer that changes its neighbour; each is explored in all interleavings. The
  events of a plan may also be spent on overlapping computations of the routes.

Behaviours end when `MaxReq`, the plan or the sessions are used up, so the IPC,
route and lifecycle runs do not check deadlock; the lock and session runs do not either,
because the manager really can wedge. `daemon` ignores `connected_spaces` in its view: no
action reads it.

**Fairness.** `IpcChannel`: a caller inside `send` proceeds, because its connect
and its reads carry timers, and a waiting caller gets the Mutex, which is FIFO.
Nothing is assumed of the daemon, which may hang. `ConfigStore`: the consumer task
runs while it can, and `submit` does not stop between its two statements. No
client, clear or restart need ever happen. `SpaceLocks`: a task that is not waiting
runs (daemon calls return, by `CallsReturn`), and a free lock is handed to the first
waiter. `SpaceSession`: a command that has begun, a spawned discover task, the sync
thread's loop and the accept loops go on, except that nobody gets `spaces` once the
manager is wedged; nobody has to issue a command, and a call that was given up need
never take effect.
`DaemonLifecycle`: a running daemon goes on and the timer of its watchdog fires;
nobody has to start or close the GUI, and no killed process has to come back.
`RouteSync`: as long as a task of some peer can go on, one does, for the tasks loop on
timers; a request is lost or late only as often as the plan has events for it, and
links come and go only as the plan says. `EasyTierDaemon` and `FileTransfer` state
safety only and assume no fairness.

## 4. Results

### Findings

1. **list_running** (`daemon_list_running`). `easytier/mod.rs:1033`: "获取所有运行的实例
   ID". It lists toml files, and `start_network` removes the file of the instance it
   has just started, so after a successful connect nothing is listed. `ListSpaces`,
   upgrade and `stop_all` rely on it.
2. **Exit** (`locks_exit`). `connect` reads `spaces` a second time
   (`space/manager.rs:435`, 763) under its first guard. If the file server sync, or a
   create, join or delete, queues a writer in between, connect and writer wait for
   each other for ever. `shutdown_all` then waits too, `app/exit.rs:22` joins it
   without a timeout, and the steps that stop the daemon are never reached.
3. **Unreachable items** (`route_unreachable`). Comments at `peer_ospf_route.rs:2578`
   and 2646 say that an item of an unreachable peer is kept until the other side has
   it. The first answer of a session changes `dst_session_id`, which clears both sets
   (2012), and the time of the last successful sync then hides the items: the
   neighbour gets them only when their version changes or the session is a new one.
4. **Uploads** (`transfer`). `send_file` streams the body (`file/transfer.rs:155`), so
   the request has no Content-Length. The server takes that for a length of 0, stores
   what came with the header, framing included, and answers 200: the sender records
   success, and the receiver cannot open the file. With the length in the header the
   property holds. `file/server.rs:9` says that files of any size are supported.

Three further disagreements need no run of their own. README.md:102 says "Only one
EasyTier network instance runs at a time", but `patch_config` (`easytier/mod.rs:978`)
runs the patched space without clearing the others; `ExclusionUnlessExcused` has this
among the causes it excuses. `commands/config.rs:16` and the template of the configuration
file (`config/mod.rs:310`) say that an edited port takes effect at the next start of the
daemon, but a `GLOBAL_IPC` that is first used after the edit takes it at once;
`ClientsReachDaemon` excuses an edited port. `config_store/queue.rs:10` says "只保留最新版本和时间戳", but
`submit` keeps the latest *submission*, so an older version that arrives later
replaces a newer one that is still pending; `NoRollback` shows that the stored version
does not suffer.

### What holds

* The IPC channel gives at-most-once execution and returns to a caller only its own
  answer, through timeouts, reconnects and daemon crashes. In server mode a wrong
  answer needs a cancelled call on the same connection.
* A connect or patch that answers Ok undisturbed has saved the whole configuration and
  runs what the conversion for the core keeps of it. The identity of a network is lost
  only after a failed or interrupted write of a toml or json, or an overlap.
* The store never lowers a version except by `clear()` or a restart; no accepted task
  is forgotten; content is never older than the version that claims it.
* Every wedge of the manager has a task that holds `spaces` for reading and waits;
  unless it wedges, every operation finishes.
* Every listener of a session can still be stopped by somebody, whatever commands
  overlapped or failed. After a plain sequence of commands a session is complete or
  gone, and daemon and database agree on its configuration unless one of the named
  events has set them apart. Unless the manager is wedged every command returns, and
  memory and registry converge to database and daemon.
* Leaving the application leaves no process, except a core without a PID file that was
  not seen on its port, or when two daemons overlapped. The GUI reports readiness only of
  its own daemon, unless another program answers the poll, and talks to it unless its
  port moved or was edited or two daemons overlapped. A daemon whose GUI has gone ends.
* No peer, message or session is ever ahead of the peer that an item is about; what a
  session believes to be saved is held by the other side; and once the links are
  stable all joined peers have the newest items, except for those removed or lost
  sight of as finding 3 describes.

### Proofs

TLAPS proves these for all values of the constants, under the named assumptions of
the modules (the identity is a field, markers such as `NoSpace` are not members of
the sets they complement, bounds are natural numbers).

| Theorem | Argument |
|---|---|
| `EasyTierDaemonProofs`: `TypeCorrect` | one case per action; `Moves` says that a handler goes to a step of its operation |
| `Exclusion` | `ExclusionInv`: without overlap at most one handler is busy (`Alone`), and a handler between its clear and its run has no instance beside it (`StillCleared`) |
| `Boot` | `BootInv`: between the clean and the spawn no file exists unless a request was accepted |
| `Applied` | `AppliedInv` follows the configuration from the json, through its conversion, to the run |
| `IdentityKept` | `IdentityInv`: instances, files and requests in progress all carry the identity, and an emptied file, or a toml without a json, exists only inside a handler |
| `IpcChannelProofs`: `TypeCorrect`, `AnswersMatch`, `QuietStream` | `MatchInv`: at most one request is live on the connection in use, and it is the lock holder's (`LockInv`, `RequestInv`, `ConnInv`, `StreamInv`), unless a call on it was cancelled |
| `ChannelImplementsService` | refinement, step by step, from `MatchInv` and `ServiceInv` |
| `OverlapMeansAbandoned` | `OverlapInv`: a pending request is the one the lock holder waits for, and without cancellation Ok comes after the response was read |
| `ConfigStoreProofs`: `TypeCorrect`, `VersionsDoNotRollBack` | between its check and its insertion the consumer's version exceeds the index (`CheckedInv`) |
| `NoTaskForgotten` | the token invariant is inductive with the types |
| `ContentIsBacked`, `IndexIsCurrent`, `DownloadsAreCurrent` | `StepInv`: what is true of index, memory and disk at each step of a store |
| `SpaceLocksProofs`: `TypeCorrect` | `LockInv`: the guards a task holds are a function of its operation and step (`Reads`, `Writes`, checked step by step against the scripts), one writer at most, and a task is queued once, where its script awaits the lock |
| `WedgeIsHeldSpaces` | a task that awaits a lock has no write guard, and with one of `chat_servers` it awaits `spaces`; so of the tasks that wait for one another the first in the queue of `spaces` is a writer that waits for a reader among them |
| `SpaceSessionProofs`: `TypeCorrect`, `ListenersKnown` | `KnownInv`: a bound listener is in its map, or is about to be inserted by one command, which excludes another bind of that port |
| `ConfigurationsAgree` | `BornInv` and `ApartInv`: unless the space is set apart one command at a time works on it, its row is readable, and what the daemon has, with the patch under way, is what the row yields |
| `SessionIsWhole` | `MixedInv`: unless the space is mixed, a command finds the session whole or gone, and at each of its awaits the parts before it are made or removed |
| `DaemonLifecycleProofs`: `TypeCorrect` | `PlaceInv` relates the places of GUI, poll, daemon, boot task and core |
| `OneDaemon` | `OneInv`: the living daemon is the GUI's own or the one it is ending, and none is alive between cleanup and spawn or after an exit |
| `ReadyMeansPublished` | `ReadyInv`: `Daemon::new` has removed the files, and nobody else is alive to write them before the daemon publishes; a poll between two of its steps at that moment is `stale` |
| `ClientsFindDaemon` | `ClientInv`: unless it was edited, living daemon, state file and GUI have the configured port, and a daemon moves it only while no file names it |
| `ExitIsClean`, `HeldMeansOwn` | `CoreInv`: one core at most is alive and is the living daemon's; a PID file names it or none, so a stale file never hides it, and without a file only a cleanup that does not see it leaves it |
| `RouteSyncProofs`: `TypeCorrect`, `NobodyIsAhead` | `AheadInv`: the cached bitmap rows are not ahead either, whatever route table they were made with, and every peer reaches itself |
| `SavedVersionsAreHeld` | `SendInv`: ids are drawn once, and a request of the current session is the one its call waits for or one that was given up; `HeldInv`: what is sent the sender has, what was answered the receiver has |
| `GapsAreNotSilent` | `GapInv`: a request under way carries what the other side lacks, or leaves it remembered |

The invariants the runs check are seldom inductive alone: `AppliedIsSaved`, for
instance, speaks only of the last step of a handler, and its proof needs what
holds at every earlier one.

All proofs treat the bounds as arbitrary: the number of spaces, tasks, sessions,
crashes, peers, links and events is a constant. Every inductive invariant was first
checked with TLC on an instance. Two of these checks corrected the model:
`ClientsReachDaemon` did not excuse overlapping daemons, which its run is too small to
show, and the nonempty sets in `Wedged` needed parentheses to be read alike by TLC and
the prover.

Every safety property of the passing runs, the action property `NoRollback` and the
refinement `ImplementsService` are stated by a theorem. Only model-checked are the
liveness properties (`CallsReturn`, `TasksAreTaken`, `OpsFinish`, `CommandsReturn`,
`SyncConverges`, `OrphansEnd`, `Converges`): they rest on fairness and `ENABLED`, which
TLAPS does not support here. The four violations are counterexamples and have no theorem.

## 5. Not modelled

Cryptography, codecs, text rewriting, SQL and the user interface have no protocol
state a model would add to. `PROJECT.json` lists every component with its status.

**The vendored overlay network.** About 108,000 of the repository's 124,000 lines of
implementation are `resources/easytier_lib`, a copy of EasyTier that homeTier runs as
a separate process. Modelled of it are the management RPC the daemon calls and the
route synchronisation that decides which peers a space sees. Its tunnels, NAT
traversal, packet filters, gateways, DNS, credential and foreign network handling and
its command line are third-party code that homeTier's correctness rests on but does
not contain. The mapped share of the whole tree is therefore small; of homeTier's own
Rust code the stateful parts named in section 1 are mapped.

**Known exposures without a property of their own.** Beside the hazards `PROJECT.json`
lists with a note:

* `delete` does not stop the registry's file server of the deleted space, and the sync
  only visits spaces that have a row (`file/registry.rs:83`).
* The port ranges of two kinds of server overlap (18000, 18100 and 18200 plus the id
  modulo 1000), so two spaces may want the same port; to a connect this is `BindFails`.
* `connect` of one space leaves the local servers of the space it displaces running.
* A daemon that ends removes state and signal file whoever wrote them
  (`daemon/mod.rs:267`); `ReadyIsOwn` excuses overlapping daemons.
* `GLOBAL_IPC` keeps the port of its first use; `ClientsReachDaemon` excuses a session
  whose port moved or was edited, and sessions beside overlapping daemons: with three sessions and
  two crashes, two daemons can be alive on different ports when a third session begins.
* A broadcast of a file ends at the first member that fails.
* The election of initiators (`peer_ospf_route.rs:3296`) may leave two neighbours
  without a session for a while; saved versions of foreign networks survive a new
  session id.

Also left out: macOS elevation and `daemon.pid`, PID reuse, the wire encoding of the
configuration store (version 0 as a sentinel), byte counts of sockets, chat history
and signatures, the event bus and the sessions of the web server, the ring buffer of
the log, and the mobile variant, whose network runs in the process itself.

## 6. Plan

Done: `EasyTierDaemon`, `IpcChannel` with `RpcService`, `ConfigStore`, `SpaceLocks`,
`SpaceSession`, `DaemonLifecycle` and `RouteSync`, each with theorems for all of its safety
properties; `FileTransfer`, whose run is a finding.

Theorems that could follow: what `FileTransfer` promises when the length of an upload is
known, and that the calls of `EasyTierDaemon` implement an abstract network service.

Models that could follow: the event bus and the log's ring buffer (bounds and order),
`effective_proxy_cidrs` against a reference definition, and the hand-over of the TUN
descriptor on mobile systems.
