--------------------------- MODULE EasyTierDaemon ---------------------------
(***************************************************************************)
(* The daemon process: the IPC handlers that change the network            *)
(* (daemon/mod.rs), the EasyTierManager they call (easytier/mod.rs) and    *)
(* the management RPC of easytier-core, whose source is vendored.          *)
(*                                                                         *)
(* Every IPC connection is served by a task of its own and no lock is held *)
(* across a handler, so handlers interleave at every file operation and    *)
(* RPC, and within a file write, which empties the file before it fills it. *)
(* A configuration is the set of fields that are set in it: `Identity'     *)
(* stands for the network name and secret, and the default configuration,  *)
(* which an emptied toml file also reads as, is the empty set.             *)
(***************************************************************************)
EXTENDS Naturals

CONSTANTS Spaces,     \* space ids, which are also the instance ids
          Handlers,   \* concurrently served IPC connections
          Fields,     \* configuration fields
          Identity,   \* the field that names the network
          Sent,       \* the fields build_proto_config passes on to the core
          Dumped,     \* the fields to_easytier_config writes to the toml
          Patchable,  \* the fields patch_config looks for in a patch
          Requested,  \* configurations a ConnectSpace may carry
          Patches,    \* sets of fields a PatchConfig may set
          NoConfig,   \* no instance, or no file
          CutOff,     \* a json file that was emptied and not filled
          NoSpace     \* an idle handler serves no space

Config == SUBSET Fields
DefaultConfig == {}

ASSUME ConfigAssumption == /\ Identity \in Fields
                           /\ CutOff # NoConfig
                           /\ \A c \in Config : c # NoConfig /\ c # CutOff
ASSUME FieldAssumption == /\ {Sent, Dumped, Patchable} \subseteq Config
                          /\ Identity \in Sent /\ Identity \in Dumped
ASSUME RequestAssumption == /\ Requested \in SUBSET {c \in Config : Identity \in c}
                            /\ Patches \in SUBSET Config
ASSUME SpaceAssumption == NoSpace \notin Spaces

VARIABLES core,       \* "clean" | "spawn" | "up" | "down": the boot task and easytier-core
          inst,       \* core's instance map: the configuration each instance runs
          toml,       \* config_dir/{id}.toml
          json,       \* config_dir/{id}.json
          connected,  \* DaemonStatus.connected_spaces
          pc,         \* where each handler is
          req,        \* what each handler works on
          excuse      \* ghost: what has happened since the last undisturbed clear

vars == <<core, inst, toml, json, connected, pc, req, excuse>>

Ops == {"none", "connect", "disconnect", "patch", "restart"}
PCs == {"idle", "clear", "prep", "toml", "fill", "json", "save", "run", "tidy", "push",
        "del", "rm", "unpush", "read", "list", "next"}
\* The steps of each operation, in order.
Fits(op, l) ==
    \/ op = "none" /\ l = "idle"
    \/ op = "connect" /\ l \in {"clear", "prep", "toml", "fill", "json", "save", "run",
                                 "tidy", "push"}
    \/ op = "disconnect" /\ l \in {"del", "rm", "unpush"}
    \/ op = "patch" /\ l \in {"read", "toml", "fill", "json", "save", "run", "push"}
    \/ op = "restart" /\ l \in {"list", "next", "run"}
(***************************************************************************)
(* Reasons for more than one instance ("retain", "patch", "restart",       *)
(* "boot", "overlap"), for a daemon start that resumes something ("early", *)
(* "stale"), and for a file that may be cut off, or a json that may miss   *)
(* or be outdated ("torn").                                                *)
(***************************************************************************)
Excuses == {"overlap", "torn", "retain", "patch", "restart", "boot", "early", "stale"}
ExclusionExcuses == {"overlap", "retain", "patch", "restart", "boot"}

Request == [op : Ops, sp : Spaces \cup {NoSpace}, cfg : Config, todo : SUBSET Spaces]
Working(op, s, c, T) == [op |-> op, sp |-> s, cfg |-> c, todo |-> T]
NoRequest == Working("none", NoSpace, DefaultConfig, {})
Nothing == [s \in Spaces |-> NoConfig]
Running == {s \in Spaces : inst[s] # NoConfig}
Busy == {i \in Handlers : pc[i] # "idle"}
OthersBusy(i) == \E j \in Handlers \ {i} : pc[j] # "idle"

\* The conversions lose fields: the core is sent no mtu that is not in flags,
\* no port_forwards, no disable_ipv6 and no disable_encryption.
build_proto_config(c) == c \cap Sent
to_easytier_config(c) == c \cap Dumped
\* What patch_config makes of a configuration; other keys are passed over.
patched(c, p) == c \cup (p \cap Patchable)

\* The running instances by file name: list_running is list_saved.
list_saved == {s \in Spaces : toml[s] # NoConfig}
list_running == list_saved

Init == /\ core = "clean"
        /\ inst = Nothing /\ toml = Nothing /\ json = Nothing
        /\ connected = {}
        /\ pc = [i \in Handlers |-> "idle"]
        /\ req = [i \in Handlers |-> NoRequest]
        /\ excuse = {}

-----------------------------------------------------------------------------
(* Handlers: accepting a request, moving on, replying.                     *)

Goto(i, l) == pc' = [pc EXCEPT ![i] = l]
Reply(i) == Goto(i, "idle") /\ req' = [req EXCEPT ![i] = NoRequest]
CoreUntouched == UNCHANGED <<core, inst>>
FilesUntouched == UNCHANGED <<toml, json>>

\* The accept loop starts before the boot task has finished.
Accept(i, l, r) ==
    /\ pc[i] = "idle"
    /\ Goto(i, l) /\ req' = [req EXCEPT ![i] = r]
    /\ excuse' = excuse \cup (IF OthersBusy(i) THEN {"overlap", "torn"} ELSE {})
                        \cup (IF core \in {"clean", "spawn"} THEN {"early"} ELSE {})
    /\ CoreUntouched /\ FilesUntouched /\ UNCHANGED connected

ConnectSpace(i, s, c) ==
    Accept(i, "clear", Working("connect", s, c, {}))
\* Also each stop_network of stop_all, when the daemon shuts down.
DisconnectSpace(i, s) ==
    Accept(i, "del", Working("disconnect", s, DefaultConfig, {}))
PatchConfig(i, s, p) ==
    Accept(i, "read", Working("patch", s, p, {}))
\* SwitchBinary, and UpgradeVersion once the download is installed.
RestartAll(i) ==
    Accept(i, "list", Working("restart", NoSpace, DefaultConfig, {}))

\* `?' on an RPC dial, on a file operation or on ensure_binary.  A write that
\* fails leaves the file emptied, a toml without its json, or an old json.
Fail(i) ==
    /\ pc[i] \in {"clear", "prep", "toml", "fill", "json", "save", "del", "read", "tidy"}
    /\ Reply(i)
    /\ excuse' = excuse \cup (IF pc[i] \in {"fill", "json", "save"} THEN {"torn"} ELSE {})
    /\ CoreUntouched /\ FilesUntouched /\ UNCHANGED connected

-----------------------------------------------------------------------------
(* start_network                                                           *)

\* Mutant: the clear that succeeds leaves the instances.
RetainNothing(i) ==
    /\ pc[i] = "clear" /\ core = "up"
    /\ Goto(i, "prep")
    /\ excuse' = (excuse \cap {"torn"}) \cup (IF OthersBusy(i) THEN {"overlap"} ELSE {})
    /\ CoreUntouched /\ FilesUntouched /\ UNCHANGED <<connected, req>>

\* retain_network_instance([]): no instance stays.
RetainOk(i) ==
    /\ pc[i] = "clear" /\ core = "up"
    /\ inst' = Nothing
    /\ Goto(i, "prep")
    /\ excuse' = (excuse \cap {"torn"}) \cup (IF OthersBusy(i) THEN {"overlap"} ELSE {})
    /\ FilesUntouched /\ UNCHANGED <<core, connected, req>>

\* Three failed attempts are logged and start_network goes on.
RetainFails(i) ==
    /\ pc[i] = "clear" /\ core = "up"
    /\ Goto(i, "prep")
    /\ excuse' = excuse \cup {"retain"}
    /\ CoreUntouched /\ FilesUntouched /\ UNCHANGED <<connected, req>>

\* Remove the old toml; ensure_binary may still fail afterwards.
Prepare(i) ==
    /\ pc[i] = "prep"
    /\ toml' = [toml EXCEPT ![req[i].sp] = NoConfig]
    /\ \/ Goto(i, "toml") /\ UNCHANGED req
       \/ Reply(i)
    /\ CoreUntouched /\ UNCHANGED <<json, connected, excuse>>

\* generate_config writes the toml and then the json; fs::write empties a
\* file before it fills it.
EmptyToml(i) ==
    /\ pc[i] = "toml"
    /\ toml' = [toml EXCEPT ![req[i].sp] = DefaultConfig]
    /\ Goto(i, "fill")
    /\ CoreUntouched /\ UNCHANGED <<json, connected, req, excuse>>

WriteToml(i) ==
    /\ pc[i] = "fill"
    /\ toml' = [toml EXCEPT ![req[i].sp] = to_easytier_config(req[i].cfg)]
    /\ Goto(i, "json")
    /\ CoreUntouched /\ UNCHANGED <<json, connected, req, excuse>>

EmptyJson(i) ==
    /\ pc[i] = "json"
    /\ json' = [json EXCEPT ![req[i].sp] = CutOff]
    /\ Goto(i, "save")
    /\ CoreUntouched /\ UNCHANGED <<toml, connected, req, excuse>>

\* Mutant: the json gets what was converted for the core.
WriteJsonConverted(i) ==
    /\ pc[i] = "save"
    /\ json' = [json EXCEPT ![req[i].sp] = build_proto_config(req[i].cfg)]
    /\ Goto(i, "run")
    /\ CoreUntouched /\ UNCHANGED <<toml, connected, req, excuse>>

WriteJson(i) ==
    /\ pc[i] = "save"
    /\ json' = [json EXCEPT ![req[i].sp] = req[i].cfg]
    /\ Goto(i, "run")
    /\ CoreUntouched /\ UNCHANGED <<toml, connected, req, excuse>>

\* Mutant: patch_config removes the toml like start_network.
AfterRunTidies(i, ok) ==
    \/ req[i].op = "restart" /\ Goto(i, "next") /\ UNCHANGED req
    \/ req[i].op # "restart" /\ ~ok /\ Reply(i)
    \/ req[i].op # "restart" /\ ok /\ Goto(i, "tidy") /\ UNCHANGED req

\* What follows rpc_run_network_instance in each of its three callers.
AfterRun(i, ok) ==
    \/ req[i].op = "restart" /\ Goto(i, "next") /\ UNCHANGED req
    \/ req[i].op # "restart" /\ ~ok /\ Reply(i)
    \/ req[i].op = "connect" /\ ok /\ Goto(i, "tidy") /\ UNCHANGED req
    \/ req[i].op = "patch" /\ ok /\ Goto(i, "push") /\ UNCHANGED req

\* An instance whose config file is gone counts as read-only and is kept.
ReadOnly(s) == inst[s] # NoConfig /\ toml[s] = NoConfig

\* The core refuses or is not reached: nothing changes.
RunRefused(i) ==
    /\ pc[i] = "run"
    /\ AfterRun(i, FALSE)
    /\ CoreUntouched /\ FilesUntouched /\ UNCHANGED <<connected, excuse>>

\* The core's own write of the toml: a failure is only logged there, and
\* leaves the file as it was or emptied.
CoreWrites(s, c, causes) ==
    \E cut \in BOOLEAN :
        /\ toml' \in IF cut THEN {[toml EXCEPT ![s] = DefaultConfig]}
                     ELSE {toml, [toml EXCEPT ![s] = c]}
        /\ excuse' = excuse \cup causes \cup (IF cut THEN {"torn"} ELSE {})

\* overwrite: the old instance is deleted and the toml written before the new
\* one starts.  Here the start fails.
RunBreaks(i) ==
    LET s == req[i].sp IN
    /\ pc[i] = "run" /\ core = "up" /\ ~ReadOnly(s)
    /\ inst' = [inst EXCEPT ![s] = NoConfig]
    /\ CoreWrites(s, build_proto_config(req[i].cfg), {})
    /\ AfterRun(i, FALSE)
    /\ UNCHANGED <<core, json, connected>>

\* Here it succeeds, and the answer arrives or is lost.
RunStarts(i) ==
    LET s == req[i].sp
        c == build_proto_config(req[i].cfg) IN
    /\ pc[i] = "run" /\ core = "up" /\ ~ReadOnly(s)
    /\ inst' = [inst EXCEPT ![s] = c]
    /\ CoreWrites(s, c, IF req[i].op # "connect" /\ Running \ {s} # {}
                        THEN {req[i].op} ELSE {})
    /\ \E ok \in BOOLEAN : AfterRun(i, ok)
    /\ UNCHANGED <<core, json, connected>>

\* The toml the core wrote is removed, so that no restart resumes it.
Tidy(i) ==
    /\ pc[i] = "tidy"
    /\ toml' = [toml EXCEPT ![req[i].sp] = NoConfig]
    /\ Goto(i, "push")
    /\ CoreUntouched /\ UNCHANGED <<json, connected, req, excuse>>

Push(i) ==
    /\ pc[i] = "push"
    /\ connected' = connected \cup {req[i].sp}
    /\ Reply(i)
    /\ CoreUntouched /\ FilesUntouched /\ UNCHANGED excuse

-----------------------------------------------------------------------------
(* stop_network                                                            *)

\* The core deletes the instance and its file; an error is only logged.
Delete(i) ==
    /\ pc[i] = "del" /\ core = "up"
    /\ \/ /\ inst' = [inst EXCEPT ![req[i].sp] = NoConfig]
          /\ toml' = IF inst[req[i].sp] = NoConfig THEN toml
                     ELSE [toml EXCEPT ![req[i].sp] = NoConfig]
       \/ UNCHANGED <<inst, toml>>
    /\ Goto(i, "rm")
    /\ UNCHANGED <<core, json, connected, req, excuse>>

\* remove_file(..).ok(): the toml may survive.
RemoveToml(i) ==
    /\ pc[i] = "rm"
    /\ \/ toml' = [toml EXCEPT ![req[i].sp] = NoConfig]
       \/ UNCHANGED toml
    /\ Goto(i, "unpush")
    /\ CoreUntouched /\ UNCHANGED <<json, connected, req, excuse>>

Unpush(i) ==
    /\ pc[i] = "unpush"
    /\ connected' = connected \ {req[i].sp}
    /\ Reply(i)
    /\ CoreUntouched /\ FilesUntouched /\ UNCHANGED excuse

-----------------------------------------------------------------------------
(* patch_config and restart_all_instances                                  *)

\* Mutant: the configuration is read from the toml alone.
read_toml_config(s) == DefaultConfig

\* json first; the toml fallback stops at its own section header and so
\* yields the default configuration.
read_network_config(s) == IF json[s] # NoConfig THEN json[s] ELSE DefaultConfig
Readable(s) == IF json[s] # NoConfig THEN json[s] # CutOff ELSE toml[s] # NoConfig

ReadAndPatch(i) ==
    LET s == req[i].sp IN
    /\ pc[i] = "read" /\ Readable(s)
    /\ req' = [req EXCEPT ![i] = Working("patch", s, patched(read_network_config(s), req[i].cfg), {})]
    /\ Goto(i, "toml")
    /\ CoreUntouched /\ FilesUntouched /\ UNCHANGED <<connected, excuse>>

ListRunning(i) ==
    /\ pc[i] = "list"
    /\ req' = [req EXCEPT ![i] = Working("restart", NoSpace, DefaultConfig, list_running)]
    /\ Goto(i, "next")
    /\ CoreUntouched /\ FilesUntouched /\ UNCHANGED <<connected, excuse>>

\* An id whose toml has gone, or whose configuration cannot be read, is skipped.
RestartNext(i) ==
    /\ pc[i] = "next"
    /\ \/ req[i].todo = {} /\ Reply(i)
       \/ \E s \in req[i].todo :
            LET rest == req[i].todo \ {s} IN
            \/ /\ toml[s] # NoConfig /\ Readable(s)
               /\ req' = [req EXCEPT ![i] = Working("restart", s, read_network_config(s), rest)]
               /\ Goto(i, "run")
            \/ /\ req' = [req EXCEPT ![i] = Working("restart", NoSpace, DefaultConfig, rest)]
               /\ UNCHANGED pc
    /\ CoreUntouched /\ FilesUntouched /\ UNCHANGED <<connected, excuse>>

-----------------------------------------------------------------------------
(* The boot task and the processes                                         *)

\* Mutant: the files of earlier sessions are left alone.
KeepStale ==
    /\ core = "clean"
    /\ core' = "spawn"
    /\ FilesUntouched /\ UNCHANGED <<inst, connected, pc, req, excuse>>

\* Delete the toml files of earlier sessions; a failure is only logged.
CleanStale ==
    /\ core = "clean"
    /\ core' = "spawn"
    /\ \E kept \in SUBSET list_saved :
         /\ toml' = [s \in Spaces |-> IF s \in kept THEN toml[s] ELSE NoConfig]
         /\ excuse' = excuse \cup (IF kept # {} THEN {"stale"} ELSE {})
    /\ UNCHANGED <<inst, json, connected, pc, req>>

\* easytier-core runs every toml it finds in --config-dir, also one that a
\* handler accepted during the boot has emptied and not yet filled.
SpawnCore ==
    /\ core = "spawn"
    /\ \/ /\ core' = "up" /\ inst' = toml
          /\ excuse' = excuse \cup (IF list_saved # {} THEN {"boot"} ELSE {})
                    \cup (IF \E i \in Handlers : pc[i] = "fill" THEN {"torn"} ELSE {})
       \/ core' = "down" /\ UNCHANGED <<inst, excuse>>
    /\ FilesUntouched /\ UNCHANGED <<connected, pc, req>>

CoreExit ==
    /\ core = "up"
    /\ core' = "down" /\ inst' = Nothing
    /\ FilesUntouched /\ UNCHANGED <<connected, pc, req, excuse>>

\* The daemon ends at any moment, or after a stop_all, and is started again;
\* stop_easytier, or cleanup_all before the next start, has ended its core.
NewSession ==
    /\ core' = "clean" /\ inst' = Nothing /\ connected' = {}
    /\ pc' = [i \in Handlers |-> "idle"]
    /\ req' = [i \in Handlers |-> NoRequest]
    /\ excuse' = (excuse \cap {"torn"})
                    \cup (IF \E i \in Handlers : pc[i] \in {"fill", "json", "save"} THEN {"torn"} ELSE {})
    /\ FilesUntouched

Requests(i) ==
    \/ \E s \in Spaces, c \in Requested : ConnectSpace(i, s, c)
    \/ \E s \in Spaces : DisconnectSpace(i, s)
    \/ \E s \in Spaces, p \in Patches : PatchConfig(i, s, p)
    \/ RestartAll(i)

Steps(i) ==
    \/ Fail(i) \/ RetainOk(i) \/ RetainFails(i) \/ Prepare(i)
    \/ EmptyToml(i) \/ WriteToml(i) \/ EmptyJson(i) \/ WriteJson(i)
    \/ RunRefused(i) \/ RunBreaks(i) \/ RunStarts(i)
    \/ Tidy(i) \/ Push(i) \/ Delete(i) \/ RemoveToml(i) \/ Unpush(i)
    \/ ReadAndPatch(i) \/ ListRunning(i) \/ RestartNext(i)

Next == \/ \E i \in Handlers : Requests(i) \/ Steps(i)
        \/ CleanStale \/ SpawnCore \/ CoreExit \/ NewSession

Spec == Init /\ [][Next]_vars

-----------------------------------------------------------------------------
\* A handler is at a step of its operation, and works on a space.
Serves(l, r) == /\ Fits(r.op, l)
                /\ l \notin {"idle", "list", "next"} => r.sp \in Spaces

\* Every variable holds what the code can store in it, and every handler is
\* at a step of the operation it serves.
TypeOK ==
    /\ core \in {"clean", "spawn", "up", "down"}
    /\ inst \in [Spaces -> {NoConfig} \cup Config]
    /\ toml \in [Spaces -> {NoConfig} \cup Config]
    /\ json \in [Spaces -> {NoConfig, CutOff} \cup Config]
    /\ connected \in SUBSET Spaces
    /\ pc \in [Handlers -> PCs]
    /\ req \in [Handlers -> Request]
    /\ \A i \in Handlers : Serves(pc[i], req[i])
    /\ excuse \in SUBSET Excuses

\* At most one network instance runs, unless since the last undisturbed
\* clear_all_instances one of five things has happened: two handlers
\* overlapped, the three retain attempts failed, the core resumed a file at
\* boot, or patch_config or restart_all_instances (which clear nothing)
\* started an instance beside another.
ExclusionUnlessExcused ==
    excuse \cap ExclusionExcuses = {} => \A s, t \in Running : s = t

\* When connect or patch is about to answer Ok and no other handler
\* interfered, the json from which later patches start holds the handler's
\* configuration and the instance runs that configuration as far as
\* build_proto_config sends it: the other fields are saved and do not run.
AppliedIsSaved ==
    \A i \in Handlers :
        (pc[i] = "push" /\ core = "up" /\ "overlap" \notin excuse) =>
            /\ json[req[i].sp] = req[i].cfg
            /\ inst[req[i].sp] = build_proto_config(json[req[i].sp])

\* No instance runs without a network identity as long as no write of a toml
\* or json failed, was cut off by a crash or read half done by a core that
\* starts, and no two handlers overlapped:
\* then no emptied toml is resumed at boot, and read_network_config's toml
\* fallback, which loses the identity, is never taken.
IdentityUnlessTorn ==
    "torn" \notin excuse => \A s \in Running : Identity \in inst[s]

\* A core that the daemon starts runs nothing at first, unless a stale toml
\* could not be removed or an IPC request was accepted during the boot.
BootStartsNothing ==
    [][(core = "spawn" /\ core' = "up" /\ excuse \cap {"early", "stale"} = {})
          => inst' = Nothing]_vars

\* easytier/mod.rs:1033: list_running returns all running instances; here
\* between requests, and in histories without faults.
ListsAllRunning == (excuse = {} /\ Busy = {}) => Running \subseteq list_running
=============================================================================
