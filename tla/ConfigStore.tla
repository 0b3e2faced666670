---------------------------- MODULE ConfigStore -----------------------------
(***************************************************************************)
(* The versioned configuration store of a node (config_store/): StoreQueue *)
(* with its deduplicating map and its one consumer task, ConfigStore with  *)
(* its in-memory index, its content files and versions.json, and the       *)
(* commands, HTTP routes and TCP connections that submit, read and clear.  *)
(*                                                                         *)
(* A file is its version: content is told apart by the version it was      *)
(* submitted with.  std::fs::write is two steps, truncation and writing,   *)
(* and the process may die between any two steps.                          *)
(***************************************************************************)
EXTENDS Integers, Sequences

CONSTANTS Names,      \* configuration names
          Versions,   \* the versions submitted
          Clients,    \* tasks that submit, download or clear
          NoName,     \* the consumer or a client is at no name
          MaxSubmits  \* bound: submissions in a behaviour

ASSUME VersionAssumption == Versions \subseteq Nat
ASSUME NameAssumption == NoName \notin Names
ASSUME SubmitAssumption == MaxSubmits \in Nat

Absent == -1          \* no entry, or no file
Torn == -2            \* a content file truncated or half written
Slot == {Absent} \cup Versions
Empty == [n \in Names |-> Absent]

VARIABLES pending,    \* StoreQueue.pending
          queue,      \* the mpsc channel; only a task's name is used
          meta,       \* ConfigStore.versions
          index,      \* versions.json; unreadable and absent are both Empty
          disk,       \* configs/{name}.json
          at, name, ver, snap,   \* the consumer: its position and locals
          pc, arg, seen,         \* a client: its position and locals
          submits,
          excused     \* ghost: a clear overlapped a store or a download, or
                      \* versions.json could not be removed or written

queueVars == <<pending, queue>>
storeVars == <<meta, index, disk>>
consVars == <<at, name, ver, snap>>
clientVars == <<pc, arg, seen, submits>>
vars == <<pending, queue, meta, index, disk, at, name, ver, snap, pc, arg, seen, submits, excused>>

Init == /\ pending = Empty /\ queue = <<>>
        /\ meta = Empty /\ index = Empty /\ disk = Empty
        /\ at = "idle" /\ name = NoName /\ ver = Absent /\ snap = Empty
        /\ pc = [c \in Clients |-> "idle"]
        /\ arg = [c \in Clients |-> NoName] /\ seen = [c \in Clients |-> Absent]
        /\ submits = 0 /\ excused = FALSE

Clearing == \E c \in Clients : pc[c] = "clear"
Reading == \E c \in Clients : pc[c] = "read"

-----------------------------------------------------------------------------
(* StoreQueue::submit, from upload_config, its HTTP route and StoreFile    *)

Insert(c, n, v) ==
    /\ pc[c] = "idle" /\ submits < MaxSubmits
    /\ pending' = [pending EXCEPT ![n] = v]
    /\ pc' = [pc EXCEPT ![c] = "send"] /\ arg' = [arg EXCEPT ![c] = n]
    /\ submits' = submits + 1
    /\ UNCHANGED <<queue, seen, excused>> /\ UNCHANGED storeVars /\ UNCHANGED consVars

\* Mutant: a bounded channel and try_send, whose error is ignored.
TrySend(c) ==
    /\ pc[c] = "send"
    /\ queue' = IF queue = <<>> THEN <<arg[c]>> ELSE queue
    /\ pc' = [pc EXCEPT ![c] = "idle"] /\ arg' = [arg EXCEPT ![c] = NoName]
    /\ UNCHANGED <<pending, seen, submits, excused>> /\ UNCHANGED storeVars /\ UNCHANGED consVars

\* The submitter is told it succeeded before anything is stored.
Send(c) ==
    /\ pc[c] = "send"
    /\ queue' = Append(queue, arg[c])
    /\ pc' = [pc EXCEPT ![c] = "idle"] /\ arg' = [arg EXCEPT ![c] = NoName]
    /\ UNCHANGED <<pending, seen, submits, excused>> /\ UNCHANGED storeVars /\ UNCHANGED consVars

-----------------------------------------------------------------------------
(* StoreQueue::start: the consumer task                                    *)

Idle == at' = "idle" /\ name' = NoName /\ ver' = Absent /\ snap' = Empty

Recv ==
    /\ at = "idle" /\ queue # <<>>
    /\ at' = "recv" /\ name' = Head(queue)
    /\ queue' = Tail(queue)
    /\ UNCHANGED <<pending, ver, snap, excused>> /\ UNCHANGED storeVars /\ UNCHANGED clientVars

\* Mutant: what was removed is stored without looking whether it was there.
RemoveBlindly ==
    /\ at = "recv"
    /\ pending' = [pending EXCEPT ![name] = Absent]
    /\ at' = "check" /\ ver' = pending[name] /\ UNCHANGED <<name, snap>>
    /\ excused' = (excused \/ Clearing)
    /\ UNCHANGED queue /\ UNCHANGED storeVars /\ UNCHANGED clientVars

\* A token whose task an earlier token has taken finds nothing.
Remove ==
    /\ at = "recv"
    /\ pending' = [pending EXCEPT ![name] = Absent]
    /\ \/ pending[name] = Absent /\ Idle /\ UNCHANGED excused
       \/ /\ pending[name] # Absent
          /\ at' = "check" /\ ver' = pending[name] /\ UNCHANGED <<name, snap>>
          /\ excused' = (excused \/ Clearing)
    /\ UNCHANGED queue /\ UNCHANGED storeVars /\ UNCHANGED clientVars

(* ConfigStore::store *)

\* Mutant: no version check.
NeverOutdated == FALSE

Outdated == meta[name] # Absent /\ meta[name] >= ver

\* VersionConflict, or the lock file cannot be opened: an error in the log.
Refuse ==
    /\ at = "check"
    /\ Idle
    /\ UNCHANGED excused /\ UNCHANGED queueVars /\ UNCHANGED storeVars /\ UNCHANGED clientVars

Check ==
    /\ at = "check" /\ ~Outdated
    /\ at' = "write" /\ UNCHANGED <<name, ver, snap>>
    /\ UNCHANGED excused /\ UNCHANGED queueVars /\ UNCHANGED storeVars /\ UNCHANGED clientVars

Truncate ==
    /\ at = "write"
    /\ disk' = [disk EXCEPT ![name] = Torn]
    /\ at' = "content" /\ UNCHANGED <<name, ver, snap>>
    /\ UNCHANGED <<meta, index, excused>> /\ UNCHANGED queueVars /\ UNCHANGED clientVars

WriteContent ==
    /\ at = "content"
    /\ disk' = [disk EXCEPT ![name] = ver]
    /\ at' = "insert" /\ UNCHANGED <<name, ver, snap>>
    /\ UNCHANGED <<meta, index, excused>> /\ UNCHANGED queueVars /\ UNCHANGED clientVars

\* Mutant: the error of the content write is ignored.
WriteErrorIgnored ==
    /\ at \in {"write", "content"}
    /\ at' = "insert" /\ UNCHANGED <<name, ver, snap>>
    /\ UNCHANGED excused /\ UNCHANGED queueVars /\ UNCHANGED storeVars /\ UNCHANGED clientVars

WriteFails ==
    /\ at \in {"write", "content"}
    /\ Idle
    /\ UNCHANGED excused /\ UNCHANGED queueVars /\ UNCHANGED storeVars /\ UNCHANGED clientVars

\* Mutant: versions.json is not written after the insertion.
InsertOnly ==
    /\ at = "insert"
    /\ meta' = [meta EXCEPT ![name] = ver]
    /\ Idle
    /\ UNCHANGED <<index, disk, excused>> /\ UNCHANGED queueVars /\ UNCHANGED clientVars

InsertMeta ==
    /\ at = "insert"
    /\ meta' = [meta EXCEPT ![name] = ver]
    /\ at' = "list" /\ UNCHANGED <<name, ver, snap>>
    /\ UNCHANGED <<index, disk, excused>> /\ UNCHANGED queueVars /\ UNCHANGED clientVars

(* ConfigStore::persist_versions *)

ListMeta ==
    /\ at = "list"
    /\ snap' = meta
    /\ at' = "index" /\ UNCHANGED <<name, ver>>
    /\ UNCHANGED excused /\ UNCHANGED queueVars /\ UNCHANGED storeVars /\ UNCHANGED clientVars

TruncateIndex ==
    /\ at = "index"
    /\ index' = Empty
    /\ at' = "persist" /\ UNCHANGED <<name, ver, snap>>
    /\ UNCHANGED <<meta, disk, excused>> /\ UNCHANGED queueVars /\ UNCHANGED clientVars

Persist ==
    /\ at = "persist"
    /\ index' = snap
    /\ Idle
    /\ UNCHANGED <<meta, disk, excused>> /\ UNCHANGED queueVars /\ UNCHANGED clientVars

\* The memory keeps the new version.
PersistFails ==
    /\ at \in {"index", "persist"}
    /\ Idle /\ excused' = TRUE
    /\ UNCHANGED queueVars /\ UNCHANGED storeVars /\ UNCHANGED clientVars

-----------------------------------------------------------------------------
(* ConfigStore::get_file, from download_config, its route and RequestFile  *)

ReadMeta(c, n) ==
    /\ pc[c] = "idle" /\ meta[n] # Absent
    /\ pc' = [pc EXCEPT ![c] = "read"] /\ arg' = [arg EXCEPT ![c] = n]
    /\ seen' = [seen EXCEPT ![c] = meta[n]]
    /\ excused' = (excused \/ Clearing)
    /\ UNCHANGED submits /\ UNCHANGED queueVars /\ UNCHANGED storeVars /\ UNCHANGED consVars

\* Returns the version seen with what the file holds now.
ReadContent(c) ==
    /\ pc[c] = "read"
    /\ pc' = [pc EXCEPT ![c] = "idle"] /\ arg' = [arg EXCEPT ![c] = NoName]
    /\ seen' = [seen EXCEPT ![c] = Absent]
    /\ UNCHANGED <<submits, excused>> /\ UNCHANGED queueVars /\ UNCHANGED storeVars /\ UNCHANGED consVars

(* ConfigStore::clear, which takes no lock until it empties the map *)

\* versions.json and the files go first; what cannot be removed is ignored.
ClearFiles(c) ==
    /\ pc[c] = "idle"
    /\ index' \in {Empty, index}
    /\ \E S \in SUBSET Names : disk' = [n \in Names |-> IF n \in S THEN Absent ELSE disk[n]]
    /\ pc' = [pc EXCEPT ![c] = "clear"]
    /\ excused' = (excused \/ Reading \/ at # "idle" \/ index' # Empty)
    /\ UNCHANGED <<meta, arg, seen, submits>> /\ UNCHANGED queueVars /\ UNCHANGED consVars

ClearMap(c) ==
    /\ pc[c] = "clear"
    /\ meta' = Empty
    /\ pc' = [pc EXCEPT ![c] = "idle"]
    /\ UNCHANGED <<index, disk, arg, seen, submits, excused>> /\ UNCHANGED queueVars /\ UNCHANGED consVars

-----------------------------------------------------------------------------
\* The process dies at any point and ConfigStoreService::new loads versions.json.
Restart ==
    /\ pending' = Empty /\ queue' = <<>>
    /\ meta' = index
    /\ Idle
    /\ pc' = [c \in Clients |-> "idle"]
    /\ arg' = [c \in Clients |-> NoName] /\ seen' = [c \in Clients |-> Absent]
    /\ UNCHANGED <<index, disk, submits, excused>>

Consumer == \/ Recv \/ Remove \/ Refuse \/ Check \/ Truncate \/ WriteContent \/ WriteFails
            \/ InsertMeta \/ ListMeta \/ TruncateIndex \/ Persist \/ PersistFails

Client(c) == \/ \E n \in Names, v \in Versions : Insert(c, n, v)
             \/ Send(c)
             \/ \E n \in Names : ReadMeta(c, n)
             \/ ReadContent(c) \/ ClearFiles(c) \/ ClearMap(c)

Next == Consumer \/ (\E c \in Clients : Client(c)) \/ Restart

\* The consumer runs while there is work, and submit does not stop between
\* its two statements.  No reader, clear or restart need ever happen.
Fairness == WF_vars(Consumer) /\ \A c \in Clients : WF_vars(Send(c))

Spec == Init /\ [][Next]_vars /\ Fairness

-----------------------------------------------------------------------------
\* Every variable holds what the code can store in it, and the consumer is in
\* store() only with a task of some name.
TypeOK ==
    /\ pending \in [Names -> Slot] /\ queue \in Seq(Names)
    /\ meta \in [Names -> Slot] /\ index \in [Names -> Slot]
    /\ disk \in [Names -> Slot \cup {Torn}]
    /\ at \in {"idle", "recv", "check", "write", "content", "insert", "list", "index", "persist"}
    /\ name \in Names \cup {NoName} /\ ver \in Slot /\ snap \in [Names -> Slot]
    /\ pc \in [Clients -> {"idle", "send", "read", "clear"}]
    /\ arg \in [Clients -> Names \cup {NoName}] /\ seen \in [Clients -> Slot]
    /\ submits \in Nat /\ excused \in BOOLEAN
    /\ at # "idle" => name \in Names
    /\ at \in {"check", "write", "content", "insert"} => ver \in Versions

\* No accepted task is forgotten: a pending entry has a token in the channel,
\* or one about to be sent or acted on, however submissions of one name
\* interleave with the consumer.
PendingHasToken ==
    \A n \in Names : pending[n] # Absent =>
        \/ \E i \in 1..Len(queue) : queue[i] = n
        \/ \E c \in Clients : pc[c] = "send" /\ arg[c] = n
        \/ at = "recv" /\ name = n

\* The anti-rollback promise of store(): a version in the index goes down
\* only in clear() and when the process restarts, although the check and the
\* insertion are apart and clear() may come between them.
NoRollback ==
    [][\A n \in Names : meta'[n] < meta[n] => Restart \/ \E c \in Clients : ClearMap(c)]_vars

\* The order of writes survives crashes and failed writes: whatever version
\* the memory or versions.json claims, the content file is that version or a
\* newer one, or was being written and is torn.
ContentBacksIndex ==
    ~excused => \A n \in Names :
        /\ index[n] # Absent => disk[n] = Torn \/ disk[n] >= index[n]
        /\ meta[n] # Absent /\ ~Clearing => disk[n] = Torn \/ disk[n] >= meta[n]

\* get_file pairs the version it saw with content that is not older, though a
\* store may run between its two reads.
DownloadNotOlder ==
    ~excused => \A c \in Clients : pc[c] = "read" =>
        disk[arg[c]] = Torn \/ disk[arg[c]] >= seen[c]

\* Between stores versions.json is exactly the index in memory, so a crash
\* loses versions only if it interrupts a store.
IndexCatchesUp == (~excused /\ at = "idle" /\ ~Clearing) => index = meta

\* Every accepted task is taken by the consumer.
TasksAreTaken == \A n \in Names : pending[n] # Absent ~> pending[n] = Absent
=============================================================================
