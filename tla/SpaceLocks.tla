----------------------------- MODULE SpaceLocks -----------------------------
(***************************************************************************)
(* The locks of the desktop SpaceManager (space/manager.rs) that are held  *)
(* while another one is awaited: spaces and chat_servers, tokio RwLocks,   *)
(* which are fair.  An operation is the list of its lock and IPC awaits in *)
(* program order; guards are released where the code drops them.           *)
(*                                                                         *)
(* The other maps (chat_clients, file, voice and screen servers, tokens,   *)
(* handles) are left out: no task that holds one of them awaits spaces or  *)
(* chat_servers.                                                           *)
(***************************************************************************)
EXTENDS Naturals, Sequences, FiniteSets

CONSTANTS Tasks,   \* threads and async tasks that share the manager
          May      \* the operations each of them calls

Locks == {"spaces", "chat_servers"}

(***************************************************************************)
(* The operations.  Ipc is a call of the daemon, which returns             *)
(* (IpcChannel!CallsReturn); Try is a place where the operation may return *)
(* early and drop its guards.                                              *)
(***************************************************************************)
Step(do, l) == <<[do |-> do, lock |-> l]>>
Read(l) == Step("read", l)
Write(l) == Step("write", l)
Drop(l) == Step("drop", l)
Ipc == Step("ipc", "none")
Try == Step("try", "none")

\* "if let Some(old) = map.write().await.remove(id) { old.stop().await }"
RemoveServer == Write("chat_servers") \o Drop("chat_servers")
get_effective_config == Read("spaces") \o Drop("spaces")
disconnect == RemoveServer \o Ipc

\* The guard of the first read lives until connect returns.
connect == Ipc \o Try \o Read("spaces") \o Try \o get_effective_config \o Try \o Ipc \o Try
           \o RemoveServer \o Try \o Write("chat_servers") \o Drop("chat_servers") \o Drop("spaces")

\* The guard lives while the connected spaces are disconnected.
shutdown_all == Read("spaces") \o Try \o disconnect \o Drop("spaces")

\* Mutant: list looks at the chat servers before it drops the guard.
list_with_servers == Ipc \o Write("spaces") \o Read("chat_servers") \o Drop("chat_servers")
                     \o Drop("spaces")

list == Ipc \o Write("spaces") \o Drop("spaces")
add == Write("spaces") \o Drop("spaces")
delete == Read("spaces") \o Drop("spaces") \o Try \o disconnect \o Try \o add
generate_share_link == get_effective_config \o Try \o get_effective_config

\* The chat listener keeps the server map while it looks up a message's space.
poll == Read("chat_servers") \o Try \o get_effective_config \o Drop("chat_servers")

Script == [connect |-> connect, disconnect |-> disconnect, shutdown_all |-> shutdown_all,
           list |-> list, add |-> add, delete |-> delete,
           share |-> generate_share_link, poll |-> poll]
Ops == DOMAIN Script

ASSUME MayAssumption == May \in [Tasks -> SUBSET Ops]

-----------------------------------------------------------------------------
VARIABLES op,      \* the operation a task is in, or "idle"
          ip,      \* its next step
          readers, \* read guards held, per lock and task
          writer,  \* the tasks that hold a write guard, per lock
          queue    \* the waiters of a lock, in order

vars == <<op, ip, readers, writer, queue>>

Init == /\ op = [t \in Tasks |-> "idle"] /\ ip = [t \in Tasks |-> 1]
        /\ readers = [l \in Locks |-> [t \in Tasks |-> 0]]
        /\ writer = [l \in Locks |-> {}]
        /\ queue = [l \in Locks |-> <<>>]

Queued(t, l) == \E i \in DOMAIN queue[l] : queue[l][i].task = t
Waits(t) == \E l \in Locks : Queued(t, l)
Running(t) == op[t] # "idle" /\ ~Waits(t)
Here(t) == Script[op[t]][ip[t]]

\* The operation goes on, or returns after its last step.
Advance(t) ==
    IF ip[t] = Len(Script[op[t]])
    THEN op' = [op EXCEPT ![t] = "idle"] /\ ip' = [ip EXCEPT ![t] = 1]
    ELSE ip' = [ip EXCEPT ![t] = @ + 1] /\ UNCHANGED op

Start(t, o) ==
    /\ op[t] = "idle" /\ o \in May[t]
    /\ op' = [op EXCEPT ![t] = o]
    /\ UNCHANGED <<ip, readers, writer, queue>>

\* read().await and write().await join the queue.
Request(t) ==
    /\ Running(t) /\ Here(t).do \in {"read", "write"}
    /\ queue' = [queue EXCEPT ![Here(t).lock] = Append(@, [task |-> t, do |-> Here(t).do])]
    /\ UNCHANGED <<op, ip, readers, writer>>

\* Fair: only the first waiter is served, a reader beside other readers.
Grant(l) ==
    /\ queue[l] # <<>> /\ writer[l] = {}
    /\ LET w == Head(queue[l])
       IN /\ \/ w.do = "read" /\ readers' = [readers EXCEPT ![l][w.task] = @ + 1] /\ UNCHANGED writer
             \/ /\ w.do = "write" /\ \A t \in Tasks : readers[l][t] = 0
                /\ writer' = [writer EXCEPT ![l] = {w.task}] /\ UNCHANGED readers
          /\ Advance(w.task)
    /\ queue' = [queue EXCEPT ![l] = Tail(@)]

Release(t) ==
    /\ Running(t) /\ Here(t).do = "drop"
    /\ LET l == Here(t).lock
       IN IF t \in writer[l] THEN writer' = [writer EXCEPT ![l] = {}] /\ UNCHANGED readers
          ELSE readers' = [readers EXCEPT ![l][t] = @ - 1] /\ UNCHANGED writer
    /\ Advance(t) /\ UNCHANGED queue

\* An IPC call returns; a Try is passed.
Proceed(t) ==
    /\ Running(t) /\ Here(t).do \in {"ipc", "try"}
    /\ Advance(t)
    /\ UNCHANGED <<readers, writer, queue>>

\* Mutant: an early return leaks the guards.
ReturnLeaking(t) ==
    /\ Running(t) /\ Here(t).do = "try"
    /\ op' = [op EXCEPT ![t] = "idle"] /\ ip' = [ip EXCEPT ![t] = 1]
    /\ UNCHANGED <<readers, writer, queue>>

\* Space not found, not the owner, an error of the daemon or of a server's
\* start: the operation returns and drops its guards.
ReturnEarly(t) ==
    /\ Running(t) /\ Here(t).do = "try"
    /\ op' = [op EXCEPT ![t] = "idle"] /\ ip' = [ip EXCEPT ![t] = 1]
    /\ readers' = [l \in Locks |-> [readers[l] EXCEPT ![t] = 0]]
    /\ UNCHANGED <<writer, queue>>

Task(t) == Request(t) \/ Release(t) \/ Proceed(t) \/ ReturnEarly(t)

Next == \/ \E t \in Tasks : Task(t) \/ \E o \in Ops : Start(t, o)
        \/ \E l \in Locks : Grant(l)

\* A task that can run runs, and a permit that is free is handed over.
Fairness == (\A t \in Tasks : WF_vars(Task(t))) /\ (\A l \in Locks : WF_vars(Grant(l)))

Spec == Init /\ [][Next]_vars /\ Fairness

-----------------------------------------------------------------------------
\* Every variable holds what the code can store in it, and a task outside the
\* manager's operations holds no guard.
TypeOK ==
    /\ op \in [Tasks -> Ops \cup {"idle"}] /\ ip \in [Tasks -> Nat \ {0}]
    /\ readers \in [Locks -> [Tasks -> Nat]]
    /\ writer \in [Locks -> SUBSET Tasks]
    /\ \A l \in Locks : \A i \in DOMAIN queue[l] :
          queue[l][i].task \in Tasks /\ queue[l][i].do \in {"read", "write"}
    /\ \A t \in Tasks : op[t] = "idle" =>
          \A l \in Locks : readers[l][t] = 0 /\ t \notin writer[l]

\* t waits for u to release a guard, or for u, which is ahead of it in the
\* queue of a lock and wants the other kind of guard, to be served.
BlockedBy(t, u) ==
    \E l \in Locks : \E i \in DOMAIN queue[l] :
        /\ queue[l][i].task = t
        /\ \/ u \in writer[l]
           \/ queue[l][i].do = "write" /\ readers[l][u] > 0
           \/ \E j \in 1..(i - 1) : queue[l][j].task = u

\* Some tasks wait for one another for ever.
Wedged == \E S \in (SUBSET Tasks) \ {{}} : \A t \in S : \E u \in S : BlockedBy(t, u)

\* The manager wedges in one way only: a task that holds spaces for reading
\* waits for a lock while a writer of spaces (list, create, join or delete)
\* is queued.  Without such a hold-and-wait no order of operations blocks it.
WedgeNeedsHeldSpaces ==
    Wedged => \E t \in Tasks : /\ readers["spaces"][t] > 0 /\ Waits(t)
                               /\ \E i \in DOMAIN queue["spaces"] : queue["spaces"][i].do = "write"

\* Every operation finishes, unless the manager wedges: no guard is lost by an
\* early return, and no waiter of the fair locks is passed over for ever.
OpsFinish == \A t \in Tasks : op[t] # "idle" ~> (op[t] = "idle" \/ Wedged)

\* The exit handler's shutdown_all, which it joins without a timeout before it
\* stops the daemon, finishes.
ExitCompletes == \A t \in Tasks : op[t] = "shutdown_all" ~> op[t] = "idle"
=============================================================================
