-------------------------- MODULE SpaceLocksProofs --------------------------
(***************************************************************************)
(* TLAPS proofs about SpaceLocks, for every set of tasks and whatever      *)
(* operations each of them may call.                                       *)
(***************************************************************************)
EXTENDS SpaceLocks, WellFoundedInduction, TLAPS

(* The guards an operation holds when it comes to a step are fixed by its  *)
(* script.                                                                 *)

\* Read guards of lock l before step i of operation o.
Reads(o, i, l) ==
    IF l = "spaces"
    THEN IF o = "connect" /\ i = 6 THEN 2
         ELSE IF \/ o = "connect" /\ i \in 4..15
                 \/ o = "shutdown_all" /\ i \in 2..6
                 \/ o = "delete" /\ i = 2
                 \/ o = "share" /\ i \in {2, 5}
                 \/ o = "poll" /\ i = 4
              THEN 1 ELSE 0
    ELSE IF o = "poll" /\ i \in 2..5 THEN 1 ELSE 0

\* Whether it holds the write guard of l there.
Writes(o, i, l) ==
    IF l = "spaces"
    THEN (o = "list" /\ i = 3) \/ (o = "add" /\ i = 2) \/ (o = "delete" /\ i = 9)
    ELSE \/ o = "connect" /\ i \in {11, 14}
         \/ o = "disconnect" /\ i = 2
         \/ o = "shutdown_all" /\ i = 4
         \/ o = "delete" /\ i = 5

ReadsAfter(o, n, i, l) == IF i = n THEN 0 ELSE Reads(o, i + 1, l)
WritesAfter(o, n, i, l) == i # n /\ Writes(o, i + 1, l)

\* Step i of o, which has n steps, does what it says to the guards; nobody
\* holds a write guard where it awaits a lock or may return early, and with a
\* read guard of chat_servers it awaits only spaces, for reading.
StepOK(o, n, i, do, k) ==
    /\ do \in {"read", "write", "drop", "ipc", "try"}
    /\ do \in {"read", "write", "drop"} => k \in Locks
    /\ \A l \in Locks :
         /\ WritesAfter(o, n, i, l) <=> (do = "write" /\ l = k) \/ (Writes(o, i, l) /\ ~(do = "drop" /\ l = k))
         /\ do = "read" /\ l = k => ReadsAfter(o, n, i, l) = Reads(o, i, l) + 1
         /\ do = "drop" /\ l = k =>
              IF Writes(o, i, l) THEN ReadsAfter(o, n, i, l) = Reads(o, i, l)
              ELSE Reads(o, i, l) > 0 /\ ReadsAfter(o, n, i, l) = Reads(o, i, l) - 1
         /\ ~(do \in {"read", "drop"} /\ l = k) => ReadsAfter(o, n, i, l) = Reads(o, i, l)
         /\ do \in {"try", "read", "write"} => ~Writes(o, i, l)
    /\ do \in {"read", "write"} /\ Reads(o, i, "chat_servers") > 0 => do = "read" /\ k = "spaces"

\* The steps of connect.
LEMMA ConnectSteps ==
    /\ Len(connect) \in Nat \ {0}
    /\ \A i \in 1..Len(connect) : StepOK("connect", Len(connect), i, connect[i].do, connect[i].lock)
<1>1. /\ Len(connect) = 15
      /\ connect[1] = [do |-> "ipc", lock |-> "none"]
      /\ connect[2] = [do |-> "try", lock |-> "none"]
      /\ connect[3] = [do |-> "read", lock |-> "spaces"]
      /\ connect[4] = [do |-> "try", lock |-> "none"]
      /\ connect[5] = [do |-> "read", lock |-> "spaces"]
      /\ connect[6] = [do |-> "drop", lock |-> "spaces"]
      /\ connect[7] = [do |-> "try", lock |-> "none"]
      /\ connect[8] = [do |-> "ipc", lock |-> "none"]
      /\ connect[9] = [do |-> "try", lock |-> "none"]
      /\ connect[10] = [do |-> "write", lock |-> "chat_servers"]
      /\ connect[11] = [do |-> "drop", lock |-> "chat_servers"]
      /\ connect[12] = [do |-> "try", lock |-> "none"]
      /\ connect[13] = [do |-> "write", lock |-> "chat_servers"]
      /\ connect[14] = [do |-> "drop", lock |-> "chat_servers"]
      /\ connect[15] = [do |-> "drop", lock |-> "spaces"]
  BY DEF connect, RemoveServer, get_effective_config, Read, Write, Drop, Ipc, Try, Step
<1> SUFFICES ASSUME NEW i \in 1..15 PROVE StepOK("connect", 15, i, connect[i].do, connect[i].lock)
  BY <1>1
<1>2. i \in {1, 2, 3, 4, 5, 6, 7, 8, 9, 10, 11, 12, 13, 14, 15}
  OBVIOUS
<1> QED
  BY <1>1, <1>2 DEF StepOK, Locks, Reads, Writes, ReadsAfter, WritesAfter

\* The steps of disconnect.
LEMMA DisconnectSteps ==
    /\ Len(disconnect) \in Nat \ {0}
    /\ \A i \in 1..Len(disconnect) : StepOK("disconnect", Len(disconnect), i, disconnect[i].do, disconnect[i].lock)
<1>1. /\ Len(disconnect) = 3
      /\ disconnect[1] = [do |-> "write", lock |-> "chat_servers"]
      /\ disconnect[2] = [do |-> "drop", lock |-> "chat_servers"]
      /\ disconnect[3] = [do |-> "ipc", lock |-> "none"]
  BY DEF disconnect, RemoveServer, get_effective_config, Read, Write, Drop, Ipc, Try, Step
<1> SUFFICES ASSUME NEW i \in 1..3 PROVE StepOK("disconnect", 3, i, disconnect[i].do, disconnect[i].lock)
  BY <1>1
<1>2. i \in {1, 2, 3}
  OBVIOUS
<1> QED
  BY <1>1, <1>2 DEF StepOK, Locks, Reads, Writes, ReadsAfter, WritesAfter

\* The steps of shutdown_all.
LEMMA ShutdownAllSteps ==
    /\ Len(shutdown_all) \in Nat \ {0}
    /\ \A i \in 1..Len(shutdown_all) : StepOK("shutdown_all", Len(shutdown_all), i, shutdown_all[i].do, shutdown_all[i].lock)
<1>1. /\ Len(shutdown_all) = 6
      /\ shutdown_all[1] = [do |-> "read", lock |-> "spaces"]
      /\ shutdown_all[2] = [do |-> "try", lock |-> "none"]
      /\ shutdown_all[3] = [do |-> "write", lock |-> "chat_servers"]
      /\ shutdown_all[4] = [do |-> "drop", lock |-> "chat_servers"]
      /\ shutdown_all[5] = [do |-> "ipc", lock |-> "none"]
      /\ shutdown_all[6] = [do |-> "drop", lock |-> "spaces"]
  BY DEF shutdown_all, disconnect, RemoveServer, get_effective_config, Read, Write, Drop, Ipc, Try, Step
<1> SUFFICES ASSUME NEW i \in 1..6 PROVE StepOK("shutdown_all", 6, i, shutdown_all[i].do, shutdown_all[i].lock)
  BY <1>1
<1>2. i \in {1, 2, 3, 4, 5, 6}
  OBVIOUS
<1> QED
  BY <1>1, <1>2 DEF StepOK, Locks, Reads, Writes, ReadsAfter, WritesAfter

\* The steps of list.
LEMMA ListSteps ==
    /\ Len(list) \in Nat \ {0}
    /\ \A i \in 1..Len(list) : StepOK("list", Len(list), i, list[i].do, list[i].lock)
<1>1. /\ Len(list) = 3
      /\ list[1] = [do |-> "ipc", lock |-> "none"]
      /\ list[2] = [do |-> "write", lock |-> "spaces"]
      /\ list[3] = [do |-> "drop", lock |-> "spaces"]
  BY DEF list, RemoveServer, get_effective_config, Read, Write, Drop, Ipc, Try, Step
<1> SUFFICES ASSUME NEW i \in 1..3 PROVE StepOK("list", 3, i, list[i].do, list[i].lock)
  BY <1>1
<1>2. i \in {1, 2, 3}
  OBVIOUS
<1> QED
  BY <1>1, <1>2 DEF StepOK, Locks, Reads, Writes, ReadsAfter, WritesAfter

\* The steps of add.
LEMMA AddSteps ==
    /\ Len(add) \in Nat \ {0}
    /\ \A i \in 1..Len(add) : StepOK("add", Len(add), i, add[i].do, add[i].lock)
<1>1. /\ Len(add) = 2
      /\ add[1] = [do |-> "write", lock |-> "spaces"]
      /\ add[2] = [do |-> "drop", lock |-> "spaces"]
  BY DEF add, RemoveServer, get_effective_config, Read, Write, Drop, Ipc, Try, Step
<1> SUFFICES ASSUME NEW i \in 1..2 PROVE StepOK("add", 2, i, add[i].do, add[i].lock)
  BY <1>1
<1>2. i \in {1, 2}
  OBVIOUS
<1> QED
  BY <1>1, <1>2 DEF StepOK, Locks, Reads, Writes, ReadsAfter, WritesAfter

\* The steps of delete.
LEMMA DeleteSteps ==
    /\ Len(delete) \in Nat \ {0}
    /\ \A i \in 1..Len(delete) : StepOK("delete", Len(delete), i, delete[i].do, delete[i].lock)
<1>1. /\ Len(delete) = 9
      /\ delete[1] = [do |-> "read", lock |-> "spaces"]
      /\ delete[2] = [do |-> "drop", lock |-> "spaces"]
      /\ delete[3] = [do |-> "try", lock |-> "none"]
      /\ delete[4] = [do |-> "write", lock |-> "chat_servers"]
      /\ delete[5] = [do |-> "drop", lock |-> "chat_servers"]
      /\ delete[6] = [do |-> "ipc", lock |-> "none"]
      /\ delete[7] = [do |-> "try", lock |-> "none"]
      /\ delete[8] = [do |-> "write", lock |-> "spaces"]
      /\ delete[9] = [do |-> "drop", lock |-> "spaces"]
  BY DEF delete, disconnect, add, RemoveServer, get_effective_config, Read, Write, Drop, Ipc, Try, Step
<1> SUFFICES ASSUME NEW i \in 1..9 PROVE StepOK("delete", 9, i, delete[i].do, delete[i].lock)
  BY <1>1
<1>2. i \in {1, 2, 3, 4, 5, 6, 7, 8, 9}
  OBVIOUS
<1> QED
  BY <1>1, <1>2 DEF StepOK, Locks, Reads, Writes, ReadsAfter, WritesAfter

\* The steps of generate_share_link.
LEMMA GenerateShareLinkSteps ==
    /\ Len(generate_share_link) \in Nat \ {0}
    /\ \A i \in 1..Len(generate_share_link) : StepOK("share", Len(generate_share_link), i, generate_share_link[i].do, generate_share_link[i].lock)
<1>1. /\ Len(generate_share_link) = 5
      /\ generate_share_link[1] = [do |-> "read", lock |-> "spaces"]
      /\ generate_share_link[2] = [do |-> "drop", lock |-> "spaces"]
      /\ generate_share_link[3] = [do |-> "try", lock |-> "none"]
      /\ generate_share_link[4] = [do |-> "read", lock |-> "spaces"]
      /\ generate_share_link[5] = [do |-> "drop", lock |-> "spaces"]
  BY DEF generate_share_link, RemoveServer, get_effective_config, Read, Write, Drop, Ipc, Try, Step
<1> SUFFICES ASSUME NEW i \in 1..5 PROVE StepOK("share", 5, i, generate_share_link[i].do, generate_share_link[i].lock)
  BY <1>1
<1>2. i \in {1, 2, 3, 4, 5}
  OBVIOUS
<1> QED
  BY <1>1, <1>2 DEF StepOK, Locks, Reads, Writes, ReadsAfter, WritesAfter

\* The steps of poll.
LEMMA PollSteps ==
    /\ Len(poll) \in Nat \ {0}
    /\ \A i \in 1..Len(poll) : StepOK("poll", Len(poll), i, poll[i].do, poll[i].lock)
<1>1. /\ Len(poll) = 5
      /\ poll[1] = [do |-> "read", lock |-> "chat_servers"]
      /\ poll[2] = [do |-> "try", lock |-> "none"]
      /\ poll[3] = [do |-> "read", lock |-> "spaces"]
      /\ poll[4] = [do |-> "drop", lock |-> "spaces"]
      /\ poll[5] = [do |-> "drop", lock |-> "chat_servers"]
  BY DEF poll, RemoveServer, get_effective_config, Read, Write, Drop, Ipc, Try, Step
<1> SUFFICES ASSUME NEW i \in 1..5 PROVE StepOK("poll", 5, i, poll[i].do, poll[i].lock)
  BY <1>1
<1>2. i \in {1, 2, 3, 4, 5}
  OBVIOUS
<1> QED
  BY <1>1, <1>2 DEF StepOK, Locks, Reads, Writes, ReadsAfter, WritesAfter

-----------------------------------------------------------------------------
(* Guards and queues                                                       *)

\* Every task holds the guards its place in the script says, one task at most
\* a write guard.
GuardInv ==
    /\ op \in [Tasks -> Ops \cup {"idle"}] /\ ip \in [Tasks -> Nat \ {0}]
    /\ readers \in [Locks -> [Tasks -> Nat]] /\ writer \in [Locks -> SUBSET Tasks]
    /\ \A t \in Tasks : IF op[t] = "idle" THEN ip[t] = 1 ELSE ip[t] \in 1..Len(Script[op[t]])
    /\ \A l \in Locks : \A t \in Tasks : /\ readers[l][t] = Reads(op[t], ip[t], l)
                                         /\ t \in writer[l] <=> Writes(op[t], ip[t], l)
    /\ \A l \in Locks : \A t, u \in writer[l] : t = u

Waiter == [task : Tasks, do : {"read", "write"}]

\* A task is queued at most once, where its script awaits a lock.
QueueInv ==
    /\ queue \in [Locks -> Seq(Waiter)]
    /\ \A l \in Locks : \A i \in DOMAIN queue[l] :
         /\ op[queue[l][i].task] # "idle"
         /\ Here(queue[l][i].task).do = queue[l][i].do /\ Here(queue[l][i].task).lock = l
    /\ \A l \in Locks : \A i, j \in DOMAIN queue[l] : queue[l][i].task = queue[l][j].task => i = j

LockInv == GuardInv /\ QueueInv
\* The operations, and where each step of one leads.
LEMMA OpSteps ==
    ASSUME NEW o \in Ops
    PROVE  /\ Len(Script[o]) \in Nat \ {0} /\ o # "idle"
           /\ \A i \in 1..Len(Script[o]) : StepOK(o, Len(Script[o]), i, Script[o][i].do, Script[o][i].lock)
<1>1. /\ o \in {"connect", "disconnect", "shutdown_all", "list", "add", "delete", "share", "poll"}
      /\ o = "connect" => Script[o] = connect
      /\ o = "disconnect" => Script[o] = disconnect
      /\ o = "shutdown_all" => Script[o] = shutdown_all
      /\ o = "list" => Script[o] = list
      /\ o = "add" => Script[o] = add
      /\ o = "delete" => Script[o] = delete
      /\ o = "share" => Script[o] = generate_share_link
      /\ o = "poll" => Script[o] = poll
  BY DEF Ops, Script
<1>2. CASE o = "connect"
  BY <1>1, <1>2, ConnectSteps, Zenon
<1>3. CASE o = "disconnect"
  BY <1>1, <1>3, DisconnectSteps, Zenon
<1>4. CASE o = "shutdown_all"
  BY <1>1, <1>4, ShutdownAllSteps, Zenon
<1>5. CASE o = "list"
  BY <1>1, <1>5, ListSteps, Zenon
<1>6. CASE o = "add"
  BY <1>1, <1>6, AddSteps, Zenon
<1>7. CASE o = "delete"
  BY <1>1, <1>7, DeleteSteps, Zenon
<1>8. CASE o = "share"
  BY <1>1, <1>8, GenerateShareLinkSteps, Zenon
<1>9. CASE o = "poll"
  BY <1>1, <1>9, PollSteps, Zenon
<1> QED
  BY <1>1, <1>2, <1>3, <1>4, <1>5, <1>6, <1>7, <1>8, <1>9

\* Before the first step, and outside the operations, no guard is held.
LEMMA NoGuards ==
    ASSUME NEW o \in Ops \cup {"idle"}, NEW l \in Locks
    PROVE  /\ Reads(o, 1, l) = 0 /\ ~Writes(o, 1, l)
           /\ \A i \in Nat : Reads("idle", i, l) = 0 /\ ~Writes("idle", i, l)
BY DEF Reads, Writes, Locks

\* The step a task is at.
LEMMA HereOK ==
    ASSUME GuardInv, NEW t \in Tasks, op[t] # "idle"
    PROVE  /\ op[t] \in Ops /\ ip[t] \in 1..Len(Script[op[t]]) /\ Len(Script[op[t]]) \in Nat \ {0}
           /\ StepOK(op[t], Len(Script[op[t]]), ip[t], Here(t).do, Here(t).lock)
<1>1. op[t] \in Ops /\ ip[t] \in 1..Len(Script[op[t]])
  BY DEF GuardInv
<1> QED
  BY <1>1, OpSteps DEF Here

\* A task that goes on is at the next step, or has returned.
LEMMA Advanced ==
    ASSUME GuardInv, NEW t \in Tasks, op[t] # "idle", Advance(t)
    PROVE  /\ op' \in [Tasks -> Ops \cup {"idle"}] /\ ip' \in [Tasks -> Nat \ {0}]
           /\ \A u \in Tasks : IF op'[u] = "idle" THEN ip'[u] = 1 ELSE ip'[u] \in 1..Len(Script[op'[u]])
           /\ \A u \in Tasks : u # t => op'[u] = op[u] /\ ip'[u] = ip[u]
           /\ \A l \in Locks :
                /\ Reads(op'[t], ip'[t], l) = ReadsAfter(op[t], Len(Script[op[t]]), ip[t], l)
                /\ Writes(op'[t], ip'[t], l) <=> WritesAfter(op[t], Len(Script[op[t]]), ip[t], l)
<1>1. op[t] \in Ops /\ ip[t] \in 1..Len(Script[op[t]]) /\ Len(Script[op[t]]) \in Nat
  BY HereOK
<1>2. /\ op \in [Tasks -> Ops \cup {"idle"}] /\ ip \in [Tasks -> Nat \ {0}]
      /\ \A u \in Tasks : IF op[u] = "idle" THEN ip[u] = 1 ELSE ip[u] \in 1..Len(Script[op[u]])
  BY DEF GuardInv
<1>3. CASE ip[t] = Len(Script[op[t]])
  <2>1. op' = [op EXCEPT ![t] = "idle"] /\ ip' = [ip EXCEPT ![t] = 1]
    BY <1>3 DEF Advance
  <2>2. op'[t] = "idle" /\ ip'[t] = 1 /\ \A u \in Tasks : u # t => op'[u] = op[u] /\ ip'[u] = ip[u]
    BY <1>2, <2>1
  <2>3. op' \in [Tasks -> Ops \cup {"idle"}] /\ ip' \in [Tasks -> Nat \ {0}]
    BY <1>2, <2>1
  <2>4. \A u \in Tasks : IF op'[u] = "idle" THEN ip'[u] = 1 ELSE ip'[u] \in 1..Len(Script[op'[u]])
    BY <1>2, <2>2
  <2>5. \A l \in Locks : ReadsAfter(op[t], Len(Script[op[t]]), ip[t], l) = 0 /\ ~WritesAfter(op[t], Len(Script[op[t]]), ip[t], l)
    BY <1>3 DEF ReadsAfter, WritesAfter
  <2> QED
    BY <2>2, <2>3, <2>4, <2>5, NoGuards
<1>4. CASE ip[t] # Len(Script[op[t]])
  <2>1. op' = op /\ ip' = [ip EXCEPT ![t] = ip[t] + 1]
    BY <1>4 DEF Advance
  <2>2. op'[t] = op[t] /\ ip'[t] = ip[t] + 1 /\ \A u \in Tasks : u # t => op'[u] = op[u] /\ ip'[u] = ip[u]
    BY <1>2, <2>1
  <2>3. op' \in [Tasks -> Ops \cup {"idle"}] /\ ip' \in [Tasks -> Nat \ {0}]
    BY <1>1, <1>2, <2>1
  <2>4. \A u \in Tasks : IF op'[u] = "idle" THEN ip'[u] = 1 ELSE ip'[u] \in 1..Len(Script[op'[u]])
    <3>1. ip'[t] \in 1..Len(Script[op'[t]])
      BY <1>1, <1>4, <2>2
    <3>2. op'[t] # "idle"
      BY <2>2
    <3> QED
      BY <1>2, <2>2, <3>1, <3>2
  <2>5. \A l \in Locks :
          /\ Reads(op'[t], ip'[t], l) = ReadsAfter(op[t], Len(Script[op[t]]), ip[t], l)
          /\ Writes(op'[t], ip'[t], l) <=> WritesAfter(op[t], Len(Script[op[t]]), ip[t], l)
    BY <1>4, <2>2 DEF ReadsAfter, WritesAfter
  <2> QED
    BY <2>2, <2>3, <2>4, <2>5
<1> QED
  BY <1>3, <1>4

\* The guards after a step of t that goes on, if they are what its script says.
LEMMA GuardStep ==
    ASSUME GuardInv, NEW t \in Tasks, op[t] # "idle", Advance(t),
           readers' \in [Locks -> [Tasks -> Nat]], writer' \in [Locks -> SUBSET Tasks],
           \A l \in Locks : /\ readers'[l][t] = ReadsAfter(op[t], Len(Script[op[t]]), ip[t], l)
                            /\ t \in writer'[l] <=> WritesAfter(op[t], Len(Script[op[t]]), ip[t], l)
                            /\ \A u \in Tasks : u # t => /\ readers'[l][u] = readers[l][u]
                                                         /\ u \in writer'[l] <=> u \in writer[l]
                            /\ \A u, v \in writer'[l] : u = v
    PROVE  GuardInv'
<1>1. /\ op' \in [Tasks -> Ops \cup {"idle"}] /\ ip' \in [Tasks -> Nat \ {0}]
      /\ \A u \in Tasks : IF op'[u] = "idle" THEN ip'[u] = 1 ELSE ip'[u] \in 1..Len(Script[op'[u]])
  BY Advanced
<1>2. \A l \in Locks : \A u \in Tasks : /\ readers'[l][u] = Reads(op'[u], ip'[u], l)
                                        /\ u \in writer'[l] <=> Writes(op'[u], ip'[u], l)
  <2> SUFFICES ASSUME NEW l \in Locks, NEW u \in Tasks
               PROVE  readers'[l][u] = Reads(op'[u], ip'[u], l) /\ (u \in writer'[l] <=> Writes(op'[u], ip'[u], l))
    OBVIOUS
  <2>1. CASE u = t
    BY <2>1, Advanced
  <2>2. CASE u # t
    <3>1. op'[u] = op[u] /\ ip'[u] = ip[u]
      BY <2>2, Advanced
    <3>2. readers[l][u] = Reads(op[u], ip[u], l) /\ (u \in writer[l] <=> Writes(op[u], ip[u], l))
      BY DEF GuardInv
    <3> QED
      BY <2>2, <3>1, <3>2
  <2> QED
    BY <2>1, <2>2
<1> QED
  BY <1>1, <1>2 DEF GuardInv

\* A step of a task that is not queued leaves the queues right.
LEMMA QueueStep ==
    ASSUME QueueInv, NEW t \in Tasks, ~Waits(t), queue' = queue,
           \A u \in Tasks : u # t => op'[u] = op[u] /\ ip'[u] = ip[u]
    PROVE  QueueInv'
<1>1. ASSUME NEW l \in Locks, NEW i \in DOMAIN queue[l]
      PROVE  /\ queue[l][i].task \in Tasks /\ queue[l][i].task # t
             /\ op'[queue[l][i].task] = op[queue[l][i].task] /\ ip'[queue[l][i].task] = ip[queue[l][i].task]
  <2>1. queue[l] \in Seq(Waiter)
    BY DEF QueueInv
  <2>2. queue[l][i] \in Waiter
    BY <2>1
  <2> QED
    BY <2>2 DEF Waiter, Waits, Queued
<1>2. ASSUME NEW l \in Locks, NEW i \in DOMAIN queue[l]
      PROVE  /\ op'[queue[l][i].task] # "idle"
             /\ Script[op'[queue[l][i].task]][ip'[queue[l][i].task]].do = queue[l][i].do
             /\ Script[op'[queue[l][i].task]][ip'[queue[l][i].task]].lock = l
  BY <1>1 DEF QueueInv, Here
<1> QED
  BY <1>2 DEF QueueInv, Here

\* What the step of a running task does.
LEMMA RunningTask ==
    ASSUME GuardInv, NEW t \in Tasks, Running(t)
    PROVE  /\ op[t] # "idle" /\ ~Waits(t) /\ op[t] \in Ops /\ ip[t] \in 1..Len(Script[op[t]])
           /\ StepOK(op[t], Len(Script[op[t]]), ip[t], Here(t).do, Here(t).lock)
BY HereOK DEF Running

\* An IPC call returns, or a Try is passed.
LEMMA ProceedKeeps ==
    ASSUME LockInv, NEW t \in Tasks, Proceed(t)
    PROVE  LockInv'
<1>1. GuardInv /\ QueueInv /\ Running(t) /\ Here(t).do \in {"ipc", "try"} /\ Advance(t)
      /\ UNCHANGED <<readers, writer, queue>>
  BY DEF LockInv, Proceed
<1>2. op[t] # "idle" /\ ~Waits(t) /\ StepOK(op[t], Len(Script[op[t]]), ip[t], Here(t).do, Here(t).lock)
  BY <1>1, RunningTask
<1>3. \A l \in Locks : /\ ReadsAfter(op[t], Len(Script[op[t]]), ip[t], l) = Reads(op[t], ip[t], l)
                       /\ WritesAfter(op[t], Len(Script[op[t]]), ip[t], l) <=> Writes(op[t], ip[t], l)
  BY <1>1, <1>2 DEF StepOK
<1>4. /\ readers \in [Locks -> [Tasks -> Nat]] /\ writer \in [Locks -> SUBSET Tasks]
      /\ \A l \in Locks : /\ readers[l][t] = Reads(op[t], ip[t], l) /\ (t \in writer[l] <=> Writes(op[t], ip[t], l))
                          /\ \A u, v \in writer[l] : u = v
  BY <1>1 DEF GuardInv
<1>5. GuardInv'
  BY <1>1, <1>2, <1>3, <1>4, GuardStep
<1>6. QueueInv'
  BY <1>1, <1>2, Advanced, QueueStep
<1> QED
  BY <1>5, <1>6 DEF LockInv

\* A guard is dropped.
LEMMA ReleaseKeeps ==
    ASSUME LockInv, NEW t \in Tasks, Release(t)
    PROVE  LockInv'
<1>0. GuardInv /\ QueueInv /\ Running(t) /\ Here(t).do = "drop" /\ Advance(t) /\ queue' = queue
  BY DEF LockInv, Release
<1>1. op[t] # "idle" /\ ~Waits(t) /\ StepOK(op[t], Len(Script[op[t]]), ip[t], Here(t).do, Here(t).lock)
  BY <1>0, RunningTask
<1>2. PICK k \in Locks : k = Here(t).lock
  BY <1>0, <1>1 DEF StepOK
<1>3. /\ readers \in [Locks -> [Tasks -> Nat]] /\ writer \in [Locks -> SUBSET Tasks]
      /\ \A l \in Locks : /\ readers[l][t] = Reads(op[t], ip[t], l) /\ (t \in writer[l] <=> Writes(op[t], ip[t], l))
                          /\ \A u, v \in writer[l] : u = v
  BY <1>0 DEF GuardInv
<1>4. \A l \in Locks :
        /\ WritesAfter(op[t], Len(Script[op[t]]), ip[t], l) <=> (Writes(op[t], ip[t], l) /\ l # k)
        /\ l # k \/ Writes(op[t], ip[t], l) => ReadsAfter(op[t], Len(Script[op[t]]), ip[t], l) = Reads(op[t], ip[t], l)
        /\ l = k /\ ~Writes(op[t], ip[t], l) =>
             /\ Reads(op[t], ip[t], l) > 0
             /\ ReadsAfter(op[t], Len(Script[op[t]]), ip[t], l) = Reads(op[t], ip[t], l) - 1
  BY <1>0, <1>1, <1>2 DEF StepOK
<1>5. CASE t \in writer[k]
  <2>1. writer' = [writer EXCEPT ![k] = {}] /\ readers' = readers
    BY <1>2, <1>5 DEF Release
  <2>2. writer' \in [Locks -> SUBSET Tasks] /\ writer'[k] = {} /\ \A l \in Locks : l # k => writer'[l] = writer[l]
    BY <1>3, <2>1
  <2>3. \A u \in Tasks : u # t => u \notin writer[k]
    BY <1>3, <1>5
  <2> QED
    <3>1. \A l \in Locks : /\ readers'[l][t] = ReadsAfter(op[t], Len(Script[op[t]]), ip[t], l)
                           /\ t \in writer'[l] <=> WritesAfter(op[t], Len(Script[op[t]]), ip[t], l)
      BY <1>3, <1>4, <1>5, <2>1, <2>2
    <3>2. \A l \in Locks : /\ \A u \in Tasks : u # t => readers'[l][u] = readers[l][u] /\ (u \in writer'[l] <=> u \in writer[l])
                           /\ \A u, v \in writer'[l] : u = v
      BY <1>3, <2>1, <2>2, <2>3
    <3>3. GuardInv'
      BY <1>0, <1>1, <1>3, <2>1, <2>2, <3>1, <3>2, GuardStep
    <3>4. QueueInv'
      BY <1>0, <1>1, Advanced, QueueStep
    <3> QED
      BY <3>3, <3>4 DEF LockInv
<1>6. CASE t \notin writer[k]
  <2>1. readers' = [readers EXCEPT ![k][t] = readers[k][t] - 1] /\ writer' = writer
    BY <1>2, <1>6 DEF Release
  <2>2. readers[k][t] - 1 \in Nat
    BY <1>3, <1>4, <1>6
  <2>3. /\ readers' \in [Locks -> [Tasks -> Nat]] /\ readers'[k][t] = readers[k][t] - 1
        /\ \A l \in Locks : \A u \in Tasks : l # k \/ u # t => readers'[l][u] = readers[l][u]
    BY <1>3, <2>1, <2>2
  <2>4. \A l \in Locks : /\ readers'[l][t] = ReadsAfter(op[t], Len(Script[op[t]]), ip[t], l)
                         /\ t \in writer'[l] <=> WritesAfter(op[t], Len(Script[op[t]]), ip[t], l)
    BY <1>3, <1>4, <1>6, <2>1, <2>3
  <2>5. GuardInv'
    BY <1>0, <1>1, <1>3, <2>1, <2>3, <2>4, GuardStep
  <2>6. QueueInv'
    BY <1>0, <1>1, Advanced, QueueStep
  <2> QED
    BY <2>5, <2>6 DEF LockInv
<1> QED
  BY <1>5, <1>6

\* An early return, which drops what is held.
LEMMA ReturnKeeps ==
    ASSUME LockInv, NEW t \in Tasks, ReturnEarly(t)
    PROVE  LockInv'
<1>0. /\ GuardInv /\ QueueInv /\ Running(t) /\ Here(t).do = "try" /\ queue' = queue /\ writer' = writer
      /\ op' = [op EXCEPT ![t] = "idle"] /\ ip' = [ip EXCEPT ![t] = 1]
      /\ readers' = [l \in Locks |-> [readers[l] EXCEPT ![t] = 0]]
  BY DEF LockInv, ReturnEarly
<1>1. op[t] # "idle" /\ ~Waits(t) /\ StepOK(op[t], Len(Script[op[t]]), ip[t], Here(t).do, Here(t).lock)
  BY <1>0, RunningTask
<1>2. /\ op \in [Tasks -> Ops \cup {"idle"}] /\ ip \in [Tasks -> Nat \ {0}]
      /\ readers \in [Locks -> [Tasks -> Nat]] /\ writer \in [Locks -> SUBSET Tasks]
      /\ \A u \in Tasks : IF op[u] = "idle" THEN ip[u] = 1 ELSE ip[u] \in 1..Len(Script[op[u]])
      /\ \A l \in Locks : \A u \in Tasks : /\ readers[l][u] = Reads(op[u], ip[u], l)
                                           /\ u \in writer[l] <=> Writes(op[u], ip[u], l)
      /\ \A l \in Locks : \A u, v \in writer[l] : u = v
  BY <1>0 DEF GuardInv
<1>3. \A l \in Locks : t \notin writer[l]
  BY <1>0, <1>1, <1>2 DEF StepOK
<1>4. /\ op' \in [Tasks -> Ops \cup {"idle"}] /\ ip' \in [Tasks -> Nat \ {0}]
      /\ op'[t] = "idle" /\ ip'[t] = 1 /\ \A u \in Tasks : u # t => op'[u] = op[u] /\ ip'[u] = ip[u]
  BY <1>0, <1>2
<1>5. /\ readers' \in [Locks -> [Tasks -> Nat]]
      /\ \A l \in Locks : readers'[l][t] = 0 /\ \A u \in Tasks : u # t => readers'[l][u] = readers[l][u]
  BY <1>0, <1>2
<1>6. \A u \in Tasks : IF op'[u] = "idle" THEN ip'[u] = 1 ELSE ip'[u] \in 1..Len(Script[op'[u]])
  BY <1>2, <1>4
<1>7. ASSUME NEW l \in Locks, NEW u \in Tasks
      PROVE  readers'[l][u] = Reads(op'[u], ip'[u], l) /\ (u \in writer'[l] <=> Writes(op'[u], ip'[u], l))
  <2>1. CASE u = t
    <3>1. Reads("idle", 1, l) = 0 /\ ~Writes("idle", 1, l)
      BY NoGuards
    <3> QED
      BY <1>0, <1>3, <1>4, <1>5, <2>1, <3>1
  <2>2. CASE u # t
    BY <1>0, <1>2, <1>4, <1>5, <2>2
  <2> QED
    BY <2>1, <2>2
<1>8. GuardInv'
  BY <1>0, <1>2, <1>4, <1>5, <1>6, <1>7 DEF GuardInv
<1>9. QueueInv'
  BY <1>0, <1>1, <1>4, QueueStep
<1> QED
  BY <1>8, <1>9 DEF LockInv

\* A task calls an operation.
LEMMA StartKeeps ==
    ASSUME LockInv, NEW t \in Tasks, NEW o \in Ops, Start(t, o)
    PROVE  LockInv'
<1>0. /\ GuardInv /\ QueueInv /\ op[t] = "idle" /\ op' = [op EXCEPT ![t] = o]
      /\ UNCHANGED <<ip, readers, writer, queue>>
  BY DEF LockInv, Start
<1>2. /\ op \in [Tasks -> Ops \cup {"idle"}] /\ ip \in [Tasks -> Nat \ {0}]
      /\ readers \in [Locks -> [Tasks -> Nat]] /\ writer \in [Locks -> SUBSET Tasks]
      /\ \A u \in Tasks : IF op[u] = "idle" THEN ip[u] = 1 ELSE ip[u] \in 1..Len(Script[op[u]])
      /\ \A l \in Locks : \A u \in Tasks : /\ readers[l][u] = Reads(op[u], ip[u], l)
                                           /\ u \in writer[l] <=> Writes(op[u], ip[u], l)
      /\ \A l \in Locks : \A u, v \in writer[l] : u = v
  BY <1>0 DEF GuardInv
<1>3. /\ op' \in [Tasks -> Ops \cup {"idle"}] /\ op'[t] = o /\ ip[t] = 1
      /\ \A u \in Tasks : u # t => op'[u] = op[u]
  BY <1>0, <1>2
<1>4. \A u \in Tasks : IF op'[u] = "idle" THEN ip[u] = 1 ELSE ip[u] \in 1..Len(Script[op'[u]])
  <2>1. Len(Script[o]) \in Nat \ {0} /\ o # "idle"
    BY OpSteps
  <2> QED
    BY <1>2, <1>3, <2>1
<1>5. ASSUME NEW l \in Locks, NEW u \in Tasks
      PROVE  readers[l][u] = Reads(op'[u], ip[u], l) /\ (u \in writer[l] <=> Writes(op'[u], ip[u], l))
  <2>1. CASE u = t
    <3>1. Reads("idle", 1, l) = 0 /\ ~Writes("idle", 1, l) /\ Reads(o, 1, l) = 0 /\ ~Writes(o, 1, l)
      BY NoGuards
    <3> QED
      BY <1>0, <1>2, <1>3, <2>1, <3>1
  <2>2. CASE u # t
    BY <1>2, <1>3, <2>2
  <2> QED
    BY <2>1, <2>2
<1>6. GuardInv'
  BY <1>0, <1>2, <1>3, <1>4, <1>5 DEF GuardInv
<1>7. ~Waits(t)
  BY <1>0 DEF QueueInv, Waits, Queued
<1>8. QueueInv'
  BY <1>0, <1>3, <1>7, QueueStep
<1> QED
  BY <1>6, <1>8 DEF LockInv

\* A waiter at the end of a queue.
LEMMA RequestKeeps ==
    ASSUME LockInv, NEW t \in Tasks, Request(t)
    PROVE  LockInv'
<1>0. /\ GuardInv /\ QueueInv /\ Running(t) /\ Here(t).do \in {"read", "write"}
      /\ queue' = [queue EXCEPT ![Here(t).lock] = Append(@, [task |-> t, do |-> Here(t).do])]
      /\ UNCHANGED <<op, ip, readers, writer>>
  BY DEF LockInv, Request
<1>1. op[t] # "idle" /\ ~Waits(t) /\ StepOK(op[t], Len(Script[op[t]]), ip[t], Here(t).do, Here(t).lock)
  BY <1>0, RunningTask
<1>2. PICK k \in Locks : k = Here(t).lock
  BY <1>0, <1>1 DEF StepOK
<1>3. PICK w \in Waiter : w.task = t /\ w.do = Here(t).do /\ queue' = [queue EXCEPT ![k] = Append(queue[k], w)]
  <2>1. [task |-> t, do |-> Here(t).do] \in Waiter
    BY <1>0 DEF Waiter
  <2> QED
    BY <1>0, <1>2, <2>1
<1>4. queue \in [Locks -> Seq(Waiter)]
  BY <1>0 DEF QueueInv
<1>5. /\ queue' \in [Locks -> Seq(Waiter)] /\ queue'[k] = Append(queue[k], w)
      /\ \A l \in Locks : l # k => queue'[l] = queue[l]
  BY <1>3, <1>4
<1>6. /\ DOMAIN queue'[k] = DOMAIN queue[k] \cup {Len(queue[k]) + 1}
      /\ queue'[k][Len(queue[k]) + 1] = w
      /\ \A i \in DOMAIN queue[k] : queue'[k][i] = queue[k][i]
  BY <1>4, <1>5
<1>8. ASSUME NEW l \in Locks, NEW i \in DOMAIN queue'[l]
      PROVE  /\ op[queue'[l][i].task] # "idle"
             /\ Here(queue'[l][i].task).do = queue'[l][i].do /\ Here(queue'[l][i].task).lock = l
  <2>1. CASE i \in DOMAIN queue[l] /\ queue'[l][i] = queue[l][i]
    BY <1>0, <2>1 DEF QueueInv
  <2>2. CASE l = k /\ i = Len(queue[k]) + 1
    BY <1>1, <1>2, <1>3, <1>6, <2>2
  <2> QED
    BY <1>5, <1>6, <1>8, <2>1, <2>2
<1>9. ASSUME NEW l \in Locks, NEW i \in DOMAIN queue'[l], NEW j \in DOMAIN queue'[l],
             queue'[l][i].task = queue'[l][j].task
      PROVE  i = j
  <2>1. \A m \in DOMAIN queue[l] : queue[l][m].task # t
    BY <1>1 DEF Waits, Queued
  <2>2. CASE l # k
    BY <1>0, <1>5, <1>9, <2>2 DEF QueueInv
  <2>3. CASE l = k
    BY <1>0, <1>3, <1>6, <1>9, <2>1, <2>3 DEF QueueInv
  <2> QED
    BY <2>2, <2>3
<1>10. QueueInv'
  <2>0. op' = op /\ ip' = ip
    BY <1>0
  <2>1. \A l \in Locks : \A i \in DOMAIN queue'[l] :
          /\ op'[queue'[l][i].task] # "idle"
          /\ Script[op'[queue'[l][i].task]][ip'[queue'[l][i].task]].do = queue'[l][i].do
          /\ Script[op'[queue'[l][i].task]][ip'[queue'[l][i].task]].lock = l
    BY <1>8, <2>0 DEF Here
  <2>2. \A l \in Locks : \A i, j \in DOMAIN queue'[l] : queue'[l][i].task = queue'[l][j].task => i = j
    BY <1>9
  <2> QED
    BY <1>5, <2>1, <2>2 DEF QueueInv, Here
<1>11. GuardInv'
  BY <1>0 DEF GuardInv
<1> QED
  BY <1>10, <1>11 DEF LockInv

\* The first waiter is served.
LEMMA GrantKeeps ==
    ASSUME LockInv, NEW l \in Locks, Grant(l)
    PROVE  LockInv'
<1>0. GuardInv /\ QueueInv /\ queue \in [Locks -> Seq(Waiter)] /\ queue[l] # <<>> /\ writer[l] = {}
  BY DEF LockInv, Grant, QueueInv
<1>1. /\ 1 \in DOMAIN queue[l] /\ Head(queue[l]) = queue[l][1] /\ queue[l][1] \in Waiter
      /\ Tail(queue[l]) \in Seq(Waiter)
  BY <1>0
<1>2. PICK t \in Tasks : t = Head(queue[l]).task
  BY <1>1 DEF Waiter
<1>3. /\ op[t] # "idle" /\ Here(t).do = Head(queue[l]).do /\ Here(t).lock = l /\ Here(t).do \in {"read", "write"}
  BY <1>0, <1>1, <1>2 DEF QueueInv, Waiter
<1>4. StepOK(op[t], Len(Script[op[t]]), ip[t], Here(t).do, Here(t).lock)
  BY <1>0, <1>3, HereOK
<1>5. /\ Advance(t) /\ queue' = [queue EXCEPT ![l] = Tail(queue[l])]
      /\ \/ Here(t).do = "read" /\ readers' = [readers EXCEPT ![l][t] = readers[l][t] + 1] /\ writer' = writer
         \/ Here(t).do = "write" /\ writer' = [writer EXCEPT ![l] = {t}] /\ readers' = readers
  BY <1>2, <1>3 DEF Grant
<1>6. /\ readers \in [Locks -> [Tasks -> Nat]] /\ writer \in [Locks -> SUBSET Tasks]
      /\ \A k \in Locks : /\ readers[k][t] = Reads(op[t], ip[t], k) /\ (t \in writer[k] <=> Writes(op[t], ip[t], k))
                          /\ \A u, v \in writer[k] : u = v
  BY <1>0 DEF GuardInv
<1>7. \A k \in Locks :
        /\ WritesAfter(op[t], Len(Script[op[t]]), ip[t], k) <=> (Here(t).do = "write" /\ k = l)
        /\ ~Writes(op[t], ip[t], k)
        /\ ReadsAfter(op[t], Len(Script[op[t]]), ip[t], k) =
             IF Here(t).do = "read" /\ k = l THEN Reads(op[t], ip[t], k) + 1 ELSE Reads(op[t], ip[t], k)
  BY <1>3, <1>4 DEF StepOK
<1>8. GuardInv'
  <2>1. CASE Here(t).do = "read" /\ readers' = [readers EXCEPT ![l][t] = readers[l][t] + 1] /\ writer' = writer
    <3>1. /\ readers' \in [Locks -> [Tasks -> Nat]] /\ readers'[l][t] = readers[l][t] + 1
          /\ \A k \in Locks : \A u \in Tasks : k # l \/ u # t => readers'[k][u] = readers[k][u]
      BY <1>6, <2>1
    <3>2. \A k \in Locks : /\ readers'[k][t] = ReadsAfter(op[t], Len(Script[op[t]]), ip[t], k)
                           /\ t \in writer'[k] <=> WritesAfter(op[t], Len(Script[op[t]]), ip[t], k)
      BY <1>6, <1>7, <2>1, <3>1
    <3>3. \A k \in Locks : /\ \A u \in Tasks : u # t => readers'[k][u] = readers[k][u] /\ (u \in writer'[k] <=> u \in writer[k])
                           /\ \A u, v \in writer'[k] : u = v
      BY <1>6, <2>1, <3>1
    <3>4. writer' \in [Locks -> SUBSET Tasks]
      BY <1>6, <2>1
    <3> QED
      BY <1>0, <1>3, <1>5, <3>1, <3>2, <3>3, <3>4, GuardStep
  <2>2. CASE Here(t).do = "write" /\ writer' = [writer EXCEPT ![l] = {t}] /\ readers' = readers
    <3>1. /\ writer' \in [Locks -> SUBSET Tasks] /\ writer'[l] = {t}
          /\ \A k \in Locks : k # l => writer'[k] = writer[k]
      BY <1>6, <2>2
    <3>2. \A k \in Locks : /\ readers'[k][t] = ReadsAfter(op[t], Len(Script[op[t]]), ip[t], k)
                           /\ t \in writer'[k] <=> WritesAfter(op[t], Len(Script[op[t]]), ip[t], k)
      BY <1>6, <1>7, <2>2, <3>1
    <3>3. ASSUME NEW k \in Locks
          PROVE  /\ \A u \in Tasks : u # t => readers'[k][u] = readers[k][u] /\ (u \in writer'[k] <=> u \in writer[k])
                 /\ \A u, v \in writer'[k] : u = v
      <4>1. CASE k = l
        BY <1>0, <2>2, <3>1, <4>1
      <4>2. CASE k # l
        BY <1>6, <2>2, <3>1, <4>2
      <4> QED
        BY <4>1, <4>2
    <3>4. readers' \in [Locks -> [Tasks -> Nat]]
      BY <1>6, <2>2
    <3> QED
      BY <1>0, <1>3, <1>5, <3>1, <3>2, <3>3, <3>4, GuardStep
  <2> QED
    BY <1>5, <2>1, <2>2
<1>9. /\ queue' \in [Locks -> Seq(Waiter)] /\ queue'[l] = Tail(queue[l])
      /\ \A k \in Locks : k # l => queue'[k] = queue[k]
  BY <1>0, <1>1, <1>5
<1>10. \A i \in DOMAIN queue'[l] : i + 1 \in DOMAIN queue[l] /\ i + 1 # 1 /\ queue'[l][i] = queue[l][i + 1] /\ i \in Nat
  <2>1. queue[l] \in Seq(Waiter) /\ queue'[l] = Tail(queue[l])
    BY <1>0, <1>9
  <2> QED
    BY <1>0, <2>1
<1>11. ASSUME NEW k \in Locks, NEW i \in DOMAIN queue'[k]
       PROVE  \E j \in DOMAIN queue[k] : queue'[k][i] = queue[k][j] /\ queue[k][j].task # t /\ queue[k][j].task \in Tasks
  <2>1. CASE k = l
    <3>1. queue[l][i + 1].task # queue[l][1].task
      BY <1>0, <1>1, <1>10, <2>1 DEF QueueInv
    <3>2. queue[l][i + 1] \in Waiter
      BY <1>0, <1>10, <2>1
    <3> QED
      BY <1>1, <1>2, <1>10, <2>1, <3>1, <3>2 DEF Waiter
  <2>2. CASE k # l
    <3>1. queue'[k] = queue[k] /\ i \in DOMAIN queue[k] /\ queue[k][i] \in Waiter
      BY <1>0, <1>9, <2>2
    <3>2. queue[k][i].task # t
      BY <1>0, <1>3, <2>2, <3>1 DEF QueueInv
    <3> QED
      BY <3>1, <3>2 DEF Waiter
  <2> QED
    BY <2>1, <2>2
<1>12. ASSUME NEW k \in Locks, NEW i \in DOMAIN queue'[k]
       PROVE  /\ op'[queue'[k][i].task] # "idle"
              /\ Script[op'[queue'[k][i].task]][ip'[queue'[k][i].task]].do = queue'[k][i].do
              /\ Script[op'[queue'[k][i].task]][ip'[queue'[k][i].task]].lock = k
  <2>1. PICK j \in DOMAIN queue[k] :
          queue'[k][i] = queue[k][j] /\ queue[k][j].task # t /\ queue[k][j].task \in Tasks
    BY <1>11, <1>12
  <2>2. op'[queue[k][j].task] = op[queue[k][j].task] /\ ip'[queue[k][j].task] = ip[queue[k][j].task]
    BY <1>0, <1>3, <1>5, <2>1, Advanced
  <2>3. /\ op[queue[k][j].task] # "idle" /\ Here(queue[k][j].task).do = queue[k][j].do
        /\ Here(queue[k][j].task).lock = k
    BY <1>0 DEF QueueInv
  <2> QED
    BY <2>1, <2>2, <2>3 DEF Here
<1>13. ASSUME NEW k \in Locks, NEW i \in DOMAIN queue'[k], NEW j \in DOMAIN queue'[k],
              queue'[k][i].task = queue'[k][j].task
       PROVE  i = j
  <2>1. CASE k = l
    <3>1. i + 1 = j + 1
      BY <1>0, <1>10, <1>13, <2>1 DEF QueueInv
    <3> QED
      BY <1>10, <2>1, <3>1
  <2>2. CASE k # l
    BY <1>0, <1>9, <1>13, <2>2 DEF QueueInv
  <2> QED
    BY <2>1, <2>2
<1>14. QueueInv'
  BY <1>9, <1>12, <1>13 DEF QueueInv, Here
<1> QED
  BY <1>8, <1>14 DEF LockInv

\* The first state.
LEMMA InitLocks == Init => LockInv
<1> SUFFICES ASSUME Init PROVE LockInv
  OBVIOUS
<1>1. \A l \in Locks : Reads("idle", 1, l) = 0 /\ ~Writes("idle", 1, l)
  BY NoGuards
<1>2. GuardInv
  BY <1>1 DEF Init, GuardInv
<1>3. QueueInv
  BY DEF Init, QueueInv
<1> QED
  BY <1>2, <1>3 DEF LockInv

\* Every step keeps the guards and the queues right.
LEMMA LocksKept ==
    ASSUME LockInv, [Next]_vars
    PROVE  LockInv'
<1>1. CASE UNCHANGED vars
  BY <1>1 DEF vars, LockInv, GuardInv, QueueInv, Here
<1>2. ASSUME NEW t \in Tasks, Task(t) PROVE LockInv'
  BY <1>2, RequestKeeps, ReleaseKeeps, ProceedKeeps, ReturnKeeps DEF Task
<1>3. ASSUME NEW t \in Tasks, NEW o \in Ops, Start(t, o) PROVE LockInv'
  BY <1>3, StartKeeps
<1>4. ASSUME NEW l \in Locks, Grant(l) PROVE LockInv'
  BY <1>4, GrantKeeps
<1> QED
  BY <1>1, <1>2, <1>3, <1>4 DEF Next

\* TypeOK: every guard that is dropped was held, so the counts stay natural
\* numbers, and an operation that has returned, from its end or early, holds
\* none (space/manager.rs), for every set of tasks.
THEOREM TypeCorrect == Spec => []TypeOK
<1>1. LockInv => TypeOK
  <2> SUFFICES ASSUME LockInv PROVE TypeOK
    OBVIOUS
  <2>1. \A l \in Locks : \A i \in DOMAIN queue[l] : queue[l][i] \in Waiter
    BY DEF LockInv, QueueInv
  <2>2. \A t \in Tasks : op[t] = "idle" => \A l \in Locks : readers[l][t] = 0 /\ t \notin writer[l]
    <3>1. \A l \in Locks : \A i \in Nat : Reads("idle", i, l) = 0 /\ ~Writes("idle", i, l)
      BY NoGuards
    <3>2. \A t \in Tasks : ip[t] \in Nat
      BY DEF LockInv, GuardInv
    <3>3. \A l \in Locks : \A t \in Tasks : /\ readers[l][t] = Reads(op[t], ip[t], l)
                                            /\ t \in writer[l] <=> Writes(op[t], ip[t], l)
      BY DEF LockInv, GuardInv
    <3> QED
      BY <3>1, <3>2, <3>3
  <2> QED
    BY <2>1, <2>2 DEF LockInv, GuardInv, TypeOK, Waiter
<1> QED
  BY InitLocks, LocksKept, <1>1, PTL DEF Spec
-----------------------------------------------------------------------------
(* How the manager wedges                                                  *)

\* A set of numbers has a smallest one.
LEMMA Smallest ==
    ASSUME NEW T, T \subseteq Nat, T # {}
    PROVE  \E m \in T : \A i \in T : ~(i < m)
<1>1. \E m \in T : \A i \in T : ~(<<i, m>> \in OpToRel(<, Nat))
  BY NatLessThanWellFounded, WFMin
<1> QED
  BY <1>1 DEF OpToRel

\* A task that waits holds no write guard; with a read guard of chat_servers it
\* waits for a read guard of spaces.
LEMMA WaiterHolds ==
    ASSUME LockInv, NEW l \in Locks, NEW i \in DOMAIN queue[l], NEW t, t = queue[l][i].task
    PROVE  /\ t \in Tasks /\ Here(t).lock = l /\ \A k \in Locks : t \notin writer[k]
           /\ readers["chat_servers"][t] > 0 => l = "spaces"
<1>1. queue[l][i] \in Waiter /\ t \in Tasks
  <2>1. queue[l] \in Seq(Waiter)
    BY DEF LockInv, QueueInv
  <2>2. queue[l][i] \in Waiter
    BY <2>1
  <2> QED
    BY <2>2 DEF Waiter
<1>2. op[t] # "idle" /\ Here(t).do \in {"read", "write"} /\ Here(t).lock = l
  BY <1>1 DEF LockInv, QueueInv, Waiter
<1>3. StepOK(op[t], Len(Script[op[t]]), ip[t], Here(t).do, Here(t).lock)
  BY <1>1, <1>2, HereOK DEF LockInv
<1>4. \A k \in Locks : readers[k][t] = Reads(op[t], ip[t], k) /\ (t \in writer[k] <=> Writes(op[t], ip[t], k))
  BY <1>1 DEF LockInv, GuardInv
<1>5. "chat_servers" \in Locks
  BY DEF Locks
<1>6. \A k \in Locks : t \notin writer[k]
  BY <1>2, <1>3, <1>4 DEF StepOK
<1>7. readers["chat_servers"][t] > 0 => l = "spaces"
  BY <1>2, <1>3, <1>4, <1>5 DEF StepOK
<1> QED
  BY <1>1, <1>2, <1>6, <1>7

\* Of tasks that wait for one another, the first in a queue waits for a write
\* guard while another of them reads.
LEMMA FirstBlocked ==
    ASSUME LockInv, NEW S \in SUBSET Tasks, \A t \in S : \E u \in S : BlockedBy(t, u),
           NEW l \in Locks, \E i \in DOMAIN queue[l] : queue[l][i].task \in S
    PROVE  \E m \in DOMAIN queue[l] : \E u \in S : queue[l][m].do = "write" /\ readers[l][u] > 0
<1> DEFINE T == {i \in DOMAIN queue[l] : queue[l][i].task \in S}
<1>1. queue[l] \in Seq(Waiter) /\ DOMAIN queue[l] = 1..Len(queue[l]) /\ Len(queue[l]) \in Nat
  BY DEF LockInv, QueueInv
<1>2. PICK m \in T : \A i \in T : ~(i < m)
  <2>1. T \subseteq Nat /\ T # {}
    BY <1>1
  <2> QED
    BY <2>1, Smallest
<1>3. m \in DOMAIN queue[l] /\ m \in 1..Len(queue[l])
  BY <1>1, <1>2
<1>4. PICK t \in S : t = queue[l][m].task
  BY <1>2
<1>5. PICK u \in S : BlockedBy(t, u)
  BY <1>4
<1>6. PICK k \in Locks : \E i \in DOMAIN queue[k] :
        /\ queue[k][i].task = t
        /\ \/ u \in writer[k]
           \/ queue[k][i].do = "write" /\ readers[k][u] > 0
           \/ \E j \in 1..(i - 1) : queue[k][j].task = u
  BY <1>5 DEF BlockedBy
<1>7. PICK i \in DOMAIN queue[k] :
        /\ queue[k][i].task = t
        /\ \/ u \in writer[k]
           \/ queue[k][i].do = "write" /\ readers[k][u] > 0
           \/ \E j \in 1..(i - 1) : queue[k][j].task = u
  BY <1>6
<1>8. k = l /\ i = m
  <2>1. Here(t).lock = k
    BY <1>7, WaiterHolds
  <2>2. Here(t).lock = l
    BY <1>3, <1>4, WaiterHolds
  <2>3. \A a, b \in DOMAIN queue[l] : queue[l][a].task = queue[l][b].task => a = b
    BY DEF LockInv, QueueInv
  <2> QED
    BY <1>3, <1>4, <1>7, <2>1, <2>2, <2>3
<1>9. u \notin writer[l]
  <2>1. PICK v \in S : BlockedBy(u, v)
    OBVIOUS
  <2>2. PICK n \in Locks : \E j \in DOMAIN queue[n] : queue[n][j].task = u
    BY <2>1 DEF BlockedBy
  <2> QED
    BY <2>2, WaiterHolds
<1>10. ~\E j \in 1..(m - 1) : queue[l][j].task = u
  BY <1>1, <1>2, <1>3
<1> QED
  BY <1>3, <1>7, <1>8, <1>9, <1>10

\* WedgeNeedsHeldSpaces: for every set of tasks and whatever they call, tasks
\* of the manager (space/manager.rs) that wait for one another for ever include
\* one that waits with a read guard of spaces, which only connect and shutdown_all
\* do, while a writer of spaces is queued.
THEOREM WedgeIsHeldSpaces == Spec => []WedgeNeedsHeldSpaces
<1>1. LockInv => WedgeNeedsHeldSpaces
  <2> SUFFICES ASSUME LockInv, Wedged
               PROVE  \E t \in Tasks : /\ readers["spaces"][t] > 0 /\ Waits(t)
                                       /\ \E i \in DOMAIN queue["spaces"] : queue["spaces"][i].do = "write"
    BY DEF WedgeNeedsHeldSpaces
  <2>1. PICK S \in SUBSET Tasks : S # {} /\ \A t \in S : \E u \in S : BlockedBy(t, u)
    BY DEF Wedged
  <2>2. \A t \in S : \E l \in Locks : \E i \in DOMAIN queue[l] : queue[l][i].task = t
    BY <2>1 DEF BlockedBy
  <2>3. \A t \in S : Waits(t)
    BY <2>2 DEF Waits, Queued
  <2>4. "spaces" \in Locks /\ "chat_servers" \in Locks /\ Locks = {"spaces", "chat_servers"}
    BY DEF Locks
  <2>5. \E i \in DOMAIN queue["spaces"] : queue["spaces"][i].task \in S
    <3>1. PICK s \in S : TRUE
      BY <2>1
    <3>2. PICK l \in Locks : \E i \in DOMAIN queue[l] : queue[l][i].task = s
      BY <2>2, <3>1
    <3>3. CASE l = "spaces"
      BY <3>1, <3>2, <3>3
    <3>4. CASE l = "chat_servers"
      <4>1. \E m \in DOMAIN queue[l] : \E u \in S : queue[l][m].do = "write" /\ readers[l][u] > 0
        BY <2>1, <3>1, <3>2, FirstBlocked
      <4>2. PICK u \in S : readers["chat_servers"][u] > 0
        BY <3>4, <4>1
      <4>3. PICK k \in Locks : \E i \in DOMAIN queue[k] : queue[k][i].task = u
        BY <2>2, <4>2
      <4>4. PICK i \in DOMAIN queue[k] : queue[k][i].task = u
        BY <4>3
      <4>5. k = "spaces"
        BY <4>2, <4>4, WaiterHolds
      <4> QED
        BY <4>2, <4>4, <4>5
    <3> QED
      BY <2>4, <3>2, <3>3, <3>4
  <2>6. \E m \in DOMAIN queue["spaces"] : \E u \in S : queue["spaces"][m].do = "write" /\ readers["spaces"][u] > 0
    BY <2>1, <2>4, <2>5, FirstBlocked
  <2> QED
    BY <2>3, <2>6
<1> QED
  BY InitLocks, LocksKept, <1>1, PTL DEF Spec
=============================================================================
