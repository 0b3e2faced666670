-------------------------- MODULE IpcChannelProofs --------------------------
(***************************************************************************)
(* TLAPS proofs about IpcChannel: the matching of answers to requests, and *)
(* that the channel implements RpcService when no future is dropped, for   *)
(* every number of callers, requests and connections.                      *)
(***************************************************************************)
EXTENDS IpcChannel, TLAPS

Holding(c) == pc[c] \in InSend
Waits == {"writing", "len", "body"}
Live(r) == phase[r] \in {"prefix", "queued", "handling", "answered"}
Clean(k) == \A x \in cancelled : where[x] # k

\* The lock: its holder alone is inside send, with a pending request that is
\* on the wire once its length is written.
LockInv ==
    /\ \A c \in Callers : Holding(c) <=> mutex = c
    /\ \A c \in Callers : Holding(c) =>
         /\ cur[c] \in 1..used /\ status[cur[c]] = "pending"
         /\ pc[c] = "locked" => where[cur[c]] = 0
         /\ pc[c] \in Waits => where[cur[c]] = stream /\ stream # 0

\* Requests: what has not been numbered has not been touched, and what was
\* not written is on no connection.
RequestInv ==
    /\ \A r \in Requests : r > used => status[r] = "new"
    /\ \A r \in Requests : status[r] = "new" => where[r] = 0 /\ answer[r] = 0
    /\ \A r \in Requests : where[r] = 0 => phase[r] = "none"
    /\ \A r \in Requests : answer[r] # 0 => status[r] = "ok"
    /\ \A x \in cancelled : status[x] = "err"

\* Connections: only those opened so far are in use.
ConnInv ==
    /\ stream <= conns
    /\ \A r \in Requests : where[r] <= conns
    /\ \A k \in half : k <= conns

\* The kept connection: on a clean one only the holder's request is under
\* way, and a length prefix is consumed only while its reader is at the body.
StreamInv ==
    (stream # 0 /\ Clean(stream)) =>
        /\ \A r \in Requests : (where[r] = stream /\ Live(r)) =>
              \E c \in Callers : pc[c] \in Waits /\ cur[c] = r
        /\ stream \in half => \E c \in Callers : pc[c] = "body"

MatchInv == Types /\ ConnInv /\ LockInv /\ RequestInv /\ StreamInv /\ CrossTalkNeedsCancel

\* A call that returns an error without having read an answer: it drops the
\* connection, or is cancelled and leaves it.
GivesUp(c) ==
    /\ Holding(c) /\ Return(c, "err")
    /\ \/ stream' = 0 /\ UNCHANGED cancelled
       \/ stream' = stream /\ cancelled' = cancelled \cup {cur[c]}
    /\ UNCHANGED <<conns, alive, half, where, phase, daemonUp, executed, answer>>

\* The five failing returns of send give up in this sense.
LEMMA FailuresGiveUp ==
    ASSUME NEW c \in Callers,
           \/ ConnectFails(c) \/ WriteFails(c) \/ ReadLenTooLarge(c) \/ ReadFails(c)
           \/ Cancel(c)
    PROVE  GivesUp(c)
BY DEF ConnectFails, WriteFails, ReadLenTooLarge, ReadFails, Cancel, GivesUp, Holding, InSend, wireVars

\* A step of the daemon only moves what is on the wire.
Moves(S) ==
    /\ phase' \in [Requests -> Phases]
    /\ \A x \in Requests : phase'[x] # phase[x] => x \in S /\ Live(x) /\ where[x] # 0
    /\ \A x \in Requests : Live(x)' => Live(x)
    /\ UNCHANGED <<mutex, pc, cur, used, stream, conns, half, where, status, answer, cancelled>>

\* Misread moves requests that are not answered yet, and only behind a
\* cancelled one.
LEMMA MisreadMoves ==
    ASSUME Types, RequestInv, NEW r \in Requests, Misread(r)
    PROVE  /\ Moves({x \in Requests : phase[x] \in {"prefix", "queued"}})
           /\ cancelled # {}
           /\ UNCHANGED <<executed, daemonUp>> /\ alive' \in SUBSET Nat
<1>1. PICK p \in cancelled, after \in {"prefix", "lost"}, closed \in SUBSET {where[r]} :
         /\ p \in On(where[r], "prefix") /\ p < r
         /\ alive' = alive \ closed
         /\ phase' = [x \in Requests |->
                 CASE x = r -> "answered"
                   [] x = p -> after
                   [] x \notin {p, r} /\ where[x] = where[r] /\ phase[x] = "queued"
                        /\ (x < r \/ closed # {}) -> "lost"
                   [] OTHER -> phase[x]]
  BY DEF Misread
<1>2. /\ phase[p] = "prefix" /\ phase[r] = "queued" /\ p \in Requests
      /\ UNCHANGED <<conns, half, where, daemonUp, mutex, pc, cur, used, stream,
                     status, executed, answer, cancelled>>
  BY <1>1 DEF Misread, On, clientVars, callVars
<1>3. /\ phase'[r] = "answered" /\ phase'[p] \in {"prefix", "lost"}
      /\ \A x \in Requests : x \notin {p, r} =>
            (phase'[x] = phase[x] \/ (phase'[x] = "lost" /\ phase[x] = "queued"))
  <2>1. p # r /\ r \in Requests /\ p \in Requests
    BY <1>2
  <2>2. phase'[r] = "answered" /\ phase'[p] = after
    BY <1>1, <2>1
  <2>3. ASSUME NEW x \in Requests, x \notin {p, r}
        PROVE phase'[x] = phase[x] \/ (phase'[x] = "lost" /\ phase[x] = "queued")
    <3>1. CASE where[x] = where[r] /\ phase[x] = "queued" /\ (x < r \/ closed # {})
      BY <1>1, <2>3, <3>1
    <3>2. CASE ~(where[x] = where[r] /\ phase[x] = "queued" /\ (x < r \/ closed # {}))
      BY <1>1, <2>3, <3>2
    <3> QED
      BY <3>1, <3>2
  <2>4. after \in {"prefix", "lost"}
    OBVIOUS
  <2> QED
    BY <2>2, <2>3, <2>4
<1>4. phase' \in [Requests -> Phases]
  <2>1. phase' = [x \in Requests |-> phase'[x]]
    BY <1>1
  <2>2. \A x \in Requests : phase'[x] \in Phases
    BY <1>2, <1>3 DEF Types, Phases
  <2> QED
    BY <2>1, <2>2
<1>5. \A x \in Requests : phase'[x] # phase[x] => phase[x] \in {"prefix", "queued"}
  BY <1>2, <1>3
<1>6. alive' \in SUBSET Nat
  BY <1>1 DEF Types
<1>7. \A x \in Requests : Live(x)' => Live(x)
  BY <1>2, <1>3 DEF Live
<1> QED
  BY <1>1, <1>2, <1>4, <1>5, <1>6, <1>7 DEF Moves, RequestInv, Live

-----------------------------------------------------------------------------
(* Type correctness                                                        *)

\* Initially every variable is of its type.
LEMMA InitTypes == Init => Types
BY BoundAssumption, CallerAssumption DEF Init, Types, Phases, Requests

\* Every step keeps the types.
LEMMA NextTypes ==
    ASSUME Types, LockInv, RequestInv, [Next]_vars
    PROVE  Types'
<1> USE BoundAssumption, CallerAssumption DEF Types, Phases, Requests, InSend
<1>1. CASE UNCHANGED vars
  BY <1>1 DEF vars
<1>2. ASSUME NEW c \in Callers, Call(c) PROVE Types'
  BY <1>2 DEF Call, wireVars, callVars
<1>3. ASSUME NEW c \in Callers, Lock(c) PROVE Types'
  BY <1>3 DEF Lock, wireVars
<1>4. ASSUME NEW c \in Callers, ConnectOk(c) PROVE Types'
  <2>1. conns + 1 \in Nat /\ alive \cup {conns + 1} \in SUBSET Nat
    OBVIOUS
  <2>2. conns' \in Nat /\ stream' \in Nat /\ alive' \in SUBSET Nat
    BY <1>4, <2>1 DEF ConnectOk
  <2> QED
    BY <1>4, <2>2 DEF ConnectOk, callVars
<1>5. ASSUME NEW c \in Callers, GivesUp(c) PROVE Types'
  <2>0. cur[c] \in Requests
    BY <1>5 DEF GivesUp, LockInv, Holding, InSend
  <2>1. stream' \in Nat
    BY <1>5 DEF GivesUp
  <2>3. cancelled' \in SUBSET Requests
    <3>1. cancelled' = cancelled \/ cancelled' = cancelled \cup {cur[c]}
      BY <1>5 DEF GivesUp
    <3> QED
      BY <3>1, <2>0
  <2>2. /\ pc' \in [Callers -> {"idle", "waiting"} \cup InSend]
        /\ cur' \in [Callers -> {0} \cup Requests]
        /\ status' \in [Requests -> {"new", "pending", "ok", "err"}]
    BY <1>5 DEF GivesUp, Return
  <2> QED
    BY <1>5, <2>1, <2>2, <2>3 DEF GivesUp, Return
<1>6. ASSUME NEW c \in Callers, WriteOk(c) PROVE Types'
  BY <1>6 DEF WriteOk, callVars
<1>9. ASSUME NEW c \in Callers, WriteLen(c) PROVE Types'
  BY <1>9 DEF WriteLen, callVars
<1>12. ASSUME NEW r \in Requests, Misread(r) PROVE Types'
  BY <1>12, MisreadMoves DEF Moves
<1>7. ASSUME NEW c \in Callers, ReadLen(c) PROVE Types'
  <2>1. half' \in SUBSET Nat
    BY <1>7 DEF ReadLen
  <2>2. pc' \in [Callers -> {"idle", "waiting"} \cup InSend]
    BY <1>7 DEF ReadLen
  <2> QED
    BY <1>7, <2>1, <2>2 DEF ReadLen, callVars
<1>8. ASSUME NEW c \in Callers, ReadBody(c) PROVE Types'
  <2>1. mutex' = NoOne /\ pc' = [pc EXCEPT ![c] = "idle"] /\ cur' = [cur EXCEPT ![c] = 0]
    BY <1>8 DEF ReadBody, Return
  <2>2. \E x \in Requests : /\ phase' = [phase EXCEPT ![x] = "read"]
                            /\ answer' \in {answer, [answer EXCEPT ![cur[c]] = x]}
    BY <1>8 DEF ReadBody
  <2>3. \E s \in {"ok", "err"} : status' = [status EXCEPT ![cur[c]] = s]
    BY <1>8 DEF ReadBody, Return
  <2>4. half' \in SUBSET Nat
    BY <1>8 DEF ReadBody
  <2>5. UNCHANGED <<used, stream, conns, alive, where, daemonUp, executed, cancelled>>
    BY <1>8 DEF ReadBody, Return
  <2>6. phase' \in [Requests -> Phases] /\ answer' \in [Requests -> {0} \cup Requests]
    <3>1. PICK x \in Requests : /\ phase' = [phase EXCEPT ![x] = "read"]
                               /\ answer' \in {answer, [answer EXCEPT ![cur[c]] = x]}
      BY <2>2
    <3>2. phase' \in [Requests -> Phases]
      BY <3>1
    <3>3. answer' \in [Requests -> {0} \cup Requests]
      BY <3>1
    <3> QED
      BY <3>2, <3>3
  <2>7. status' \in [Requests -> {"new", "pending", "ok", "err"}]
    BY <2>3
  <2> QED
    BY <2>1, <2>4, <2>5, <2>6, <2>7
<1>10. ASSUME NEW r \in Requests, Handle(r) \/ Respond(r) PROVE Types'
  BY <1>10 DEF Handle, Respond, clientVars, callVars
<1>11. CASE DaemonExit \/ DaemonStart
  BY <1>11 DEF DaemonExit, DaemonStart, clientVars, callVars
<1> QED
  BY <1>1, <1>2, <1>3, <1>4, <1>5, <1>6, <1>7, <1>8, <1>9, <1>10, <1>11, <1>12, FailuresGiveUp DEF Next, Client

-----------------------------------------------------------------------------
(* The invariant that matches answers to requests                          *)

\* The lock protocol and the bookkeeping of requests are kept.
LEMMA LockInductive ==
    ASSUME Types, Types', LockInv, RequestInv, [Next]_vars
    PROVE  LockInv' /\ RequestInv'
<1> USE BoundAssumption, CallerAssumption
        DEF Types, LockInv, RequestInv, Holding, InSend, Waits, Requests
<1>1. CASE UNCHANGED vars
  BY <1>1 DEF vars
<1>2. ASSUME NEW c \in Callers, Call(c) PROVE LockInv' /\ RequestInv'
  BY <1>2 DEF Call, wireVars, callVars
<1>3. ASSUME NEW c \in Callers, Lock(c) PROVE LockInv' /\ RequestInv'
  BY <1>3 DEF Lock, wireVars
<1>4. ASSUME NEW c \in Callers, ConnectOk(c) PROVE LockInv' /\ RequestInv'
  BY <1>4 DEF ConnectOk, callVars
<1>5. ASSUME NEW c \in Callers, GivesUp(c) PROVE LockInv' /\ RequestInv'
  <2>1. LockInv'
    BY <1>5 DEF GivesUp, Return
  <2>2. RequestInv'
    BY <1>5 DEF GivesUp, Return
  <2> QED
    BY <2>1, <2>2
<1>6. ASSUME NEW c \in Callers, WriteOk(c) PROVE LockInv' /\ RequestInv'
  BY <1>6 DEF WriteOk, callVars
<1>9. ASSUME NEW c \in Callers, WriteLen(c) PROVE LockInv' /\ RequestInv'
  BY <1>9 DEF WriteLen, callVars
<1>12. ASSUME NEW r \in Requests, Misread(r) PROVE LockInv' /\ RequestInv'
  <2>1. Moves({x \in Requests : phase[x] \in {"prefix", "queued"}})
    BY <1>12, MisreadMoves
  <2> QED
    BY <2>1 DEF Moves
<1>7. ASSUME NEW c \in Callers, ReadLen(c) PROVE LockInv' /\ RequestInv'
  BY <1>7 DEF ReadLen, callVars
<1>8. ASSUME NEW c \in Callers, ReadBody(c) PROVE LockInv' /\ RequestInv'
  <2>1. PICK x \in Requests : x \in On(stream, "answered") /\ phase' = [phase EXCEPT ![x] = "read"]
                           /\ \/ Return(c, "ok") /\ answer' = [answer EXCEPT ![cur[c]] = x]
                              \/ Return(c, "err") /\ UNCHANGED answer
    BY <1>8 DEF ReadBody, IsOldest
  <2>2. pc[c] = "body" /\ UNCHANGED <<stream, where, cancelled>>
    BY <1>8 DEF ReadBody
  <2>4. cur[c] \in Requests /\ status[cur[c]] = "pending" /\ cur[c] <= used
    BY <2>2
  <2>8. mutex = c /\ mutex' = NoOne /\ pc' = [pc EXCEPT ![c] = "idle"]
    BY <2>1, <2>2 DEF Return
  <2>3. LockInv'
    <3>1. \A d \in Callers : d # c => ~Holding(d)
      BY <2>8
    <3>2. \A d \in Callers : pc'[d] = IF d = c THEN "idle" ELSE pc[d]
      BY <2>8
    <3>3. \A d \in Callers : pc'[d] \notin InSend
      BY <3>1, <3>2
    <3> QED
      BY <3>3, <2>8
  <2>5. /\ used' = used /\ where[x] # 0
        /\ \E t \in {"ok", "err"} : status' = [status EXCEPT ![cur[c]] = t]
    BY <2>1, <2>2 DEF Return, On
  <2>6. \A r \in Requests : answer'[r] # 0 => status'[r] = "ok"
    <3>1. answer[cur[c]] = 0
      BY <2>4
    <3>2. CASE Return(c, "ok") /\ answer' = [answer EXCEPT ![cur[c]] = x]
      BY <3>2, <2>4 DEF Return
    <3>3. CASE Return(c, "err") /\ UNCHANGED answer
      BY <3>3, <3>1, <2>4 DEF Return
    <3> QED
      BY <3>2, <3>3, <2>1
  <2>7. RequestInv'
    BY <2>1, <2>2, <2>4, <2>5, <2>6
  <2> QED
    BY <2>3, <2>7
<1>10. ASSUME NEW r \in Requests, Handle(r) \/ Respond(r) PROVE LockInv' /\ RequestInv'
  <2>1. phase[r] \in {"queued", "handling"} /\ \E p \in Phases : phase' = [phase EXCEPT ![r] = p]
    BY <1>10 DEF Handle, Respond, IsOldest, On, Phases
  <2>2. UNCHANGED <<mutex, pc, cur, used, stream, where, status, answer, cancelled>>
    BY <1>10 DEF Handle, Respond, clientVars, callVars
  <2> QED
    BY <2>1, <2>2
<1>11. CASE DaemonExit \/ DaemonStart
  <2>1. \A r \in Requests : phase'[r] # phase[r] => phase[r] \in {"prefix", "queued", "handling"}
    BY <1>11 DEF DaemonExit, DaemonStart
  <2>2. UNCHANGED <<mutex, pc, cur, used, stream, where, status, answer, cancelled>>
    BY <1>11 DEF DaemonExit, DaemonStart, clientVars, callVars
  <2>3. LockInv'
    BY <2>2
  <2>4. RequestInv'
    BY <2>1, <2>2
  <2> QED
    BY <2>3, <2>4
<1> QED
  BY <1>1, <1>2, <1>3, <1>4, <1>5, <1>6, <1>7, <1>8, <1>9, <1>10, <1>11, <1>12, FailuresGiveUp DEF Next, Client

\* A connection number is never used before it is opened.
LEMMA ConnInductive ==
    ASSUME Types, Types', LockInv, RequestInv, ConnInv, [Next]_vars
    PROVE  ConnInv'
<1> USE BoundAssumption DEF Types, ConnInv
<1>1. CASE UNCHANGED vars
  BY <1>1 DEF vars
<1>2. ASSUME NEW c \in Callers, Call(c) \/ Lock(c) PROVE ConnInv'
  BY <1>2 DEF Call, Lock, wireVars
<1>4. ASSUME NEW c \in Callers, ConnectOk(c) PROVE ConnInv'
  BY <1>4 DEF ConnectOk
<1>5. ASSUME NEW c \in Callers, GivesUp(c) PROVE ConnInv'
  BY <1>5 DEF GivesUp
<1>6. ASSUME NEW c \in Callers, WriteOk(c) PROVE ConnInv'
  BY <1>6 DEF WriteOk
<1>9. ASSUME NEW c \in Callers, WriteLen(c) PROVE ConnInv'
  BY <1>9 DEF WriteLen
<1>12. ASSUME NEW r \in Requests, Misread(r) PROVE ConnInv'
  BY <1>12, MisreadMoves DEF Moves
<1>7. ASSUME NEW c \in Callers, ReadLen(c) PROVE ConnInv'
  BY <1>7 DEF ReadLen
<1>8. ASSUME NEW c \in Callers, ReadBody(c) PROVE ConnInv'
  BY <1>8 DEF ReadBody
<1>10. ASSUME NEW r \in Requests, Handle(r) \/ Respond(r) PROVE ConnInv'
  BY <1>10 DEF Handle, Respond, clientVars
<1>11. CASE DaemonExit \/ DaemonStart
  BY <1>11 DEF DaemonExit, DaemonStart, clientVars
<1> QED
  BY <1>1, <1>2, <1>4, <1>5, <1>6, <1>7, <1>8, <1>9, <1>10, <1>11, <1>12, FailuresGiveUp DEF Next, Client

\* A connection on which no call was cancelled carries the holder's request
\* and nothing else.
LEMMA StreamInductive ==
    ASSUME Types, Types', LockInv, RequestInv, ConnInv, StreamInv, [Next]_vars
    PROVE  StreamInv'
<1> USE BoundAssumption, CallerAssumption DEF Types, StreamInv, Clean, Live, Waits
<1>1. CASE UNCHANGED vars
  BY <1>1 DEF vars
<1>2. ASSUME NEW c \in Callers, Call(c) PROVE StreamInv'
  BY <1>2 DEF Call, wireVars, callVars
<1>3. ASSUME NEW c \in Callers, Lock(c) PROVE StreamInv'
  BY <1>3 DEF Lock, wireVars
<1>4. ASSUME NEW c \in Callers, ConnectOk(c) PROVE StreamInv'
  BY <1>4 DEF ConnectOk, ConnInv
<1>5. ASSUME NEW c \in Callers, GivesUp(c) PROVE StreamInv'
  BY <1>5 DEF GivesUp, Return, LockInv, Holding, InSend
<1>6. ASSUME NEW c \in Callers, WriteOk(c) PROVE StreamInv'
  BY <1>6 DEF WriteOk, callVars, LockInv, Holding, InSend, Requests
<1>9. ASSUME NEW c \in Callers, WriteLen(c) PROVE StreamInv'
  BY <1>9 DEF WriteLen, callVars, LockInv, Holding, InSend, Requests
<1>12. ASSUME NEW r \in Requests, Misread(r) PROVE StreamInv'
  BY <1>12, MisreadMoves DEF Moves
<1>7. ASSUME NEW c \in Callers, ReadLen(c) PROVE StreamInv'
  BY <1>7 DEF ReadLen, callVars, LockInv, Holding, InSend
<1>8. ASSUME NEW c \in Callers, ReadBody(c) PROVE StreamInv'
  BY <1>8 DEF ReadBody, Return, LockInv, Holding, InSend, IsOldest, On
<1>10. ASSUME NEW r \in Requests, Handle(r) \/ Respond(r) PROVE StreamInv'
  <2>1. Live(r) /\ \A y \in Requests : y # r => phase'[y] = phase[y]
    BY <1>10 DEF Handle, Respond, IsOldest, On
  <2>2. UNCHANGED <<mutex, pc, cur, stream, half, where, cancelled>>
    BY <1>10 DEF Handle, Respond, clientVars, callVars
  <2> QED
    BY <2>1, <2>2
<1>11. CASE DaemonExit \/ DaemonStart
  <2>1. \A r \in Requests : Live(r)' => Live(r)
    BY <1>11 DEF DaemonExit, DaemonStart
  <2>2. UNCHANGED <<mutex, pc, cur, stream, half, where, cancelled>>
    BY <1>11 DEF DaemonExit, DaemonStart, clientVars, callVars
  <2> QED
    BY <2>1, <2>2
<1> QED
  BY <1>1, <1>2, <1>3, <1>4, <1>5, <1>6, <1>7, <1>8, <1>9, <1>10, <1>11, <1>12, FailuresGiveUp DEF Next, Client

\* Only ReadBody hands out an answer: on a clean connection it is the
\* holder's own.
LEMMA MatchInductive ==
    ASSUME Types, Types', LockInv, RequestInv, StreamInv, CrossTalkNeedsCancel, [Next]_vars
    PROVE  CrossTalkNeedsCancel'
<1> USE BoundAssumption, CallerAssumption DEF Types, CrossTalkNeedsCancel
<1>1. CASE UNCHANGED vars
  BY <1>1 DEF vars
<1>2. ASSUME NEW c \in Callers, Call(c) \/ Lock(c) \/ ConnectOk(c) \/ ReadLen(c)
      PROVE CrossTalkNeedsCancel'
  BY <1>2 DEF Call, Lock, ConnectOk, ReadLen, wireVars, callVars
<1>5. ASSUME NEW c \in Callers, GivesUp(c) PROVE CrossTalkNeedsCancel'
  BY <1>5 DEF GivesUp
<1>6. ASSUME NEW c \in Callers, WriteOk(c) PROVE CrossTalkNeedsCancel'
  BY <1>6 DEF WriteOk, callVars
<1>9. ASSUME NEW c \in Callers, WriteLen(c) PROVE CrossTalkNeedsCancel'
  <2>1. cur[c] \in Requests /\ answer[cur[c]] = 0 /\ cur[c] \notin cancelled
    BY <1>9 DEF WriteLen, LockInv, Holding, InSend, RequestInv, Requests
  <2> QED
    BY <1>9, <2>1 DEF WriteLen, callVars
<1>12. ASSUME NEW r \in Requests, Misread(r) PROVE CrossTalkNeedsCancel'
  BY <1>12, MisreadMoves DEF Moves
<1>8. ASSUME NEW c \in Callers, ReadBody(c) PROVE CrossTalkNeedsCancel'
  <2>1. PICK x \in Requests : /\ where[x] = stream /\ phase[x] = "answered"
                              /\ answer' \in {answer, [answer EXCEPT ![cur[c]] = x]}
    BY <1>8 DEF ReadBody, IsOldest, On
  <2>2. /\ pc[c] = "body" /\ UNCHANGED <<where, cancelled>>
        /\ where[cur[c]] = stream /\ stream # 0 /\ cur[c] \in Requests
    BY <1>8 DEF ReadBody, LockInv, Holding, InSend, Waits, Requests
  <2>3. CASE Clean(stream)
    <3>1. PICK d \in Callers : pc[d] \in Waits /\ cur[d] = x
      BY <2>1, <2>2, <2>3 DEF StreamInv, Live
    <3>2. d = c
      BY <3>1, <2>2 DEF LockInv, Holding, InSend, Waits
    <3> QED
      BY <2>1, <2>2, <3>1, <3>2
  <2>4. CASE ~Clean(stream)
    BY <2>1, <2>2, <2>4 DEF Clean
  <2> QED
    BY <2>3, <2>4
<1>10. ASSUME NEW r \in Requests, Handle(r) \/ Respond(r) PROVE CrossTalkNeedsCancel'
  BY <1>10 DEF Handle, Respond, callVars
<1>11. CASE DaemonExit \/ DaemonStart
  BY <1>11 DEF DaemonExit, DaemonStart, callVars
<1> QED
  BY <1>1, <1>2, <1>5, <1>6, <1>8, <1>9, <1>10, <1>11, <1>12, FailuresGiveUp DEF Next, Client

\* The invariant holds initially.
LEMMA InitMatch == Init => MatchInv
BY InitTypes, CallerAssumption
   DEF Init, MatchInv, ConnInv, LockInv, RequestInv, StreamInv, CrossTalkNeedsCancel, Holding, InSend, Waits, Requests

\* The inductive invariant of the channel: types, connections, lock,
\* requests, the kept connection and the matching of answers.
THEOREM ChannelInvariant == Spec => []MatchInv
<1>1. ASSUME MatchInv, [Next]_vars PROVE MatchInv'
  BY <1>1, NextTypes, LockInductive, ConnInductive, StreamInductive, MatchInductive DEF MatchInv
<1> QED
  BY <1>1, InitMatch, PTL DEF Spec

\* Whatever the callers and the daemon do, the variables of send and of the
\* connections keep their types.
THEOREM TypeCorrect == Spec => []TypeOK
<1>1. MatchInv => TypeOK
  BY DEF MatchInv, TypeOK, LockInv, Holding
<1> QED
  BY <1>1, ChannelInvariant, PTL

\* send never gives a caller the answer to another request on a connection
\* on which no call was cancelled, for any number of callers, timeouts,
\* reconnects and daemon restarts.
THEOREM AnswersMatch == Spec => []CrossTalkNeedsCancel
<1>1. MatchInv => CrossTalkNeedsCancel
  BY DEF MatchInv
<1> QED
  BY <1>1, ChannelInvariant, PTL

\* Between calls the kept connection has nothing under way, unless a call on
\* it was cancelled: this is what makes its reuse by the next caller safe.
THEOREM QuietStream == Spec => []KeptStreamIsQuiet
<1>1. MatchInv => KeptStreamIsQuiet
  BY CallerAssumption DEF MatchInv, KeptStreamIsQuiet, StreamInv, LockInv, Holding, InSend, Waits, Live, Clean
<1> QED
  BY <1>1, ChannelInvariant, PTL

\* A pending request is the one that the holder of the lock waits for, and as
\* long as no call was cancelled a caller is told Ok only after its response
\* was read.
OverlapInv ==
    /\ \A r \in Requests : status[r] = "pending" => \E c \in Callers : Holding(c) /\ cur[c] = r
    /\ cancelled = {} => \A r \in Requests : status[r] = "ok" => phase[r] = "read"

\* A response read on a connection without cancelled calls is the holder's.
LEMMA OwnAnswer ==
    ASSUME MatchInv, cancelled = {}, NEW c \in Callers, pc[c] = "body",
           NEW x \in Requests, where[x] = stream, phase[x] = "answered"
    PROVE  x = cur[c]
<1>1. stream # 0 /\ Clean(stream)
  BY DEF MatchInv, LockInv, Holding, InSend, Waits, Clean
<1>2. PICK d \in Callers : pc[d] \in Waits /\ cur[d] = x
  BY <1>1 DEF MatchInv, StreamInv, Live
<1>3. d = c
  BY <1>2 DEF MatchInv, LockInv, Holding, InSend, Waits
<1> QED
  BY <1>2, <1>3

\* OverlapInv is kept by every step.
LEMMA OverlapInductive ==
    ASSUME MatchInv, OverlapInv, [Next]_vars
    PROVE  OverlapInv'
<1> USE BoundAssumption, CallerAssumption DEF MatchInv, Types, OverlapInv, Holding, InSend
<1>1. CASE UNCHANGED vars
  BY <1>1 DEF vars
<1>2. ASSUME NEW c \in Callers, Call(c) \/ ConnectOk(c) \/ ReadLen(c) PROVE OverlapInv'
  BY <1>2 DEF Call, ConnectOk, ReadLen, wireVars, callVars
<1>3. ASSUME NEW c \in Callers, Lock(c) PROVE OverlapInv'
  <2>1. used + 1 \in Requests /\ mutex = NoOne
    BY <1>3 DEF Lock, Requests
  <2>2. \A r \in Requests : status[r] # "pending"
    BY <2>1 DEF LockInv
  <2> QED
    BY <1>3, <2>1, <2>2 DEF Lock, wireVars
<1>4. ASSUME NEW c \in Callers, GivesUp(c) PROVE OverlapInv'
  <2>1. /\ mutex = c /\ cur[c] \in Requests /\ status' = [status EXCEPT ![cur[c]] = "err"]
        /\ phase' = phase /\ (cancelled' = {} => cancelled = {})
    BY <1>4 DEF GivesUp, Return, LockInv, Requests
  <2>2. \A r \in Requests : status[r] = "pending" => r = cur[c]
    BY <2>1 DEF LockInv
  <2> QED
    BY <2>1, <2>2
<1>9. ASSUME NEW r \in Requests, Misread(r) PROVE OverlapInv'
  BY <1>9, MisreadMoves DEF Moves
<1>5. ASSUME NEW c \in Callers, WriteLen(c) \/ WriteOk(c) PROVE OverlapInv'
  <2>1. cur[c] \in Requests /\ status[cur[c]] = "pending"
    BY <1>5 DEF WriteLen, WriteOk, LockInv, Requests
  <2>2. /\ UNCHANGED <<status, cancelled, cur>> /\ Holding(c)
        /\ \E q \in InSend : pc' = [pc EXCEPT ![c] = q]
        /\ \A r \in Requests : r # cur[c] => phase'[r] = phase[r]
    BY <1>5 DEF WriteLen, WriteOk, callVars
  <2> QED
    BY <2>1, <2>2
<1>6. ASSUME NEW c \in Callers, ReadBody(c) PROVE OverlapInv'
  <2>1. PICK x \in Requests : /\ where[x] = stream /\ phase[x] = "answered"
                              /\ phase' = [phase EXCEPT ![x] = "read"]
                              /\ \E t \in {"ok", "err"} : status' = [status EXCEPT ![cur[c]] = t]
    BY <1>6 DEF ReadBody, IsOldest, On, Return
  <2>2. pc[c] = "body" /\ mutex = c /\ cur[c] \in Requests /\ cancelled' = cancelled
    BY <1>6 DEF ReadBody, LockInv, Requests
  <2>3. cancelled = {} => x = cur[c]
    BY <2>1, <2>2, OwnAnswer
  <2>4. \A r \in Requests : status'[r] # "pending"
    BY <2>1, <2>2 DEF LockInv
  <2> QED
    BY <2>1, <2>2, <2>3, <2>4
<1>7. ASSUME NEW r \in Requests, Handle(r) \/ Respond(r) PROVE OverlapInv'
  <2>1. phase[r] # "read" /\ \A y \in Requests : y # r => phase'[y] = phase[y]
    BY <1>7 DEF Handle, Respond, IsOldest, On
  <2>2. UNCHANGED <<pc, cur, status, cancelled>>
    BY <1>7 DEF Handle, Respond, clientVars, callVars
  <2> QED
    BY <2>1, <2>2
<1>8. CASE DaemonExit \/ DaemonStart
  <2>1. \A r \in Requests : phase[r] = "read" => phase'[r] = "read"
    BY <1>8 DEF DaemonExit, DaemonStart
  <2>2. UNCHANGED <<pc, cur, status, cancelled>>
    BY <1>8 DEF DaemonExit, DaemonStart, clientVars, callVars
  <2> QED
    BY <2>1, <2>2
<1> QED
  BY <1>1, <1>2, <1>3, <1>4, <1>5, <1>6, <1>7, <1>8, <1>9, FailuresGiveUp DEF Next, Client

\* The daemon handles two requests of one client at once only when that client
\* has given up on one of them, as long as no call of it was cancelled.
THEOREM OverlapMeansAbandoned == Spec => []OverlapIsAbandoned
<1>1. Init => OverlapInv
  BY DEF Init, OverlapInv
<1>2. MatchInv /\ OverlapInv => OverlapIsAbandoned
  <2> SUFFICES ASSUME MatchInv, OverlapInv, NEW r \in Requests, NEW x \in Requests, r # x,
                      phase[r] = "handling", phase[x] = "handling", cancelled = {},
                      status[r] # "err", status[x] # "err"
               PROVE  FALSE
    BY DEF OverlapIsAbandoned
  <2>1. status[r] = "pending" /\ status[x] = "pending"
    BY DEF MatchInv, Types, RequestInv, OverlapInv
  <2> QED
    BY <2>1 DEF MatchInv, LockInv, OverlapInv
<1>3. Spec => []MatchInv
  BY ChannelInvariant
<1>4. MatchInv /\ OverlapInv /\ [Next]_vars => OverlapInv'
  BY OverlapInductive
<1> QED
  BY <1>1, <1>2, <1>3, <1>4, PTL DEF Spec

-----------------------------------------------------------------------------
(* IpcChannel implements RpcService when no future is dropped              *)

\* What the daemon has executed, and what a caller was told.
ServiceInv ==
    /\ cancelled = {}
    /\ \A r \in Requests : phase[r] \in {"answered", "read"} => r \in executed
    /\ \A r \in Requests : phase[r] \in {"none", "prefix", "queued", "handling"} => r \notin executed
    /\ \A r \in Requests : status[r] = "ok" => phase[r] = "read"

\* A daemon that exits executes a set of the requests it was handling.
ExitExecutes(S) ==
    /\ S \subseteq {r \in Requests : phase[r] = "handling"}
    /\ executed' = executed \cup S

\* ServiceInv is kept by every step when no future is dropped.
LEMMA ServiceInductive ==
    ASSUME MayCancel = FALSE, MatchInv, MatchInv', ServiceInv, [Next]_vars
    PROVE  ServiceInv'
<1> USE BoundAssumption, CallerAssumption DEF MatchInv, Types, ServiceInv
<1>1. CASE UNCHANGED vars
  BY <1>1 DEF vars
<1>2. ASSUME NEW c \in Callers, Call(c) \/ ConnectOk(c) \/ ReadLen(c) PROVE ServiceInv'
  BY <1>2 DEF Call, ConnectOk, ReadLen, wireVars, callVars
<1>3. ASSUME NEW c \in Callers, Lock(c) PROVE ServiceInv'
  BY <1>3 DEF Lock, wireVars, Requests
<1>5. ASSUME NEW c \in Callers, GivesUp(c), ~Cancel(c), UNCHANGED cancelled PROVE ServiceInv'
  BY <1>5 DEF GivesUp, Return, LockInv, Requests
<1>6. ASSUME NEW c \in Callers, WriteLen(c) PROVE ServiceInv'
  <2>1. cur[c] \in Requests /\ status[cur[c]] = "pending" /\ phase[cur[c]] = "none"
    BY <1>6 DEF WriteLen, LockInv, Holding, InSend, RequestInv, Requests
  <2> QED
    BY <1>6, <2>1 DEF WriteLen, callVars
<1>7. ASSUME NEW c \in Callers, WriteOk(c) PROVE ServiceInv'
  <2>1. cur[c] \in Requests /\ status[cur[c]] = "pending"
    BY <1>7 DEF WriteOk, LockInv, Holding, InSend, Requests
  <2> QED
    BY <1>7, <2>1 DEF WriteOk, callVars
<1>16. ASSUME NEW r \in Requests, Misread(r) PROVE FALSE
  BY <1>16, MisreadMoves
<1>8. ASSUME NEW c \in Callers, ReadBody(c) PROVE ServiceInv'
  <2>1. PICK x \in Requests : /\ where[x] = stream /\ phase[x] = "answered"
                              /\ phase' = [phase EXCEPT ![x] = "read"]
                              /\ \E t \in {"ok", "err"} : status' = [status EXCEPT ![cur[c]] = t]
    BY <1>8 DEF ReadBody, IsOldest, On, Return
  <2>2. x = cur[c]
    BY <1>8, <2>1, OwnAnswer DEF ReadBody
  <2>3. UNCHANGED <<executed, cancelled>>
    BY <1>8 DEF ReadBody
  <2> QED
    BY <2>1, <2>2, <2>3
<1>10. ASSUME NEW r \in Requests, Handle(r) PROVE ServiceInv'
  <2>1. phase[r] = "queued" /\ phase' = [phase EXCEPT ![r] = "handling"]
    BY <1>10 DEF Handle, IsOldest, On
  <2> QED
    BY <1>10, <2>1 DEF Handle, callVars
<1>12. ASSUME NEW r \in Requests, Respond(r) PROVE ServiceInv'
  BY <1>12 DEF Respond
<1>11. CASE DaemonExit
  <2>1. PICK S : ExitExecutes(S)
    BY <1>11 DEF DaemonExit, ExitExecutes
  <2>2. /\ phase' = [r \in Requests |-> IF phase[r] \in {"prefix", "queued", "handling"} THEN "lost" ELSE phase[r]]
        /\ UNCHANGED <<status, cancelled>>
    BY <1>11 DEF DaemonExit
  <2> QED
    BY <2>1, <2>2 DEF ExitExecutes
<1>13. CASE DaemonStart
  BY <1>13 DEF DaemonStart, callVars
<1>14. ASSUME NEW c \in Callers, ConnectFails(c) \/ WriteFails(c) \/ ReadLenTooLarge(c) \/ ReadFails(c)
       PROVE ServiceInv'
  BY <1>14, <1>5, FailuresGiveUp DEF ConnectFails, WriteFails, ReadLenTooLarge, ReadFails, Cancel
<1>15. ASSUME NEW c \in Callers, Cancel(c) PROVE FALSE
  BY <1>15 DEF Cancel
<1> QED
  BY <1>1, <1>2, <1>3, <1>6, <1>7, <1>8, <1>10, <1>11, <1>12, <1>13, <1>14, <1>15, <1>16 DEF Next, Client

\* Every step of the channel is a step of the service or leaves it unchanged.
LEMMA ServiceStep ==
    ASSUME MayCancel = FALSE, MatchInv, ServiceInv, [Next]_vars
    PROVE  [Service!Next]_(Service!svars)
<1> USE BoundAssumption, CallerAssumption DEF MatchInv, Types, ServiceInv
<1>1. CASE UNCHANGED vars
  BY <1>1 DEF vars, Service!svars
<1>2. ASSUME NEW c \in Callers, Call(c) \/ ConnectOk(c) \/ ReadLen(c) \/ WriteLen(c) \/ WriteOk(c)
      PROVE UNCHANGED Service!svars
  BY <1>2 DEF Call, ConnectOk, ReadLen, WriteLen, WriteOk, callVars, Service!svars
<1>3. ASSUME NEW c \in Callers, Lock(c) PROVE Service!Next
  <2>1. used + 1 \in Requests /\ status[used + 1] = "new"
    BY <1>3 DEF Lock, Requests, RequestInv
  <2>2. Service!Invoke(used + 1)
    BY <1>3, <2>1 DEF Lock, Service!Invoke, Service!Return
  <2> QED
    BY <2>1, <2>2 DEF Service!Next
<1>5. ASSUME NEW c \in Callers, GivesUp(c) PROVE Service!Next
  <2>1. cur[c] \in Requests /\ status[cur[c]] = "pending"
    BY <1>5 DEF GivesUp, LockInv, Holding, InSend, Requests
  <2>2. Service!ReturnErr(cur[c])
    BY <1>5, <2>1 DEF GivesUp, Return, Service!ReturnErr, Service!Return
  <2> QED
    BY <2>1, <2>2 DEF Service!Next
<1>8. ASSUME NEW c \in Callers, ReadBody(c) PROVE Service!Next
  <2>1. PICK x \in Requests : /\ where[x] = stream /\ phase[x] = "answered"
                              /\ \/ Return(c, "ok") /\ answer' = [answer EXCEPT ![cur[c]] = x]
                                 \/ Return(c, "err") /\ UNCHANGED answer
    BY <1>8 DEF ReadBody, IsOldest, On
  <2>2. x = cur[c] /\ status[x] = "pending" /\ x \in executed
    BY <1>8, <2>1, OwnAnswer DEF ReadBody, LockInv, Holding, InSend
  <2>3. UNCHANGED executed
    BY <1>8 DEF ReadBody
  <2>4. Service!ReturnOk(x) \/ Service!ReturnErr(x)
    BY <2>1, <2>2, <2>3 DEF Return, Service!ReturnOk, Service!ReturnErr, Service!Return
  <2> QED
    BY <2>4 DEF Service!Next
<1>9. ASSUME NEW r \in Requests, Misread(r) PROVE FALSE
  BY <1>9, MisreadMoves
<1>10. ASSUME NEW r \in Requests, Handle(r) PROVE UNCHANGED Service!svars
  BY <1>10 DEF Handle, callVars, Service!svars
<1>16. ASSUME NEW S, ExitExecutes(S), UNCHANGED <<status, answer>> PROVE Service!Next
  <2>1. S \in SUBSET Requests
    BY <1>16 DEF ExitExecutes
  <2>2. \A r \in S : phase[r] = "handling" /\ status[r] # "new" /\ status[r] # "ok" /\ r \notin executed
    BY <1>16 DEF ExitExecutes, RequestInv
  <2>3. Service!Execute(S)
    BY <1>16, <2>1, <2>2 DEF ExitExecutes, Service!Execute
  <2> QED
    BY <2>1, <2>3 DEF Service!Next
<1>12. ASSUME NEW r \in Requests, Respond(r) PROVE Service!Next
  BY <1>12, <1>16 DEF Respond, ExitExecutes
<1>11. CASE DaemonExit
  BY <1>11, <1>16 DEF DaemonExit, ExitExecutes
<1>13. CASE DaemonStart
  BY <1>13 DEF DaemonStart, callVars, Service!svars
<1> QED
  BY <1>1, <1>2, <1>3, <1>5, <1>8, <1>9, <1>10, <1>11, <1>12, <1>13, FailuresGiveUp DEF Next, Client

\* Without cancellation the channel implements RpcService: every request is
\* executed at most once, and a call returns Ok only with the answer to its
\* own request, after that was executed.
THEOREM ChannelImplementsService == MayCancel = FALSE => (Spec => ImplementsService)
<1>1. Init => Service!Init /\ ServiceInv
  BY DEF Init, Service!Init, ServiceInv
<1>2. SUFFICES ASSUME MayCancel = FALSE PROVE Spec => Service!Spec
  BY <1>2 DEF ImplementsService
<1>3. MatchInv /\ MatchInv' /\ ServiceInv /\ [Next]_vars => ServiceInv'
  BY <1>2, ServiceInductive
<1>4. MatchInv /\ ServiceInv /\ [Next]_vars => [Service!Next]_(Service!svars)
  BY <1>2, ServiceStep
<1> QED
  BY <1>1, <1>3, <1>4, ChannelInvariant, PTL DEF Spec, Service!Spec
=============================================================================
