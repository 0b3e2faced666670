----------------------------- MODULE IpcChannel -----------------------------
(***************************************************************************)
(* One IpcClient and the daemon's side of its connections:                 *)
(* IpcClient::send (daemon/client.rs), which shares one TCP connection     *)
(* among all callers of that client under a tokio Mutex, and               *)
(* handle_connection (daemon/mod.rs), one task per connection, which reads *)
(* a request, handles it and writes the response.                          *)
(*                                                                         *)
(* A process has several clients (the SpaceManager's, GLOBAL_IPC, the log  *)
(* thread's, one-shot connections of send_sync), each with a connection    *)
(* and a Mutex of its own.  They share nothing but the daemon, whose       *)
(* handlers overlap freely in EasyTierDaemon; everything said here is said *)
(* of the requests of one client.                                          *)
(*                                                                         *)
(* Messages carry no id: a response is matched to a request only by its    *)
(* place on the connection.  Requests are numbered in the order in which   *)
(* their callers get the lock, so the bytes on a connection are in the     *)
(* order of the numbers.                                                   *)
(***************************************************************************)
EXTENDS Naturals, FiniteSets

CONSTANTS Callers,    \* tasks that call send of this client
          NoOne,      \* the Mutex is free
          MaxReq,     \* bound: requests in a behaviour
          MaxConn,    \* bound: connections in a behaviour
          MayCancel   \* callers are axum handlers, which hyper drops when
                      \* their HTTP client goes away

ASSUME BoundAssumption == MaxReq \in Nat /\ MaxConn \in Nat
ASSUME CallerAssumption == NoOne \notin Callers
ASSUME CancelAssumption == MayCancel \in BOOLEAN

Requests == 1..MaxReq

VARIABLES mutex,      \* who holds IpcClient.stream's lock
          pc,         \* where each caller is in send
          cur,        \* the request of the call in progress; 0 for none
          used,       \* requests numbered so far
          stream,     \* the shared connection; 0 is None
          conns,      \* connections opened so far
          alive,      \* connections the daemon serves
          half,       \* connections whose next response has lost its length prefix
          where,      \* the connection a request was written to; 0 for none
          phase,      \* where a request, then its response, is
          daemonUp,
          status, executed, answer,   \* the calls, as RpcService sees them
          cancelled   \* ghost: requests whose future was dropped

clientVars == <<mutex, pc, cur, used, stream>>
wireVars == <<conns, alive, half, where, phase, daemonUp>>
callVars == <<status, executed, answer, cancelled>>
vars == <<mutex, pc, cur, used, stream, conns, alive, half, where, phase, daemonUp,
          status, executed, answer, cancelled>>

Init == /\ mutex = NoOne
        /\ pc = [c \in Callers |-> "idle"] /\ cur = [c \in Callers |-> 0]
        /\ used = 0 /\ stream = 0 /\ conns = 0
        /\ alive = {} /\ half = {}
        /\ where = [r \in Requests |-> 0]
        /\ phase = [r \in Requests |-> "none"]
        /\ daemonUp = TRUE
        /\ status = [r \in Requests |-> "new"]
        /\ executed = {}
        /\ answer = [r \in Requests |-> 0]
        /\ cancelled = {}

On(k, p) == {r \in Requests : where[r] = k /\ phase[r] = p}
IsOldest(r, S) == r \in S /\ \A x \in S : r <= x

\* No request before r on its connection was left without its body.
Framed(r) == \A p \in On(where[r], "prefix") : r < p

InSend == {"locked", "writing", "len", "body"}

-----------------------------------------------------------------------------
(* IpcClient::send                                                         *)

Call(c) ==
    /\ pc[c] = "idle" /\ used + Cardinality({d \in Callers : pc[d] = "waiting"}) < MaxReq
    /\ pc' = [pc EXCEPT ![c] = "waiting"]
    /\ UNCHANGED <<mutex, cur, used, stream>> /\ UNCHANGED wireVars /\ UNCHANGED callVars

\* Mutant: the stream is shared without its Mutex.
LockFree(c) ==
    /\ pc[c] = "waiting" /\ used < MaxReq
    /\ mutex' = c
    /\ used' = used + 1
    /\ cur' = [cur EXCEPT ![c] = used + 1]
    /\ pc' = [pc EXCEPT ![c] = "locked"]
    /\ status' = [status EXCEPT ![used + 1] = "pending"]
    /\ UNCHANGED stream /\ UNCHANGED wireVars /\ UNCHANGED <<executed, answer, cancelled>>

Lock(c) ==
    /\ pc[c] = "waiting" /\ mutex = NoOne /\ used < MaxReq
    /\ mutex' = c
    /\ used' = used + 1
    /\ cur' = [cur EXCEPT ![c] = used + 1]
    /\ pc' = [pc EXCEPT ![c] = "locked"]
    /\ status' = [status EXCEPT ![used + 1] = "pending"]
    /\ UNCHANGED stream /\ UNCHANGED wireVars /\ UNCHANGED <<executed, answer, cancelled>>

\* send returns and its guard is dropped.
Return(c, s) ==
    /\ mutex' = NoOne
    /\ pc' = [pc EXCEPT ![c] = "idle"]
    /\ cur' = [cur EXCEPT ![c] = 0]
    /\ status' = [status EXCEPT ![cur[c]] = s]
    /\ UNCHANGED used

ConnectOk(c) ==
    /\ pc[c] = "locked" /\ stream = 0 /\ daemonUp /\ conns < MaxConn
    /\ stream' = conns + 1 /\ conns' = conns + 1
    /\ alive' = alive \cup {conns + 1}
    /\ UNCHANGED <<mutex, pc, cur, used, half, where, phase, daemonUp>> /\ UNCHANGED callVars

\* Refused, or not accepted within 5 s.
ConnectFails(c) ==
    /\ pc[c] = "locked" /\ stream = 0
    /\ Return(c, "err")
    /\ UNCHANGED stream /\ UNCHANGED wireVars /\ UNCHANGED <<executed, answer, cancelled>>

\* The length, then the content, each with an await of its own.  A write to a
\* connection whose peer has died may succeed locally.
WriteLen(c) ==
    /\ pc[c] = "locked" /\ stream # 0
    /\ where' = [where EXCEPT ![cur[c]] = stream]
    /\ phase' = [phase EXCEPT ![cur[c]] = IF stream \in alive THEN "prefix" ELSE "lost"]
    /\ pc' = [pc EXCEPT ![c] = "writing"]
    /\ UNCHANGED <<mutex, cur, used, stream, conns, alive, half, daemonUp>> /\ UNCHANGED callVars

WriteOk(c) ==
    /\ pc[c] = "writing"
    /\ phase' = [phase EXCEPT ![cur[c]] = IF @ = "prefix" THEN "queued" ELSE "lost"]
    /\ pc' = [pc EXCEPT ![c] = "len"]
    /\ UNCHANGED <<mutex, cur, used, stream, conns, alive, half, where, daemonUp>>
    /\ UNCHANGED callVars

WriteFails(c) ==
    /\ pc[c] \in {"locked", "writing"} /\ stream # 0
    /\ stream' = 0
    /\ Return(c, "err")
    /\ UNCHANGED wireVars /\ UNCHANGED <<executed, answer, cancelled>>

\* Four bytes: the prefix of the oldest unread response.
ReadLen(c) ==
    /\ pc[c] = "len" /\ stream \notin half /\ On(stream, "answered") # {}
    /\ half' = half \cup {stream}
    /\ pc' = [pc EXCEPT ![c] = "body"]
    /\ UNCHANGED <<mutex, cur, used, stream, conns, alive, where, phase, daemonUp>>
    /\ UNCHANGED callVars

\* Four bytes of JSON text taken for a length exceed 10 MB.
ReadLenTooLarge(c) ==
    /\ pc[c] = "len" /\ stream \in half
    /\ stream' = 0
    /\ Return(c, "err")
    /\ UNCHANGED wireVars /\ UNCHANGED <<executed, answer, cancelled>>

\* The body of the oldest unread response is the answer, whosever it is; one
\* that cannot be deserialised is an Err on a connection that is kept.
ReadBody(c) ==
    /\ pc[c] = "body"
    /\ \E x \in Requests :
         /\ IsOldest(x, On(stream, "answered"))
         /\ phase' = [phase EXCEPT ![x] = "read"]
         /\ \/ Return(c, "ok") /\ answer' = [answer EXCEPT ![cur[c]] = x]
            \/ Return(c, "err") /\ UNCHANGED answer
    /\ half' = half \ {stream}
    /\ UNCHANGED <<stream, conns, alive, where, daemonUp, executed, cancelled>>

\* Mutant: the connection is kept after a timeout.
ReadFailsKeeping(c) ==
    /\ pc[c] \in {"len", "body"}
    /\ Return(c, "err")
    /\ UNCHANGED stream /\ UNCHANGED wireVars /\ UNCHANGED <<executed, answer, cancelled>>

\* Mutant: reads without a timeout fail only when the peer is gone.
ReadFailsClosed(c) ==
    /\ pc[c] \in {"len", "body"} /\ stream \notin alive
    /\ stream' = 0
    /\ Return(c, "err")
    /\ UNCHANGED wireVars /\ UNCHANGED <<executed, answer, cancelled>>

\* A read fails, or 30 s pass: the connection is dropped, the request is not.
ReadFails(c) ==
    /\ pc[c] \in {"len", "body"}
    /\ stream' = 0
    /\ Return(c, "err")
    /\ UNCHANGED wireVars /\ UNCHANGED <<executed, answer, cancelled>>

\* The future is dropped at an await: the guard is released and the
\* connection stays as it is.
Cancel(c) ==
    /\ MayCancel /\ pc[c] \in InSend
    /\ Return(c, "err")
    /\ cancelled' = cancelled \cup {cur[c]}
    /\ UNCHANGED stream /\ UNCHANGED wireVars /\ UNCHANGED <<executed, answer>>

-----------------------------------------------------------------------------
(* handle_connection                                                       *)

Handle(r) ==
    /\ IsOldest(r, On(where[r], "queued")) /\ On(where[r], "handling") = {} /\ Framed(r)
    /\ phase' = [phase EXCEPT ![r] = "handling"]
    /\ UNCHANGED <<conns, alive, half, where, daemonUp>>
    /\ UNCHANGED clientVars /\ UNCHANGED callVars

\* The length of a cancelled request p takes its content from the requests
\* behind it, the last of which is r.  That is no JSON: it is answered with an
\* error and nothing is executed.  What is left of r may be taken for a length
\* over 10 MB, and the loop ends; else it is still out of step, or in step
\* again.
Misread(r) ==
    /\ phase[r] = "queued" /\ On(where[r], "handling") = {}
    /\ \E p \in cancelled, after \in {"prefix", "lost"}, closed \in SUBSET {where[r]} :
         /\ p \in On(where[r], "prefix") /\ p < r
         /\ alive' = alive \ closed
         /\ phase' = [x \in Requests |->
                 CASE x = r -> "answered"
                   [] x = p -> after
                   [] x \notin {p, r} /\ where[x] = where[r] /\ phase[x] = "queued"
                        /\ (x < r \/ closed # {}) -> "lost"
                   [] OTHER -> phase[x]]
    /\ UNCHANGED <<conns, half, where, daemonUp>>
    /\ UNCHANGED clientVars /\ UNCHANGED callVars

\* handle_request has had its effect and send_response has written.
Respond(r) ==
    /\ phase[r] = "handling"
    /\ phase' = [phase EXCEPT ![r] = "answered"]
    /\ executed' = executed \cup {r}
    /\ UNCHANGED <<conns, alive, half, where, daemonUp>>
    /\ UNCHANGED clientVars /\ UNCHANGED <<status, answer, cancelled>>

\* The process ends at any moment: what it has not answered is lost, and a
\* request in progress may have been executed.
DaemonExit ==
    /\ daemonUp
    /\ daemonUp' = FALSE /\ alive' = {}
    /\ \E S \in SUBSET {r \in Requests : phase[r] = "handling"} : executed' = executed \cup S
    /\ phase' = [r \in Requests |-> IF phase[r] \in {"prefix", "queued", "handling"} THEN "lost" ELSE phase[r]]
    /\ UNCHANGED <<conns, half, where>> /\ UNCHANGED clientVars /\ UNCHANGED <<status, answer, cancelled>>

DaemonStart ==
    /\ ~daemonUp /\ daemonUp' = TRUE
    /\ UNCHANGED <<conns, alive, half, where, phase>> /\ UNCHANGED clientVars /\ UNCHANGED callVars

Client(c) == \/ Lock(c) \/ ConnectOk(c) \/ ConnectFails(c) \/ WriteLen(c) \/ WriteOk(c)
             \/ WriteFails(c) \/ ReadLen(c) \/ ReadLenTooLarge(c) \/ ReadBody(c) \/ ReadFails(c)

Next == \/ \E c \in Callers : Call(c) \/ Client(c) \/ Cancel(c)
        \/ \E r \in Requests : Handle(r) \/ Misread(r) \/ Respond(r)
        \/ DaemonExit \/ DaemonStart

(***************************************************************************)
(* Every await of send ends and the Mutex is FIFO: the connect and the     *)
(* reads carry timers, and a write of a request goes to the buffer of a    *)
(* local socket that holds no other unread request.  Nothing is assumed of *)
(* the daemon: it may hang or die.                                         *)
(***************************************************************************)
Fairness == \A c \in Callers : SF_vars(Lock(c)) /\ WF_vars(Client(c))

Spec == Init /\ [][Next]_vars /\ Fairness

-----------------------------------------------------------------------------
Phases == {"none", "prefix", "queued", "handling", "answered", "read", "lost"}

Types ==
    /\ mutex \in {NoOne} \cup Callers
    /\ pc \in [Callers -> {"idle", "waiting"} \cup InSend]
    /\ cur \in [Callers -> {0} \cup Requests] /\ used \in 0..MaxReq
    /\ conns \in Nat /\ stream \in Nat /\ alive \in SUBSET Nat /\ half \in SUBSET Nat
    /\ where \in [Requests -> Nat]
    /\ phase \in [Requests -> Phases]
    /\ daemonUp \in BOOLEAN
    /\ status \in [Requests -> {"new", "pending", "ok", "err"}]
    /\ executed \in SUBSET Requests
    /\ answer \in [Requests -> {0} \cup Requests]
    /\ cancelled \in SUBSET Requests

\* Every variable holds what the code can store in it, and whoever is inside
\* send, and nobody else, holds its Mutex.
TypeOK == Types /\ \A c \in Callers : mutex = c <=> pc[c] \in InSend

\* A caller is given another request's answer only on a connection on which
\* an earlier call was cancelled; timeouts, failed reads, reconnects and
\* daemon restarts never make send mismatch answers.
CrossTalkNeedsCancel ==
    \A r \in Requests : answer[r] \notin {0, r} =>
        \E x \in cancelled : where[x] = where[r]

\* While nobody holds the lock, the connection kept for the next caller has
\* no request or response under way, unless a call on it was cancelled.
KeptStreamIsQuiet ==
    (mutex = NoOne /\ stream # 0 /\ \A x \in cancelled : where[x] # stream) =>
        \A r \in Requests : where[r] = stream =>
            phase[r] \notin {"prefix", "queued", "handling", "answered"}

\* The daemon handles two requests of one client at once only when that client
\* has given up on one of them: its Mutex serialises all others.  Requests of
\* different clients do overlap.  (Once a call has been cancelled, a request
\* may even be answered Ok while it is being handled.)
OverlapIsAbandoned ==
    \A r, x \in Requests :
        (r # x /\ phase[r] = "handling" /\ phase[x] = "handling" /\ cancelled = {})
            => "err" \in {status[r], status[x]}

\* Every call of send returns, even if the daemon hangs or dies, because its
\* reads time out.
CallsReturn == \A c \in Callers : pc[c] # "idle" ~> pc[c] = "idle"

\* The channel implements RpcService when no future is dropped.
Service == INSTANCE RpcService
           WITH Requests <- Requests, status <- status, executed <- executed, answer <- answer
ImplementsService == Service!Spec
=============================================================================
