------------------------- MODULE SpaceSessionProofs -------------------------
(***************************************************************************)
(* TLAPS proofs about SpaceSession: types, that every listener is known,   *)
(* that the daemon's configuration is the saved one, and that a session is *)
(* all there or all gone, for every number of spaces, tasks and commands.  *)
(***************************************************************************)
EXTENDS SpaceSession, TLAPS

OpType == [name : OpNames \cup {"none"}, sp : Spaces \cup {None}, at : OpPlaces,
           todo : SUBSET (Spaces \cup Kinds), cfg : SUBSET Fields, id : Ids \cup {None}]
DiscType == [sp : Spaces \cup {None}, at : DiscPlaces, tries : 0..MaxRetries, cancelled : BOOLEAN]

DbOK == rows \in SUBSET Spaces /\ born \in SUBSET Spaces /\ dbcfg \in [Spaces -> SUBSET Fields]
MemOK == mem \in [Spaces -> {"absent", "Disconnected", "Connected"}]
DaemonOK == run \in SUBSET Spaces /\ listed \in SUBSET Spaces /\ dcfg \in [Spaces -> {None} \cup SUBSET Fields]
SockOK == socks \in SUBSET Socket /\ servers \in [Kinds -> SUBSET Spaces] /\ registry \in SUBSET Spaces
PeerOK ==
    /\ clients \in SUBSET Spaces /\ holder \in Tasks \cup {None}
    /\ token \in [Spaces -> Ids \cup {None}] /\ handle \in [Spaces -> Ids \cup {None}]
SyncOK == sync \in [at : {"rows", "ipc", "each"}, rows : SUBSET Spaces, listed : SUBSET Spaces]
GhostOK == issued \in 0..MaxOps /\ mixed \in SUBSET Spaces /\ apart \in SUBSET Spaces
\* A command is about a space, unless it is list, and has a number.
OpPlace ==
    /\ op \in [Tasks -> OpType]
    /\ \A t \in Tasks : /\ op[t].at \notin {"idle", "rows", "store"} => op[t].sp \in Spaces
                        /\ op[t].at \in {"idle", "rows", "store"} => op[t].sp = None
                        /\ op[t].at # "idle" => op[t].id \in Ids
\* A discover task that was spawned is about a space, and has a retry left
\* while it asks.
DiscPlace ==
    /\ disc \in [Ids -> DiscType]
    /\ \A d \in Ids : /\ disc[d].at # "unborn" => disc[d].sp \in Spaces
                      /\ disc[d].at \in {"check", "ask", "sleep"} => disc[d].tries < MaxRetries
TypeInv == /\ DbOK /\ MemOK /\ DaemonOK /\ SockOK /\ PeerOK /\ SyncOK /\ GhostOK
           /\ OpPlace /\ DiscPlace

\* The calls that were given up; a connect among them is for a space that was
\* created.
LateType == [name : {"connect", "patch", "disconnect"}, sp : Spaces, cfg : SUBSET Fields]
LateOK == late \in SUBSET LateType /\ wedged \in BOOLEAN
LateBorn == \A c \in late : c.name = "connect" => c.sp \in born

\* A step that is neither the late effect of a call nor the wedge.
CoreNext ==
    \/ \E t \in Tasks : Commands(t) \/ Steps(t)
    \/ \E s \in Spaces : FileCommand(s)
    \/ \E s \in Spaces, c \in SUBSET Fields : UpdateSpaceConfig(s, c)
    \/ \E d \in Ids : Discover(d)
    \/ CloseListener
    \/ Sync

Manager(s, k) == [sp |-> s, kind |-> k, owner |-> "manager", live |-> TRUE]
Pending(t, k) == At(t, "insert") /\ IsFirst(k, op[t].todo, ConnectOrder)

\* What is about to be inserted listens, is not yet in the map, and is
\* inserted by one command only.
KnownInv ==
    /\ \A x \in socks : x.owner = "manager" => x.kind \in Kinds
    /\ \A x \in socks : x.owner = "registry" => x.kind = "file"
    /\ ListenersAreKnown
    /\ \A t \in Tasks, k \in Kinds : Pending(t, k) =>
          /\ Manager(op[t].sp, k) \in socks /\ op[t].sp \notin servers[k]
          /\ \A u \in Tasks : Pending(u, k) /\ op[u].sp = op[t].sp => u = t

\* A space that was never created is unknown to the memory and to the daemon,
\* and what runs has a configuration.
BornInv ==
    /\ rows \subseteq born /\ sync.rows \subseteq born
    /\ \A t \in Tasks : /\ At(t, "store") => op[t].todo \cap Spaces \subseteq born
                        /\ op[t].at \in {"config", "send"} => op[t].sp \in born
    /\ \A s \in Spaces \ born : mem[s] = "absent" /\ dcfg[s] = None
    /\ \A s \in run : dcfg[s] # None

\* What a connect would send for the space.
Effective(s) == get_effective_config(dbcfg[s])
Alone(s) == \A t, u \in Tasks : op[t].sp = s /\ op[u].sp = s => t = u

\* Of a space that is not set apart: one command at a time, which sends what is
\* saved; and what the daemon has, with the patch that is under way, is saved.
ApartInv ==
    \A s \in Spaces \ apart :
      /\ Alone(s)
      /\ \A t \in Tasks : At(t, "send") /\ op[t].sp = s => op[t].cfg = Effective(s)
      /\ (s \in rows /\ dcfg[s] # None) =>
           /\ \A t \in Tasks : At(t, "apply") /\ op[t].sp = s => dcfg[s] \cup (op[t].cfg \cap Known) = Effective(s)
           /\ (\A t \in Tasks : ~(At(t, "apply") /\ op[t].sp = s)) => dcfg[s] = Effective(s)

\* The token, the handle, the chat client and the discover task of a space.
Gone(s) == token[s] = None /\ handle[s] = None /\ s \notin clients /\ Unfinished(s) = {}
Tok(s) ==
    \/ token[s] # None /\ handle[s] = token[s] /\ Unfinished(s) \subseteq {token[s]}
    \/ Gone(s)
AllServers(s) == \A k \in Kinds : s \in servers[k]
NoServers(s) == \A k \in Kinds : s \notin servers[k]
Whole(s) ==
    \/ /\ token[s] # None /\ handle[s] = token[s] /\ Unfinished(s) \subseteq {token[s]}
       /\ AllServers(s)
    \/ Gone(s) /\ NoServers(s)

\* What a command that runs alone for its space finds of the session.
Outside == {"row", "config", "ask", "read", "send", "owner", "cancel", "save", "apply"}
Finds(t) ==
    LET s == op[t].sp
        o == op[t]
    IN
    /\ o.at \in Outside => Whole(s)
    /\ o.at = "stop" => Tok(s)
    /\ o.at \in {"bind", "insert"} => Tok(s) /\ \A k \in Kinds \ o.todo : s \in servers[k]
    /\ o.at = "token" => Tok(s) /\ AllServers(s)
    /\ o.at = "handle" => token[s] = o.id /\ Unfinished(s) \subseteq {o.id} /\ AllServers(s)
    /\ o.at = "take" => token[s] = None /\ Unfinished(s) \subseteq {handle[s]}
    /\ o.at = "await" => token[s] = None /\ handle[s] = None /\ Unfinished(s) \subseteq {o.id}
    /\ o.at = "halt" => /\ token[s] = None /\ handle[s] = None /\ Unfinished(s) = {}
                        /\ \A k \in Kinds \ o.todo : s \notin servers[k]
    /\ o.at = "client" => token[s] = None /\ handle[s] = None /\ Unfinished(s) = {} /\ NoServers(s)
    /\ o.at \in {"leave", "unrow", "retain"} => Gone(s) /\ NoServers(s)

\* Of a space whose session is a plain sequence: one command at a time, which
\* finds what the ones before it have left.
MixedInv ==
    \A s \in Spaces \ mixed :
      /\ Alone(s)
      /\ \A t \in Tasks : op[t].sp = s => Finds(t)
      /\ OnSpace(s) = {} => Whole(s)
-----------------------------------------------------------------------------
(* How the operation of a task changes                                     *)

Others(t) == \A u \in Tasks \ {t} : op'[u] = op[u]
\* The task goes on to a with the given list, configuration and number.
GoesTo(t, a, T, c, i) ==
    /\ op' \in [Tasks -> OpType] /\ Others(t)
    /\ op'[t].name = op[t].name /\ op'[t].sp = op[t].sp
    /\ op'[t].at = a /\ op'[t].todo = T /\ op'[t].cfg = c /\ op'[t].id = i
\* The task is told what to do, or is done.
Becomes(t, r) == op' \in [Tasks -> OpType] /\ Others(t) /\ op'[t] = r

\* A task goes on.
LEMMA GotoFacts ==
    ASSUME op \in [Tasks -> OpType], NEW t \in Tasks, NEW a \in OpPlaces, Goto(t, a)
    PROVE  GoesTo(t, a, op[t].todo, op[t].cfg, op[t].id)
BY DEF Goto, GoesTo, Others, OpType

\* A task goes on with another list.
LEMMA TodoFacts ==
    ASSUME op \in [Tasks -> OpType], NEW t \in Tasks, NEW a \in OpPlaces,
           NEW T \in SUBSET (Spaces \cup Kinds), op' = [op EXCEPT ![t].todo = T, ![t].at = a]
    PROVE  GoesTo(t, a, T, op[t].cfg, op[t].id)
BY DEF GoesTo, Others, OpType

\* A task goes on with another configuration.
LEMMA CfgFacts ==
    ASSUME op \in [Tasks -> OpType], NEW t \in Tasks, NEW a \in OpPlaces,
           NEW c \in SUBSET Fields, op' = [op EXCEPT ![t].cfg = c, ![t].at = a]
    PROVE  GoesTo(t, a, op[t].todo, c, op[t].id)
BY DEF GoesTo, Others, OpType

\* A task goes on with another number.
LEMMA IdFacts ==
    ASSUME op \in [Tasks -> OpType], NEW t \in Tasks, NEW a \in OpPlaces,
           NEW i \in Ids, op' = [op EXCEPT ![t].id = i, ![t].at = a]
    PROVE  GoesTo(t, a, op[t].todo, op[t].cfg, i)
BY DEF GoesTo, Others, OpType

\* The next of a list.
LEMMA NextOfList ==
    ASSUME op \in [Tasks -> OpType], NEW t \in Tasks, NEW k \in Kinds, NEW a, At(t, a),
           op' = [op EXCEPT ![t].todo = @ \ {k}]
    PROVE  GoesTo(t, a, op[t].todo \ {k}, op[t].cfg, op[t].id)
BY DEF GoesTo, Others, OpType, At

\* Idle is an operation.
LEMMA IdleFacts ==
    /\ Idle \in OpType /\ Idle.at = "idle" /\ Idle.sp = None /\ Idle.todo = {}
BY DEF Idle, Doing, OpType, OpPlaces

\* A task returns.
LEMMA ReturnFacts ==
    ASSUME op \in [Tasks -> OpType], NEW t \in Tasks, Return(t)
    PROVE  Becomes(t, Idle)
BY IdleFacts DEF Return, Becomes, Others

New(n, s, a) == [Doing(n, s, a) EXCEPT !.id = issued + 1]

\* A command is issued.
LEMMA StartFacts ==
    ASSUME TypeInv, NEW t \in Tasks, NEW n \in OpNames, NEW s \in Spaces \cup {None},
           NEW a \in OpPlaces, Start(t, n, s, a)
    PROVE  /\ Becomes(t, New(n, s, a)) /\ op[t] = Idle
           /\ New(n, s, a).name = n /\ New(n, s, a).sp = s /\ New(n, s, a).at = a
           /\ New(n, s, a).todo = {} /\ New(n, s, a).id \in Ids
           /\ issued' \in 0..MaxOps
           /\ UNCHANGED <<database, mem, daemon, sockets, peers, sync>>
<1>1. issued + 1 \in Ids /\ issued' \in 0..MaxOps
  BY NumbersAssumption DEF TypeInv, GhostOK, Start, Ids
<1>2. Doing(n, s, a) \in OpType /\ Doing(n, s, a).todo = {}
      /\ Doing(n, s, a).name = n /\ Doing(n, s, a).sp = s /\ Doing(n, s, a).at = a
  BY DEF Doing, OpType
<1>3. /\ New(n, s, a) \in OpType
      /\ New(n, s, a).name = n /\ New(n, s, a).sp = s /\ New(n, s, a).at = a
      /\ New(n, s, a).todo = {} /\ New(n, s, a).id \in Ids
  BY <1>1, <1>2 DEF New, OpType
<1>4. op' = [op EXCEPT ![t] = New(n, s, a)]
  BY DEF Start, New
<1> QED
  BY <1>1, <1>3, <1>4 DEF TypeInv, OpPlace, Start, Becomes, Others
-----------------------------------------------------------------------------
(* Types                                                                   *)

\* The type invariant in parts.
LEMMA TypeParts ==
    TypeInv <=> /\ DbOK /\ MemOK /\ DaemonOK /\ SockOK /\ PeerOK /\ SyncOK /\ GhostOK
                /\ OpPlace /\ DiscPlace
BY DEF TypeInv

\* The same after a step.
LEMMA TypePartsNext ==
    TypeInv' <=> /\ DbOK' /\ MemOK' /\ DaemonOK' /\ SockOK' /\ PeerOK' /\ SyncOK' /\ GhostOK'
                 /\ OpPlace' /\ DiscPlace'
BY DEF TypeInv

\* Parts that a step leaves alone.
LEMMA FrameParts ==
    /\ DbOK /\ UNCHANGED database => DbOK'
    /\ MemOK /\ UNCHANGED mem => MemOK'
    /\ DaemonOK /\ UNCHANGED daemon => DaemonOK'
    /\ SockOK /\ UNCHANGED sockets => SockOK'
    /\ PeerOK /\ UNCHANGED <<clients, token, handle, holder>> => PeerOK'
    /\ SyncOK /\ UNCHANGED sync => SyncOK'
    /\ GhostOK /\ UNCHANGED <<issued, mixed, apart>> => GhostOK'
    /\ OpPlace /\ UNCHANGED op => OpPlace'
    /\ DiscPlace /\ UNCHANGED disc => DiscPlace'
BY DEF DbOK, MemOK, DaemonOK, SockOK, PeerOK, SyncOK, GhostOK, OpPlace, DiscPlace,
       database, daemon, sockets

\* A task that goes on keeps its space and its number.
LEMMA GoesPlace ==
    ASSUME OpPlace, NEW t \in Tasks, NEW a, NEW T, NEW c, NEW i \in Ids, GoesTo(t, a, T, c, i),
           op[t].at \notin {"idle", "rows", "store"}, a \notin {"idle", "rows", "store"}
    PROVE  OpPlace'
BY DEF OpPlace, GoesTo, Others

\* A task that returns has neither.
LEMMA IdlePlace ==
    ASSUME OpPlace, NEW t \in Tasks, Becomes(t, Idle)
    PROVE  OpPlace'
BY IdleFacts DEF OpPlace, Becomes, Others

\* A place of the code where a command is about a space.
LEMMA AtPlace ==
    ASSUME TypeInv, NEW t \in Tasks
    PROVE  /\ op \in [Tasks -> OpType] /\ op[t] \in OpType
           /\ op[t].at \notin {"idle", "rows", "store"} => op[t].sp \in Spaces /\ op[t].id \in Ids
BY TypeParts DEF OpPlace

\* A command is issued.
LEMMA StartTypes ==
    ASSUME TypeInv, NEW t \in Tasks, Commands(t)
    PROVE  TypeInv'
<1>1. ASSUME NEW n \in OpNames, NEW s \in Spaces \cup {None}, NEW a \in OpPlaces, Start(t, n, s, a),
             s \in Spaces => a \notin {"idle", "rows", "store"}, s = None => a = "rows"
      PROVE  TypeInv'
  <2>1. /\ Becomes(t, New(n, s, a)) /\ New(n, s, a).sp = s /\ New(n, s, a).at = a
        /\ New(n, s, a).id \in Ids /\ issued' \in 0..MaxOps
        /\ UNCHANGED <<database, mem, daemon, sockets, peers, sync>>
    BY <1>1, StartFacts
  <2>2. OpPlace'
    BY <1>1, <2>1, TypeParts, NoneAssumption DEF OpPlace, Becomes, Others
  <2>3. GhostOK'
    <3>1. mixed' \in SUBSET Spaces /\ apart' \in SUBSET Spaces
      BY <1>1, TypeParts DEF Start, GhostOK, Overlaps
    <3> QED
      BY <2>1, <3>1 DEF GhostOK
  <2> QED
    BY <2>1, <2>2, <2>3, TypeParts, TypePartsNext, FrameParts DEF peers
<1>2. ASSUME NEW s \in Spaces,
             \/ Create(t, s) \/ Connect(t, s) \/ Disconnect(t, s) \/ Delete(t, s) \/ PatchConfig(t, s)
      PROVE  TypeInv'
  <2>1. {"create", "connect", "disconnect", "delete", "patch"} \subseteq OpNames
        /\ {"row", "ask", "cancel", "owner", "save"} \subseteq OpPlaces /\ s # None
    BY NoneAssumption DEF OpNames, OpPlaces
  <2> QED
    BY <1>1, <1>2, <2>1 DEF Create, Connect, Disconnect, Delete, PatchConfig
<1>3. CASE List(t)
  <2>1. "list" \in OpNames /\ "rows" \in OpPlaces /\ None \notin Spaces
    BY NoneAssumption DEF OpNames, OpPlaces
  <2> QED
    BY <1>1, <1>3, <2>1 DEF List
<1> QED
  BY <1>2, <1>3 DEF Commands

\* What a connect without an Ok makes of the daemon: it forgets networks, or it
\* gets a configuration of the space.
LEMMA ConnectTypes ==
    ASSUME DaemonOK, NEW s \in Spaces, NEW c \in SUBSET Fields, ConnectEffect(s, c)
    PROVE  /\ DaemonOK'
           /\ \/ run' \subseteq run /\ UNCHANGED dcfg
              \/ dcfg' = [dcfg EXCEPT ![s] = c] /\ run' \subseteq run \cup {s}
<1>1. CASE run' \in {{}, run} /\ listed' = listed \ {s} /\ UNCHANGED dcfg
  BY <1>1 DEF DaemonOK
<1>2. CASE /\ dcfg' = [dcfg EXCEPT ![s] = c] /\ run' \in {{}, run, {s}, run \cup {s}}
           /\ listed' \in {listed \cup {s}, listed \ {s}}
  <2>1. dcfg' \in [Spaces -> {None} \cup SUBSET Fields]
    BY <1>2 DEF DaemonOK
  <2>2. run' \subseteq run \cup {s} /\ listed' \subseteq listed \cup {s}
    BY <1>2
  <2> QED
    BY <1>2, <2>1, <2>2 DEF DaemonOK
<1> QED
  BY <1>1, <1>2 DEF ConnectEffect

\* What a patch makes of it.
LEMMA PatchTypes ==
    ASSUME DaemonOK, NEW s \in Spaces, NEW f \in SUBSET Fields, PatchEffect(s, f),
           run' \in {run \cup {s}, run \ {s}}
    PROVE  /\ DaemonOK' /\ run' \subseteq run \cup {s} /\ dcfg[s] # None
           /\ dcfg[s] \cup (f \cap Known) \in SUBSET Fields
           /\ dcfg' = [dcfg EXCEPT ![s] = dcfg[s] \cup (f \cap Known)]
<1>1. dcfg[s] # None /\ dcfg' = [dcfg EXCEPT ![s] = dcfg[s] \cup (f \cap Known)] /\ listed' = listed \cup {s}
  BY DEF PatchEffect
<1>2. dcfg[s] \cup (f \cap Known) \in SUBSET Fields
  BY <1>1 DEF DaemonOK
<1>3. dcfg' \in [Spaces -> {None} \cup SUBSET Fields]
  BY <1>1, <1>2 DEF DaemonOK
<1>4. run' \subseteq run \cup {s} /\ run' \in SUBSET Spaces /\ listed' \in SUBSET Spaces
  BY <1>1 DEF DaemonOK
<1> QED
  BY <1>1, <1>2, <1>3, <1>4 DEF DaemonOK

\* Steps that change neither the servers nor the peers.
LEMMA QuietTypes ==
    ASSUME TypeInv, NEW t \in Tasks,
           \/ Fail(t) \/ InsertRow(t) \/ PushSpace(t) \/ CheckOwner(t) \/ DeleteRow(t) \/ Retain(t)
           \/ ListRows(t) \/ ListStore(t) \/ ClearOthers(t) \/ ReadConfig(t) \/ SendOk(t) \/ SendFails(t)
           \/ Leave(t) \/ SavePatch(t) \/ ApplyPatch(t) \/ PatchFails(t)
    PROVE  TypeInv'
<1>0. /\ op \in [Tasks -> OpType] /\ OpPlace
      /\ op[t].at \notin {"idle", "rows", "store"} => op[t].sp \in Spaces /\ op[t].id \in Ids
      /\ op[t].todo \in SUBSET (Spaces \cup Kinds) /\ op[t].cfg \in SUBSET Fields
  BY AtPlace, TypeParts DEF OpType
<1>1. CASE Fail(t)
  <2>1. Return(t) /\ UNCHANGED <<database, mem, daemon, sockets, peers, sync, issued, mixed, apart>>
    BY <1>1 DEF Fail, Finish
  <2> QED
    BY <1>0, <2>1, ReturnFacts, IdlePlace, TypeParts, TypePartsNext, FrameParts DEF peers
<1>2. CASE InsertRow(t)
  <2>1. At(t, "row") /\ Goto(t, "config") /\ "config" \in OpPlaces
    BY <1>2 DEF InsertRow, OpPlaces
  <2>2. OpPlace'
    BY <1>0, <2>1, GotoFacts, GoesPlace DEF At
  <2>3. DbOK'
    BY <1>0, <1>2, TypeParts DEF InsertRow, DbOK, At
  <2> QED
    BY <1>2, <2>2, <2>3, TypeParts, TypePartsNext, FrameParts DEF InsertRow, peers
<1>3. CASE PushSpace(t) \/ Retain(t)
  <2>1. Return(t) /\ UNCHANGED <<database, daemon, sockets, peers, sync, issued, mixed, apart>>
    BY <1>3 DEF PushSpace, Retain
  <2>2. MemOK'
    BY <1>3, TypeParts DEF PushSpace, Retain, MemOK
  <2> QED
    BY <1>0, <2>1, <2>2, ReturnFacts, IdlePlace, TypeParts, TypePartsNext, FrameParts DEF peers
<1>4. CASE CheckOwner(t)
  <2>1. At(t, "owner") /\ Goto(t, "cancel") /\ "cancel" \in OpPlaces
    BY <1>4 DEF CheckOwner, OpPlaces
  <2>2. OpPlace'
    BY <1>0, <2>1, GotoFacts, GoesPlace DEF At
  <2> QED
    BY <1>4, <2>2, TypeParts, TypePartsNext, FrameParts DEF CheckOwner, peers
<1>5. CASE DeleteRow(t)
  <2>1. At(t, "unrow") /\ Goto(t, "retain") /\ "retain" \in OpPlaces
    BY <1>5 DEF DeleteRow, OpPlaces
  <2>2. OpPlace'
    BY <1>0, <2>1, GotoFacts, GoesPlace DEF At
  <2>3. DbOK'
    BY <1>0, <1>5, TypeParts DEF DeleteRow, DbOK
  <2> QED
    BY <1>5, <2>2, <2>3, TypeParts, TypePartsNext, FrameParts DEF DeleteRow, peers
<1>6. CASE ListRows(t)
  <2>1. /\ At(t, "rows") /\ op' = [op EXCEPT ![t].todo = rows, ![t].at = "store"] /\ "store" \in OpPlaces
        /\ rows \in SUBSET (Spaces \cup Kinds)
    BY <1>6, TypeParts DEF ListRows, OpPlaces, DbOK
  <2>2. GoesTo(t, "store", rows, op[t].cfg, op[t].id)
    BY <1>0, <2>1, TodoFacts
  <2>3. OpPlace'
    BY <1>0, <2>1, <2>2 DEF OpPlace, GoesTo, Others, At
  <2> QED
    BY <1>6, <2>3, TypeParts, TypePartsNext, FrameParts DEF ListRows, peers
<1>7. CASE ListStore(t)
  <2>1. Return(t) /\ UNCHANGED <<database, daemon, sockets, peers, sync, issued, mixed, apart>>
    BY <1>7 DEF ListStore
  <2>2. MemOK'
    BY <1>7 DEF ListStore, MemOK, ListedSpaces
  <2> QED
    BY <1>0, <2>1, <2>2, ReturnFacts, IdlePlace, TypeParts, TypePartsNext, FrameParts DEF peers
<1>8. CASE ClearOthers(t)
  <2>1. At(t, "ask") /\ Goto(t, "read") /\ "read" \in OpPlaces
    BY <1>8 DEF ClearOthers, OpPlaces
  <2>2. OpPlace'
    BY <1>0, <2>1, GotoFacts, GoesPlace DEF At
  <2>3. DaemonOK'
    BY <1>8, TypeParts DEF ClearOthers, DaemonOK
  <2> QED
    BY <1>8, <2>2, <2>3, TypeParts, TypePartsNext, FrameParts DEF ClearOthers, peers
<1>9. CASE ReadConfig(t)
  <2> DEFINE g == get_effective_config(dbcfg[op[t].sp])
  <2>1. At(t, "read") /\ op' = [op EXCEPT ![t].cfg = g, ![t].at = "send"] /\ "send" \in OpPlaces
    BY <1>9 DEF ReadConfig, OpPlaces
  <2>2. g \in SUBSET Fields
    BY <1>0, <2>1, TypeParts DEF DbOK, At, get_effective_config
  <2> HIDE DEF g
  <2>3. GoesTo(t, "send", op[t].todo, g, op[t].id)
    BY <1>0, <2>1, <2>2, CfgFacts
  <2>4. OpPlace'
    BY <1>0, <2>1, <2>3, GoesPlace DEF At
  <2> QED
    BY <1>9, <2>4, TypeParts, TypePartsNext, FrameParts DEF ReadConfig, peers
<1>10. CASE SendOk(t)
  <2>1. /\ At(t, "send") /\ op' = [op EXCEPT ![t].todo = Kinds, ![t].at = "stop"]
        /\ "stop" \in OpPlaces /\ Kinds \in SUBSET (Spaces \cup Kinds)
    BY <1>10 DEF SendOk, OpPlaces
  <2>2. GoesTo(t, "stop", Kinds, op[t].cfg, op[t].id)
    BY <1>0, <2>1, TodoFacts
  <2>3. OpPlace'
    BY <1>0, <2>1, <2>2, GoesPlace DEF At
  <2>4. DaemonOK' /\ GhostOK'
    <3>1. op[t].sp \in Spaces /\ dcfg' = [dcfg EXCEPT ![op[t].sp] = op[t].cfg]
          /\ listed' = listed \ {op[t].sp} /\ run' \in {{op[t].sp}, run \cup {op[t].sp}}
          /\ apart' \in {apart, apart \ {op[t].sp}} /\ UNCHANGED <<issued, mixed>>
      BY <1>0, <1>10 DEF SendOk, At
    <3>2. DaemonOK'
      BY <1>0, <3>1, TypeParts DEF DaemonOK
    <3> QED
      BY <3>1, <3>2, TypeParts DEF GhostOK
  <2> QED
    BY <1>10, <2>3, <2>4, TypeParts, TypePartsNext, FrameParts DEF SendOk, peers
<1>11. CASE SendFails(t) \/ PatchFails(t)
  <2>1. op[t].sp \in Spaces /\ Return(t) /\ UNCHANGED <<database, mem, sockets, peers, sync, issued, mixed>>
    BY <1>0, <1>11 DEF SendFails, PatchFails, At
  <2>2. GhostOK'
    BY <1>11, <2>1, TypeParts DEF SendFails, PatchFails, GhostOK
  <2>3. DaemonOK'
    <3>1. CASE UNCHANGED daemon
      BY <3>1, TypeParts, FrameParts
    <3>2. CASE ConnectEffect(op[t].sp, op[t].cfg)
      BY <1>0, <2>1, <3>2, ConnectTypes, TypeParts
    <3>3. CASE PatchEffect(op[t].sp, op[t].cfg) /\ run' \in {run \cup {op[t].sp}, run \ {op[t].sp}}
      BY <1>0, <2>1, <3>3, PatchTypes, TypeParts
    <3> QED
      BY <1>11, <3>1, <3>2, <3>3 DEF SendFails, PatchFails
  <2> QED
    BY <1>0, <2>1, <2>2, <2>3, ReturnFacts, IdlePlace, TypeParts, TypePartsNext, FrameParts DEF peers
<1>12. CASE Leave(t)
  <2>1. At(t, "leave") /\ (Goto(t, "unrow") \/ Return(t)) /\ "unrow" \in OpPlaces
    BY <1>12 DEF Leave, OpPlaces
  <2>2. OpPlace'
    BY <1>0, <2>1, GotoFacts, GoesPlace, ReturnFacts, IdlePlace DEF At
  <2>3. DaemonOK'
    BY <1>12, TypeParts DEF Leave, DaemonOK
  <2> QED
    BY <1>12, <2>2, <2>3, TypeParts, TypePartsNext, FrameParts DEF Leave, peers
<1>13. CASE SavePatch(t)
  <2>1. PICK f \in SUBSET Fields :
          /\ op' = [op EXCEPT ![t].cfg = f, ![t].at = "apply"]
          /\ \/ dbcfg' = [dbcfg EXCEPT ![op[t].sp] = @ \cup f]
             \/ UNCHANGED dbcfg
          /\ apart' \in {apart, apart \cup {op[t].sp}}
    BY <1>13 DEF SavePatch
  <2>2. At(t, "save") /\ op[t].sp \in Spaces /\ "apply" \in OpPlaces
        /\ UNCHANGED <<rows, born, mem, daemon, sockets, peers, sync, issued, mixed>>
    BY <1>0, <1>13 DEF SavePatch, OpPlaces, At
  <2>3. GoesTo(t, "apply", op[t].todo, f, op[t].id)
    BY <1>0, <2>1, <2>2, CfgFacts
  <2>4. OpPlace'
    BY <1>0, <2>2, <2>3, GoesPlace DEF At
  <2>5. DbOK' /\ GhostOK'
    BY <2>1, <2>2, TypeParts DEF DbOK, GhostOK
  <2> QED
    BY <2>2, <2>4, <2>5, TypeParts, TypePartsNext, FrameParts DEF peers
<1>14. CASE ApplyPatch(t)
  <2>1. op[t].sp \in Spaces /\ Return(t) /\ UNCHANGED <<database, mem, sockets, peers, sync, issued, mixed, apart>>
    BY <1>0, <1>14 DEF ApplyPatch, At
  <2>2. DaemonOK'
    BY <1>0, <1>14, <2>1, TypeParts, PatchTypes DEF ApplyPatch
  <2> QED
    BY <1>0, <2>1, <2>2, ReturnFacts, IdlePlace, TypeParts, TypePartsNext, FrameParts DEF peers
<1> QED
  BY <1>1, <1>2, <1>3, <1>4, <1>5, <1>6, <1>7, <1>8, <1>9, <1>10, <1>11, <1>12, <1>13, <1>14
-----------------------------------------------------------------------------
(* What the steps on servers and discover tasks do                         *)

\* connect stops an old server and goes on to the next, or to the first bind.
LEMMA StopOldFacts ==
    ASSUME TypeInv, NEW t \in Tasks, StopOld(t)
    PROVE  /\ At(t, "stop") /\ UNCHANGED <<database, mem, daemon, peers, sync, issued, mixed, apart>>
           /\ \E k \in Kinds : /\ IsFirst(k, op[t].todo, ConnectOrder) /\ StopServer(op[t].sp, k)
                               /\ \/ GoesTo(t, "bind", Kinds, op[t].cfg, op[t].id)
                                  \/ GoesTo(t, "stop", op[t].todo \ {k}, op[t].cfg, op[t].id)
<1>1. PICK k \in Kinds :
        /\ IsFirst(k, op[t].todo, ConnectOrder) /\ StopServer(op[t].sp, k)
        /\ op' = IF op[t].todo = {k} THEN [op EXCEPT ![t].todo = Kinds, ![t].at = "bind"]
                 ELSE [op EXCEPT ![t].todo = @ \ {k}]
  BY DEF StopOld
<1>2. At(t, "stop") /\ op \in [Tasks -> OpType] /\ "bind" \in OpPlaces /\ Kinds \in SUBSET (Spaces \cup Kinds)
  BY AtPlace DEF StopOld, OpPlaces
<1>3. \/ GoesTo(t, "bind", Kinds, op[t].cfg, op[t].id)
      \/ GoesTo(t, "stop", op[t].todo \ {k}, op[t].cfg, op[t].id)
  BY <1>1, <1>2, TodoFacts, NextOfList
<1> QED
  BY <1>1, <1>2, <1>3 DEF StopOld

\* disconnect stops a server and goes on to the next, or to the chat client.
LEMMA HaltFacts ==
    ASSUME TypeInv, NEW t \in Tasks, HaltServer(t)
    PROVE  /\ At(t, "halt") /\ UNCHANGED <<database, mem, daemon, peers, sync, issued, mixed, apart>>
           /\ \E k \in Kinds : /\ IsFirst(k, op[t].todo, DisconnectOrder) /\ StopServer(op[t].sp, k)
                               /\ \/ op[t].todo = {k} /\ GoesTo(t, "client", {}, op[t].cfg, op[t].id)
                                  \/ GoesTo(t, "halt", op[t].todo \ {k}, op[t].cfg, op[t].id)
<1>1. PICK k \in Kinds :
        /\ IsFirst(k, op[t].todo, DisconnectOrder) /\ StopServer(op[t].sp, k)
        /\ op' = IF op[t].todo = {k} THEN [op EXCEPT ![t].todo = {}, ![t].at = "client"]
                 ELSE [op EXCEPT ![t].todo = @ \ {k}]
  BY DEF HaltServer
<1>2. At(t, "halt") /\ op \in [Tasks -> OpType] /\ "client" \in OpPlaces /\ {} \in SUBSET (Spaces \cup Kinds)
  BY AtPlace DEF HaltServer, OpPlaces
<1>3. \/ op[t].todo = {k} /\ GoesTo(t, "client", {}, op[t].cfg, op[t].id)
      \/ GoesTo(t, "halt", op[t].todo \ {k}, op[t].cfg, op[t].id)
  BY <1>1, <1>2, TodoFacts, NextOfList
<1> QED
  BY <1>1, <1>2, <1>3 DEF HaltServer

\* connect puts the server it has bound into its map.
LEMMA InsertFacts ==
    ASSUME TypeInv, NEW t \in Tasks, InsertServer(t)
    PROVE  /\ At(t, "insert")
           /\ UNCHANGED <<socks, registry, database, mem, daemon, peers, sync, issued, mixed, apart>>
           /\ \E k \in Kinds : /\ IsFirst(k, op[t].todo, ConnectOrder)
                               /\ servers' = [servers EXCEPT ![k] = @ \cup {op[t].sp}]
                               /\ \/ op[t].todo = {k} /\ GoesTo(t, "token", {}, op[t].cfg, op[t].id)
                                  \/ GoesTo(t, "bind", op[t].todo \ {k}, op[t].cfg, op[t].id)
<1>1. PICK k \in Kinds :
        /\ IsFirst(k, op[t].todo, ConnectOrder)
        /\ servers' = [servers EXCEPT ![k] = @ \cup {op[t].sp}]
        /\ op' = IF op[t].todo = {k} THEN [op EXCEPT ![t].todo = {}, ![t].at = "token"]
                 ELSE [op EXCEPT ![t].todo = @ \ {k}, ![t].at = "bind"]
  BY DEF InsertServer
<1>2. /\ At(t, "insert") /\ op \in [Tasks -> OpType] /\ "token" \in OpPlaces /\ "bind" \in OpPlaces
      /\ {} \in SUBSET (Spaces \cup Kinds) /\ op[t].todo \ {k} \in SUBSET (Spaces \cup Kinds)
  BY AtPlace DEF InsertServer, OpPlaces, OpType
<1>3. CASE op[t].todo = {k}
  <2>1. op' = [op EXCEPT ![t].todo = {}, ![t].at = "token"]
    BY <1>1, <1>3
  <2>2. GoesTo(t, "token", {}, op[t].cfg, op[t].id)
    BY <1>2, <2>1, TodoFacts
  <2> QED
    BY <1>1, <1>2, <1>3, <2>2 DEF InsertServer
<1>4. CASE op[t].todo # {k}
  <2>1. op' = [op EXCEPT ![t].todo = op[t].todo \ {k}, ![t].at = "bind"]
    BY <1>1, <1>4
  <2>2. GoesTo(t, "bind", op[t].todo \ {k}, op[t].cfg, op[t].id)
    BY <1>2, <2>1, TodoFacts
  <2> QED
    BY <1>1, <1>2, <2>2 DEF InsertServer
<1> QED
  BY <1>3, <1>4

\* disconnect takes the handle, and waits if there was one.
LEMMA TakeFacts ==
    ASSUME TypeInv, NEW t \in Tasks, TakeHandle(t)
    PROVE  /\ At(t, "take") /\ handle' = [handle EXCEPT ![op[t].sp] = None]
           /\ UNCHANGED <<clients, token, disc, database, mem, daemon, sockets, sync, issued, mixed, apart>>
           /\ \/ /\ handle[op[t].sp] = None /\ GoesTo(t, "halt", Kinds, op[t].cfg, op[t].id)
                 /\ UNCHANGED holder
              \/ /\ handle[op[t].sp] \in Ids /\ GoesTo(t, "await", op[t].todo, op[t].cfg, handle[op[t].sp])
                 /\ holder' = t
<1>1. /\ At(t, "take") /\ op \in [Tasks -> OpType] /\ "halt" \in OpPlaces /\ "await" \in OpPlaces
      /\ Kinds \in SUBSET (Spaces \cup Kinds)
  BY AtPlace DEF TakeHandle, OpPlaces
<1>2. op[t].sp \in Spaces /\ handle[op[t].sp] \in Ids \cup {None}
  BY <1>1, AtPlace, TypeParts DEF At, PeerOK
<1>3. CASE handle[op[t].sp] = None
  <2>1. op' = [op EXCEPT ![t].todo = Kinds, ![t].at = "halt"]
    BY <1>3 DEF TakeHandle
  <2>2. GoesTo(t, "halt", Kinds, op[t].cfg, op[t].id)
    BY <1>1, <2>1, TodoFacts
  <2> QED
    BY <1>1, <1>3, <2>2 DEF TakeHandle
<1>4. CASE handle[op[t].sp] # None
  <2>1. op' = [op EXCEPT ![t].id = handle[op[t].sp], ![t].at = "await"] /\ handle[op[t].sp] \in Ids
    BY <1>2, <1>4 DEF TakeHandle
  <2>2. GoesTo(t, "await", op[t].todo, op[t].cfg, handle[op[t].sp])
    BY <1>1, <2>1, IdFacts
  <2> QED
    BY <1>1, <1>4, <2>1, <2>2 DEF TakeHandle
<1> QED
  BY <1>3, <1>4

\* The task it waited for is done.
LEMMA AwaitFacts ==
    ASSUME TypeInv, NEW t \in Tasks, AwaitTask(t)
    PROVE  /\ At(t, "await") /\ disc[op[t].id].at = "done" /\ holder' = None
           /\ GoesTo(t, "halt", Kinds, op[t].cfg, op[t].id)
           /\ UNCHANGED <<clients, token, handle, disc, database, mem, daemon, sockets, sync, issued,
                          mixed, apart>>
<1>1. /\ op \in [Tasks -> OpType] /\ "halt" \in OpPlaces /\ Kinds \in SUBSET (Spaces \cup Kinds)
      /\ op' = [op EXCEPT ![t].todo = Kinds, ![t].at = "halt"]
  BY AtPlace DEF AwaitTask, OpPlaces
<1>2. GoesTo(t, "halt", Kinds, op[t].cfg, op[t].id)
  BY <1>1, TodoFacts
<1> QED
  BY <1>2 DEF AwaitTask
\* Stopping a server keeps the types of the maps and sockets.
LEMMA StopTypes ==
    ASSUME SockOK, NEW s \in Spaces, NEW k \in Kinds, StopServer(s, k)
    PROVE  SockOK'
<1>1. servers' \in [Kinds -> SUBSET Spaces] /\ registry' \in SUBSET Spaces
  BY DEF StopServer, SockOK
<1>2. \A x \in Socket : [x EXCEPT !.live = FALSE] \in Socket
  BY DEF Socket
<1>3. socks' \in SUBSET Socket
  BY <1>2 DEF StopServer, SockOK
<1> QED
  BY <1>1, <1>3 DEF SockOK

\* A discover task is spawned or cancelled.
LEMMA DiscTypes ==
    ASSUME DiscPlace, NEW d \in Ids
    PROVE  /\ \A s \in Spaces : disc' = [disc EXCEPT ![d] =
                 [sp |-> s, at |-> "check", tries |-> 0, cancelled |-> FALSE]] => DiscPlace'
           /\ disc' = [disc EXCEPT ![d].cancelled = TRUE] => DiscPlace'
<1>1. \A s \in Spaces : /\ [sp |-> s, at |-> "check", tries |-> 0, cancelled |-> FALSE] \in DiscType
                        /\ 0 < MaxRetries
  BY NumbersAssumption DEF DiscType, DiscPlaces
<1>2. ASSUME NEW s \in Spaces,
             disc' = [disc EXCEPT ![d] = [sp |-> s, at |-> "check", tries |-> 0, cancelled |-> FALSE]]
      PROVE  DiscPlace'
  BY <1>1, <1>2 DEF DiscPlace
<1>3. ASSUME disc' = [disc EXCEPT ![d].cancelled = TRUE]
      PROVE  DiscPlace'
  <2>1. disc' \in [Ids -> DiscType]
    BY <1>3 DEF DiscPlace, DiscType
  <2>2. \A e \in Ids : disc'[e].at = disc[e].at /\ disc'[e].sp = disc[e].sp /\ disc'[e].tries = disc[e].tries
    BY <1>3 DEF DiscPlace, DiscType
  <2> QED
    BY <2>1, <2>2 DEF DiscPlace
<1> QED
  BY <1>2, <1>3

\* Steps that change the servers or the peers.
LEMMA SessionTypes ==
    ASSUME TypeInv, NEW t \in Tasks,
           \/ StopOld(t) \/ BindServer(t) \/ BindFails(t) \/ InsertServer(t) \/ Spawn(t) \/ InsertHandle(t)
           \/ CancelToken(t) \/ TakeHandle(t) \/ AwaitTask(t) \/ HaltServer(t) \/ RemoveClient(t)
    PROVE  TypeInv'
<1>0. /\ op \in [Tasks -> OpType] /\ OpPlace
      /\ op[t].at \notin {"idle", "rows", "store"} => op[t].sp \in Spaces /\ op[t].id \in Ids
  BY AtPlace, TypeParts
<1>1. CASE StopOld(t)
  <2>1. PICK k \in Kinds : /\ StopServer(op[t].sp, k)
                           /\ \/ GoesTo(t, "bind", Kinds, op[t].cfg, op[t].id)
                              \/ GoesTo(t, "stop", op[t].todo \ {k}, op[t].cfg, op[t].id)
    BY <1>1, StopOldFacts
  <2>2. At(t, "stop") /\ UNCHANGED <<database, mem, daemon, peers, sync, issued, mixed, apart>>
    BY <1>1, StopOldFacts
  <2>3. OpPlace'
    BY <1>0, <2>1, <2>2, GoesPlace DEF At
  <2>4. SockOK'
    BY <1>0, <2>1, <2>2, StopTypes, TypeParts DEF At
  <2> QED
    BY <2>2, <2>3, <2>4, TypeParts, TypePartsNext, FrameParts DEF peers
<1>2. CASE BindServer(t)
  <2>1. At(t, "bind") /\ Goto(t, "insert") /\ "insert" \in OpPlaces
    BY <1>2 DEF BindServer, OpPlaces
  <2>2. OpPlace'
    BY <1>0, <2>1, GotoFacts, GoesPlace DEF At
  <2>3. SockOK'
    <3>1. \A k \in Kinds : [sp |-> op[t].sp, kind |-> k, owner |-> "manager", live |-> TRUE] \in Socket
      BY <1>0, <2>1, KindsAssumption DEF Socket, At
    <3> QED
      BY <1>2, <3>1, TypeParts DEF BindServer, Listen, SockOK
  <2> QED
    BY <1>2, <2>2, <2>3, TypeParts, TypePartsNext, FrameParts DEF BindServer, peers
<1>3. CASE BindFails(t)
  <2>1. At(t, "bind") /\ Return(t) /\ UNCHANGED <<database, mem, daemon, sockets, peers, sync, issued, apart>>
    BY <1>3 DEF BindFails
  <2>2. GhostOK'
    BY <1>0, <1>3, <2>1, TypeParts DEF BindFails, GhostOK, At
  <2> QED
    BY <1>0, <2>1, <2>2, ReturnFacts, IdlePlace, TypeParts, TypePartsNext, FrameParts DEF peers
<1>4. CASE InsertServer(t)
  <2>1. PICK k \in Kinds : /\ servers' = [servers EXCEPT ![k] = @ \cup {op[t].sp}]
                           /\ \/ GoesTo(t, "token", {}, op[t].cfg, op[t].id)
                              \/ GoesTo(t, "bind", op[t].todo \ {k}, op[t].cfg, op[t].id)
    BY <1>4, InsertFacts
  <2>2. At(t, "insert") /\ UNCHANGED <<socks, registry, database, mem, daemon, peers, sync, issued, mixed, apart>>
    BY <1>4, InsertFacts
  <2>3. OpPlace'
    BY <1>0, <2>1, <2>2, GoesPlace DEF At
  <2>4. SockOK'
    BY <1>0, <2>1, <2>2, TypeParts DEF SockOK, At
  <2> QED
    BY <2>2, <2>3, <2>4, TypeParts, TypePartsNext, FrameParts DEF peers
<1>5. CASE Spawn(t)
  <2>1. At(t, "token") /\ Goto(t, "handle") /\ "handle" \in OpPlaces /\ op[t].sp \in Spaces /\ op[t].id \in Ids
    BY <1>0, <1>5 DEF Spawn, OpPlaces, At
  <2>2. OpPlace'
    BY <1>0, <2>1, GotoFacts, GoesPlace DEF At
  <2>3. PeerOK' /\ GhostOK'
    BY <1>5, <2>1, TypeParts DEF Spawn, PeerOK, GhostOK
  <2>4. DiscPlace'
    BY <1>5, <2>1, DiscTypes, TypeParts DEF Spawn
  <2> QED
    BY <1>5, <2>2, <2>3, <2>4, TypeParts, TypePartsNext, FrameParts DEF Spawn
<1>6. CASE InsertHandle(t)
  <2>1. Return(t) /\ op[t].sp \in Spaces /\ op[t].id \in Ids
    BY <1>0, <1>6 DEF InsertHandle, At
  <2>2. PeerOK'
    BY <1>6, <2>1, TypeParts DEF InsertHandle, PeerOK
  <2> QED
    BY <1>0, <1>6, <2>1, <2>2, ReturnFacts, IdlePlace, TypeParts, TypePartsNext, FrameParts DEF InsertHandle
<1>7. CASE CancelToken(t)
  <2>1. At(t, "cancel") /\ Goto(t, "take") /\ "take" \in OpPlaces /\ op[t].sp \in Spaces
    BY <1>0, <1>7 DEF CancelToken, OpPlaces, At
  <2>2. OpPlace'
    BY <1>0, <2>1, GotoFacts, GoesPlace DEF At
  <2>3. PeerOK' /\ GhostOK'
    BY <1>7, <2>1, TypeParts DEF CancelToken, PlainAgain, PeerOK, GhostOK
  <2>4. DiscPlace'
    <3>1. token[op[t].sp] \in Ids \cup {None}
      BY <2>1, TypeParts DEF PeerOK
    <3> QED
      BY <1>7, <2>1, <3>1, DiscTypes, TypeParts, FrameParts DEF CancelToken
  <2> QED
    BY <1>7, <2>2, <2>3, <2>4, TypeParts, TypePartsNext, FrameParts DEF CancelToken
<1>8. CASE TakeHandle(t)
  <2>1. OpPlace'
    BY <1>0, <1>8, TakeFacts, GoesPlace DEF At
  <2>2. PeerOK'
    BY <1>0, <1>8, TakeFacts, TypeParts DEF PeerOK
  <2> QED
    BY <1>8, <2>1, <2>2, TakeFacts, TypeParts, TypePartsNext, FrameParts
<1>9. CASE AwaitTask(t)
  <2>1. OpPlace'
    BY <1>0, <1>9, AwaitFacts, GoesPlace DEF At
  <2>2. PeerOK'
    BY <1>0, <1>9, AwaitFacts, TypeParts DEF PeerOK
  <2> QED
    BY <1>9, <2>1, <2>2, AwaitFacts, TypeParts, TypePartsNext, FrameParts
<1>10. CASE HaltServer(t)
  <2>1. PICK k \in Kinds : /\ StopServer(op[t].sp, k)
                           /\ \/ GoesTo(t, "client", {}, op[t].cfg, op[t].id)
                              \/ GoesTo(t, "halt", op[t].todo \ {k}, op[t].cfg, op[t].id)
    BY <1>10, HaltFacts
  <2>2. At(t, "halt") /\ UNCHANGED <<database, mem, daemon, peers, sync, issued, mixed, apart>>
    BY <1>10, HaltFacts
  <2>3. OpPlace'
    BY <1>0, <2>1, <2>2, GoesPlace DEF At
  <2>4. SockOK'
    BY <1>0, <2>1, <2>2, StopTypes, TypeParts DEF At
  <2> QED
    BY <2>2, <2>3, <2>4, TypeParts, TypePartsNext, FrameParts DEF peers
<1>11. CASE RemoveClient(t)
  <2>1. At(t, "client") /\ Goto(t, "leave") /\ "leave" \in OpPlaces
    BY <1>11 DEF RemoveClient, OpPlaces
  <2>2. OpPlace'
    BY <1>0, <2>1, GotoFacts, GoesPlace DEF At
  <2>3. PeerOK'
    BY <1>11, TypeParts DEF RemoveClient, PeerOK
  <2> QED
    BY <1>11, <2>2, <2>3, TypeParts, TypePartsNext, FrameParts DEF RemoveClient
<1> QED
  BY <1>1, <1>2, <1>3, <1>4, <1>5, <1>6, <1>7, <1>8, <1>9, <1>10, <1>11

\* Where a discover task goes.
DiscMoves(d, a) ==
    /\ disc' \in [Ids -> DiscType] /\ \A e \in Ids \ {d} : disc'[e] = disc[e]
    /\ disc'[d].sp = disc[d].sp /\ disc'[d].cancelled = disc[d].cancelled /\ disc'[d].at = a

\* A discover task goes on, until it is done; only its last step makes a client.
LEMMA DiscFacts ==
    ASSUME DiscPlace, NEW d \in Ids, Discover(d)
    PROVE  /\ disc[d].at \notin {"unborn", "done"} /\ DiscFrame
           /\ \E a \in DiscPlaces \ {"unborn"} : DiscMoves(d, a)
           /\ \/ UNCHANGED clients
              \/ clients' = clients \cup {disc[d].sp} /\ disc[d].at = "peers"
           /\ disc'[d].at \in {"check", "ask", "sleep"} => disc'[d].tries < MaxRetries
<1>0. /\ disc[d] \in DiscType /\ disc \in [Ids -> DiscType] /\ MaxRetries \in Nat
      /\ {"check", "ask", "sleep", "peers", "done"} \subseteq DiscPlaces \ {"unborn"}
  BY NumbersAssumption DEF DiscPlace, DiscPlaces
<1>1. ASSUME NEW a \in DiscPlaces \ {"unborn"}, DiscGoto(d, a)
      PROVE  DiscMoves(d, a) /\ disc'[d].tries = disc[d].tries
  BY <1>0, <1>1 DEF DiscGoto, DiscMoves, DiscType
<1>2. CASE DiscCheck(d)
  <2>1. disc[d].tries < MaxRetries /\ disc[d].at \notin {"unborn", "done"} /\ UNCHANGED clients /\ DiscFrame
    BY <1>2 DEF DiscCheck, DiscPlace
  <2>2. PICK a \in DiscPlaces \ {"unborn"} : DiscGoto(d, a)
    BY <1>0, <1>2 DEF DiscCheck
  <2> QED
    BY <1>1, <2>1, <2>2
<1>3. CASE DiscAsk(d)
  <2>1. disc[d].tries < MaxRetries /\ disc[d].at \notin {"unborn", "done"} /\ UNCHANGED clients /\ DiscFrame
    BY <1>3 DEF DiscAsk, DiscPlace, DiscAt
  <2>2. CASE DiscGoto(d, "peers")
    BY <1>0, <1>1, <2>1, <2>2
  <2>3. CASE disc' = [disc EXCEPT ![d].tries = @ + 1,
                        ![d].at = IF disc[d].tries + 1 >= MaxRetries THEN "done" ELSE "sleep"]
    <3>1. disc[d].tries \in Nat /\ disc[d].tries + 1 \in 0..MaxRetries
      BY <1>0, <2>1 DEF DiscType
    <3>2. disc' \in [Ids -> DiscType]
      BY <1>0, <2>3, <3>1 DEF DiscType
    <3>3. /\ \A e \in Ids \ {d} : disc'[e] = disc[e]
          /\ disc'[d].sp = disc[d].sp /\ disc'[d].cancelled = disc[d].cancelled
          /\ disc'[d].tries = disc[d].tries + 1
          /\ disc'[d].at = IF disc[d].tries + 1 >= MaxRetries THEN "done" ELSE "sleep"
      BY <1>0, <2>3 DEF DiscType
    <3>4. \E a \in DiscPlaces \ {"unborn"} : DiscMoves(d, a)
      BY <1>0, <3>2, <3>3 DEF DiscMoves
    <3> QED
      BY <1>0, <2>1, <3>1, <3>3, <3>4
  <2> QED
    BY <1>3, <2>2, <2>3 DEF DiscAsk
<1>4. CASE DiscPeers(d)
  <2>1. disc[d].at = "peers" /\ DiscGoto(d, "done") /\ DiscFrame
        /\ clients' \in {clients, clients \cup {disc[d].sp}}
    BY <1>4 DEF DiscPeers, DiscAt
  <2>2. DiscMoves(d, "done")
    BY <1>0, <1>1, <2>1
  <2> QED
    BY <1>0, <2>1, <2>2 DEF DiscMoves
<1> QED
  BY <1>2, <1>3, <1>4 DEF Discover

\* The registry's sockets, after a start or a stop.
LEMMA RegistryTypes ==
    ASSUME SockOK, NEW s \in Spaces, get_or_start(s) \/ stop(s), UNCHANGED servers
    PROVE  SockOK'
<1>1. \A x \in Socket : [x EXCEPT !.live = FALSE] \in Socket
  BY DEF Socket
<1>2. [sp |-> s, kind |-> "file", owner |-> "registry", live |-> TRUE] \in Socket
  BY DEF Socket, AllKinds
<1>3. CASE get_or_start(s)
  BY <1>2, <1>3 DEF get_or_start, Listen, SockOK
<1>4. CASE stop(s)
  BY <1>1, <1>4 DEF stop, SockOK
<1> QED
  BY <1>3, <1>4

\* What everybody else does.
LEMMA OtherTypes ==
    ASSUME TypeInv,
           \/ \E s \in Spaces : FileCommand(s) \/ \E c \in SUBSET Fields : UpdateSpaceConfig(s, c)
           \/ \E d \in Ids : Discover(d)
           \/ CloseListener
           \/ Sync
    PROVE  TypeInv'
<1>1. ASSUME NEW s \in Spaces, FileCommand(s) PROVE TypeInv'
  <2>1. SockOK'
    BY <1>1, RegistryTypes, TypeParts DEF FileCommand, RegistryFrame
  <2>2. GhostOK'
    BY <1>1, NumbersAssumption, TypeParts DEF FileCommand, RegistryFrame, GhostOK
  <2> QED
    BY <1>1, <2>1, <2>2, TypeParts, TypePartsNext, FrameParts DEF FileCommand, RegistryFrame, peers
<1>2. ASSUME NEW s \in Spaces, NEW c \in SUBSET Fields, UpdateSpaceConfig(s, c) PROVE TypeInv'
  <2>1. DbOK'
    BY <1>2, TypeParts DEF UpdateSpaceConfig, DbOK
  <2>2. GhostOK'
    BY <1>2, NumbersAssumption, TypeParts DEF UpdateSpaceConfig, GhostOK
  <2> QED
    BY <1>2, <2>1, <2>2, TypeParts, TypePartsNext, FrameParts DEF UpdateSpaceConfig, peers
<1>3. ASSUME NEW d \in Ids, Discover(d) PROVE TypeInv'
  <2>1. DiscPlace /\ DiscFrame
    BY <1>3, DiscFacts, TypeParts
  <2>2. DiscPlace'
    BY <1>3, <2>1, DiscFacts DEF DiscPlace, DiscMoves
  <2>3. PeerOK'
    BY <1>3, <2>1, DiscFacts, TypeParts DEF PeerOK, DiscFrame, DiscPlace
  <2> QED
    BY <2>1, <2>2, <2>3, TypeParts, TypePartsNext, FrameParts DEF DiscFrame
<1>4. CASE CloseListener
  <2>1. SockOK'
    BY <1>4, TypeParts DEF CloseListener, SockOK
  <2> QED
    BY <1>4, <2>1, TypeParts, TypePartsNext, FrameParts DEF CloseListener, peers
<1>5. CASE SyncList
  <2>1. MemOK' /\ SyncOK'
    <3>1. CASE sync.at = "rows" /\ sync' = [at |-> "ipc", rows |-> rows, listed |-> {}] /\ UNCHANGED mem
      BY <3>1, TypeParts, FrameParts DEF SyncOK, DbOK
    <3>2. CASE sync.at = "ipc" /\ \E L \in {listed, {}} : /\ mem' = ListedSpaces(sync.rows, L)
                                                         /\ sync' = [sync EXCEPT !.at = "each", !.listed = L]
      <4>1. PICK L \in {listed, {}} : /\ mem' = ListedSpaces(sync.rows, L)
                                      /\ sync' = [sync EXCEPT !.at = "each", !.listed = L]
        BY <3>2
      <4>2. L \in SUBSET Spaces
        BY <4>1, TypeParts DEF DaemonOK
      <4>3. SyncOK'
        BY <4>1, <4>2, TypeParts DEF SyncOK
      <4>4. MemOK'
        BY <4>1 DEF MemOK, ListedSpaces
      <4> QED
        BY <4>3, <4>4
    <3> QED
      BY <1>5, <3>1, <3>2 DEF SyncList
  <2> QED
    BY <1>5, <2>1, TypeParts, TypePartsNext, FrameParts DEF SyncList, peers
<1>6. CASE SyncEach
  <2>1. SyncOK'
    BY <1>6, TypeParts DEF SyncEach, SyncOK, SyncIdle
  <2>2. SockOK'
    <3>1. UNCHANGED servers
      BY <1>6 DEF SyncEach, RegistryFrame
    <3>2. sync.rows \subseteq Spaces
      BY TypeParts DEF SyncOK
    <3>3. UNCHANGED <<socks, registry>> \/ \E s \in Spaces : get_or_start(s) \/ stop(s)
      BY <1>6, <3>2 DEF SyncEach
    <3> QED
      BY <3>1, <3>3, RegistryTypes, TypeParts DEF SockOK
  <2> QED
    BY <1>6, <2>1, <2>2, TypeParts, TypePartsNext, FrameParts DEF SyncEach, RegistryFrame, peers
<1> QED
  BY <1>1, <1>2, <1>3, <1>4, <1>5, <1>6 DEF Sync

\* The steps of commands, tasks and the sync keep the types.
LEMMA CoreTypes == ASSUME TypeInv, CoreNext PROVE TypeInv'
BY StartTypes, QuietTypes, SessionTypes, OtherTypes DEF CoreNext, Steps

\* A step is one of these three.
LEMMA NextCases == ASSUME Next PROVE CoreNext \/ LateEffect \/ Wedge
BY DEF Next, CoreNext, Proceed

\* What a late effect leaves alone, and what it makes of the daemon.
LEMMA LateFacts ==
    ASSUME TypeInv, LateOK, LateEffect
    PROVE  /\ UNCHANGED <<database, mem, sockets, peers, op, sync, wedged, issued, mixed>>
           /\ late' \subseteq late /\ DaemonOK' /\ apart' \subseteq Spaces /\ apart \subseteq apart'
           /\ \/ run' \subseteq run /\ UNCHANGED dcfg
              \/ \E c \in late, g \in SUBSET Fields :
                   /\ c.sp \in Spaces /\ (c.name = "connect" \/ dcfg[c.sp] # None)
                   /\ dcfg' = [dcfg EXCEPT ![c.sp] = g] /\ run' \subseteq run \cup {c.sp}
                   /\ c.sp \in apart'
<1>1. PICK c \in late :
        /\ late' = late \ {c}
        /\ \/ c.name = "connect" /\ ConnectEffect(c.sp, c.cfg) /\ apart' = apart \cup {c.sp}
           \/ /\ PatchEffect(c.sp, c.cfg)
              /\ run' \in {run \cup {c.sp}, run \ {c.sp}} /\ apart' = apart \cup {c.sp}
           \/ run' = run \ {c.sp} /\ listed' = listed \ {c.sp} /\ UNCHANGED <<dcfg, apart>>
  BY DEF LateEffect
<1>2. /\ c.sp \in Spaces /\ c.cfg \in SUBSET Fields /\ DaemonOK /\ apart \subseteq Spaces
      /\ UNCHANGED <<database, mem, sockets, peers, op, sync, wedged, issued, mixed>>
  BY <1>1, TypeParts DEF LateOK, LateType, GhostOK, LateEffect
<1>3. CASE c.name = "connect" /\ ConnectEffect(c.sp, c.cfg) /\ apart' = apart \cup {c.sp}
  BY <1>1, <1>2, <1>3, ConnectTypes
<1>4. CASE /\ PatchEffect(c.sp, c.cfg)
           /\ run' \in {run \cup {c.sp}, run \ {c.sp}} /\ apart' = apart \cup {c.sp}
  <2>1. /\ DaemonOK' /\ run' \subseteq run \cup {c.sp} /\ dcfg[c.sp] # None
        /\ dcfg[c.sp] \cup (c.cfg \cap Known) \in SUBSET Fields
        /\ dcfg' = [dcfg EXCEPT ![c.sp] = dcfg[c.sp] \cup (c.cfg \cap Known)]
    BY <1>2, <1>4, PatchTypes
  <2> QED
    BY <1>1, <1>2, <1>4, <2>1
<1>5. CASE run' = run \ {c.sp} /\ listed' = listed \ {c.sp} /\ UNCHANGED <<dcfg, apart>>
  <2>1. DaemonOK'
    BY <1>2, <1>5 DEF DaemonOK
  <2> QED
    BY <1>1, <1>2, <1>5, <2>1
<1> QED
  BY <1>1, <1>3, <1>4, <1>5

\* Every step keeps the types.
LEMMA NextTypes == ASSUME TypeInv, LateOK, Next PROVE TypeInv'
<1>1. CASE LateEffect
  <2>1. GhostOK'
    BY <1>1, LateFacts, TypeParts DEF GhostOK
  <2> QED
    BY <1>1, <2>1, LateFacts, TypeParts, TypePartsNext, FrameParts DEF peers
<1>2. CASE Wedge
  BY <1>2, TypeParts, TypePartsNext, FrameParts DEF Wedge, peers
<1> QED
  BY <1>1, <1>2, CoreTypes, NextCases

\* A call that is given up is one of the command's space, or a disconnect.
LEMMA GivesUpFacts ==
    ASSUME TypeInv, TypeInv', NEW t \in Tasks, GivesUp(t)
    PROVE  /\ late' \ late \subseteq LateType
           /\ \A c \in late' \ late : c.name = "connect" => op[t].at = "send" /\ c.sp = op[t].sp
<1>1. CASE /\ op[t].at \in DOMAIN CallOf
           /\ late' = late \cup {LateCall(CallOf[op[t].at], op[t].sp, op[t].cfg)}
  <2>1. /\ op[t].at \in {"send", "apply", "leave"}
        /\ CallOf[op[t].at] \in {"connect", "patch", "disconnect"}
        /\ CallOf[op[t].at] = "connect" => op[t].at = "send"
    BY <1>1 DEF CallOf
  <2>2. op[t].sp \in Spaces /\ op[t].cfg \in SUBSET Fields
    BY <2>1, AtPlace DEF OpType
  <2> QED
    BY <1>1, <2>1, <2>2 DEF LateCall, LateType
<1>2. CASE \E S \in SUBSET (listed' \ {op[t].sp}) : late' = late \cup {LateCall("disconnect", s, {}) : s \in S}
  <2>1. listed' \subseteq Spaces
    BY TypePartsNext DEF DaemonOK
  <2> QED
    BY <1>2, <2>1 DEF LateCall, LateType
<1> QED
  BY <1>1, <1>2 DEF GivesUp

\* Who adds to the calls that were given up.
LEMMA LateGrows ==
    ASSUME Next, NEW c \in late' \ late
    PROVE  \E t \in Tasks : GivesUp(t)
BY DEF Next, Proceed, Quiet, LateEffect, Wedge

\* Every step keeps the type of the calls that were given up.
LEMMA NextLate ==
    ASSUME TypeInv, TypeInv', LateOK, Next
    PROVE  LateOK'
<1>1. late' \subseteq LateType
  BY LateGrows, GivesUpFacts DEF LateOK
<1>2. wedged' \in BOOLEAN
  BY DEF LateOK, Next, Proceed, Quiet, LateEffect, Wedge
<1> QED
  BY <1>1, <1>2 DEF LateOK

\* A step that changes nothing keeps them.
LEMMA StutterTypes == ASSUME TypeInv, UNCHANGED vars PROVE TypeInv'
BY TypeParts, TypePartsNext, FrameParts DEF vars, database, daemon, sockets, peers

\* At the start every variable has its type.
LEMMA InitTypes == ASSUME Init PROVE TypeInv
<1>1. DbOK /\ MemOK /\ DaemonOK /\ SockOK /\ PeerOK
  BY DEF Init, DbOK, MemOK, DaemonOK, SockOK, PeerOK
<1>2. SyncOK /\ GhostOK
  BY NumbersAssumption DEF Init, SyncOK, GhostOK, SyncIdle
<1>3. OpPlace
  BY IdleFacts DEF Init, OpPlace
<1>4. DiscPlace
  BY NumbersAssumption DEF Init, DiscPlace, DiscType, DiscPlaces
<1> QED
  BY <1>1, <1>2, <1>3, <1>4, TypeParts

\* At the start no call was given up.
LEMMA InitLate == ASSUME Init PROVE LateOK /\ LateBorn
BY DEF Init, LateOK, LateBorn

\* Types as an inductive invariant of the specification.
LEMMA TypesStep ==
    ASSUME TypeInv, LateOK, [Next]_vars
    PROVE  TypeInv' /\ LateOK'
<1>1. CASE UNCHANGED vars
  BY <1>1, StutterTypes DEF vars, LateOK
<1> QED
  BY <1>1, NextTypes, NextLate

\* Every variable holds what the code can store in it, for every number of
\* spaces, commands and tasks: a command past its first await has its space, a
\* spawned task has a retry left whenever it asks.
THEOREM TypeCorrect == Spec => []TypeOK
<1>1. Init => TypeInv /\ LateOK
  BY InitTypes, InitLate
<1>2. TypeInv /\ LateOK /\ [Next]_vars => TypeInv' /\ LateOK'
  BY TypesStep
<1>3. TypeInv /\ LateOK => TypeOK
  BY DEF TypeInv, DbOK, MemOK, DaemonOK, SockOK, PeerOK, SyncOK, GhostOK, OpPlace, DiscPlace, OpType,
     DiscType, LateOK, LateType, TypeOK
<1> QED
  BY <1>1, <1>2, <1>3, PTL DEF Spec
-----------------------------------------------------------------------------
(* Listeners are known                                                     *)

\* The parts of KnownInv.
OwnerInv == \A x \in socks : /\ x.owner = "manager" => x.kind \in Kinds
                             /\ x.owner = "registry" => x.kind = "file"
RegistryKnown == \A x \in socks : x.live /\ x.owner = "registry" => x.sp \in registry
ManagerKnown == \A x \in socks : x.live /\ x.owner = "manager" =>
                   x.sp \in servers[x.kind] \/ \E t \in Tasks : Pending(t, x.kind) /\ op[t].sp = x.sp
ServersListen == \A k \in Kinds : \A s \in servers[k] : Manager(s, k) \in socks
PendingListens ==
    \A t \in Tasks, k \in Kinds : Pending(t, k) =>
          /\ Manager(op[t].sp, k) \in socks /\ op[t].sp \notin servers[k]
          /\ \A u \in Tasks : Pending(u, k) /\ op[u].sp = op[t].sp => u = t

\* KnownInv is their conjunction.
LEMMA KnownParts ==
    ASSUME SockOK
    PROVE  KnownInv <=> OwnerInv /\ RegistryKnown /\ ManagerKnown /\ ServersListen /\ PendingListens
<1>1. \A x \in socks : x.owner \in {"manager", "registry"}
  BY DEF SockOK, Socket
<1> QED
  BY <1>1 DEF KnownInv, ListenersAreKnown, InsertPending, OwnerInv, RegistryKnown, ManagerKnown,
     ServersListen, PendingListens, Pending, Manager

\* The same after a step.
LEMMA KnownPartsNext ==
    ASSUME SockOK'
    PROVE  KnownInv' <=> OwnerInv' /\ RegistryKnown' /\ ManagerKnown' /\ ServersListen' /\ PendingListens'
<1>1. \A x \in socks' : x.owner \in {"manager", "registry"}
  BY DEF SockOK, Socket
<1> QED
  BY <1>1 DEF KnownInv, ListenersAreKnown, InsertPending, OwnerInv, RegistryKnown, ManagerKnown,
     ServersListen, PendingListens, Pending, Manager

\* No task begins or ends an insertion.
SamePending == \A t \in Tasks : op[t].at = "insert" \/ op'[t].at = "insert" => op'[t] = op[t]

\* The pending insertions are then the same.
LEMMA SamePendingFacts ==
    ASSUME SamePending, NEW t \in Tasks, NEW k
    PROVE  /\ Pending(t, k)' <=> Pending(t, k)
           /\ Pending(t, k) => op'[t].sp = op[t].sp
BY DEF SamePending, Pending, At, IsFirst

\* A step that touches no socket and no insertion.
LEMMA KnownFrame ==
    ASSUME SockOK, SockOK', KnownInv, SamePending, UNCHANGED sockets
    PROVE  KnownInv'
<1>1. OwnerInv' /\ RegistryKnown' /\ ServersListen'
  BY KnownParts DEF OwnerInv, RegistryKnown, ServersListen, sockets, Manager
<1>2. ManagerKnown'
  <2>1. ASSUME NEW x \in socks, x.live, x.owner = "manager"
        PROVE  x.sp \in servers[x.kind] \/ \E t \in Tasks : Pending(t, x.kind)' /\ op'[t].sp = x.sp
    BY <2>1, KnownParts, SamePendingFacts DEF ManagerKnown
  <2> QED
    BY <2>1 DEF ManagerKnown, sockets
<1>3. PendingListens'
  BY KnownParts, SamePendingFacts DEF PendingListens, sockets, Manager
<1> QED
  BY <1>1, <1>2, <1>3, KnownPartsNext

\* A task outside an insertion goes on elsewhere, or returns.
LEMMA GoesPending ==
    ASSUME NEW t \in Tasks, NEW a, NEW T, NEW c, NEW i, GoesTo(t, a, T, c, i),
           op[t].at # "insert", a # "insert"
    PROVE  SamePending
BY DEF GoesTo, Others, SamePending

\* A task outside an insertion becomes another.
LEMMA BecomesPending ==
    ASSUME NEW t \in Tasks, NEW r, Becomes(t, r), op[t].at # "insert", r.at # "insert"
    PROVE  SamePending
BY DEF Becomes, Others, SamePending

\* Only one server of a list is its first.
LEMMA FirstUnique ==
    ASSUME NEW j \in Kinds, NEW k \in Kinds, NEW T,
           IsFirst(j, T, ConnectOrder), IsFirst(k, T, ConnectOrder)
    PROVE  j = k
<1>1. j \in AllKinds /\ k \in AllKinds
  BY KindsAssumption
<1>2. ConnectOrder[j] <= ConnectOrder[k] /\ ConnectOrder[k] <= ConnectOrder[j]
  BY DEF IsFirst
<1> QED
  BY <1>1, <1>2 DEF ConnectOrder, AllKinds

\* A server that is stopped leaves its map; its listener is told to end, and
\* nobody else's is.
LEMMA StopKnown ==
    ASSUME SockOK, SockOK', KnownInv, SamePending, NEW s \in Spaces, NEW k \in Kinds, StopServer(s, k)
    PROVE  KnownInv'
<1>1. CASE s \notin servers[k]
  <2>1. UNCHANGED sockets
    BY <1>1 DEF StopServer, SockOK, sockets
  <2> QED
    BY <2>1, KnownFrame
<1>2. CASE s \in servers[k]
  <2> DEFINE m == Manager(s, k)
             dead == [m EXCEPT !.live = FALSE]
  <2>1. /\ \A x \in socks' : (x \in socks /\ x # m) \/ (x = dead /\ m \in socks)
        /\ \A x \in socks : x # m => x \in socks'
    <3>1. socks' = {IF x = m THEN [x EXCEPT !.live = FALSE] ELSE x : x \in socks}
      BY <1>2 DEF StopServer, Manager
    <3>2. socks' = {IF x = m THEN dead ELSE x : x \in socks}
      BY <3>1, Zenon
    <3> HIDE DEF m, dead
    <3>3. ASSUME NEW x \in socks' PROVE (x \in socks /\ x # m) \/ (x = dead /\ m \in socks)
      <4>1. PICK y \in socks : x = IF y = m THEN dead ELSE y
        BY <3>2
      <4> QED
        BY <4>1
    <3>4. ASSUME NEW x \in socks, x # m PROVE x \in socks'
      <4>1. x = IF x = m THEN dead ELSE x
        BY <3>4
      <4> QED
        BY <3>2, <4>1
    <3> QED
      BY <3>3, <3>4
  <2>2. dead.live = FALSE /\ dead.owner = "manager" /\ dead.kind = k /\ m.owner = "manager"
    BY DEF Manager
  <2>3. \A x \in socks : x # m /\ x.owner = "manager" /\ x.live => x.sp # s \/ x.kind # k
    BY DEF SockOK, Socket, Manager
  <2>4. \A r, j : Manager(r, j) = m => r = s /\ j = k
    BY DEF Manager
  <2>5. /\ \A j \in Kinds : servers'[j] \subseteq servers[j] /\ (s \notin servers'[j] \/ j # k)
        /\ \A j \in Kinds, r \in Spaces : r \in servers[j] /\ (r # s \/ j # k) => r \in servers'[j]
        /\ registry' = registry
    BY DEF StopServer, SockOK
  <2> HIDE DEF m, dead
  <2>6. OwnerInv'
    BY <2>1, <2>2, KnownParts DEF OwnerInv
  <2>7. RegistryKnown'
    BY <2>1, <2>2, <2>5, KnownParts DEF RegistryKnown
  <2>8. ManagerKnown'
    <3>1. ASSUME NEW x \in socks', x.live, x.owner = "manager"
          PROVE  x.sp \in servers'[x.kind] \/ \E t \in Tasks : Pending(t, x.kind)' /\ op'[t].sp = x.sp
      <4>1. x \in socks /\ x # m
        BY <2>1, <2>2, <3>1
      <4>2. x.kind \in Kinds /\ x.sp \in Spaces /\ (x.sp # s \/ x.kind # k)
        BY <2>3, <3>1, <4>1, KnownParts DEF OwnerInv, SockOK, Socket
      <4>3. CASE x.sp \in servers[x.kind]
        BY <2>5, <4>2, <4>3
      <4>4. CASE \E t \in Tasks : Pending(t, x.kind) /\ op[t].sp = x.sp
        BY <4>4, SamePendingFacts
      <4> QED
        BY <3>1, <4>1, <4>3, <4>4, KnownParts DEF ManagerKnown
    <3> QED
      BY <3>1 DEF ManagerKnown
  <2>9. ServersListen'
    <3>1. ASSUME NEW j \in Kinds, NEW r \in servers'[j] PROVE Manager(r, j) \in socks'
      <4>1. r \in servers[j] /\ (r # s \/ j # k)
        BY <2>5, <3>1
      <4>2. Manager(r, j) \in socks /\ Manager(r, j) # m
        BY <2>4, <4>1, KnownParts DEF ServersListen
      <4> QED
        BY <2>1, <4>2
    <3> QED
      BY <3>1 DEF ServersListen, Manager
  <2>10. PendingListens'
    <3>1. ASSUME NEW t \in Tasks, NEW j \in Kinds, Pending(t, j)'
          PROVE  /\ Manager(op'[t].sp, j) \in socks' /\ op'[t].sp \notin servers'[j]
                 /\ \A u \in Tasks : Pending(u, j)' /\ op'[u].sp = op'[t].sp => u = t
      <4>1. Pending(t, j) /\ op'[t].sp = op[t].sp
        BY <3>1, SamePendingFacts
      <4>2. /\ Manager(op[t].sp, j) \in socks /\ op[t].sp \notin servers[j]
            /\ \A u \in Tasks : Pending(u, j) /\ op[u].sp = op[t].sp => u = t
        BY <4>1, KnownParts DEF PendingListens
      <4>3. Manager(op[t].sp, j) # m
        BY <1>2, <2>4, <4>2
      <4>4. \A u \in Tasks : Pending(u, j)' /\ op'[u].sp = op'[t].sp => u = t
        BY <4>1, <4>2, SamePendingFacts
      <4> QED
        BY <2>1, <2>5, <4>1, <4>2, <4>3, <4>4
    <3> QED
      BY <3>1 DEF PendingListens, Manager
  <2> QED
    BY <2>6, <2>7, <2>8, <2>9, <2>10, KnownPartsNext
<1> QED
  BY <1>1, <1>2
\* connect binds a port that nobody has: no listener of the space and the kind,
\* hence no pending insertion and no entry of the map.
LEMMA BindKnown ==
    ASSUME TypeInv, TypeInv', KnownInv, NEW t \in Tasks, BindServer(t)
    PROVE  KnownInv'
<1>1. PICK k \in Kinds : /\ IsFirst(k, op[t].todo, ConnectOrder)
                         /\ PortFree(op[t].sp, k) /\ Listen(op[t].sp, k, "manager")
  BY DEF BindServer
<1> DEFINE s == op[t].sp
           m == Manager(s, k)
<1>2. /\ At(t, "bind") /\ s \in Spaces /\ SockOK /\ SockOK' /\ UNCHANGED <<servers, registry>>
      /\ GoesTo(t, "insert", op[t].todo, op[t].cfg, op[t].id)
  <2>1. "insert" \in OpPlaces
    BY DEF OpPlaces
  <2> QED
    BY <2>1, AtPlace, TypeParts, TypePartsNext, GotoFacts DEF BindServer, At
<1>3. /\ socks' = socks \cup {m} /\ m.sp = s /\ m.kind = k /\ m.owner = "manager" /\ m.live
      /\ m \notin socks
  BY <1>1 DEF Listen, Manager, PortFree
<1>4. \A r, j : Manager(r, j) = m => r = s /\ j = k
  BY DEF Manager
<1>5. s \notin servers[k] /\ \A u \in Tasks : Pending(u, k) => op[u].sp # s
  <2>1. ServersListen /\ PendingListens
    BY <1>2, KnownParts
  <2> QED
    BY <1>3, <2>1 DEF ServersListen, PendingListens
<1>6. /\ Pending(t, k)' /\ op'[t].sp = s /\ \A j \in Kinds : Pending(t, j)' => j = k
      /\ \A u \in Tasks \ {t}, j \in Kinds : Pending(u, j)' <=> Pending(u, j)
      /\ \A u \in Tasks \ {t} : op'[u] = op[u]
      /\ \A j \in Kinds : ~Pending(t, j)
  <2>1. op'[t].at = "insert" /\ op'[t].todo = op[t].todo /\ op'[t].sp = s /\ op[t].at = "bind"
        /\ \A u \in Tasks \ {t} : op'[u] = op[u]
    BY <1>2 DEF GoesTo, Others, At
  <2>2. Pending(t, k)'
    BY <1>1, <2>1 DEF Pending, At, IsFirst
  <2>3. \A j \in Kinds : Pending(t, j)' => IsFirst(j, op[t].todo, ConnectOrder)
    BY <2>1 DEF Pending, At, IsFirst
  <2>4. \A j \in Kinds : Pending(t, j)' => j = k
    BY <1>1, <2>3, FirstUnique
  <2>5. \A u \in Tasks \ {t}, j \in Kinds : Pending(u, j)' <=> Pending(u, j)
    BY <2>1 DEF Pending, At, IsFirst
  <2>6. \A j \in Kinds : ~Pending(t, j)
    BY <2>1 DEF Pending, At
  <2> QED
    BY <2>1, <2>2, <2>4, <2>5, <2>6
<1> HIDE DEF m
<1>7. OwnerInv' /\ RegistryKnown'
  BY <1>2, <1>3, KnownParts DEF OwnerInv, RegistryKnown
<1>8. ManagerKnown'
  <2>1. ASSUME NEW x \in socks', x.live, x.owner = "manager"
        PROVE  x.sp \in servers'[x.kind] \/ \E u \in Tasks : Pending(u, x.kind)' /\ op'[u].sp = x.sp
    <3>1. CASE x = m
      BY <1>3, <1>6, <3>1
    <3>2. CASE x \in socks
      <4>1. x.kind \in Kinds /\ ManagerKnown
        BY <1>2, <2>1, <3>2, KnownParts DEF OwnerInv
      <4>2. x.sp \in servers[x.kind] \/ \E u \in Tasks : Pending(u, x.kind) /\ op[u].sp = x.sp
        BY <2>1, <3>2, <4>1 DEF ManagerKnown
      <4> QED
        BY <1>2, <1>6, <4>1, <4>2
    <3> QED
      BY <1>3, <3>1, <3>2
  <2> QED
    BY <2>1 DEF ManagerKnown
<1>9. ServersListen'
  BY <1>2, <1>3, KnownParts DEF ServersListen, Manager
<1>10. PendingListens'
  <2>1. ASSUME NEW u \in Tasks, NEW j \in Kinds, Pending(u, j)'
        PROVE  /\ Manager(op'[u].sp, j) \in socks' /\ op'[u].sp \notin servers'[j]
               /\ \A v \in Tasks : Pending(v, j)' /\ op'[v].sp = op'[u].sp => v = u
    <3>1. CASE u = t
      <4>1. j = k /\ op'[u].sp = s
        BY <1>6, <2>1, <3>1
      <4>2. \A v \in Tasks : Pending(v, k)' /\ op'[v].sp = s => v = t
        BY <1>5, <1>6
      <4>3. Manager(s, k) \in socks'
        BY <1>3 DEF m
      <4> QED
        BY <1>2, <1>5, <3>1, <4>1, <4>2, <4>3
    <3>2. CASE u # t
      <4>1. Pending(u, j) /\ op'[u].sp = op[u].sp
        BY <1>6, <2>1, <3>2
      <4>2. /\ Manager(op[u].sp, j) \in socks /\ op[u].sp \notin servers[j]
            /\ \A v \in Tasks : Pending(v, j) /\ op[v].sp = op[u].sp => v = u
        BY <1>2, <4>1, KnownParts DEF PendingListens
      <4>3. ~(Pending(t, j)' /\ op'[t].sp = op[u].sp)
        BY <1>5, <1>6, <4>1
      <4>4. \A v \in Tasks : Pending(v, j)' /\ op'[v].sp = op'[u].sp => v = u
        BY <1>6, <4>1, <4>2, <4>3
      <4> QED
        BY <1>2, <1>3, <4>1, <4>2, <4>4
    <3> QED
      BY <3>1, <3>2
  <2> QED
    BY <2>1 DEF PendingListens, Manager
<1> QED
  BY <1>2, <1>7, <1>8, <1>9, <1>10, KnownPartsNext

\* What is inserted was pending: it listens, and was not in the map.
LEMMA InsertKnown ==
    ASSUME TypeInv, TypeInv', KnownInv, NEW t \in Tasks, InsertServer(t)
    PROVE  KnownInv'
<1>1. PICK k \in Kinds : /\ IsFirst(k, op[t].todo, ConnectOrder)
                         /\ servers' = [servers EXCEPT ![k] = @ \cup {op[t].sp}]
                         /\ \/ GoesTo(t, "token", {}, op[t].cfg, op[t].id)
                            \/ GoesTo(t, "bind", op[t].todo \ {k}, op[t].cfg, op[t].id)
  BY InsertFacts
<1> DEFINE s == op[t].sp
<1>2. At(t, "insert") /\ UNCHANGED <<socks, registry>> /\ SockOK /\ SockOK' /\ s \in Spaces
  BY InsertFacts, TypeParts, TypePartsNext, AtPlace DEF At
<1>3. /\ Pending(t, k) /\ \A j \in Kinds : Pending(t, j) => j = k
      /\ \A j \in Kinds : ~Pending(t, j)'
      /\ \A u \in Tasks \ {t} : op'[u] = op[u] /\ \A j \in Kinds : Pending(u, j)' <=> Pending(u, j)
  <2>1. op'[t].at # "insert" /\ \A u \in Tasks \ {t} : op'[u] = op[u]
    BY <1>1 DEF GoesTo, Others
  <2>2. Pending(t, k) /\ \A j \in Kinds : Pending(t, j) => IsFirst(j, op[t].todo, ConnectOrder)
    BY <1>1, <1>2 DEF Pending
  <2> QED
    BY <1>1, <2>1, <2>2, FirstUnique DEF Pending, At, IsFirst
<1>4. /\ \A j \in Kinds : servers[j] \subseteq servers'[j]
      /\ \A j \in Kinds, r \in Spaces : r \in servers'[j] => r \in servers[j] \/ (r = s /\ j = k)
      /\ s \in servers'[k]
  BY <1>1, <1>2 DEF SockOK
<1>5. /\ Manager(s, k) \in socks /\ s \notin servers[k]
      /\ \A u \in Tasks : Pending(u, k) /\ op[u].sp = s => u = t
  BY <1>2, <1>3, KnownParts DEF PendingListens
<1>6. OwnerInv' /\ RegistryKnown'
  BY <1>2, KnownParts DEF OwnerInv, RegistryKnown
<1>7. ManagerKnown'
  <2>1. ASSUME NEW x \in socks, x.live, x.owner = "manager"
        PROVE  x.sp \in servers'[x.kind] \/ \E u \in Tasks : Pending(u, x.kind)' /\ op'[u].sp = x.sp
    <3>1. x.kind \in Kinds /\ ManagerKnown
      BY <1>2, <2>1, KnownParts DEF OwnerInv
    <3>2. CASE x.sp \in servers[x.kind]
      BY <1>4, <3>1, <3>2
    <3>3. ASSUME NEW u \in Tasks, Pending(u, x.kind), op[u].sp = x.sp
          PROVE  x.sp \in servers'[x.kind] \/ \E v \in Tasks : Pending(v, x.kind)' /\ op'[v].sp = x.sp
      <4>1. CASE u = t
        BY <1>3, <1>4, <3>1, <3>3, <4>1
      <4>2. CASE u # t
        BY <1>3, <3>1, <3>3, <4>2
      <4> QED
        BY <4>1, <4>2
    <3> QED
      BY <2>1, <3>1, <3>2, <3>3 DEF ManagerKnown
  <2> QED
    BY <1>2, <2>1 DEF ManagerKnown
<1>8. ServersListen'
  <2>1. ASSUME NEW j \in Kinds, NEW r \in servers'[j] PROVE Manager(r, j) \in socks
    <3>1. r \in Spaces
      BY <1>2, <2>1 DEF SockOK
    <3> QED
      BY <1>2, <1>4, <1>5, <2>1, <3>1, KnownParts DEF ServersListen
  <2> QED
    BY <1>2, <2>1 DEF ServersListen, Manager
<1>9. PendingListens'
  <2>1. ASSUME NEW u \in Tasks, NEW j \in Kinds, Pending(u, j)'
        PROVE  /\ Manager(op'[u].sp, j) \in socks' /\ op'[u].sp \notin servers'[j]
               /\ \A v \in Tasks : Pending(v, j)' /\ op'[v].sp = op'[u].sp => v = u
    <3>1. u # t /\ Pending(u, j) /\ op'[u].sp = op[u].sp
      BY <1>3, <2>1
    <3>2. /\ Manager(op[u].sp, j) \in socks /\ op[u].sp \notin servers[j]
          /\ \A v \in Tasks : Pending(v, j) /\ op[v].sp = op[u].sp => v = u
      BY <1>2, <3>1, KnownParts DEF PendingListens
    <3>3. op[u].sp \notin servers'[j]
      <4>1. \A r \in servers'[j] : r \in Spaces
        BY <1>2 DEF SockOK
      <4> QED
        BY <1>4, <1>5, <3>1, <3>2, <4>1
    <3>4. \A v \in Tasks : Pending(v, j)' /\ op'[v].sp = op'[u].sp => v = u
      BY <1>3, <3>1, <3>2
    <3> QED
      BY <1>2, <3>1, <3>2, <3>3, <3>4
  <2> QED
    BY <2>1 DEF PendingListens, Manager
<1> QED
  BY <1>2, <1>6, <1>7, <1>8, <1>9, KnownPartsNext
\* Sockets that are not the manager's come, change and go: the manager's are
\* the same, and the registry's that accept are in the registry.
LEMMA RegistryKnownStep ==
    ASSUME SockOK, SockOK', KnownInv, SamePending, UNCHANGED servers,
           \A x : x.owner = "manager" /\ x.live => (x \in socks' <=> x \in socks),
           \A x \in socks' : x.owner = "manager" => x \in socks,
           \A x \in socks' : x.owner = "registry" => x.kind = "file",
           \A x \in socks' : x.owner = "registry" /\ x.live => x.sp \in registry'
    PROVE  KnownInv'
<1>1. OwnerInv' /\ RegistryKnown'
  BY KnownParts DEF OwnerInv, RegistryKnown
<1>2. \A s, k : Manager(s, k) \in socks' <=> Manager(s, k) \in socks
  BY DEF Manager
<1>3. ManagerKnown'
  <2>1. ASSUME NEW x \in socks', x.live, x.owner = "manager"
        PROVE  x.sp \in servers[x.kind] \/ \E t \in Tasks : Pending(t, x.kind)' /\ op'[t].sp = x.sp
    BY <2>1, KnownParts, SamePendingFacts DEF ManagerKnown
  <2> QED
    BY <2>1 DEF ManagerKnown
<1>4. ServersListen'
  BY <1>2, KnownParts DEF ServersListen, Manager
<1>5. PendingListens'
  <2>1. ASSUME NEW t \in Tasks, NEW j \in Kinds, Pending(t, j)'
        PROVE  /\ Manager(op'[t].sp, j) \in socks' /\ op'[t].sp \notin servers'[j]
               /\ \A u \in Tasks : Pending(u, j)' /\ op'[u].sp = op'[t].sp => u = t
    BY <1>2, <2>1, KnownParts, SamePendingFacts DEF PendingListens
  <2> QED
    BY <2>1 DEF PendingListens, Manager
<1> QED
  BY <1>1, <1>3, <1>4, <1>5, KnownPartsNext

\* The registry starts or stops its server of a space.
LEMMA RegistryStep ==
    ASSUME SockOK, SockOK', KnownInv, SamePending, UNCHANGED servers, NEW s \in Spaces,
           get_or_start(s) \/ stop(s)
    PROVE  KnownInv'
<1> DEFINE r == [sp |-> s, kind |-> "file", owner |-> "registry", live |-> TRUE]
           dead == [r EXCEPT !.live = FALSE]
<1>1. /\ r.owner = "registry" /\ dead.owner = "registry" /\ r.kind = "file" /\ dead.kind = "file"
      /\ r.sp = s /\ r.live /\ ~dead.live
  OBVIOUS
<1>2. OwnerInv /\ RegistryKnown
  BY KnownParts
<1>3. \A x \in socks : x.owner = "registry" /\ x.live /\ x # r => x.sp # s
  BY <1>2 DEF OwnerInv, SockOK, Socket
<1>4. CASE UNCHANGED <<socks, registry>>
  <2>1. UNCHANGED sockets
    BY <1>4 DEF sockets
  <2> QED
    BY <2>1, KnownFrame
<1>5. CASE socks' = socks \cup {r} /\ registry' = registry \cup {s}
  <2> HIDE DEF r, dead
  <2>1. \A x : x.owner = "manager" /\ x.live => (x \in socks' <=> x \in socks)
    BY <1>1, <1>5
  <2>2. /\ \A x \in socks' : x.owner = "manager" => x \in socks
        /\ \A x \in socks' : x.owner = "registry" => x.kind = "file"
        /\ \A x \in socks' : x.owner = "registry" /\ x.live => x.sp \in registry'
    BY <1>1, <1>2, <1>5 DEF OwnerInv, RegistryKnown
  <2> QED
    BY <2>1, <2>2, RegistryKnownStep
<1>6. CASE stop(s)
  <2>1. socks' = {IF x = r THEN [x EXCEPT !.live = FALSE] ELSE x : x \in socks} /\ registry' = registry \ {s}
    BY <1>6 DEF stop
  <2>2. socks' = {IF x = r THEN dead ELSE x : x \in socks}
    BY <2>1, Zenon
  <2> HIDE DEF r, dead
  <2>3. ASSUME NEW x \in socks' PROVE (x \in socks /\ x # r) \/ x = dead
    <3>1. PICK y \in socks : x = IF y = r THEN dead ELSE y
      BY <2>2
    <3> QED
      BY <3>1
  <2>4. ASSUME NEW x \in socks, x # r PROVE x \in socks'
    <3>1. x = IF x = r THEN dead ELSE x
      BY <2>4
    <3> QED
      BY <2>2, <3>1
  <2>5. ASSUME NEW x, x.owner = "manager", x.live PROVE x \in socks' <=> x \in socks
    BY <1>1, <2>3, <2>4, <2>5
  <2>6. /\ \A x \in socks' : x.owner = "manager" => x \in socks
        /\ \A x \in socks' : x.owner = "registry" => x.kind = "file"
        /\ \A x \in socks' : x.owner = "registry" /\ x.live => x.sp \in registry'
    BY <1>1, <1>2, <1>3, <2>1, <2>3 DEF OwnerInv, RegistryKnown
  <2> QED
    BY <2>5, <2>6, RegistryKnownStep
<1> QED
  BY <1>4, <1>5, <1>6 DEF get_or_start, Listen

\* Only BindServer and InsertServer begin and end an insertion.
LEMMA OpsKeepPending ==
    ASSUME TypeInv, NEW t \in Tasks, Commands(t) \/ Steps(t), ~BindServer(t), ~InsertServer(t)
    PROVE  SamePending
<1>0. op \in [Tasks -> OpType] /\ Idle.at = "idle"
  BY AtPlace, IdleFacts
<1>1. ASSUME NEW a \in OpPlaces, Goto(t, a), a # "insert", op[t].at # "insert" PROVE SamePending
  BY <1>0, <1>1, GotoFacts, GoesPending
<1>2. ASSUME Return(t), op[t].at # "insert" PROVE SamePending
  BY <1>0, <1>2, ReturnFacts, BecomesPending
<1>3. CASE Commands(t)
  <2>1. ASSUME NEW n \in OpNames, NEW s \in Spaces \cup {None}, NEW a \in OpPlaces, Start(t, n, s, a), a # "insert"
        PROVE  SamePending
    BY <1>0, <2>1, StartFacts, BecomesPending DEF TypeInv
  <2>2. /\ {"create", "connect", "disconnect", "delete", "patch", "list"} \subseteq OpNames
        /\ {"row", "ask", "cancel", "owner", "save", "rows"} \subseteq OpPlaces
    BY DEF OpNames, OpPlaces
  <2> QED
    BY <1>3, <2>1, <2>2 DEF Commands, Create, Connect, Disconnect, Delete, PatchConfig, List
<1>4. CASE \/ Fail(t) \/ PushSpace(t) \/ Retain(t) \/ ListStore(t) \/ SendFails(t) \/ BindFails(t)
           \/ InsertHandle(t) \/ ApplyPatch(t) \/ PatchFails(t)
  BY <1>2, <1>4 DEF Fail, Finish, PushSpace, Retain, ListStore, SendFails, BindFails, InsertHandle,
     ApplyPatch, PatchFails, At
<1>5. CASE \/ InsertRow(t) \/ CheckOwner(t) \/ DeleteRow(t) \/ ClearOthers(t) \/ Spawn(t)
           \/ CancelToken(t) \/ RemoveClient(t) \/ Leave(t)
  <2>1. {"config", "cancel", "retain", "read", "handle", "take", "leave", "unrow"} \subseteq OpPlaces
    BY DEF OpPlaces
  <2> QED
    BY <1>1, <1>2, <1>5, <2>1 DEF InsertRow, CheckOwner, DeleteRow, ClearOthers, Spawn,
       CancelToken, RemoveClient, Leave, At
<1>6. CASE ListRows(t) \/ ReadConfig(t) \/ SendOk(t) \/ SavePatch(t)
  <2>1. op[t].at # "insert" /\ Others(t) /\ op'[t].at \in {"store", "send", "stop", "apply"}
    BY <1>0, <1>6 DEF ListRows, ReadConfig, SendOk, SavePatch, At, Others, OpType
  <2> QED
    BY <2>1 DEF SamePending, Others
<1>7. CASE StopOld(t) \/ HaltServer(t) \/ TakeHandle(t) \/ AwaitTask(t)
  BY <1>7, StopOldFacts, HaltFacts, TakeFacts, AwaitFacts, GoesPending DEF At
<1> QED
  BY <1>3, <1>4, <1>5, <1>6, <1>7 DEF Steps

\* The steps of commands, tasks and the sync keep KnownInv.
LEMMA CoreKnown ==
    ASSUME TypeInv, TypeInv', KnownInv, CoreNext
    PROVE  KnownInv'
<1>0. SockOK /\ SockOK'
  BY TypeParts, TypePartsNext
<1>1. ASSUME NEW t \in Tasks, Commands(t) \/ Steps(t) PROVE KnownInv'
  <2>1. CASE BindServer(t)
    BY <2>1, BindKnown
  <2>2. CASE InsertServer(t)
    BY <2>2, InsertKnown
  <2>3. CASE StopOld(t) \/ HaltServer(t)
    <3>1. SamePending
      <4>1. op[t].at # "insert"
        BY <2>3 DEF StopOld, HaltServer, At
      <4>2. ~BindServer(t) /\ ~InsertServer(t)
        BY <2>3 DEF StopOld, HaltServer, BindServer, InsertServer, At
      <4> QED
        BY <1>1, <4>2, OpsKeepPending
    <3>2. op[t].sp \in Spaces
      BY <2>3, AtPlace DEF StopOld, HaltServer, At
    <3>3. \E k \in Kinds : StopServer(op[t].sp, k)
      BY <2>3, StopOldFacts, HaltFacts
    <3> QED
      BY <1>0, <3>1, <3>2, <3>3, StopKnown
  <2>4. CASE ~BindServer(t) /\ ~InsertServer(t) /\ ~StopOld(t) /\ ~HaltServer(t)
    <3>1. SamePending
      BY <1>1, <2>4, OpsKeepPending
    <3>2. UNCHANGED sockets
      BY <1>1, <2>4 DEF Commands, Create, Connect, Disconnect, Delete, PatchConfig, List, Start, Steps,
         Fail, Finish, InsertRow, PushSpace, CheckOwner, DeleteRow, Retain, ListRows, ListStore,
         ClearOthers, ReadConfig, SendOk, SendFails, BindFails, Spawn, InsertHandle, CancelToken,
         TakeHandle, AwaitTask, RemoveClient, Leave, SavePatch, ApplyPatch, PatchFails
    <3> QED
      BY <1>0, <3>1, <3>2, KnownFrame
  <2> QED
    BY <2>1, <2>2, <2>3, <2>4
<1>2. ASSUME UNCHANGED op PROVE SamePending
  BY <1>2 DEF SamePending
<1>3. ASSUME NEW s \in Spaces, FileCommand(s) PROVE KnownInv'
  BY <1>0, <1>2, <1>3, RegistryStep DEF FileCommand, RegistryFrame
<1>4. ASSUME NEW s \in Spaces, NEW c \in SUBSET Fields, UpdateSpaceConfig(s, c) PROVE KnownInv'
  BY <1>0, <1>2, <1>4, KnownFrame DEF UpdateSpaceConfig
<1>5. ASSUME NEW d \in Ids, Discover(d) PROVE KnownInv'
  BY <1>0, <1>2, <1>5, DiscFacts, TypeParts, KnownFrame DEF DiscFrame
<1>6. CASE CloseListener
  <2>1. PICK y \in socks : ~y.live /\ socks' = socks \ {y}
    BY <1>6 DEF CloseListener
  <2>2. UNCHANGED <<servers, registry, op>>
    BY <1>6 DEF CloseListener
  <2>3. OwnerInv /\ RegistryKnown
    BY <1>0, KnownParts
  <2>4. /\ \A x : x.owner = "manager" /\ x.live => (x \in socks' <=> x \in socks)
        /\ \A x \in socks' : x.owner = "manager" => x \in socks
    BY <2>1
  <2>5. /\ \A x \in socks' : x.owner = "registry" => x.kind = "file"
        /\ \A x \in socks' : x.owner = "registry" /\ x.live => x.sp \in registry'
    BY <2>1, <2>2, <2>3 DEF OwnerInv, RegistryKnown
  <2> QED
    BY <1>0, <1>2, <2>2, <2>4, <2>5, RegistryKnownStep
<1>7. CASE SyncList
  BY <1>0, <1>2, <1>7, KnownFrame DEF SyncList
<1>8. CASE SyncEach
  <2>1. SamePending /\ UNCHANGED servers
    BY <1>2, <1>8 DEF SyncEach, RegistryFrame
  <2>2. sync.rows \subseteq Spaces
    BY TypeParts DEF SyncOK
  <2>3. UNCHANGED <<socks, registry>> \/ \E s \in Spaces : get_or_start(s) \/ stop(s)
    BY <1>8, <2>2 DEF SyncEach
  <2> QED
    BY <1>0, <2>1, <2>3, RegistryStep, KnownFrame DEF sockets
<1> QED
  BY <1>1, <1>3, <1>4, <1>5, <1>6, <1>7, <1>8 DEF CoreNext, Sync

\* Every listener that accepts connections can still be stopped, and no map
\* holds a server whose listener has gone: a bind that succeeds excludes another
\* server of the same space and kind until it is in the map, in whatever order
\* connects, disconnects and syncs run.
THEOREM ListenersKnown == Spec => []ListenersAreKnown
<1>1. Init => TypeInv /\ LateOK /\ KnownInv
  <2>1. ASSUME Init PROVE KnownInv
    <3>1. SockOK /\ socks = {} /\ servers = [k \in Kinds |-> {}] /\ op = [t \in Tasks |-> Idle]
      BY <2>1, InitTypes, TypeParts DEF Init
    <3>2. \A t \in Tasks, k \in Kinds : ~Pending(t, k)
      BY <3>1, IdleFacts DEF Pending, At
    <3> QED
      BY <3>1, <3>2, KnownParts DEF OwnerInv, RegistryKnown, ManagerKnown, ServersListen, PendingListens
  <2> QED
    BY <2>1, InitTypes, InitLate
<1>2. TypeInv /\ LateOK /\ KnownInv /\ [Next]_vars => TypeInv' /\ LateOK' /\ KnownInv'
  <2>1. ASSUME TypeInv, KnownInv, UNCHANGED vars PROVE KnownInv'
    <3>1. SockOK /\ SockOK' /\ SamePending /\ UNCHANGED sockets
      BY <2>1, StutterTypes, TypeParts, TypePartsNext DEF vars, SamePending
    <3> QED
      BY <2>1, <3>1, KnownFrame
  <2>2. ASSUME TypeInv, TypeInv', LateOK, KnownInv, LateEffect \/ Wedge PROVE KnownInv'
    <3>1. SockOK /\ SockOK' /\ SamePending /\ UNCHANGED sockets
      BY <2>2, LateFacts, TypeParts, TypePartsNext DEF Wedge, SamePending
    <3> QED
      BY <2>2, <3>1, KnownFrame
  <2> QED
    BY <2>1, <2>2, TypesStep, CoreKnown, NextCases
<1>3. KnownInv => ListenersAreKnown
  BY DEF KnownInv
<1> QED
  BY <1>1, <1>2, <1>3, PTL DEF Spec
-----------------------------------------------------------------------------
(* The daemon's configuration is the saved one                             *)

\* A step of a command is about its space until it returns; few steps lead to a
\* place at which a command remembers something.
LEMMA StepOp ==
    ASSUME TypeInv, NEW t \in Tasks, Steps(t)
    PROVE  /\ Others(t) /\ op[t].at # "idle"
           /\ op'[t].sp = op[t].sp \/ op'[t] = Idle
           /\ op'[t].at = "send" => ReadConfig(t)
           /\ op'[t].at = "apply" => SavePatch(t)
           /\ op'[t].at = "store" => ListRows(t)
           /\ op'[t].at = "config" => InsertRow(t)
<1>0. op \in [Tasks -> OpType] /\ Idle.at = "idle"
  BY AtPlace, IdleFacts
<1> DEFINE Goal == /\ Others(t) /\ op[t].at # "idle"
                   /\ op'[t].sp = op[t].sp \/ op'[t] = Idle
                   /\ op'[t].at = "send" => ReadConfig(t)
                   /\ op'[t].at = "apply" => SavePatch(t)
                   /\ op'[t].at = "store" => ListRows(t)
                   /\ op'[t].at = "config" => InsertRow(t)
           Plain == OpPlaces \ {"send", "apply", "store", "config"}
<1>1. ASSUME NEW a \in Plain, Goto(t, a), op[t].at # "idle" PROVE Goal
  <2>1. GoesTo(t, a, op[t].todo, op[t].cfg, op[t].id)
    BY <1>0, <1>1, GotoFacts
  <2> QED
    BY <1>1, <2>1 DEF GoesTo
<1>2. ASSUME Return(t), op[t].at # "idle" PROVE Goal
  <2>1. Becomes(t, Idle)
    BY <1>0, <1>2, ReturnFacts
  <2> QED
    BY <1>0, <1>2, <2>1 DEF Becomes
<1>3. ASSUME NEW a \in Plain, NEW T, NEW c, NEW i, GoesTo(t, a, T, c, i), op[t].at # "idle" PROVE Goal
  BY <1>3 DEF GoesTo
<1>4. CASE \/ Fail(t) \/ PushSpace(t) \/ Retain(t) \/ ListStore(t) \/ SendFails(t) \/ BindFails(t)
           \/ InsertHandle(t) \/ ApplyPatch(t) \/ PatchFails(t)
  BY <1>2, <1>4 DEF Fail, Finish, PushSpace, Retain, ListStore, SendFails, BindFails, InsertHandle,
     ApplyPatch, PatchFails, At
<1>5. CASE \/ CheckOwner(t) \/ DeleteRow(t) \/ ClearOthers(t) \/ BindServer(t) \/ Spawn(t)
           \/ CancelToken(t) \/ RemoveClient(t) \/ Leave(t)
  <2>1. {"cancel", "retain", "read", "insert", "handle", "take", "leave", "unrow"} \subseteq Plain
    BY DEF OpPlaces
  <2> QED
    BY <1>1, <1>2, <1>5, <2>1 DEF CheckOwner, DeleteRow, ClearOthers, BindServer, Spawn,
       CancelToken, RemoveClient, Leave, At
<1>6. CASE InsertRow(t) \/ ListRows(t) \/ ReadConfig(t) \/ SavePatch(t) \/ SendOk(t)
  <2>1. /\ op[t].at # "idle" /\ Others(t) /\ op'[t].sp = op[t].sp
        /\ InsertRow(t) => op'[t].at = "config"
        /\ ListRows(t) => op'[t].at = "store"
        /\ ReadConfig(t) => op'[t].at = "send"
        /\ SavePatch(t) => op'[t].at = "apply"
        /\ SendOk(t) => op'[t].at = "stop"
    BY <1>0, <1>6 DEF InsertRow, ListRows, ReadConfig, SendOk, SavePatch, Goto, At, Others, OpType
  <2> QED
    BY <1>6, <2>1
<1>7. CASE StopOld(t) \/ HaltServer(t) \/ TakeHandle(t) \/ AwaitTask(t) \/ InsertServer(t)
  <2>1. {"bind", "stop", "client", "halt", "await", "token"} \subseteq Plain
    BY DEF OpPlaces
  <2>2. op[t].at # "idle"
    BY <1>7 DEF StopOld, HaltServer, TakeHandle, AwaitTask, InsertServer, At
  <2>3. CASE StopOld(t)
    BY <1>3, <2>1, <2>2, <2>3, StopOldFacts
  <2>4. CASE HaltServer(t)
    BY <1>3, <2>1, <2>2, <2>4, HaltFacts
  <2>5. CASE TakeHandle(t)
    BY <1>3, <2>1, <2>2, <2>5, TakeFacts
  <2>6. CASE AwaitTask(t)
    BY <1>3, <2>1, <2>2, <2>6, AwaitFacts
  <2>7. CASE InsertServer(t)
    BY <1>3, <2>1, <2>2, <2>7, InsertFacts
  <2> QED
    BY <1>7, <2>3, <2>4, <2>5, <2>6, <2>7
<1> QED
  BY <1>4, <1>5, <1>6, <1>7 DEF Steps

\* The parts of BornInv.
RowsBorn == rows \subseteq born /\ sync.rows \subseteq born
OpsBorn == \A t \in Tasks : /\ At(t, "store") => op[t].todo \cap Spaces \subseteq born
                            /\ op[t].at \in {"config", "send"} => op[t].sp \in born
UnbornUnknown == \A s \in Spaces \ born : mem[s] = "absent" /\ dcfg[s] = None
RunConfigured == \A s \in run : dcfg[s] # None

\* BornInv is their conjunction.
LEMMA BornParts == BornInv <=> RowsBorn /\ OpsBorn /\ UnbornUnknown /\ RunConfigured
BY DEF BornInv, RowsBorn, OpsBorn, UnbornUnknown, RunConfigured

\* The same after a step.
LEMMA BornPartsNext == BornInv' <=> RowsBorn' /\ OpsBorn' /\ UnbornUnknown' /\ RunConfigured'
BY DEF BornInv, RowsBorn, OpsBorn, UnbornUnknown, RunConfigured

\* Ids are never forgotten.
LEMMA BornGrows ==
    ASSUME CoreNext
    PROVE  born \subseteq born'
<1>1. ASSUME NEW t \in Tasks, Commands(t) \/ Steps(t) PROVE born \subseteq born'
  BY <1>1 DEF Commands, Create, Connect, Disconnect, Delete, PatchConfig, List, Start, Steps,
         Fail, Finish, InsertRow, PushSpace, CheckOwner, DeleteRow, Retain, ListRows, ListStore,
         ClearOthers, ReadConfig, SendOk, SendFails, StopOld, BindServer, BindFails, InsertServer,
         Spawn, InsertHandle, CancelToken, TakeHandle, AwaitTask, HaltServer, RemoveClient, Leave,
         SavePatch, ApplyPatch, PatchFails, database
<1> QED
  BY <1>1 DEF CoreNext, FileCommand, UpdateSpaceConfig, Discover, DiscCheck, DiscAsk, DiscPeers, DiscFrame,
     CloseListener, RegistryFrame, Sync, SyncList, SyncEach, database

\* What is remembered about a space is about one that was created.
LEMMA OpsBornNext ==
    ASSUME TypeInv, BornInv, CoreNext
    PROVE  OpsBorn'
<1>0. born \subseteq born' /\ OpsBorn /\ RowsBorn /\ UnbornUnknown
  BY BornGrows, BornParts
<1>1. ASSUME UNCHANGED op PROVE OpsBorn'
  BY <1>0, <1>1 DEF OpsBorn, At
<1>2. ASSUME NEW t \in Tasks, Others(t),
             op'[t].at = "store" => op'[t].todo \cap Spaces \subseteq born',
             op'[t].at \in {"config", "send"} => op'[t].sp \in born'
      PROVE  OpsBorn'
  BY <1>0, <1>2 DEF OpsBorn, At, Others
<1>3. ASSUME NEW t \in Tasks, Commands(t) PROVE OpsBorn'
  <2>1. ASSUME NEW n \in OpNames, NEW s \in Spaces \cup {None}, NEW a \in OpPlaces, Start(t, n, s, a),
               a \notin {"store", "config", "send"}
        PROVE  OpsBorn'
    <3>1. Becomes(t, New(n, s, a)) /\ New(n, s, a).at = a
      BY <2>1, StartFacts
    <3>2. Others(t) /\ op'[t].at = a
      BY <3>1 DEF Becomes
    <3> QED
      BY <1>2, <2>1, <3>2
  <2>2. /\ {"create", "connect", "disconnect", "delete", "patch", "list"} \subseteq OpNames
        /\ {"row", "ask", "cancel", "owner", "save", "rows"} \subseteq OpPlaces
    BY DEF OpNames, OpPlaces
  <2> QED
    BY <1>3, <2>1, <2>2 DEF Commands, Create, Connect, Disconnect, Delete, PatchConfig, List
<1>4. ASSUME NEW t \in Tasks, Steps(t) PROVE OpsBorn'
  <2>0. op[t] \in OpType /\ op \in [Tasks -> OpType]
    BY AtPlace
  <2>1. CASE op'[t].at = "store"
    <3>1. ListRows(t) /\ Others(t)
      BY <1>4, <2>1, StepOp
    <3>2. op'[t].todo = rows
      BY <2>0, <3>1 DEF ListRows, OpType
    <3> QED
      BY <1>0, <1>2, <2>1, <3>1, <3>2 DEF RowsBorn
  <2>2. CASE op'[t].at = "config"
    <3>1. InsertRow(t) /\ Others(t)
      BY <1>4, <2>2, StepOp
    <3>2. op'[t].sp \in born'
      BY <2>0, <3>1 DEF InsertRow, Goto, OpType
    <3> QED
      BY <1>2, <2>2, <3>1, <3>2
  <2>3. CASE op'[t].at = "send"
    <3>1. ReadConfig(t) /\ Others(t)
      BY <1>4, <2>3, StepOp
    <3>2. op'[t].sp = op[t].sp /\ op[t].sp \in Spaces /\ mem[op[t].sp] # "absent"
      BY <2>0, <3>1, AtPlace DEF ReadConfig, OpType, At
    <3> QED
      BY <1>0, <1>2, <2>3, <3>1, <3>2 DEF UnbornUnknown
  <2>4. CASE op'[t].at \notin {"store", "config", "send"}
    BY <1>2, <1>4, <2>4, StepOp
  <2> QED
    BY <2>1, <2>2, <2>3, <2>4
<1>5. CASE ~\E t \in Tasks : Commands(t) \/ Steps(t)
  <2>1. UNCHANGED op
    BY <1>5 DEF CoreNext, FileCommand, UpdateSpaceConfig, Discover, DiscCheck, DiscAsk, DiscPeers, DiscFrame,
       CloseListener, RegistryFrame, Sync, SyncList, SyncEach
  <2> QED
    BY <1>1, <2>1
<1> QED
  BY <1>3, <1>4, <1>5
\* The steps that change the database.
LEMMA DatabaseChanges ==
    ASSUME CoreNext
    PROVE  \/ UNCHANGED database
           \/ \E t \in Tasks : InsertRow(t) \/ DeleteRow(t) \/ SavePatch(t)
           \/ \E s \in Spaces, c \in SUBSET Fields : UpdateSpaceConfig(s, c)
<1>1. ASSUME NEW t \in Tasks, Commands(t) \/ Steps(t)
      PROVE  UNCHANGED database \/ InsertRow(t) \/ DeleteRow(t) \/ SavePatch(t)
  BY <1>1 DEF Commands, Create, Connect, Disconnect, Delete, PatchConfig, List, Start, Steps,
         Fail, Finish, PushSpace, CheckOwner, Retain, ListRows, ListStore,
         ClearOthers, ReadConfig, SendOk, SendFails, StopOld, BindServer, BindFails, InsertServer,
         Spawn, InsertHandle, CancelToken, TakeHandle, AwaitTask, HaltServer, RemoveClient, Leave,
         ApplyPatch, PatchFails
<1> QED
  BY <1>1 DEF CoreNext, FileCommand, Discover, DiscCheck, DiscAsk, DiscPeers, DiscFrame,
     CloseListener, RegistryFrame, Sync, SyncList, SyncEach

\* The steps that change the manager's list of spaces.
LEMMA MemChanges ==
    ASSUME CoreNext
    PROVE  UNCHANGED mem \/ SyncList \/ \E t \in Tasks : PushSpace(t) \/ Retain(t) \/ ListStore(t)
<1>1. ASSUME NEW t \in Tasks, Commands(t) \/ Steps(t)
      PROVE  UNCHANGED mem \/ PushSpace(t) \/ Retain(t) \/ ListStore(t)
  BY <1>1 DEF Commands, Create, Connect, Disconnect, Delete, PatchConfig, List, Start, Steps,
         Fail, Finish, InsertRow, CheckOwner, DeleteRow, ListRows,
         ClearOthers, ReadConfig, SendOk, SendFails, StopOld, BindServer, BindFails, InsertServer,
         Spawn, InsertHandle, CancelToken, TakeHandle, AwaitTask, HaltServer, RemoveClient, Leave,
         SavePatch, ApplyPatch, PatchFails
<1> QED
  BY <1>1 DEF CoreNext, FileCommand, UpdateSpaceConfig, Discover, DiscCheck, DiscAsk, DiscPeers, DiscFrame,
     CloseListener, RegistryFrame, Sync, SyncEach

\* The steps that change the daemon.
LEMMA DaemonChanges ==
    ASSUME CoreNext
    PROVE  \/ UNCHANGED daemon
           \/ \E t \in Tasks : \/ ClearOthers(t) \/ SendOk(t) \/ SendFails(t) \/ Leave(t)
                               \/ ApplyPatch(t) \/ PatchFails(t)
<1>1. ASSUME NEW t \in Tasks, Commands(t) \/ Steps(t)
      PROVE  \/ UNCHANGED daemon \/ ClearOthers(t) \/ SendOk(t) \/ SendFails(t) \/ Leave(t)
             \/ ApplyPatch(t) \/ PatchFails(t)
  BY <1>1 DEF Commands, Create, Connect, Disconnect, Delete, PatchConfig, List, Start, Steps,
         Fail, Finish, InsertRow, PushSpace, CheckOwner, DeleteRow, Retain, ListRows, ListStore,
         ReadConfig, StopOld, BindServer, BindFails, InsertServer,
         Spawn, InsertHandle, CancelToken, TakeHandle, AwaitTask, HaltServer, RemoveClient, SavePatch
<1> QED
  BY <1>1 DEF CoreNext, FileCommand, UpdateSpaceConfig, Discover, DiscCheck, DiscAsk, DiscPeers, DiscFrame,
     CloseListener, RegistryFrame, Sync, SyncList, SyncEach

\* What a step makes of the daemon: it forgets networks, or it gets a
\* configuration of the space it runs.
LEMMA DaemonFacts ==
    ASSUME TypeInv, CoreNext
    PROVE  \/ run' \subseteq run /\ UNCHANGED dcfg
           \/ \E t \in Tasks, c \in SUBSET Fields :
                /\ op[t].sp \in Spaces /\ op[t].at \in {"send", "apply"}
                /\ op[t].at = "apply" => dcfg[op[t].sp] # None
                /\ dcfg' = [dcfg EXCEPT ![op[t].sp] = c] /\ run' \subseteq run \cup {op[t].sp}
<1>0. \A t \in Tasks : op[t].at \in {"send", "apply"} => op[t].sp \in Spaces /\ op[t].cfg \in SUBSET Fields
  BY AtPlace DEF OpType
<1>1. ASSUME NEW t \in Tasks, ClearOthers(t) \/ Leave(t) PROVE run' \subseteq run /\ UNCHANGED dcfg
  BY <1>1 DEF ClearOthers, Leave
<1>2. ASSUME NEW t \in Tasks, SendOk(t)
      PROVE  /\ op[t].at = "send" /\ dcfg' = [dcfg EXCEPT ![op[t].sp] = op[t].cfg]
             /\ run' \subseteq run \cup {op[t].sp}
  BY <1>2 DEF SendOk, At
<1>3. ASSUME NEW t \in Tasks, SendFails(t)
      PROVE  \/ run' \subseteq run /\ UNCHANGED dcfg
             \/ /\ op[t].at = "send" /\ dcfg' = [dcfg EXCEPT ![op[t].sp] = op[t].cfg]
                /\ run' \subseteq run \cup {op[t].sp}
  <2>1. op[t].at = "send" /\ op[t].sp \in Spaces /\ op[t].cfg \in SUBSET Fields /\ DaemonOK
    BY <1>0, <1>3, TypeParts DEF SendFails, At
  <2>2. UNCHANGED daemon \/ ConnectEffect(op[t].sp, op[t].cfg)
    BY <1>3 DEF SendFails
  <2> QED
    BY <2>1, <2>2, ConnectTypes DEF daemon
<1>4. ASSUME NEW t \in Tasks, ApplyPatch(t) \/ PatchFails(t)
      PROVE  \/ run' \subseteq run /\ UNCHANGED dcfg
             \/ /\ op[t].at = "apply" /\ dcfg[op[t].sp] # None
                /\ dcfg' = [dcfg EXCEPT ![op[t].sp] = dcfg[op[t].sp] \cup (op[t].cfg \cap Known)]
                /\ dcfg[op[t].sp] \cup (op[t].cfg \cap Known) \in SUBSET Fields
                /\ run' \subseteq run \cup {op[t].sp}
  <2>1. op[t].at = "apply" /\ op[t].sp \in Spaces /\ op[t].cfg \in SUBSET Fields
    BY <1>0, <1>4 DEF ApplyPatch, PatchFails, At
  <2>2. CASE UNCHANGED daemon
    BY <2>2 DEF daemon
  <2>3. CASE PatchEffect(op[t].sp, op[t].cfg) /\ run' \in {run \cup {op[t].sp}, run \ {op[t].sp}}
    BY <2>1, <2>3, PatchTypes, TypeParts
  <2> QED
    BY <1>4, <2>2, <2>3 DEF ApplyPatch, PatchFails
<1>5. CASE UNCHANGED daemon
  BY <1>5 DEF daemon
<1> QED
  BY <1>0, <1>1, <1>2, <1>3, <1>4, <1>5, DaemonChanges

\* The steps of commands, tasks and the sync keep BornInv.
LEMMA CoreBorn ==
    ASSUME TypeInv, BornInv, CoreNext
    PROVE  BornInv'
<1>0. born \subseteq born' /\ OpsBorn /\ RowsBorn /\ UnbornUnknown /\ RunConfigured /\ OpsBorn'
  BY BornGrows, BornParts, OpsBornNext
<1>1. RowsBorn'
  <2>1. rows' \subseteq born'
    <3>1. CASE UNCHANGED database
      BY <1>0, <3>1 DEF RowsBorn, database
    <3>2. ASSUME NEW t \in Tasks, InsertRow(t) \/ DeleteRow(t) \/ SavePatch(t) PROVE rows' \subseteq born'
      BY <1>0, <3>2 DEF RowsBorn, InsertRow, DeleteRow, SavePatch
    <3>3. ASSUME NEW s \in Spaces, NEW c \in SUBSET Fields, UpdateSpaceConfig(s, c) PROVE rows' \subseteq born'
      BY <1>0, <3>3 DEF RowsBorn, UpdateSpaceConfig
    <3> QED
      BY <3>1, <3>2, <3>3, DatabaseChanges
  <2>2. sync'.rows \subseteq sync.rows \cup rows
    <3>1. CASE UNCHANGED sync
      BY <3>1
    <3>2. CASE SyncList
      <4>1. CASE sync' = [at |-> "ipc", rows |-> rows, listed |-> {}]
        BY <4>1
      <4>2. ASSUME NEW L, sync' = [sync EXCEPT !.at = "each", !.listed = L] PROVE sync'.rows = sync.rows
        BY <4>2, TypeParts DEF SyncOK
      <4> QED
        BY <3>2, <4>1, <4>2 DEF SyncList
    <3>3. CASE SyncEach
      BY <3>3, TypeParts DEF SyncEach, SyncOK, SyncIdle
    <3>4. UNCHANGED sync \/ SyncList \/ SyncEach
      <4>1. ASSUME NEW t \in Tasks, Commands(t) \/ Steps(t) PROVE UNCHANGED sync
        BY <4>1 DEF Commands, Create, Connect, Disconnect, Delete, PatchConfig, List, Start, Steps,
         Fail, Finish, InsertRow, PushSpace, CheckOwner, DeleteRow, Retain, ListRows, ListStore,
         ClearOthers, ReadConfig, SendOk, SendFails, StopOld, BindServer, BindFails, InsertServer,
         Spawn, InsertHandle, CancelToken, TakeHandle, AwaitTask, HaltServer, RemoveClient, Leave,
         SavePatch, ApplyPatch, PatchFails
      <4> QED
        BY <4>1 DEF CoreNext, FileCommand, UpdateSpaceConfig, Discover, DiscCheck, DiscAsk, DiscPeers, DiscFrame,
           CloseListener, Sync
    <3> QED
      BY <3>1, <3>2, <3>3, <3>4
  <2> QED
    BY <1>0, <2>1, <2>2 DEF RowsBorn
<1>2. \A s \in Spaces \ born' : mem'[s] = "absent"
  <2>1. CASE UNCHANGED mem
    BY <1>0, <2>1 DEF UnbornUnknown
  <2>2. ASSUME NEW R, R \cap Spaces \subseteq born, NEW L, mem' = ListedSpaces(R, L), NEW s \in Spaces \ born'
        PROVE  mem'[s] = "absent"
    BY <1>0, <2>2 DEF ListedSpaces
  <2>3. CASE SyncList
    BY <1>0, <2>1, <2>2, <2>3 DEF SyncList, RowsBorn
  <2>4. ASSUME NEW t \in Tasks, ListStore(t) PROVE \A s \in Spaces \ born' : mem'[s] = "absent"
    BY <1>0, <2>2, <2>4 DEF ListStore, OpsBorn
  <2>5. ASSUME NEW t \in Tasks, PushSpace(t) PROVE \A s \in Spaces \ born' : mem'[s] = "absent"
    <3>1. op[t].sp \in born /\ mem' = [mem EXCEPT ![op[t].sp] = "Disconnected"]
      BY <1>0, <2>5 DEF PushSpace, OpsBorn, At
    <3> QED
      BY <1>0, <3>1, TypeParts DEF UnbornUnknown, MemOK
  <2>6. ASSUME NEW t \in Tasks, Retain(t) PROVE \A s \in Spaces \ born' : mem'[s] = "absent"
    BY <1>0, <2>6, TypeParts DEF Retain, UnbornUnknown, MemOK
  <2> QED
    BY <2>1, <2>3, <2>4, <2>5, <2>6, MemChanges
<1>3. (\A s \in Spaces \ born' : dcfg'[s] = None) /\ RunConfigured'
  <2>1. CASE run' \subseteq run /\ UNCHANGED dcfg
    BY <1>0, <2>1 DEF UnbornUnknown, RunConfigured
  <2>2. ASSUME NEW t \in Tasks, NEW c \in SUBSET Fields, op[t].sp \in Spaces, op[t].at \in {"send", "apply"},
               op[t].at = "apply" => dcfg[op[t].sp] # None,
               dcfg' = [dcfg EXCEPT ![op[t].sp] = c], run' \subseteq run \cup {op[t].sp}
        PROVE  (\A s \in Spaces \ born' : dcfg'[s] = None) /\ RunConfigured'
    <3>1. op[t].sp \in born /\ c # None
      BY <1>0, <2>2, NoneAssumption DEF OpsBorn, UnbornUnknown
    <3>2. \A s \in Spaces : dcfg'[s] = IF s = op[t].sp THEN c ELSE dcfg[s]
      BY <2>2, TypeParts DEF DaemonOK
    <3>3. run' \subseteq Spaces /\ run \subseteq Spaces
      BY <2>2, TypeParts DEF DaemonOK
    <3> QED
      BY <1>0, <2>2, <3>1, <3>2, <3>3 DEF UnbornUnknown, RunConfigured
  <2> QED
    BY <2>1, <2>2, DaemonFacts
<1> QED
  BY <1>0, <1>1, <1>2, <1>3, BornPartsNext DEF UnbornUnknown

\* So do the late effect of a call and the wedge.
LEMMA LateBornInv ==
    ASSUME TypeInv, LateOK, LateBorn, BornInv, LateEffect
    PROVE  BornInv'
<1>0. OpsBorn /\ RowsBorn /\ UnbornUnknown /\ RunConfigured /\ UNCHANGED <<rows, born, mem, op, sync>>
  BY LateFacts, BornParts DEF database
<1>1. RowsBorn' /\ OpsBorn' /\ \A s \in Spaces \ born' : mem'[s] = "absent"
  BY <1>0 DEF RowsBorn, OpsBorn, UnbornUnknown, At
<1>2. CASE run' \subseteq run /\ UNCHANGED dcfg
  BY <1>0, <1>1, <1>2, BornPartsNext DEF UnbornUnknown, RunConfigured
<1>3. CASE \E c \in late, g \in SUBSET Fields :
             /\ c.sp \in Spaces /\ (c.name = "connect" \/ dcfg[c.sp] # None)
             /\ dcfg' = [dcfg EXCEPT ![c.sp] = g] /\ run' \subseteq run \cup {c.sp}
  <2>1. PICK c \in late, g \in SUBSET Fields :
             /\ c.sp \in Spaces /\ (c.name = "connect" \/ dcfg[c.sp] # None)
             /\ dcfg' = [dcfg EXCEPT ![c.sp] = g] /\ run' \subseteq run \cup {c.sp}
    BY <1>3
  <2>2. c.sp \in born /\ g # None
    BY <1>0, <2>1, NoneAssumption DEF LateBorn, UnbornUnknown
  <2>3. \A s \in Spaces : dcfg'[s] = IF s = c.sp THEN g ELSE dcfg[s]
    BY <2>1, TypeParts DEF DaemonOK
  <2>4. run' \subseteq Spaces /\ run \subseteq Spaces
    BY <2>1, TypeParts DEF DaemonOK
  <2>5. (\A s \in Spaces \ born' : dcfg'[s] = None) /\ RunConfigured'
    BY <1>0, <2>1, <2>2, <2>3, <2>4 DEF UnbornUnknown, RunConfigured
  <2> QED
    BY <1>1, <2>5, BornPartsNext DEF UnbornUnknown
<1> QED
  BY <1>2, <1>3, LateFacts

\* A call that was given up is for a space that was created.
LEMMA NextLateBorn ==
    ASSUME TypeInv, TypeInv', LateOK, LateBorn, BornInv, Next
    PROVE  LateBorn'
<1>1. born \subseteq born'
  BY NextCases, BornGrows, LateFacts DEF Wedge, database
<1>2. ASSUME NEW c \in late' \ late, c.name = "connect" PROVE c.sp \in born
  <2>1. PICK t \in Tasks : GivesUp(t)
    BY <1>2, LateGrows
  <2>2. op[t].at = "send" /\ c.sp = op[t].sp
    BY <1>2, <2>1, GivesUpFacts
  <2> QED
    BY <2>2, BornParts DEF OpsBorn
<1> QED
  BY <1>1, <1>2 DEF LateBorn

\* The parts of ApartInv for one space.
SendsSaved(s) == \A t \in Tasks : At(t, "send") /\ op[t].sp = s => op[t].cfg = Effective(s)
Patches(t, s) == At(t, "apply") /\ op[t].sp = s
PatchAgrees(s) == \A t \in Tasks : Patches(t, s) => dcfg[s] \cup (op[t].cfg \cap Known) = Effective(s)
DaemonAgrees(s) ==
    (s \in rows /\ dcfg[s] # None) =>
        PatchAgrees(s) /\ ((\A t \in Tasks : ~Patches(t, s)) => dcfg[s] = Effective(s))
Agrees(s) == Alone(s) /\ SendsSaved(s) /\ DaemonAgrees(s)

\* ApartInv says this of every space that is not set apart.
LEMMA ApartParts ==
    ASSUME ApartInv, NEW s \in Spaces \ apart
    PROVE  Agrees(s)
BY DEF ApartInv, Agrees, SendsSaved, DaemonAgrees, PatchAgrees, Patches

\* The same after a step.
LEMMA ApartPartsNext ==
    ASSUME \A s \in Spaces \ apart' : Agrees(s)'
    PROVE  ApartInv'
BY DEF ApartInv, Agrees, SendsSaved, DaemonAgrees, PatchAgrees, Patches, Alone, At

\* Nobody begins or ends to send or to patch for a space.
SameRole(s) ==
    \A t \in Tasks : /\ op[t].at \in {"send", "apply"} \/ op'[t].at \in {"send", "apply"}
                     /\ op[t].sp = s \/ op'[t].sp = s
                     => op'[t] = op[t]

\* A step that leaves the two configurations of a space alone.
LEMMA AgreesFrame ==
    ASSUME NEW s \in Spaces, Agrees(s), Alone(s)', SameRole(s), dbcfg'[s] = dbcfg[s], dcfg'[s] = dcfg[s],
           s \in rows' => s \in rows \/ dcfg[s] = None
    PROVE  Agrees(s)'
<1>1. \A t \in Tasks : (op'[t].at = "send" /\ op'[t].sp = s) => op'[t] = op[t]
  BY DEF SameRole
<1>2. \A t \in Tasks : Patches(t, s)' <=> Patches(t, s)
  BY DEF SameRole, Patches, At
<1>3. \A t \in Tasks : Patches(t, s) => op'[t] = op[t]
  BY DEF SameRole, Patches, At
<1>4. SendsSaved(s)'
  BY <1>1 DEF Agrees, SendsSaved, At, Effective
<1>5. DaemonAgrees(s)'
  BY <1>2, <1>3 DEF Agrees, DaemonAgrees, PatchAgrees, Effective
<1> QED
  BY <1>4, <1>5 DEF Agrees

\* A step of a task for another space.
LEMMA OtherRole ==
    ASSUME NEW s, NEW t \in Tasks, Others(t), op[t].sp # s, op'[t].sp # s, Alone(s)
    PROVE  Alone(s)' /\ SameRole(s)
BY DEF Others, Alone, SameRole

\* A step of the task that works for the space, outside send and apply.
LEMMA QuietRole ==
    ASSUME NEW s \in Spaces, NEW t \in Tasks, Others(t), op'[t].sp = op[t].sp \/ op'[t].sp = None, Alone(s),
           op[t].at \notin {"send", "apply"}, op'[t].at \notin {"send", "apply"}
    PROVE  Alone(s)' /\ SameRole(s)
<1>1. None # s
  BY NoneAssumption
<1> QED
  BY <1>1 DEF Others, Alone, SameRole

\* A space that was set apart is together again only when a connect that runs
\* alone has sent what is saved.
LEMMA ApartChanges ==
    ASSUME CoreNext, NEW s \in apart, s \notin apart'
    PROVE  \E t \in Tasks : SendOk(t) /\ op[t].sp = s /\ OnSpace(s) = {t} /\ Effective(s) = op[t].cfg
<1>1. ASSUME NEW t \in Tasks, Commands(t) \/ Steps(t), ~SendOk(t) PROVE apart \subseteq apart'
  BY <1>1 DEF Commands, Create, Connect, Disconnect, Delete, PatchConfig, List, Start, Steps,
         Fail, Finish, InsertRow, PushSpace, CheckOwner, DeleteRow, Retain, ListRows, ListStore,
         ClearOthers, ReadConfig, SendFails, StopOld, BindServer, BindFails, InsertServer,
         Spawn, InsertHandle, CancelToken, TakeHandle, AwaitTask, HaltServer, RemoveClient, Leave,
         SavePatch, ApplyPatch, PatchFails
<1>2. ASSUME NEW t \in Tasks, SendOk(t)
      PROVE  op[t].sp = s /\ OnSpace(s) = {t} /\ Effective(s) = op[t].cfg
  BY <1>2 DEF SendOk, Effective
<1>3. CASE ~\E t \in Tasks : Commands(t) \/ Steps(t)
  BY <1>3 DEF CoreNext, FileCommand, UpdateSpaceConfig, Discover, DiscCheck, DiscAsk, DiscPeers, DiscFrame,
     CloseListener, RegistryFrame, Sync, SyncList, SyncEach
<1> QED
  BY <1>1, <1>2, <1>3

\* A command begins: alone, or the space is set apart.
LEMMA StartAgrees ==
    ASSUME TypeInv, ApartInv, NEW t \in Tasks, Commands(t), NEW s \in Spaces \ apart'
    PROVE  Agrees(s)'
<1>1. ASSUME NEW n \in OpNames, NEW r \in Spaces \cup {None}, NEW a \in OpPlaces, Start(t, n, r, a),
             a \notin {"send", "apply"}
      PROVE  Agrees(s)'
  <2>1. /\ Others(t) /\ op'[t].sp = r /\ op'[t].at = a /\ op[t] = Idle
        /\ UNCHANGED <<rows, dbcfg, dcfg>>
    BY <1>1, StartFacts DEF Becomes, database, daemon
  <2>2. s \notin apart /\ (r = s => OnSpace(s) = {})
    BY <1>1 DEF Start, Overlaps
  <2>3. Agrees(s) /\ op[t].sp # s /\ op[t].at \notin {"send", "apply"}
    BY <2>1, <2>2, ApartParts, IdleFacts, NoneAssumption
  <2>4. Alone(s)' /\ SameRole(s)
    <3>1. CASE r # s
      BY <2>1, <2>3, <3>1, OtherRole DEF Agrees
    <3>2. CASE r = s
      <4>1. \A u \in Tasks : op[u].sp # s
        BY <2>2, <3>2 DEF OnSpace
      <4> QED
        BY <1>1, <2>1, <2>3, <4>1 DEF Alone, SameRole, Others
    <3> QED
      BY <3>1, <3>2
  <2> QED
    BY <2>1, <2>3, <2>4, AgreesFrame
<1>2. /\ {"create", "connect", "disconnect", "delete", "patch", "list"} \subseteq OpNames
      /\ {"row", "ask", "cancel", "owner", "save", "rows"} \subseteq OpPlaces
  BY DEF OpNames, OpPlaces
<1> QED
  BY <1>1, <1>2 DEF Commands, Create, Connect, Disconnect, Delete, PatchConfig, List

\* The configurations of a space for which a task does not work.
LEMMA OtherConfigs ==
    ASSUME TypeInv, NEW t \in Tasks, Steps(t), NEW s \in Spaces, op[t].sp # s
    PROVE  /\ dbcfg'[s] = dbcfg[s] /\ dcfg'[s] = dcfg[s]
           /\ s \in rows' => s \in rows
<1>1. DbOK /\ DaemonOK
  BY TypeParts
<1>2. CASE InsertRow(t) \/ DeleteRow(t) \/ SavePatch(t)
  BY <1>1, <1>2 DEF DbOK, InsertRow, DeleteRow, SavePatch, daemon
<1>3. CASE ClearOthers(t) \/ SendOk(t) \/ SendFails(t) \/ Leave(t) \/ ApplyPatch(t) \/ PatchFails(t)
  BY <1>1, <1>3 DEF DaemonOK, ClearOthers, SendOk, SendFails, ConnectEffect, Leave, ApplyPatch, PatchFails,
     PatchEffect, daemon, database
<1>4. CASE UNCHANGED <<database, daemon>>
  BY <1>4 DEF database, daemon
<1> QED
  BY <1>2, <1>3, <1>4 DEF Steps, Fail, Finish, PushSpace, CheckOwner, Retain, ListRows, ListStore,
     ReadConfig, StopOld, BindServer, BindFails, InsertServer,
     Spawn, InsertHandle, CancelToken, TakeHandle, AwaitTask, HaltServer, RemoveClient
\* The steps of a command on the configurations of its own space.
LEMMA OwnAgrees ==
    ASSUME TypeInv, BornInv, ApartInv, CoreNext, NEW t \in Tasks, Steps(t), NEW s \in Spaces \ apart', op[t].sp = s
    PROVE  Agrees(s)'
<1>0. /\ DbOK /\ DaemonOK /\ op \in [Tasks -> OpType] /\ op[t] \in OpType /\ s \in Spaces /\ None # s
      /\ Idle.at = "idle" /\ Idle.sp = None /\ "stop" \in OpPlaces /\ Others(t)
      /\ Kinds \in SUBSET (Spaces \cup Kinds)
  BY TypeParts, AtPlace, IdleFacts, NoneAssumption, StepOp DEF OpPlaces
<1>1. CASE SendOk(t)
  <2>1. /\ op'[t].at = "stop" /\ op'[t].sp = s
    BY <1>0, <1>1 DEF SendOk, OpType
  <2>2. dcfg' = [dcfg EXCEPT ![s] = op[t].cfg] /\ dbcfg' = dbcfg
    BY <1>1 DEF SendOk, database
  <2>3. dcfg'[s] = op[t].cfg
    BY <1>0, <2>2 DEF DaemonOK
  <2>4. op[t].cfg = Effective(s) /\ \A u \in Tasks : op[u].sp = s => u = t
    <3>1. CASE s \in apart
      <4>1. OnSpace(s) = {t} /\ Effective(s) = op[t].cfg
        BY <1>1, <3>1 DEF SendOk, Effective
      <4> QED
        BY <4>1 DEF OnSpace
    <3>2. CASE s \notin apart
      BY <1>1, <3>2, ApartParts DEF Agrees, Alone, SendsSaved, SendOk
    <3> QED
      BY <3>1, <3>2
  <2>5. \A u \in Tasks : op'[u].sp = s => u = t
    BY <1>0, <2>4 DEF Others
  <2>6. Alone(s)' /\ SendsSaved(s)' /\ \A u \in Tasks : ~Patches(u, s)'
    BY <2>1, <2>5 DEF Alone, SendsSaved, Patches, At
  <2> QED
    BY <2>2, <2>3, <2>4, <2>6 DEF Agrees, DaemonAgrees, PatchAgrees, Effective
<1>2. CASE SendFails(t) \/ PatchFails(t)
  BY <1>2 DEF SendFails, PatchFails
<1>3. CASE ~SendOk(t) /\ ~SendFails(t) /\ ~PatchFails(t)
  <2>1. s \notin apart /\ Agrees(s) /\ Alone(s)
    <3>1. s \notin apart
      <4>1. SUFFICES ASSUME s \in apart PROVE FALSE
        OBVIOUS
      <4>2. PICK u \in Tasks : SendOk(u) /\ op[u].sp = s /\ OnSpace(s) = {u}
        BY <4>1, ApartChanges
      <4>3. u = t
        BY <4>2 DEF OnSpace
      <4> QED
        BY <1>3, <4>2, <4>3
    <3> QED
      BY <3>1, ApartParts DEF Agrees
  <2>2. \A u \in Tasks : op[u].sp = s => u = t
    BY <2>1 DEF Alone
  <2>3. Alone(s)' /\ \A u \in Tasks : op'[u].sp = s => u = t
    BY <1>0, <2>2 DEF Others, Alone
  <2>4. CASE ReadConfig(t)
    <3>1. op'[t].at = "send" /\ op'[t].cfg = Effective(s) /\ op[t].at = "read" /\ UNCHANGED <<database, daemon>>
      BY <1>0, <2>4 DEF ReadConfig, OpType, At, Effective
    <3>2. SendsSaved(s)'
      BY <2>3, <3>1 DEF SendsSaved, At, database, Effective
    <3>3. \A u \in Tasks : ~Patches(u, s) /\ ~Patches(u, s)'
      BY <2>2, <2>3, <3>1 DEF Patches, At
    <3>4. DaemonAgrees(s)'
      BY <2>1, <3>1, <3>3 DEF Agrees, DaemonAgrees, PatchAgrees, Effective, database, daemon
    <3> QED
      BY <2>3, <3>2, <3>4 DEF Agrees
  <2>5. CASE SavePatch(t)
    <3>1. PICK f \in SUBSET Fields :
            /\ op' = [op EXCEPT ![t].cfg = f, ![t].at = "apply"]
            /\ \/ /\ dbcfg' = IF s \in rows THEN [dbcfg EXCEPT ![s] = @ \cup f] ELSE dbcfg
                  /\ f \subseteq Known /\ dbcfg[s] \cap Malformed = {}
               \/ apart' = apart \cup {s}
      BY <2>5 DEF SavePatch
    <3>2. op'[t].at = "apply" /\ op'[t].cfg = f /\ op'[t].sp = s /\ op[t].at = "save" /\ UNCHANGED <<rows, daemon>>
      BY <1>0, <2>5, <3>1 DEF SavePatch, OpType, At
    <3>3. /\ s \in rows => dbcfg'[s] = dbcfg[s] \cup f
          /\ f \cap Known = f /\ Effective(s) = dbcfg[s]
      BY <1>0, <3>1 DEF DbOK, Effective, get_effective_config
    <3>9. s \in rows => Effective(s)' = dbcfg[s] \cup f
      BY <3>1, <3>3, FieldsAssumption DEF Effective, get_effective_config
    <3>4. SendsSaved(s)'
      BY <2>3, <3>2 DEF SendsSaved, At
    <3>5. \A u \in Tasks : ~Patches(u, s)
      BY <2>2, <3>2 DEF Patches, At
    <3>6. ASSUME s \in rows, dcfg[s] # None PROVE dcfg[s] \cup (f \cap Known) = Effective(s)'
      BY <2>1, <3>3, <3>9, <3>5, <3>6 DEF Agrees, DaemonAgrees
    <3>7. Patches(t, s)' /\ \A u \in Tasks : Patches(u, s)' => u = t
      BY <2>3, <3>2 DEF Patches, At
    <3>8. DaemonAgrees(s)'
      BY <3>2, <3>6, <3>7 DEF DaemonAgrees, PatchAgrees, daemon
    <3> QED
      BY <2>3, <3>4, <3>8 DEF Agrees
  <2>6. CASE ApplyPatch(t)
    <3>1. op'[t] = Idle /\ op[t].at = "apply" /\ dcfg[s] # None /\ UNCHANGED <<rows, dbcfg>>
          /\ dcfg' = [dcfg EXCEPT ![s] = @ \cup (op[t].cfg \cap Known)]
      BY <1>0, <2>6 DEF ApplyPatch, PatchEffect, Return, At, database
    <3>2. dcfg'[s] = dcfg[s] \cup (op[t].cfg \cap Known)
      BY <1>0, <3>1 DEF DaemonOK
    <3>3. \A u \in Tasks : op'[u].sp # s
      BY <1>0, <2>3, <3>1
    <3>4. s \in rows => dcfg'[s] = Effective(s)
      BY <2>1, <3>1, <3>2 DEF Agrees, DaemonAgrees, PatchAgrees, Patches, At
    <3>5. SendsSaved(s)' /\ \A u \in Tasks : ~Patches(u, s)'
      BY <3>3 DEF SendsSaved, Patches
    <3>6. DaemonAgrees(s)'
      BY <3>1, <3>4, <3>5 DEF DaemonAgrees, PatchAgrees, Effective
    <3> QED
      BY <2>3, <3>5, <3>6 DEF Agrees
  <2>8. CASE DeleteRow(t)
    <3>1. /\ At(t, "unrow") /\ rows' = rows \ {s}
          /\ GoesTo(t, "retain", op[t].todo, op[t].cfg, op[t].id)
      BY <1>0, <2>8, GotoFacts DEF DeleteRow, OpPlaces
    <3>2. op'[t].at = "retain"
      BY <3>1 DEF GoesTo
    <3>3. SendsSaved(s)' /\ DaemonAgrees(s)'
      BY <2>3, <3>1, <3>2 DEF SendsSaved, DaemonAgrees, At
    <3> QED
      BY <2>3, <3>3 DEF Agrees
  <2>7. CASE ~ReadConfig(t) /\ ~SavePatch(t) /\ ~ApplyPatch(t) /\ ~DeleteRow(t)
    <3>1. op'[t].at \notin {"send", "apply"} /\ (op'[t].sp = s \/ op'[t].sp = None)
      BY <1>0, <2>7, StepOp
    <3>2. op[t].at \notin {"send", "apply"}
      BY <1>3, <2>7 DEF Steps, Fail, InsertRow, PushSpace, CheckOwner, DeleteRow, Retain, ListRows, ListStore,
         ClearOthers, StopOld, BindServer, BindFails, InsertServer, Spawn, InsertHandle, CancelToken,
         TakeHandle, AwaitTask, HaltServer, RemoveClient, Leave, At
    <3>3. UNCHANGED <<dbcfg, dcfg>>
      BY <1>3, <2>7 DEF Steps, Fail, Finish, InsertRow, PushSpace, CheckOwner, DeleteRow, Retain, ListRows,
         ListStore, ClearOthers, StopOld, BindServer, BindFails, InsertServer, Spawn, InsertHandle,
         CancelToken, TakeHandle, AwaitTask, HaltServer, RemoveClient, Leave, database, daemon
    <3>4. s \in rows' => s \in rows \/ dcfg[s] = None
      <4>1. CASE InsertRow(t)
        BY <1>0, <4>1, BornParts DEF InsertRow, UnbornUnknown
      <4>2. CASE ~InsertRow(t)
        BY <1>3, <2>7, <4>2 DEF Steps, Fail, Finish, PushSpace, CheckOwner, DeleteRow, Retain, ListRows,
           ListStore, ClearOthers, StopOld, BindServer, BindFails, InsertServer, Spawn, InsertHandle,
           CancelToken, TakeHandle, AwaitTask, HaltServer, RemoveClient, Leave, database
      <4> QED
        BY <4>1, <4>2
    <3>5. SameRole(s)
      BY <1>0, <2>1, <3>1, <3>2, QuietRole
    <3> QED
      BY <1>0, <2>1, <2>3, <3>3, <3>4, <3>5, AgreesFrame
  <2> QED
    BY <2>4, <2>5, <2>6, <2>7, <2>8
<1> QED
  BY <1>1, <1>2, <1>3

\* The steps of commands, tasks and the sync keep ApartInv.
LEMMA CoreApart ==
    ASSUME TypeInv, BornInv, ApartInv, CoreNext
    PROVE  ApartInv'
<1>1. SUFFICES ASSUME NEW s \in Spaces \ apart' PROVE Agrees(s)'
  BY ApartPartsNext
<1>2. ASSUME NEW t \in Tasks, Commands(t) PROVE Agrees(s)'
  BY <1>2, StartAgrees
<1>3. ASSUME NEW t \in Tasks, Steps(t), op[t].sp = s PROVE Agrees(s)'
  BY <1>3, OwnAgrees
<1>4. ASSUME NEW t \in Tasks, Steps(t), op[t].sp # s PROVE Agrees(s)'
  <2>1. Others(t) /\ op'[t].sp # s
    BY <1>4, StepOp, IdleFacts, NoneAssumption
  <2>2. s \notin apart
    <3>1. SUFFICES ASSUME s \in apart PROVE FALSE
      OBVIOUS
    <3>2. PICK u \in Tasks : SendOk(u) /\ op[u].sp = s
      BY <3>1, ApartChanges
    <3>3. u # t /\ op'[u].at = "stop" /\ op[u].at = "send"
      BY <1>4, <3>2, AtPlace DEF SendOk, OpType, At
    <3> QED
      BY <2>1, <3>3 DEF Others
  <2>3. Agrees(s)
    BY <2>2, ApartParts
  <2>4. Alone(s)' /\ SameRole(s)
    BY <1>4, <2>1, <2>3, OtherRole DEF Agrees
  <2> QED
    BY <1>4, <2>3, <2>4, OtherConfigs, AgreesFrame
<1>5. CASE ~\E t \in Tasks : Commands(t) \/ Steps(t)
  <2>1. UNCHANGED op /\ UNCHANGED <<rows, dcfg>>
    BY <1>5 DEF CoreNext, FileCommand, UpdateSpaceConfig, Discover, DiscCheck, DiscAsk, DiscPeers, DiscFrame,
       CloseListener, RegistryFrame, Sync, SyncList, SyncEach, database, daemon
  <2>2. s \notin apart
    <3>1. ASSUME NEW u \in Tasks PROVE ~SendOk(u)
      BY <1>5 DEF Steps
    <3> QED
      BY <3>1, ApartChanges
  <2>3. dbcfg'[s] = dbcfg[s]
    <3>1. ASSUME NEW r \in Spaces, NEW c \in SUBSET Fields, UpdateSpaceConfig(r, c) PROVE dbcfg'[s] = dbcfg[s]
      <4>1. r # s
        BY <3>1 DEF UpdateSpaceConfig
      <4> QED
        BY <3>1, <4>1, TypeParts DEF UpdateSpaceConfig, DbOK
    <3>2. CASE UNCHANGED database
      BY <3>2 DEF database
    <3> QED
      BY <1>5, <3>1, <3>2, DatabaseChanges DEF Steps
  <2>4. Alone(s)' /\ SameRole(s) /\ Agrees(s)
    BY <2>1, <2>2, ApartParts DEF Agrees, Alone, SameRole
  <2> QED
    BY <2>1, <2>3, <2>4, AgreesFrame
<1> QED
  BY <1>2, <1>3, <1>4, <1>5

\* The late effect of a call sets its space apart.
LEMMA LateApart ==
    ASSUME TypeInv, LateOK, ApartInv, LateEffect
    PROVE  ApartInv'
<1>1. SUFFICES ASSUME NEW s \in Spaces \ apart' PROVE Agrees(s)'
  BY ApartPartsNext
<1>2. UNCHANGED <<rows, dbcfg, op>> /\ s \notin apart
  BY LateFacts DEF database
<1>3. dcfg'[s] = dcfg[s]
  <2>1. CASE UNCHANGED dcfg
    BY <2>1
  <2>2. ASSUME NEW c \in late, NEW g, dcfg' = [dcfg EXCEPT ![c.sp] = g], c.sp \in apart'
        PROVE  dcfg'[s] = dcfg[s]
    BY <2>2, TypeParts DEF DaemonOK
  <2> QED
    BY <2>1, <2>2, LateFacts
<1>4. Alone(s)' /\ SameRole(s) /\ Agrees(s)
  BY <1>2, ApartParts DEF Agrees, Alone, SameRole
<1> QED
  BY <1>2, <1>3, <1>4, AgreesFrame

\* What the daemon has for a space that runs is what a connect would send,
\* unless an edit, a setting the daemon does not know, an error, a call given
\* up or an overlap of commands came between: connect sends what it has read,
\* and a patch is made on both sides.
THEOREM ConfigurationsAgree == Spec => []ConfigAgrees
<1> DEFINE IInv == TypeInv /\ LateOK /\ LateBorn /\ BornInv /\ ApartInv
<1>1. Init => IInv
  <2>1. ASSUME Init PROVE BornInv /\ ApartInv
    <3>1. \A t \in Tasks : op[t].at = "idle" /\ op[t].sp = None
      BY <2>1, IdleFacts DEF Init
    <3>2. BornInv
      BY <2>1, <3>1 DEF Init, BornInv, At, SyncIdle
    <3>3. ApartInv
      BY <2>1, <3>1, NoneAssumption DEF Init, ApartInv, Alone, At
    <3> QED
      BY <3>2, <3>3
  <2> QED
    BY <2>1, InitTypes, InitLate
<1>2. IInv /\ [Next]_vars => IInv'
  <2>1. ASSUME LateBorn, BornInv, ApartInv, UNCHANGED <<database, mem, daemon, op, sync, apart>>
        PROVE  BornInv' /\ ApartInv'
    <3>1. BornInv'
      BY <2>1 DEF BornInv, At, database, daemon
    <3>2. ApartInv'
      BY <2>1 DEF ApartInv, Effective, Alone, At, database, daemon
    <3> QED
      BY <3>1, <3>2
  <2>2. ASSUME IInv, [Next]_vars PROVE TypeInv' /\ LateOK' /\ LateBorn'
    <3>1. TypeInv' /\ LateOK'
      BY <2>2, TypesStep
    <3>2. CASE UNCHANGED vars
      BY <2>2, <3>1, <3>2 DEF LateBorn, vars, database
    <3> QED
      BY <2>2, <3>1, <3>2, NextLateBorn
  <2>3. ASSUME IInv, [Next]_vars PROVE BornInv' /\ ApartInv'
    <3>1. CASE CoreNext
      BY <2>3, <3>1, CoreBorn, CoreApart
    <3>2. CASE LateEffect
      BY <2>3, <3>2, LateBornInv, LateApart
    <3>3. CASE Wedge \/ UNCHANGED vars
      BY <2>1, <2>3, <3>3 DEF Wedge, vars
    <3> QED
      BY <2>3, <3>1, <3>2, <3>3, NextCases
  <2> QED
    BY <2>2, <2>3
<1>3. IInv => ConfigAgrees
  <2>1. SUFFICES ASSUME TypeInv, BornInv, ApartInv, NEW s \in Spaces \ apart, OnSpace(s) = {}, s \in run, s \in rows
                 PROVE  dcfg[s] = Effective(s)
    BY DEF ConfigAgrees, Effective
  <2>2. dcfg[s] # None
    BY <2>1 DEF BornInv
  <2>3. \A t \in Tasks : op[t].sp # s
    BY <2>1 DEF OnSpace
  <2> QED
    BY <2>1, <2>2, <2>3 DEF ApartInv
<1> QED
  BY <1>1, <1>2, <1>3, PTL DEF Spec
-----------------------------------------------------------------------------
(* A session is all there or all gone                                      *)

\* MixedInv for one space.
Plain(s) ==
    /\ Alone(s)
    /\ \A t \in Tasks : op[t].sp = s => Finds(t)
    /\ OnSpace(s) = {} => Whole(s)

\* MixedInv says this of every space whose session is a plain sequence.
LEMMA MixedParts ==
    ASSUME MixedInv, NEW s \in Spaces \ mixed
    PROVE  Plain(s)
BY DEF MixedInv, Plain

\* The same after a step.
LEMMA MixedPartsNext ==
    ASSUME \A s \in Spaces \ mixed' : Plain(s)'
    PROVE  MixedInv'
BY DEF MixedInv, Plain, Alone, OnSpace

\* A step that does nothing to the session of a space, but that its discover
\* task may go on.
SameSession(s) ==
    /\ token'[s] = token[s] /\ handle'[s] = handle[s]
    /\ \A k \in Kinds : s \in servers'[k] <=> s \in servers[k]
    /\ Unfinished(s)' \subseteq Unfinished(s)
    /\ s \in clients' => s \in clients \/ Unfinished(s) # {}

\* What holds of the session still holds.
LEMMA SessionFrame ==
    ASSUME NEW s \in Spaces, SameSession(s)
    PROVE  /\ Gone(s) => Gone(s)'
           /\ Tok(s) => Tok(s)'
           /\ Whole(s) => Whole(s)'
           /\ AllServers(s) => AllServers(s)'
           /\ NoServers(s) => NoServers(s)'
<1>1. Gone(s) => Gone(s)'
  BY DEF SameSession, Gone
<1>2. Tok(s) => Tok(s)'
  BY <1>1 DEF SameSession, Tok
<1>3. (AllServers(s) => AllServers(s)') /\ (NoServers(s) => NoServers(s)')
  BY DEF SameSession, AllServers, NoServers
<1>4. Whole(s) => Whole(s)'
  BY <1>1, <1>3 DEF SameSession, Whole
<1> QED
  BY <1>1, <1>2, <1>3, <1>4

\* A command that does not move finds what it found.
LEMMA FindsFrame ==
    ASSUME NEW s \in Spaces, SameSession(s), NEW t \in Tasks, op[t].sp = s, op'[t] = op[t], Finds(t)
    PROVE  Finds(t)'
<1>1. op'[t].sp = s
  OBVIOUS
<1>2. /\ op[t].at \in Outside => Whole(s)'
      /\ op[t].at = "stop" => Tok(s)'
      /\ op[t].at = "token" => Tok(s)' /\ AllServers(s)'
      /\ op[t].at \in {"leave", "unrow", "retain"} => Gone(s)' /\ NoServers(s)'
  BY SessionFrame DEF Finds
<1>3. /\ op[t].at \in {"bind", "insert"} => Tok(s)' /\ \A k \in Kinds \ op[t].todo : s \in servers'[k]
      /\ op[t].at = "halt" => \A k \in Kinds \ op[t].todo : s \notin servers'[k]
      /\ op[t].at = "handle" => AllServers(s)'
      /\ op[t].at = "client" => NoServers(s)'
  BY SessionFrame DEF Finds, SameSession
<1>4. /\ op[t].at = "handle" => token'[s] = op[t].id /\ Unfinished(s)' \subseteq {op[t].id}
      /\ op[t].at = "take" => token'[s] = None /\ Unfinished(s)' \subseteq {handle'[s]}
      /\ op[t].at = "await" => token'[s] = None /\ handle'[s] = None /\ Unfinished(s)' \subseteq {op[t].id}
      /\ op[t].at \in {"halt", "client"} => token'[s] = None /\ handle'[s] = None /\ Unfinished(s)' = {}
  BY DEF Finds, SameSession
<1> QED
  BY <1>1, <1>2, <1>3, <1>4 DEF Finds, Unfinished, Gone, Tok, Whole, AllServers, NoServers

\* A step of others.
LEMMA PlainFrame ==
    ASSUME NEW s \in Spaces, SameSession(s), Plain(s),
           \A t \in Tasks : op[t].sp = s \/ op'[t].sp = s => op'[t] = op[t]
    PROVE  Plain(s)'
<1>1. Alone(s)'
  BY DEF Plain, Alone
<1>2. ASSUME NEW t \in Tasks, op'[t].sp = s PROVE Finds(t)'
  BY <1>2, FindsFrame DEF Plain
<1>3. OnSpace(s)' = {} => Whole(s)'
  BY SessionFrame DEF Plain, OnSpace
<1> QED
  BY <1>1, <1>2, <1>3 DEF Plain

\* A step of the one command for the space.
LEMMA PlainOwn ==
    ASSUME NEW s \in Spaces, NEW t \in Tasks, Others(t), \A u \in Tasks : op[u].sp = s => u = t,
           op'[t].sp = s => Finds(t)', op'[t].sp # s => Whole(s)'
    PROVE  Plain(s)'
<1>1. \A u \in Tasks : op'[u].sp = s => u = t
  BY DEF Others
<1>2. Alone(s)' /\ \A u \in Tasks : op'[u].sp = s => Finds(u)'
  BY <1>1 DEF Alone
<1>3. OnSpace(s)' = {} => Whole(s)'
  BY DEF OnSpace
<1> QED
  BY <1>2, <1>3 DEF Plain

\* Nothing of the session is touched.
LEMMA SessionUnchanged ==
    ASSUME NEW s \in Spaces, UNCHANGED <<servers, clients, token, handle, disc>>
    PROVE  SameSession(s)
BY DEF SameSession, Unfinished

\* A server of another space is stopped.
LEMMA StopSession ==
    ASSUME TypeInv, NEW s \in Spaces, NEW r, NEW k \in Kinds, StopServer(r, k), r # s,
           UNCHANGED <<clients, token, handle, disc>>
    PROVE  SameSession(s)
<1>1. \A j \in Kinds : s \in servers'[j] <=> s \in servers[j]
  BY TypeParts DEF StopServer, SockOK
<1> QED
  BY <1>1 DEF SameSession, Unfinished

\* The discover task of any space goes on.
LEMMA DiscoverSession ==
    ASSUME TypeInv, NEW s \in Spaces, NEW d \in Ids, Discover(d)
    PROVE  SameSession(s)
<1>1. DiscPlace
  BY TypeParts
<1>2. /\ disc[d].at \notin {"unborn", "done"} /\ UNCHANGED <<token, handle, servers>>
      /\ \A e \in Ids \ {d} : disc'[e] = disc[e]
      /\ disc'[d].sp = disc[d].sp
      /\ UNCHANGED clients \/ clients' = clients \cup {disc[d].sp}
  BY <1>1, DiscFacts DEF DiscFrame, sockets, DiscMoves
<1>3. Unfinished(s)' \subseteq Unfinished(s)
  BY <1>2 DEF Unfinished
<1>4. d \in Unfinished(disc[d].sp)
  BY <1>2 DEF Unfinished
<1> QED
  BY <1>2, <1>3, <1>4 DEF SameSession

\* A step of a command for another space.
LEMMA OtherSession ==
    ASSUME TypeInv, NEW t \in Tasks, Steps(t), NEW s \in Spaces, op[t].sp # s
    PROVE  SameSession(s)
<1>0. /\ SockOK /\ PeerOK /\ disc \in [Ids -> DiscType]
      /\ op[t].at \notin {"idle", "rows", "store"} => op[t].sp \in Spaces /\ op[t].id \in Ids
  BY AtPlace, TypeParts DEF DiscPlace
<1>1. CASE StopOld(t) \/ HaltServer(t)
  <2>1. /\ UNCHANGED <<clients, token, handle, disc>>
        /\ \E k \in Kinds : StopServer(op[t].sp, k)
    BY <1>1, StopOldFacts, HaltFacts DEF peers
  <2> QED
    BY <2>1, StopSession
<1>2. CASE InsertServer(t)
  <2>1. PICK k \in Kinds : servers' = [servers EXCEPT ![k] = @ \cup {op[t].sp}]
    BY <1>2, InsertFacts
  <2>2. UNCHANGED <<clients, token, handle, disc>>
    BY <1>2, InsertFacts DEF peers
  <2>3. \A j \in Kinds : s \in servers'[j] <=> s \in servers[j]
    BY <1>0, <2>1 DEF SockOK
  <2> QED
    BY <2>2, <2>3 DEF SameSession, Unfinished
<1>3. CASE Spawn(t)
  <2>1. /\ op[t].id \in Ids /\ UNCHANGED <<clients, handle, servers>>
        /\ token' = [token EXCEPT ![op[t].sp] = op[t].id]
        /\ disc' = [disc EXCEPT ![op[t].id] = [sp |-> op[t].sp, at |-> "check", tries |-> 0, cancelled |-> FALSE]]
    BY <1>0, <1>3 DEF Spawn, At, sockets
  <2>2. token'[s] = token[s]
    BY <1>0, <2>1 DEF PeerOK
  <2>3. Unfinished(s)' \subseteq Unfinished(s)
    BY <1>0, <2>1 DEF Unfinished
  <2> QED
    BY <2>1, <2>2, <2>3 DEF SameSession
<1>4. CASE CancelToken(t)
  <2>1. /\ token' = [token EXCEPT ![op[t].sp] = None] /\ UNCHANGED <<clients, handle, servers>>
        /\ disc' = IF token[op[t].sp] = None THEN disc ELSE [disc EXCEPT ![token[op[t].sp]].cancelled = TRUE]
    BY <1>4 DEF CancelToken, sockets
  <2>2. token'[s] = token[s]
    BY <1>0, <2>1 DEF PeerOK
  <2>3. \A e \in Ids : disc'[e].sp = disc[e].sp /\ disc'[e].at = disc[e].at
    BY <1>0, <2>1 DEF DiscType
  <2>4. Unfinished(s)' = Unfinished(s)
    BY <2>3 DEF Unfinished
  <2> QED
    BY <2>1, <2>2, <2>4 DEF SameSession
<1>5. CASE InsertHandle(t) \/ TakeHandle(t)
  <2>1. handle'[s] = handle[s] /\ UNCHANGED <<clients, token, disc, servers>>
    BY <1>0, <1>5 DEF InsertHandle, TakeHandle, PeerOK, sockets
  <2> QED
    BY <2>1 DEF SameSession, Unfinished
<1>6. CASE RemoveClient(t)
  BY <1>6 DEF RemoveClient, SameSession, Unfinished, sockets
<1>7. CASE UNCHANGED <<servers, clients, token, handle, disc>>
  BY <1>7, SessionUnchanged
<1> QED
  BY <1>1, <1>2, <1>3, <1>4, <1>5, <1>6, <1>7 DEF Steps, Fail, Finish, InsertRow, PushSpace, CheckOwner, DeleteRow,
     Retain, ListRows, ListStore, ClearOthers, ReadConfig, SendOk, SendFails, BindServer, BindFails,
     AwaitTask, Leave, SavePatch, ApplyPatch, PatchFails, sockets, peers
\* A session becomes a plain sequence again only at a disconnect that runs
\* alone and knows every task of the space.
LEMMA MixedChanges ==
    ASSUME CoreNext, NEW s \in mixed, s \notin mixed'
    PROVE  \E t \in Tasks : /\ CancelToken(t) /\ op[t].sp = s /\ OnSpace(s) = {t}
                            /\ Unfinished(s) \subseteq {handle[s]}
<1>1. ASSUME NEW t \in Tasks, Commands(t) \/ Steps(t), ~CancelToken(t) PROVE mixed \subseteq mixed'
  BY <1>1 DEF Commands, Create, Connect, Disconnect, Delete, PatchConfig, List, Start, Steps,
         Fail, Finish, InsertRow, PushSpace, CheckOwner, DeleteRow, Retain, ListRows, ListStore,
         ClearOthers, ReadConfig, SendOk, SendFails, StopOld, BindServer, BindFails, InsertServer,
         Spawn, InsertHandle, TakeHandle, AwaitTask, HaltServer, RemoveClient, Leave,
         SavePatch, ApplyPatch, PatchFails
<1>2. ASSUME NEW t \in Tasks, CancelToken(t)
      PROVE  op[t].sp = s /\ OnSpace(s) = {t} /\ Unfinished(s) \subseteq {handle[s]}
  BY <1>2 DEF CancelToken, PlainAgain
<1>3. CASE ~\E t \in Tasks : Commands(t) \/ Steps(t)
  BY <1>3 DEF CoreNext, FileCommand, UpdateSpaceConfig, Discover, DiscCheck, DiscAsk, DiscPeers, DiscFrame,
     CloseListener, RegistryFrame, Sync, SyncList, SyncEach
<1> QED
  BY <1>1, <1>2, <1>3

\* A command begins: on a session that is whole, or it overlaps another.
LEMMA StartPlain ==
    ASSUME TypeInv, MixedInv, NEW t \in Tasks, Commands(t), NEW s \in Spaces \ mixed'
    PROVE  Plain(s)'
<1>1. ASSUME NEW n \in OpNames, NEW r \in Spaces \cup {None}, NEW a \in OpPlaces, Start(t, n, r, a),
             r = s => a \in Outside
      PROVE  Plain(s)'
  <2>1. /\ Others(t) /\ op'[t].sp = r /\ op'[t].at = a /\ op[t] = Idle /\ SameSession(s)
    <3>1. Becomes(t, New(n, r, a)) /\ op[t] = Idle /\ New(n, r, a).sp = r /\ New(n, r, a).at = a
          /\ UNCHANGED <<sockets, peers>>
      BY <1>1, StartFacts
    <3> QED
      BY <3>1, SessionUnchanged DEF Becomes, sockets, peers
  <2>2. s \notin mixed /\ (r = s => OnSpace(s) = {})
    BY <1>1 DEF Start, Overlaps
  <2>3. Plain(s) /\ op[t].sp # s
    BY <2>1, <2>2, MixedParts, IdleFacts, NoneAssumption
  <2>4. CASE r # s
    <3>1. \A u \in Tasks : op[u].sp = s \/ op'[u].sp = s => op'[u] = op[u]
      BY <2>1, <2>3, <2>4 DEF Others
    <3> QED
      BY <2>1, <2>3, <3>1, PlainFrame
  <2>5. CASE r = s
    <3>1. Whole(s)' /\ \A u \in Tasks : op[u].sp # s
      BY <2>1, <2>2, <2>3, <2>5, SessionFrame DEF Plain, OnSpace
    <3>2. op'[t].at \in Outside /\ op'[t].sp = s
      BY <1>1, <2>1, <2>5
    <3>3. Finds(t)'
      BY <3>1, <3>2 DEF Finds, Outside, Whole, Gone, Unfinished, AllServers, NoServers
    <3> QED
      BY <2>1, <3>1, <3>2, <3>3, PlainOwn
  <2> QED
    BY <2>4, <2>5
<1>2. /\ {"create", "connect", "disconnect", "delete", "patch", "list"} \subseteq OpNames
      /\ {"row", "ask", "cancel", "owner", "save"} \subseteq Outside
      /\ {"row", "ask", "cancel", "owner", "save", "rows"} \subseteq OpPlaces
      /\ None # s
  BY NoneAssumption DEF OpNames, OpPlaces, Outside
<1> QED
  BY <1>1, <1>2 DEF Commands, Create, Connect, Disconnect, Delete, PatchConfig, List

\* The steps of a command that leave its session alone.
LEMMA QuietPlain ==
    ASSUME TypeInv, NEW t \in Tasks, NEW s \in Spaces, op[t].sp = s, Plain(s),
           \/ Fail(t) \/ InsertRow(t) \/ PushSpace(t) \/ CheckOwner(t) \/ DeleteRow(t) \/ Retain(t)
           \/ ListRows(t) \/ ListStore(t) \/ ClearOthers(t) \/ ReadConfig(t) \/ SendOk(t) \/ SendFails(t)
           \/ Leave(t) \/ SavePatch(t) \/ ApplyPatch(t) \/ PatchFails(t)
    PROVE  Plain(s)'
<1>0. /\ Others(t) /\ (op'[t].sp = s \/ op'[t] = Idle) /\ (\A u \in Tasks : op[u].sp = s => u = t)
      /\ Finds(t) /\ Idle.sp = None /\ None # s /\ Idle.at = "idle"
      /\ op \in [Tasks -> OpType] /\ op[t] \in OpType
  BY StepOp, IdleFacts, NoneAssumption, AtPlace DEF Steps, Plain, Alone
<1>1. SameSession(s)
  <2>1. UNCHANGED <<sockets, peers>>
    BY DEF Fail, Finish, InsertRow, PushSpace, CheckOwner, DeleteRow, Retain, ListRows, ListStore,
       ClearOthers, ReadConfig, SendOk, SendFails, Leave, SavePatch, ApplyPatch, PatchFails
  <2> QED
    BY <2>1, SessionUnchanged DEF sockets, peers
<1>2. ASSUME op[t].at \in Outside, op'[t].at \in Outside \cup {"idle"} PROVE Plain(s)'
  <2>1. Whole(s)'
    BY <1>0, <1>1, <1>2, SessionFrame DEF Finds
  <2>2. op'[t].sp = s => Finds(t)'
    BY <1>2, <2>1 DEF Finds, Outside, Whole, Gone, Unfinished, AllServers, NoServers
  <2> QED
    BY <1>0, <2>1, <2>2, PlainOwn
<1>3. ASSUME op[t].at \in {"leave", "unrow", "retain"}, op'[t].at \in {"leave", "unrow", "retain", "idle"}
      PROVE  Plain(s)'
  <2>1. Gone(s)' /\ NoServers(s)' /\ Whole(s)'
    BY <1>0, <1>1, <1>3, SessionFrame DEF Finds, Whole
  <2>2. op'[t].sp = s => Finds(t)'
    BY <1>3, <2>1 DEF Finds, Outside, Gone, Unfinished, NoServers
  <2> QED
    BY <1>0, <2>1, <2>2, PlainOwn
<1>4. CASE SendOk(t)
  <2>1. op[t].at = "send" /\ op'[t].at = "stop" /\ op'[t].sp = s
    BY <1>0, <1>4 DEF SendOk, OpType, At
  <2>2. Tok(s)'
    BY <1>0, <1>1, <2>1, SessionFrame DEF Finds, Outside, Whole, Tok
  <2>3. Finds(t)'
    BY <2>1, <2>2 DEF Finds, Outside, Tok, Gone, Unfinished
  <2> QED
    BY <1>0, <2>1, <2>3, PlainOwn
<1>5. CASE DeleteRow(t) \/ Retain(t) \/ Leave(t)
  BY <1>0, <1>3, <1>5 DEF DeleteRow, Retain, Leave, Goto, Return, At, OpType
<1>6. CASE Fail(t)
  <2>1. op'[t].at = "idle"
    BY <1>0, <1>6 DEF Fail, Finish, Return
  <2> QED
    BY <1>2, <1>3, <1>6, <2>1 DEF Fail, Outside
<1>7. CASE ListRows(t) \/ ListStore(t)
  <2>1. op[t].sp = None
    BY <1>7, TypeParts DEF ListRows, ListStore, At, OpPlace
  <2> QED
    BY <1>0, <2>1
<1>8. CASE \/ PushSpace(t) \/ SendFails(t) \/ ApplyPatch(t) \/ PatchFails(t)
  <2>1. op'[t].at = "idle" /\ op[t].at \in Outside
    BY <1>0, <1>8 DEF PushSpace, SendFails, ApplyPatch, PatchFails, Return, At, Outside
  <2> QED
    BY <1>2, <2>1
<1>9. CASE \/ InsertRow(t) \/ CheckOwner(t) \/ ClearOthers(t) \/ ReadConfig(t) \/ SavePatch(t)
  <2>1. op'[t].at \in {"config", "cancel", "read", "send", "apply"}
    <3>1. /\ InsertRow(t) => op'[t].at = "config"
          /\ CheckOwner(t) => op'[t].at = "cancel"
          /\ ClearOthers(t) => op'[t].at = "read"
      BY <1>0 DEF InsertRow, CheckOwner, ClearOthers, Goto, OpType
    <3>2. ReadConfig(t) => op'[t].at = "send"
      BY <1>0 DEF ReadConfig, OpType
    <3>3. SavePatch(t) => op'[t].at = "apply"
      BY <1>0 DEF SavePatch, OpType
    <3> QED
      BY <1>9, <3>1, <3>2, <3>3
  <2>2. op[t].at \in {"row", "owner", "ask", "read", "save"}
    BY <1>9 DEF InsertRow, CheckOwner, ClearOthers, ReadConfig, SavePatch, At
  <2> QED
    BY <1>2, <2>1, <2>2 DEF Outside
<1> QED
  BY <1>4, <1>5, <1>6, <1>7, <1>8, <1>9
\* The steps of connect on its session.
LEMMA ConnectPlain ==
    ASSUME TypeInv, NEW t \in Tasks, NEW s \in Spaces \ mixed', op[t].sp = s, Plain(s),
           \/ StopOld(t) \/ BindServer(t) \/ BindFails(t) \/ InsertServer(t) \/ Spawn(t) \/ InsertHandle(t)
    PROVE  Plain(s)'
<1>0. /\ Others(t) /\ (op'[t].sp = s \/ op'[t] = Idle) /\ (\A u \in Tasks : op[u].sp = s => u = t)
      /\ Finds(t) /\ Idle.sp = None /\ None # s /\ op \in [Tasks -> OpType] /\ op[t] \in OpType
      /\ op[t].at \notin {"idle", "rows", "store"} => op[t].id \in Ids
      /\ SockOK /\ PeerOK /\ disc \in [Ids -> DiscType]
  BY StepOp, IdleFacts, NoneAssumption, AtPlace, TypeParts DEF Steps, Plain, Alone, DiscPlace
<1>1. CASE StopOld(t)
  <2>1. /\ op[t].at = "stop" /\ UNCHANGED <<clients, token, handle, disc>>
        /\ \/ op'[t].at = "bind" /\ op'[t].todo = Kinds
           \/ op'[t].at = "stop"
        /\ op'[t].sp = s
    BY <1>1, StopOldFacts DEF At, GoesTo, peers
  <2>2. Tok(s)'
    BY <1>0, <2>1 DEF Finds, Tok, Gone, Unfinished
  <2>3. Finds(t)'
    BY <2>1, <2>2 DEF Finds, Outside, Tok, Gone, Unfinished
  <2> QED
    BY <1>0, <2>1, <2>3, PlainOwn
<1>2. CASE BindServer(t)
  <2>1. /\ op[t].at = "bind" /\ UNCHANGED <<servers, clients, token, handle, disc>>
        /\ op'[t].at = "insert" /\ op'[t].todo = op[t].todo /\ op'[t].sp = s
    BY <1>0, <1>2 DEF BindServer, Goto, At, OpType, peers
  <2>2. Tok(s)'
    BY <1>0, <2>1, SessionUnchanged, SessionFrame DEF Finds
  <2>3. \A k \in Kinds \ op'[t].todo : s \in servers'[k]
    BY <1>0, <2>1 DEF Finds
  <2>4. Finds(t)'
    BY <2>1, <2>2, <2>3 DEF Finds, Outside, Tok, Gone, Unfinished
  <2> QED
    BY <1>0, <2>1, <2>4, PlainOwn
<1>3. CASE BindFails(t)
  BY <1>3 DEF BindFails
<1>4. CASE InsertServer(t)
  <2>1. PICK k \in Kinds :
          /\ servers' = [servers EXCEPT ![k] = @ \cup {op[t].sp}]
          /\ \/ op[t].todo = {k} /\ GoesTo(t, "token", {}, op[t].cfg, op[t].id)
             \/ GoesTo(t, "bind", op[t].todo \ {k}, op[t].cfg, op[t].id)
    BY <1>4, InsertFacts
  <2>2. op[t].at = "insert" /\ UNCHANGED <<clients, token, handle, disc>>
    BY <1>4, InsertFacts DEF At, peers
  <2>3. /\ s \in servers'[k] /\ \A j \in Kinds : s \in servers[j] => s \in servers'[j]
    BY <1>0, <2>1 DEF SockOK
  <2>4. Tok(s)' /\ \A j \in Kinds : j \in op[t].todo \ {k} \/ s \in servers'[j]
    BY <1>0, <2>2, <2>3 DEF Finds, Tok, Gone, Unfinished
  <2>5. CASE op[t].todo = {k} /\ GoesTo(t, "token", {}, op[t].cfg, op[t].id)
    <3>1. op'[t].at = "token" /\ op'[t].sp = s
      BY <2>5 DEF GoesTo
    <3>2. AllServers(s)'
      BY <2>4, <2>5 DEF AllServers
    <3>3. Finds(t)'
      BY <2>4, <3>1, <3>2 DEF Finds, Outside, Tok, Gone, Unfinished, AllServers
    <3> QED
      BY <1>0, <3>1, <3>3, PlainOwn
  <2>6. CASE GoesTo(t, "bind", op[t].todo \ {k}, op[t].cfg, op[t].id)
    <3>1. op'[t].at = "bind" /\ op'[t].sp = s /\ op'[t].todo = op[t].todo \ {k}
      BY <2>6 DEF GoesTo
    <3>2. Finds(t)'
      BY <2>4, <3>1 DEF Finds, Outside, Tok, Gone, Unfinished
    <3> QED
      BY <1>0, <3>1, <3>2, PlainOwn
  <2> QED
    BY <2>1, <2>5, <2>6
<1>5. CASE Spawn(t)
  <2>1. /\ op[t].at = "token" /\ op[t].id \in Ids /\ UNCHANGED <<servers, clients, handle>>
        /\ token' = [token EXCEPT ![s] = op[t].id] /\ Unfinished(s) = {}
        /\ disc' = [disc EXCEPT ![op[t].id] = [sp |-> s, at |-> "check", tries |-> 0, cancelled |-> FALSE]]
    BY <1>0, <1>5 DEF Spawn, At, sockets
  <2>2. op'[t].at = "handle" /\ op'[t].sp = s /\ op'[t].id = op[t].id
    BY <1>0, <1>5 DEF Spawn, Goto, OpType
  <2>3. token'[s] = op[t].id
    BY <1>0, <2>1 DEF PeerOK
  <2>4. Unfinished(s)' \subseteq {op[t].id}
    BY <1>0, <2>1 DEF Unfinished
  <2>5. AllServers(s)'
    BY <1>0, <2>1 DEF Finds, AllServers
  <2>6. Finds(t)'
    BY <2>2, <2>3, <2>4, <2>5 DEF Finds, Outside, Unfinished, AllServers
  <2> QED
    BY <1>0, <2>2, <2>6, PlainOwn
<1>6. CASE InsertHandle(t)
  <2>1. /\ op[t].at = "handle" /\ op[t].id \in Ids /\ UNCHANGED <<servers, clients, token, disc>>
        /\ handle' = [handle EXCEPT ![s] = op[t].id] /\ op'[t] = Idle
    BY <1>0, <1>6 DEF InsertHandle, Return, At, sockets
  <2>2. handle'[s] = op[t].id /\ op[t].id # None
    BY <1>0, <2>1, NoneAssumption DEF PeerOK
  <2>3. Whole(s)'
    BY <1>0, <2>1, <2>2 DEF Finds, Whole, AllServers, Unfinished
  <2> QED
    BY <1>0, <2>1, <2>3, PlainOwn
<1> QED
  BY <1>1, <1>2, <1>3, <1>4, <1>5, <1>6

\* The first step of disconnect, which also starts a plain sequence again.
LEMMA CancelPlain ==
    ASSUME TypeInv, MixedInv, NEW t \in Tasks, NEW s \in Spaces \ mixed', op[t].sp = s, CancelToken(t)
    PROVE  Plain(s)'
<1>0. /\ Others(t) /\ op'[t].at = "take" /\ op'[t].sp = s /\ op[t].at = "cancel"
      /\ PeerOK /\ disc \in [Ids -> DiscType]
  BY StepOp, AtPlace, TypeParts DEF Steps, CancelToken, Goto, At, OpType, DiscPlace
<1>1. (\A u \in Tasks : op[u].sp = s => u = t) /\ Unfinished(s) \subseteq {handle[s]}
  <2>1. CASE s \in mixed
    BY <2>1 DEF CancelToken, PlainAgain, OnSpace
  <2>2. CASE s \notin mixed
    <3>1. Plain(s) /\ Whole(s)
      BY <1>0, <2>2, MixedParts DEF Plain, Finds, Outside
    <3> QED
      BY <3>1 DEF Plain, Alone, Whole, Gone
  <2> QED
    BY <2>1, <2>2
<1>2. /\ token' = [token EXCEPT ![s] = None] /\ UNCHANGED handle
      /\ disc' = IF token[s] = None THEN disc ELSE [disc EXCEPT ![token[s]].cancelled = TRUE]
  BY DEF CancelToken
<1>3. token'[s] = None
  BY <1>0, <1>2 DEF PeerOK
<1>4. \A e \in Ids : disc'[e].sp = disc[e].sp /\ disc'[e].at = disc[e].at
  BY <1>0, <1>2 DEF DiscType
<1>5. Unfinished(s)' \subseteq {handle'[s]}
  BY <1>1, <1>2, <1>4 DEF Unfinished
<1>6. Finds(t)'
  BY <1>0, <1>3, <1>5 DEF Finds, Outside, Unfinished
<1> QED
  BY <1>0, <1>1, <1>6, PlainOwn

\* The other steps of disconnect on its session.
LEMMA DisconnectPlain ==
    ASSUME TypeInv, NEW t \in Tasks, NEW s \in Spaces, op[t].sp = s, Plain(s),
           \/ TakeHandle(t) \/ AwaitTask(t) \/ HaltServer(t) \/ RemoveClient(t)
    PROVE  Plain(s)'
<1>0. /\ Others(t) /\ (\A u \in Tasks : op[u].sp = s => u = t)
      /\ Finds(t) /\ op \in [Tasks -> OpType] /\ op[t] \in OpType /\ SockOK /\ PeerOK
      /\ None \notin Ids /\ Unfinished(s) \subseteq Ids
  BY StepOp, NoneAssumption, AtPlace, TypeParts DEF Steps, Plain, Alone, Unfinished
<1>1. CASE TakeHandle(t)
  <2>1. /\ op[t].at = "take" /\ handle' = [handle EXCEPT ![s] = None] /\ UNCHANGED <<token, disc>>
        /\ \/ handle[s] = None /\ GoesTo(t, "halt", Kinds, op[t].cfg, op[t].id)
           \/ GoesTo(t, "await", op[t].todo, op[t].cfg, handle[s])
    BY <1>1, TakeFacts DEF At
  <2>2. handle'[s] = None /\ token'[s] = None /\ Unfinished(s)' = Unfinished(s) /\ Unfinished(s) \subseteq {handle[s]}
    BY <1>0, <2>1 DEF PeerOK, Finds, Unfinished
  <2>3. CASE handle[s] = None /\ GoesTo(t, "halt", Kinds, op[t].cfg, op[t].id)
    <3>1. op'[t].at = "halt" /\ op'[t].sp = s /\ op'[t].todo = Kinds
      BY <2>3 DEF GoesTo
    <3>2. Unfinished(s)' = {}
      BY <1>0, <2>2, <2>3
    <3>3. Finds(t)'
      BY <2>2, <3>1, <3>2 DEF Finds, Outside, Unfinished
    <3> QED
      BY <1>0, <3>1, <3>3, PlainOwn
  <2>4. CASE GoesTo(t, "await", op[t].todo, op[t].cfg, handle[s])
    <3>1. op'[t].at = "await" /\ op'[t].sp = s /\ op'[t].id = handle[s]
      BY <2>4 DEF GoesTo
    <3>2. Finds(t)'
      BY <2>2, <3>1 DEF Finds, Outside, Unfinished
    <3> QED
      BY <1>0, <3>1, <3>2, PlainOwn
  <2> QED
    BY <2>1, <2>3, <2>4
<1>2. CASE AwaitTask(t)
  <2>1. /\ op[t].at = "await" /\ disc[op[t].id].at = "done" /\ UNCHANGED <<token, handle, disc>>
        /\ op'[t].at = "halt" /\ op'[t].sp = s /\ op'[t].todo = Kinds
    BY <1>2, AwaitFacts DEF At, GoesTo
  <2>2. Unfinished(s) \subseteq {op[t].id} /\ op[t].id \notin Unfinished(s)
    BY <1>0, <2>1 DEF Finds, Unfinished
  <2>3. token'[s] = None /\ handle'[s] = None /\ Unfinished(s)' = {}
    BY <1>0, <2>1, <2>2 DEF Finds, Unfinished
  <2>4. Finds(t)'
    BY <2>1, <2>3 DEF Finds, Outside, Unfinished
  <2> QED
    BY <1>0, <2>1, <2>4, PlainOwn
<1>3. CASE HaltServer(t)
  <2>1. PICK k \in Kinds :
          /\ StopServer(s, k)
          /\ \/ op[t].todo = {k} /\ GoesTo(t, "client", {}, op[t].cfg, op[t].id)
             \/ GoesTo(t, "halt", op[t].todo \ {k}, op[t].cfg, op[t].id)
    BY <1>3, HaltFacts
  <2>2. op[t].at = "halt" /\ UNCHANGED <<clients, token, handle, disc>>
    BY <1>3, HaltFacts DEF At, peers
  <2>3. s \notin servers'[k] /\ \A j \in Kinds : s \notin servers[j] => s \notin servers'[j]
    BY <1>0, <2>1 DEF StopServer, SockOK
  <2>4. /\ token'[s] = None /\ handle'[s] = None /\ Unfinished(s)' = {}
        /\ \A j \in Kinds : j \in op[t].todo \ {k} \/ s \notin servers'[j]
    BY <1>0, <2>2, <2>3 DEF Finds, Unfinished
  <2>5. CASE op[t].todo = {k} /\ GoesTo(t, "client", {}, op[t].cfg, op[t].id)
    <3>1. op'[t].at = "client" /\ op'[t].sp = s
      BY <2>5 DEF GoesTo
    <3>2. NoServers(s)'
      BY <2>4, <2>5 DEF NoServers
    <3>3. Finds(t)'
      BY <2>4, <3>1, <3>2 DEF Finds, Outside, Unfinished, NoServers
    <3> QED
      BY <1>0, <3>1, <3>3, PlainOwn
  <2>6. CASE GoesTo(t, "halt", op[t].todo \ {k}, op[t].cfg, op[t].id)
    <3>1. op'[t].at = "halt" /\ op'[t].sp = s /\ op'[t].todo = op[t].todo \ {k}
      BY <2>6 DEF GoesTo
    <3>2. Finds(t)'
      BY <2>4, <3>1 DEF Finds, Outside, Unfinished
    <3> QED
      BY <1>0, <3>1, <3>2, PlainOwn
  <2> QED
    BY <2>1, <2>5, <2>6
<1>4. CASE RemoveClient(t)
  <2>1. /\ op[t].at = "client" /\ op'[t].at = "leave" /\ op'[t].sp = s
        /\ clients' = clients \ {s} /\ UNCHANGED <<token, handle, disc, servers>>
    BY <1>0, <1>4 DEF RemoveClient, Goto, At, OpType, sockets
  <2>2. Gone(s)' /\ NoServers(s)'
    BY <1>0, <2>1 DEF Finds, Gone, NoServers, Unfinished
  <2>3. Finds(t)'
    BY <2>1, <2>2 DEF Finds, Outside, Gone, Unfinished, NoServers
  <2> QED
    BY <1>0, <2>1, <2>3, PlainOwn
<1> QED
  BY <1>1, <1>2, <1>3, <1>4

\* The steps of commands, tasks and the sync keep MixedInv.
LEMMA CoreMixed ==
    ASSUME TypeInv, MixedInv, CoreNext
    PROVE  MixedInv'
<1>1. SUFFICES ASSUME NEW s \in Spaces \ mixed' PROVE Plain(s)'
  BY MixedPartsNext
<1>2. ASSUME NEW t \in Tasks, Commands(t) PROVE Plain(s)'
  BY <1>2, StartPlain
<1>3. ASSUME NEW t \in Tasks, CancelToken(t), op[t].sp = s PROVE Plain(s)'
  BY <1>3, CancelPlain
<1>4. ASSUME ~\E t \in Tasks : CancelToken(t) /\ op[t].sp = s PROVE s \notin mixed /\ Plain(s)
  BY <1>4, MixedChanges, MixedParts
<1>5. ASSUME ~\E t \in Tasks : CancelToken(t) /\ op[t].sp = s, NEW t \in Tasks, Steps(t) PROVE Plain(s)'
  <2>1. s \notin mixed /\ Plain(s)
    BY <1>4, <1>5
  <2>2. CASE op[t].sp = s
    BY <1>5, <2>1, <2>2, QuietPlain, ConnectPlain, DisconnectPlain DEF Steps
  <2>3. CASE op[t].sp # s
    <3>1. Others(t) /\ op'[t].sp # s
      BY <1>5, <2>3, StepOp, IdleFacts, NoneAssumption
    <3>2. \A u \in Tasks : op[u].sp = s \/ op'[u].sp = s => op'[u] = op[u]
      BY <2>3, <3>1 DEF Others
    <3> QED
      BY <1>5, <2>1, <2>3, <3>2, OtherSession, PlainFrame
  <2> QED
    BY <2>2, <2>3
<1>6. CASE ~\E t \in Tasks : Commands(t) \/ Steps(t)
  <2>1. Plain(s)
    BY <1>4, <1>6 DEF Steps
  <2>2. UNCHANGED op
    BY <1>6 DEF CoreNext, FileCommand, UpdateSpaceConfig, Discover, DiscCheck, DiscAsk, DiscPeers, DiscFrame,
       CloseListener, RegistryFrame, Sync, SyncList, SyncEach
  <2>3. UNCHANGED <<servers, clients, token, handle, disc>> \/ \E d \in Ids : Discover(d)
    BY <1>6 DEF CoreNext, FileCommand, UpdateSpaceConfig, CloseListener, RegistryFrame, Sync, SyncList, SyncEach,
       sockets, peers
  <2>4. SameSession(s)
    BY <2>3, SessionUnchanged, DiscoverSession
  <2> QED
    BY <2>1, <2>2, <2>4, PlainFrame
<1> QED
  BY <1>2, <1>3, <1>5, <1>6

\* Between its commands the session of a space is all there or all gone, for
\* every number of spaces and commands: each command alone finds it whole,
\* disconnect waits for the discover task before it removes the chat client,
\* and nothing another space does reaches it.
THEOREM SessionIsWhole == Spec => []AllOrNothing
<1>1. Init => TypeInv /\ LateOK /\ MixedInv
  <2>1. ASSUME Init PROVE MixedInv
    <3>1. \A t \in Tasks : op[t].sp = None
      BY <2>1, IdleFacts DEF Init
    <3>2. \A s \in Spaces : s # None
      BY NoneAssumption
    <3>3. \A s \in Spaces : Whole(s)
      BY <2>1, <3>2 DEF Init, Whole, Gone, NoServers, Unfinished
    <3> QED
      BY <3>1, <3>2, <3>3 DEF MixedInv, Alone
  <2> QED
    BY <2>1, InitTypes, InitLate
<1>2. TypeInv /\ LateOK /\ MixedInv /\ [Next]_vars => TypeInv' /\ LateOK' /\ MixedInv'
  <2>1. ASSUME TypeInv, LateOK, MixedInv, LateEffect \/ Wedge \/ UNCHANGED vars PROVE MixedInv'
    <3>1. SUFFICES ASSUME NEW s \in Spaces \ mixed' PROVE Plain(s)'
      BY MixedPartsNext
    <3>0. UNCHANGED <<sockets, peers, op, mixed>>
      BY <2>1, LateFacts DEF Wedge, vars
    <3>2. Plain(s) /\ SameSession(s) /\ UNCHANGED op
      BY <2>1, <3>0, MixedParts, SessionUnchanged DEF sockets, peers
    <3> QED
      BY <3>2, PlainFrame
  <2> QED
    BY <2>1, TypesStep, CoreMixed, NextCases
<1>3. MixedInv => AllOrNothing
  BY DEF MixedInv, AllOrNothing, Whole, Gone, AllServers, NoServers
<1> QED
  BY <1>1, <1>2, <1>3, PTL DEF Spec
=============================================================================
