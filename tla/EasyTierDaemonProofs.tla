------------------------ MODULE EasyTierDaemonProofs ------------------------
(***************************************************************************)
(* TLAPS proofs that the invariants of EasyTierDaemon hold for every set   *)
(* of spaces, handlers, fields, requested configurations and patches.      *)
(***************************************************************************)
EXTENDS EasyTierDaemon, TLAPS

-----------------------------------------------------------------------------
(* Type correctness                                                        *)

\* How a handler moves: it replies, or it goes on with its request, or it
\* takes up a new one for some space.
Moves(i) == \E l \in PCs, r \in Request :
    /\ pc' = [pc EXCEPT ![i] = l] /\ req' = [req EXCEPT ![i] = r] /\ Serves(l, r)

\* A handler that moves keeps pc and req well typed.
LEMMA MoveTypes ==
    ASSUME TypeOK, NEW i \in Handlers, Moves(i)
    PROVE  /\ pc' \in [Handlers -> PCs] /\ req' \in [Handlers -> Request]
           /\ \A j \in Handlers : Serves(pc'[j], req'[j])
BY DEF TypeOK, Moves

\* A reply moves its handler to idle.
LEMMA ReplyMoves ==
    ASSUME TypeOK, NEW i \in Handlers, Reply(i)
    PROVE  Moves(i)
<1>1. NoRequest \in Request /\ "idle" \in PCs
  BY DEF NoRequest, Working, Request, Ops, Config, DefaultConfig, PCs
<1> QED
  BY <1>1 DEF Reply, Goto, Moves, Serves, NoRequest, Working, Fits

\* Going on to another step of the same request moves the handler.
LEMMA GotoMoves ==
    ASSUME TypeOK, NEW i \in Handlers, NEW l \in PCs, Goto(i, l), UNCHANGED req,
           Serves(l, req[i])
    PROVE  Moves(i)
<1>1. req[i] \in Request /\ req' = [req EXCEPT ![i] = req[i]]
  BY DEF TypeOK
<1> QED
  BY <1>1 DEF Goto, Moves

\* Whatever follows rpc_run_network_instance moves the handler.
LEMMA AfterRunMoves ==
    ASSUME TypeOK, NEW i \in Handlers, NEW ok \in BOOLEAN, AfterRun(i, ok), pc[i] = "run"
    PROVE  Moves(i)
<1>1. CASE Reply(i)
  BY <1>1, ReplyMoves
<1>2. ASSUME NEW l \in {"next", "tidy", "push"}, Fits(req[i].op, l), Goto(i, l), UNCHANGED req
      PROVE  Moves(i)
  <2>1. l \in PCs /\ Serves(l, req[i])
    BY <1>2 DEF PCs, TypeOK, Serves
  <2> QED
    BY <1>2, <2>1, GotoMoves
<1> QED
  BY <1>1, <1>2 DEF AfterRun, Fits

\* Accepting a request keeps the types.
LEMMA RequestTypes ==
    ASSUME TypeOK, NEW i \in Handlers, Requests(i)
    PROVE  TypeOK'
<1> USE RequestAssumption
<1>1. ASSUME NEW l \in PCs, NEW r \in Request, Serves(l, r), Accept(i, l, r)
      PROVE  TypeOK'
  <2>1. Moves(i)
    BY <1>1 DEF Accept, Goto, Moves
  <2>2. excuse' \in SUBSET Excuses
    BY <1>1 DEF Accept, TypeOK, Excuses
  <2> QED
    BY <1>1, <2>1, <2>2, MoveTypes DEF Accept, TypeOK, CoreUntouched, FilesUntouched
<1>2. CASE \E s \in Spaces, c \in Requested : ConnectSpace(i, s, c)
  <2>1. PICK s \in Spaces, c \in Requested : ConnectSpace(i, s, c)
    BY <1>2
  <2>2. Working("connect", s, c, {}) \in Request /\ Serves("clear", Working("connect", s, c, {}))
    BY DEF Ops, Request, Working, Serves, Fits
  <2> QED
    BY <2>1, <2>2, <1>1 DEF ConnectSpace, PCs
<1>3. CASE \E s \in Spaces : DisconnectSpace(i, s)
  <2>1. PICK s \in Spaces : DisconnectSpace(i, s)
    BY <1>3
  <2>2. /\ Working("disconnect", s, DefaultConfig, {}) \in Request
        /\ Serves("del", Working("disconnect", s, DefaultConfig, {}))
    BY DEF Ops, Request, Working, Serves, Fits, Config, DefaultConfig
  <2> QED
    BY <2>1, <2>2, <1>1 DEF DisconnectSpace, PCs
<1>4. CASE \E s \in Spaces, p \in Patches : PatchConfig(i, s, p)
  <2>1. PICK s \in Spaces, p \in Patches : PatchConfig(i, s, p)
    BY <1>4
  <2>2. Working("patch", s, p, {}) \in Request /\ Serves("read", Working("patch", s, p, {}))
    BY DEF Ops, Request, Working, Serves, Fits
  <2> QED
    BY <2>1, <2>2, <1>1 DEF PatchConfig, PCs
<1>5. CASE RestartAll(i)
  <2>1. /\ Working("restart", NoSpace, DefaultConfig, {}) \in Request
        /\ Serves("list", Working("restart", NoSpace, DefaultConfig, {}))
    BY DEF Ops, Request, Working, Serves, Fits, Config, DefaultConfig
  <2> QED
    BY <1>5, <2>1, <1>1 DEF RestartAll, PCs
<1> QED
  BY <1>2, <1>3, <1>4, <1>5 DEF Requests

\* Every step of a handler moves it.
LEMMA StepMoves ==
    ASSUME TypeOK, NEW i \in Handlers, Steps(i)
    PROVE  Moves(i)
<1>1. CASE Reply(i)
  BY <1>1, ReplyMoves
<1>2. ASSUME NEW l \in PCs, Goto(i, l), UNCHANGED req, Fits(req[i].op, l),
             pc[i] \notin {"idle", "list", "next"}
      PROVE  Moves(i)
  <2>1. Serves(l, req[i])
    BY <1>2 DEF TypeOK, Serves
  <2> QED
    BY <1>2, <2>1, GotoMoves
<1>a. Fits(req[i].op, pc[i])
  BY DEF TypeOK, Serves
<1>3. ASSUME NEW ok \in BOOLEAN, AfterRun(i, ok), pc[i] = "run"
      PROVE  Moves(i)
  BY <1>3, AfterRunMoves
<1>4. ASSUME NEW l \in PCs, NEW r \in Request, Serves(l, r),
             Goto(i, l), req' = [req EXCEPT ![i] = r]
      PROVE  Moves(i)
  BY <1>4 DEF Moves, Goto
<1>5. CASE Fail(i)
  BY <1>5, <1>1 DEF Fail
<1>6. CASE RetainOk(i) \/ RetainFails(i) \/ Prepare(i)
  BY <1>6, <1>1, <1>2, <1>a DEF RetainOk, RetainFails, Prepare, PCs, Fits
<1>7. CASE EmptyToml(i) \/ WriteToml(i) \/ EmptyJson(i) \/ WriteJson(i)
  BY <1>7, <1>1, <1>2, <1>a DEF EmptyToml, WriteToml, EmptyJson, WriteJson, PCs, Fits
<1>8. CASE RunRefused(i) \/ RunBreaks(i) \/ RunStarts(i)
  BY <1>8, <1>3 DEF RunRefused, RunBreaks, RunStarts
<1>9. CASE Tidy(i) \/ Push(i)
  BY <1>9, <1>1, <1>2, <1>a DEF Tidy, Push, PCs, Fits
<1>10. CASE Delete(i) \/ RemoveToml(i) \/ Unpush(i)
  BY <1>10, <1>1, <1>2, <1>a DEF Delete, RemoveToml, Unpush, PCs, Fits
<1>11. CASE ReadAndPatch(i)
  <2> DEFINE s == req[i].sp
             r == Working("patch", s, patched(read_network_config(s), req[i].cfg), {})
  <2>1. s \in Spaces /\ req[i].cfg \in Config
    BY <1>11 DEF ReadAndPatch, TypeOK, Request, Serves
  <2>2. patched(read_network_config(s), req[i].cfg) \in Config
    BY <1>11, <2>1 DEF ReadAndPatch, Readable, read_network_config, patched, TypeOK, Config,
       DefaultConfig
  <2>3. r \in Request /\ Serves("toml", r)
    BY <2>1, <2>2 DEF Working, Request, Ops, Config, Serves, Fits
  <2> QED
    BY <1>11, <2>3, <1>4 DEF ReadAndPatch, PCs
<1>12. CASE ListRunning(i)
  <2> DEFINE r == Working("restart", NoSpace, DefaultConfig, list_running)
  <2>1. r \in Request /\ Serves("next", r)
    BY DEF Working, Request, Ops, Config, DefaultConfig, list_running, list_saved, Serves, Fits
  <2> QED
    BY <1>12, <2>1, <1>4 DEF ListRunning, PCs
<1>13. CASE RestartNext(i)
  <2>1. ASSUME NEW s \in req[i].todo, Readable(s)
        PROVE  LET rest == req[i].todo \ {s} IN
               /\ Working("restart", s, read_network_config(s), rest) \in Request
               /\ Serves("run", Working("restart", s, read_network_config(s), rest))
    <3>1. s \in Spaces /\ req[i].todo \ {s} \in SUBSET Spaces
      BY DEF TypeOK, Request
    <3>2. read_network_config(s) \in Config
      BY <2>1, <3>1 DEF Readable, read_network_config, TypeOK, Config, DefaultConfig
    <3> QED
      BY <3>1, <3>2 DEF Working, Request, Ops, Config, DefaultConfig, Serves, Fits
  <2>3. ASSUME NEW s \in req[i].todo
        PROVE  LET rest == req[i].todo \ {s} IN
               /\ Working("restart", NoSpace, DefaultConfig, rest) \in Request
               /\ Serves("next", Working("restart", NoSpace, DefaultConfig, rest))
    BY DEF TypeOK, Working, Request, Ops, Config, DefaultConfig, Serves, Fits
  <2>2. UNCHANGED pc => (pc[i] = "next" => Goto(i, "next"))
    BY DEF Goto, TypeOK
  <2> QED
    BY <1>13, <1>1, <1>4, <2>1, <2>2, <2>3 DEF RestartNext, PCs
<1> QED
  BY <1>5, <1>6, <1>7, <1>8, <1>9, <1>10, <1>11, <1>12, <1>13 DEF Steps

\* Every step of a handler keeps the types.
LEMMA StepTypes ==
    ASSUME TypeOK, NEW i \in Handlers, Steps(i)
    PROVE  TypeOK'
<1> DEFINE File == [Spaces -> {NoConfig} \cup Config]
           Json == [Spaces -> {NoConfig, CutOff} \cup Config]
<1>1. /\ pc' \in [Handlers -> PCs] /\ req' \in [Handlers -> Request]
      /\ \A j \in Handlers : Serves(pc'[j], req'[j])
  BY StepMoves, MoveTypes
<1>a. /\ pc[i] = "push" => req[i].sp \in Spaces
      /\ pc[i] = "run" => req[i].op \in {"connect", "patch", "restart"}
  BY DEF TypeOK, Serves, Fits
<1>2. core' = core /\ connected' \in SUBSET Spaces
  BY <1>a DEF Steps, Fail, RetainOk, RetainFails, Prepare, EmptyToml, WriteToml, EmptyJson, WriteJson, RunRefused, RunBreaks,
         RunStarts, CoreWrites, Tidy, Push, Delete, RemoveToml, Unpush, ReadAndPatch, ListRunning,
         RestartNext, CoreUntouched, TypeOK
<1>3. /\ req[i].cfg \in Config /\ req[i].op \in Ops /\ DefaultConfig \in Config
      /\ build_proto_config(req[i].cfg) \in Config /\ to_easytier_config(req[i].cfg) \in Config
  BY DEF TypeOK, Request, Config, DefaultConfig, build_proto_config, to_easytier_config
<1>4. inst' \in File
  BY <1>3 DEF Steps, Fail, RetainOk, RetainFails, Prepare, EmptyToml, WriteToml, EmptyJson, WriteJson, RunRefused, RunBreaks,
         RunStarts, CoreWrites, Tidy, Push, Delete, RemoveToml, Unpush, ReadAndPatch, ListRunning,
         RestartNext, CoreUntouched, TypeOK, Nothing
<1>5. toml' \in File /\ json' \in Json
  BY <1>3 DEF Steps, Fail, RetainOk, RetainFails, Prepare, EmptyToml, WriteToml, EmptyJson, WriteJson, RunRefused, RunBreaks,
         RunStarts, CoreWrites, Tidy, Push, Delete, RemoveToml, Unpush, ReadAndPatch, ListRunning,
         RestartNext, FilesUntouched, TypeOK
<1>6. excuse' \in SUBSET Excuses
  BY <1>a DEF Steps, Fail, RetainOk, RetainFails, Prepare, EmptyToml, WriteToml, EmptyJson, WriteJson, RunRefused, RunBreaks,
         RunStarts, CoreWrites, Tidy, Push, Delete, RemoveToml, Unpush, ReadAndPatch, ListRunning,
         RestartNext, TypeOK, Excuses
<1> QED
  BY <1>1, <1>2, <1>4, <1>5, <1>6 DEF TypeOK

\* Boot, core exit and a new session keep the types.
LEMMA ProcessTypes ==
    ASSUME TypeOK, CleanStale \/ SpawnCore \/ CoreExit \/ NewSession
    PROVE  TypeOK'
<1>1. CASE CleanStale
  BY <1>1 DEF CleanStale, TypeOK, Excuses
<1>2. CASE SpawnCore
  BY <1>2 DEF SpawnCore, TypeOK, Excuses, FilesUntouched
<1>3. CASE CoreExit
  BY <1>3 DEF CoreExit, TypeOK, Nothing, FilesUntouched
<1>4. CASE NewSession
  <2>1. NoRequest \in Request /\ "idle" \in PCs /\ Serves("idle", NoRequest)
    BY DEF NoRequest, Working, Request, Ops, Config, DefaultConfig, PCs, Serves, Fits
  <2> QED
    BY <1>4, <2>1 DEF NewSession, TypeOK, Nothing, Excuses, FilesUntouched
<1> QED
  BY <1>1, <1>2, <1>3, <1>4

\* Initially every variable is of its type.
LEMMA InitTypes == Init => TypeOK
<1>1. NoRequest \in Request /\ "idle" \in PCs /\ Serves("idle", NoRequest)
  BY DEF NoRequest, Working, Request, Ops, Config, DefaultConfig, PCs, Serves, Fits
<1> QED
  BY <1>1 DEF Init, TypeOK, Nothing, Excuses

\* Every step of the daemon keeps the types.
LEMMA NextTypes == TypeOK /\ [Next]_vars => TypeOK'
<1> SUFFICES ASSUME TypeOK, [Next]_vars PROVE TypeOK'
  OBVIOUS
<1>1. CASE UNCHANGED vars
  BY <1>1 DEF vars, TypeOK
<1>2. CASE Next
  BY <1>2, RequestTypes, StepTypes, ProcessTypes DEF Next
<1> QED
  BY <1>1, <1>2

\* TypeOK holds in every reachable state of the daemon.
THEOREM TypeCorrect == Spec => []TypeOK
<1> QED
  BY InitTypes, NextTypes, PTL DEF Spec

-----------------------------------------------------------------------------
(* Exclusion                                                               *)

\* Without "overlap" at most one handler is busy.
Alone == "overlap" \notin excuse =>
    \A i, j \in Handlers : (pc[i] # "idle" /\ pc[j] # "idle") => i = j

\* A connect that has cleared the core undisturbed finds it still empty
\* when it comes to start its own instance.
StillCleared == excuse \cap ExclusionExcuses = {} =>
    \A i \in Handlers :
        (req[i].op = "connect" /\ pc[i] \in {"prep", "toml", "fill", "json", "save", "run"})
            => \A s \in Spaces : inst[s] = NoConfig

ExclusionInv == TypeOK /\ Alone /\ StillCleared /\ ExclusionUnlessExcused

\* A step belongs to a busy handler and leaves the other handlers alone.
LEMMA StepFrame ==
    ASSUME TypeOK, NEW i \in Handlers, Steps(i)
    PROVE  /\ pc[i] # "idle" /\ core' = core
           /\ \A j \in Handlers \ {i} : pc'[j] = pc[j] /\ req'[j] = req[j]
<1>1. \A j \in Handlers \ {i} : pc'[j] = pc[j] /\ req'[j] = req[j]
  BY StepMoves DEF Moves, TypeOK
<1>2. pc[i] # "idle" /\ core' = core
  BY DEF Steps, Fail, RetainOk, RetainFails, Prepare, EmptyToml, WriteToml, EmptyJson, WriteJson, RunRefused, RunBreaks,
         RunStarts, CoreWrites, Tidy, Push, Delete, RemoveToml, Unpush, ReadAndPatch, ListRunning,
         RestartNext, CoreUntouched
<1> QED
  BY <1>1, <1>2

\* A new request adds to the excuses, and "overlap" when another is served.
LEMMA RequestFrame ==
    ASSUME TypeOK, NEW i \in Handlers, Requests(i)
    PROVE  /\ pc[i] = "idle" /\ pc'[i] \in {"clear", "del", "read", "list"}
           /\ \A j \in Handlers \ {i} : pc'[j] = pc[j] /\ req'[j] = req[j]
           /\ UNCHANGED <<core, inst, toml, json>>
           /\ excuse \subseteq excuse'
           /\ OthersBusy(i) => {"overlap", "torn"} \subseteq excuse'
           /\ core \in {"clean", "spawn"} => "early" \in excuse'
<1>1. \E l \in {"clear", "del", "read", "list"} : \E r : Accept(i, l, r)
  BY DEF Requests, ConnectSpace, DisconnectSpace, PatchConfig, RestartAll
<1> QED
  BY <1>1 DEF Accept, Goto, TypeOK, CoreUntouched, FilesUntouched

\* Only an undisturbed clear takes "overlap" back.
LEMMA StepOverlap ==
    ASSUME TypeOK, NEW i \in Handlers, Steps(i)
    PROVE  \/ excuse \subseteq excuse'
           \/ RetainOk(i)
BY DEF Steps, Fail, RetainFails, Prepare, EmptyToml, WriteToml, EmptyJson, WriteJson, RunRefused, RunBreaks,
       RunStarts, CoreWrites, Tidy, Push, Delete, RemoveToml, Unpush, ReadAndPatch, ListRunning,
       RestartNext

\* That handlers work alone unless "overlap" is excused is kept.
LEMMA AloneInductive ==
    ASSUME TypeOK, Alone, [Next]_vars
    PROVE  Alone'
<1>1. CASE UNCHANGED vars
  BY <1>1 DEF vars, Alone
<1>2. ASSUME NEW i \in Handlers, Requests(i)
      PROVE  Alone'
  BY <1>2, RequestFrame DEF Alone, OthersBusy
<1>3. ASSUME NEW i \in Handlers, Steps(i)
      PROVE  Alone'
  <2>1. CASE excuse \subseteq excuse'
    BY <1>3, <2>1, StepFrame DEF Alone
  <2>2. CASE RetainOk(i)
    <3>1. OthersBusy(i) => "overlap" \in excuse'
      BY <2>2 DEF RetainOk
    <3> QED
      BY <1>3, <3>1, StepFrame DEF Alone, OthersBusy
  <2> QED
    BY <1>3, <2>1, <2>2, StepOverlap
<1>4. CASE CleanStale \/ SpawnCore \/ CoreExit
  BY <1>4 DEF CleanStale, SpawnCore, CoreExit, Alone
<1>5. CASE NewSession
  BY <1>5 DEF NewSession, Alone
<1> QED
  BY <1>1, <1>2, <1>3, <1>4, <1>5 DEF Next

\* What each step of a handler may do to the instances.
LEMMA StepInstances ==
    ASSUME TypeOK, NEW i \in Handlers, Steps(i)
    PROVE  \/ \A s \in Spaces : inst'[s] \in {inst[s], NoConfig}
           \/ RunStarts(i) /\ inst' = [inst EXCEPT ![req[i].sp] = build_proto_config(req[i].cfg)]
BY DEF Steps, Fail, RetainOk, RetainFails, Prepare, EmptyToml, WriteToml, EmptyJson, WriteJson, RunRefused, RunBreaks,
       RunStarts, CoreWrites, Tidy, Push, Delete, RemoveToml, Unpush, ReadAndPatch, ListRunning,
       RestartNext, CoreUntouched, TypeOK, Nothing

\* After a step the handler is where a connect relies on a cleared core only
\* if it was there before or has just cleared the core.
LEMMA StepConnect ==
    ASSUME TypeOK, NEW i \in Handlers, Steps(i),
           req'[i].op = "connect", pc'[i] \in {"prep", "toml", "fill", "json", "save", "run"}
    PROVE  \/ req[i].op = "connect" /\ pc[i] \in {"prep", "toml", "fill", "json", "save", "run"}
                /\ (\A s \in Spaces : inst'[s] = inst[s])
           \/ RetainOk(i)
           \/ RetainFails(i)
<1>1. Fits(req[i].op, pc[i])
  BY DEF TypeOK, Serves
<1>2. ~Reply(i)
  BY DEF Reply, Goto, TypeOK
<1>3. \A l \in {"tidy", "push", "next", "rm", "unpush"} : ~Goto(i, l)
  BY DEF Goto, TypeOK
<1>4. CASE Prepare(i) \/ EmptyToml(i) \/ WriteToml(i) \/ EmptyJson(i) \/ WriteJson(i)
  BY <1>1, <1>2, <1>4 DEF Prepare, EmptyToml, WriteToml, EmptyJson, WriteJson, CoreUntouched,
     TypeOK, Fits, Reply
<1>5. ~RunRefused(i) /\ ~RunBreaks(i) /\ ~RunStarts(i)
  BY <1>2, <1>3 DEF RunRefused, RunBreaks, RunStarts, AfterRun
<1>6. ~ReadAndPatch(i) /\ ~RestartNext(i)
  BY <1>2, <1>3 DEF ReadAndPatch, RestartNext, Working, TypeOK, Goto
<1> QED
  BY <1>2, <1>3, <1>4, <1>5, <1>6
     DEF Steps, Fail, Tidy, Push, Delete, RemoveToml, Unpush, ListRunning

\* A handler's step keeps the exclusion invariant.
LEMMA ExclusionStep ==
    ASSUME ExclusionInv, NEW i \in Handlers, Steps(i)
    PROVE  StillCleared' /\ ExclusionUnlessExcused'
<1> USE DEF ExclusionInv
<1> DEFINE Clean == excuse \cap ExclusionExcuses = {}
           Cleared == \A s \in Spaces : inst[s] = NoConfig
<1>1. CASE RetainOk(i)
  <2>1. \A s \in Spaces : inst'[s] = NoConfig
    BY <1>1 DEF RetainOk, Nothing
  <2> QED
    BY <2>1 DEF StillCleared, ExclusionUnlessExcused, Running
<1>2. CASE RetainFails(i)
  BY <1>2 DEF RetainFails, StillCleared, ExclusionUnlessExcused, ExclusionExcuses
<1>3. CASE ~RetainOk(i) /\ ~RetainFails(i)
  <2> SUFFICES ASSUME (excuse \cap ExclusionExcuses = {})'
               PROVE  /\ (\A j \in Handlers :
                            (req[j].op = "connect" /\ pc[j] \in {"prep", "toml", "fill", "json", "save", "run"})
                               => \A s \in Spaces : inst[s] = NoConfig)'
                      /\ (\A s, t \in Running : s = t)'
    BY DEF StillCleared, ExclusionUnlessExcused
  <2>1. Clean /\ "overlap" \notin excuse
    BY <1>3, StepOverlap DEF ExclusionExcuses
  <2>2. \A j \in Handlers \ {i} : pc[j] = "idle" /\ pc'[j] = "idle"
    BY <2>1, StepFrame DEF Alone
  <2>3. ASSUME NEW j \in Handlers, req'[j].op = "connect",
               pc'[j] \in {"prep", "toml", "fill", "json", "save", "run"}, NEW s \in Spaces
        PROVE  inst'[s] = NoConfig
    <3>1. j = i
      BY <2>2, <2>3
    <3> QED
      BY <3>1, <2>1, <2>3, <1>3, StepConnect DEF StillCleared
  <2>4. \A s, t \in Running' : s = t
    <3>1. CASE \A s \in Spaces : inst'[s] \in {inst[s], NoConfig}
      BY <3>1, <2>1 DEF ExclusionUnlessExcused, Running
    <3>2. CASE RunStarts(i) /\ inst' = [inst EXCEPT ![req[i].sp] = build_proto_config(req[i].cfg)]
      <4>1. req[i].op \in {"connect", "patch", "restart"}
        BY <3>2 DEF RunStarts, TypeOK, Serves, Fits
      <4>2. CASE req[i].op = "connect"
        BY <3>2, <4>2, <2>1 DEF RunStarts, StillCleared, Running, TypeOK
      <4>3. CASE req[i].op \in {"patch", "restart"}
        <5>1. Running \ {req[i].sp} = {}
          <6>1. ASSUME Running \ {req[i].sp} # {} PROVE FALSE
            <7>3. req[i].op \in excuse'
              BY <3>2, <4>3, <6>1 DEF RunStarts, CoreWrites
            <7> QED
              BY <7>3, <4>3 DEF ExclusionExcuses
          <6> QED
            BY <6>1
        <5> QED
          BY <3>2, <5>1 DEF Running, TypeOK
      <4> QED
        BY <4>1, <4>2, <4>3
    <3> QED
      BY <3>1, <3>2, StepInstances
  <2> QED
    BY <2>3, <2>4 DEF Running
<1> QED
  BY <1>1, <1>2, <1>3

\* The exclusion invariant is inductive.
LEMMA ExclusionInductive == ExclusionInv /\ [Next]_vars => ExclusionInv'
<1> SUFFICES ASSUME ExclusionInv, [Next]_vars PROVE ExclusionInv'
  OBVIOUS
<1>1. TypeOK' /\ Alone'
  BY NextTypes, AloneInductive DEF ExclusionInv
<1> SUFFICES StillCleared' /\ ExclusionUnlessExcused'
  BY <1>1 DEF ExclusionInv
<1>2. CASE UNCHANGED vars
  BY <1>2 DEF ExclusionInv, vars, StillCleared, ExclusionUnlessExcused, Running
<1>3. ASSUME NEW i \in Handlers, Requests(i)
      PROVE  StillCleared' /\ ExclusionUnlessExcused'
  BY <1>3, RequestFrame DEF ExclusionInv, StillCleared, ExclusionUnlessExcused, Running
<1>4. CASE CleanStale
  BY <1>4 DEF CleanStale, ExclusionInv, StillCleared, ExclusionUnlessExcused, Running,
              ExclusionExcuses
<1>5. CASE SpawnCore
  <2>1. CASE list_saved # {} /\ core' = "up"
    BY <1>5, <2>1 DEF SpawnCore, ExclusionInv, TypeOK, StillCleared, ExclusionUnlessExcused,
       ExclusionExcuses
  <2>2. CASE list_saved = {} /\ core' = "up"
    <3>1. \A s \in Spaces : inst'[s] = NoConfig
      BY <1>5, <2>2 DEF SpawnCore, list_saved
    <3> QED
      BY <3>1 DEF StillCleared, ExclusionUnlessExcused, Running
  <2> QED
    BY <1>5, <2>1, <2>2 DEF SpawnCore, ExclusionInv, StillCleared, ExclusionUnlessExcused, Running
<1>6. CASE CoreExit \/ NewSession
  <2>1. \A s \in Spaces : inst'[s] = NoConfig
    BY <1>6 DEF CoreExit, NewSession, Nothing
  <2> QED
    BY <2>1 DEF StillCleared, ExclusionUnlessExcused, Running
<1> QED
  BY <1>2, <1>3, <1>4, <1>5, <1>6, ExclusionStep DEF Next

\* However many spaces and handlers there are, two instances run at once only
\* after one of the five named causes.
THEOREM Exclusion == Spec => []ExclusionUnlessExcused
<1>1. Init => ExclusionInv
  BY InitTypes DEF Init, ExclusionInv, Alone, StillCleared, ExclusionUnlessExcused, Running, Nothing
<1>2. ExclusionInv => ExclusionUnlessExcused
  BY DEF ExclusionInv
<1> QED
  BY <1>1, <1>2, ExclusionInductive, PTL DEF Spec

-----------------------------------------------------------------------------
(* Boot                                                                    *)

\* While the boot task works, nobody is served unless "early"; once it has
\* removed the files, none is there unless "early" or "stale".
BootInv ==
    /\ TypeOK
    /\ (core \in {"clean", "spawn"} /\ "early" \notin excuse)
          => \A i \in Handlers : pc[i] = "idle"
    /\ (core = "spawn" /\ excuse \cap {"early", "stale"} = {})
          => \A s \in Spaces : toml[s] = NoConfig

\* The boot invariant is inductive.
LEMMA BootInductive == BootInv /\ [Next]_vars => BootInv'
<1> SUFFICES ASSUME BootInv, [Next]_vars PROVE BootInv'
  OBVIOUS
<1>1. TypeOK /\ TypeOK'
  BY NextTypes DEF BootInv
<1>2. CASE UNCHANGED vars
  BY <1>1, <1>2 DEF BootInv, vars
<1>3. ASSUME NEW i \in Handlers, Requests(i)
      PROVE  BootInv'
  BY <1>1, <1>3, RequestFrame DEF BootInv
<1>4. ASSUME NEW i \in Handlers, Steps(i)
      PROVE  BootInv'
  <2>1. pc[i] # "idle" /\ core' = core
    BY <1>1, <1>4, StepFrame
  <2>2. CASE excuse \subseteq excuse'
    BY <1>1, <2>1, <2>2 DEF BootInv
  <2>3. CASE RetainOk(i)
    BY <1>1, <2>1, <2>3 DEF BootInv, RetainOk
  <2> QED
    BY <1>1, <1>4, <2>2, <2>3, StepOverlap
<1>5. CASE CleanStale
  <2>1. PICK kept \in SUBSET list_saved :
             /\ toml' = [s \in Spaces |-> IF s \in kept THEN toml[s] ELSE NoConfig]
             /\ excuse' = excuse \cup (IF kept # {} THEN {"stale"} ELSE {})
    BY <1>5 DEF CleanStale
  <2>2. CASE kept = {}
    BY <1>1, <1>5, <2>1, <2>2 DEF BootInv, CleanStale
  <2>3. CASE kept # {}
    BY <1>1, <1>5, <2>1, <2>3 DEF BootInv, CleanStale
  <2> QED
    BY <2>2, <2>3
<1>6. CASE SpawnCore \/ CoreExit \/ NewSession
  BY <1>1, <1>6 DEF BootInv, SpawnCore, CoreExit, NewSession
<1> QED
  BY <1>2, <1>3, <1>4, <1>5, <1>6 DEF Next

\* The core a daemon boots runs nothing, unless a request was accepted during
\* the boot or a stale file could not be removed.
THEOREM Boot == Spec => BootStartsNothing
<1>1. Init => BootInv
  BY InitTypes DEF Init, BootInv
<1>2. ASSUME BootInv, [Next]_vars
      PROVE  [(core = "spawn" /\ core' = "up" /\ excuse \cap {"early", "stale"} = {})
                 => inst' = Nothing]_vars
  <2> SUFFICES ASSUME core = "spawn", core' = "up", excuse \cap {"early", "stale"} = {}
               PROVE  inst' = Nothing
    OBVIOUS
  <2>1. core' # core
    OBVIOUS
  <2>2. \A i \in Handlers : ~Requests(i) /\ ~Steps(i)
    BY <1>2, <2>1, RequestFrame, StepFrame DEF BootInv
  <2>3. SpawnCore
    BY <1>2, <2>1, <2>2 DEF Next, vars, CleanStale, CoreExit, NewSession
  <2>4. inst' = toml /\ toml \in [Spaces -> {NoConfig} \cup Config]
    BY <2>3, <1>2 DEF SpawnCore, BootInv, TypeOK
  <2>5. \A s \in Spaces : toml[s] = NoConfig
    BY <1>2 DEF BootInv
  <2> QED
    BY <2>4, <2>5 DEF Nothing
<1> QED
  BY <1>1, <1>2, BootInductive, PTL DEF Spec, BootStartsNothing

-----------------------------------------------------------------------------
(* What was applied is what was saved                                      *)

\* From the json write on, the saved configuration is the handler's; from the
\* start on, the instance runs it, unless the core has exited.
AppliedInv ==
    /\ TypeOK /\ Alone
    /\ \A i \in Handlers : pc[i] \in {"tidy", "push"} => core \in {"up", "down"}
    /\ "overlap" \notin excuse => \A i \in Handlers :
         /\ (pc[i] \in {"run", "tidy", "push"} /\ req[i].op # "restart")
               => json[req[i].sp] = req[i].cfg
         /\ (pc[i] \in {"tidy", "push"} /\ core = "up")
               => inst[req[i].sp] = build_proto_config(req[i].cfg)

\* The handler's own steps, with no other handler about.
LEMMA AppliedStep ==
    ASSUME AppliedInv, NEW i \in Handlers, Steps(i), "overlap" \notin excuse,
           pc'[i] \in {"run", "tidy", "push"}, req'[i].op # "restart"
    PROVE  /\ json'[req'[i].sp] = req'[i].cfg
           /\ (pc'[i] \in {"tidy", "push"} /\ core = "up")
                => inst'[req'[i].sp] = build_proto_config(req'[i].cfg)
           /\ pc'[i] \in {"tidy", "push"} => core \in {"up", "down"}
<1> USE DEF AppliedInv
<1>1. /\ ~Reply(i)
      /\ \A l \in {"prep", "toml", "fill", "json", "save", "rm", "unpush", "next"} : ~Goto(i, l)
  BY DEF Reply, Goto, TypeOK
<1>2. CASE WriteJson(i)
  <2>1. req[i].sp \in Spaces
    BY <1>2 DEF WriteJson, TypeOK, Serves
  <2> QED
    BY <1>1, <1>2, <2>1 DEF WriteJson, Goto, TypeOK
<1>3. CASE RunRefused(i) \/ RunBreaks(i)
  BY <1>1, <1>3 DEF RunRefused, RunBreaks, AfterRun
<1>4. CASE RunStarts(i)
  <2>1. req[i].sp \in Spaces /\ pc[i] = "run" /\ core = "up"
    BY <1>4 DEF RunStarts, TypeOK, Serves
  <2>2. UNCHANGED <<req, json>> /\ inst' = [inst EXCEPT ![req[i].sp] = build_proto_config(req[i].cfg)]
    BY <1>1, <1>4 DEF RunStarts, AfterRun
  <2> QED
    BY <2>1, <2>2 DEF TypeOK
<1>5. CASE Tidy(i)
  BY <1>5 DEF Tidy, Goto, CoreUntouched
<1>6. ~RestartNext(i)
  BY <1>1 DEF RestartNext, Working, TypeOK
<1> QED
  BY <1>1, <1>2, <1>3, <1>4, <1>5, <1>6 DEF Steps, Fail, RetainOk, RetainFails, Prepare,
     EmptyToml, WriteToml, EmptyJson, Push, Delete, RemoveToml, Unpush, ReadAndPatch, ListRunning

\* The invariant of applied configurations is inductive.
LEMMA AppliedInductive == AppliedInv /\ [Next]_vars => AppliedInv'
<1> SUFFICES ASSUME AppliedInv, [Next]_vars PROVE AppliedInv'
  OBVIOUS
<1> USE DEF AppliedInv
<1>1. TypeOK' /\ Alone'
  BY NextTypes, AloneInductive
<1>2. CASE UNCHANGED vars
  BY <1>1, <1>2 DEF vars
<1>3. ASSUME NEW i \in Handlers, Requests(i)
      PROVE  AppliedInv'
  <2>1. \A j \in Handlers : pc'[j] \in {"run", "tidy", "push"} =>
            j # i /\ pc[j] = pc'[j] /\ req[j] = req'[j]
    BY <1>3, RequestFrame
  <2> QED
    BY <1>1, <1>3, <2>1, RequestFrame
<1>4. ASSUME NEW i \in Handlers, Steps(i)
      PROVE  AppliedInv'
  <2>1. \A j \in Handlers \ {i} : pc'[j] = pc[j] /\ req'[j] = req[j]
    BY <1>4, StepFrame
  <2>2. pc[i] # "idle" /\ core' = core
    BY <1>4, StepFrame
  <2>3. CASE RetainOk(i)
    BY <1>1, <2>1, <2>2, <2>3 DEF RetainOk, Goto, TypeOK, OthersBusy
  <2>4. CASE ~RetainOk(i)
    <3>1. \A j \in Handlers : pc'[j] \in {"tidy", "push"} => core' \in {"up", "down"}
      <4>1. pc'[i] \in {"tidy", "push"} => core \in {"up", "down"}
        <5> SUFFICES ASSUME pc'[i] \in {"tidy", "push"} PROVE core \in {"up", "down"}
          OBVIOUS
        <5>1. /\ ~Reply(i)
              /\ \A l \in {"prep", "toml", "fill", "json", "save", "run", "rm", "unpush", "next"} :
                    ~Goto(i, l)
          BY DEF Reply, Goto, TypeOK
        <5>2. ~RestartNext(i) /\ ~RunRefused(i) /\ ~RunBreaks(i)
          BY <5>1 DEF RestartNext, RunRefused, RunBreaks, AfterRun, TypeOK
        <5> QED
          BY <1>4, <5>1, <5>2 DEF Steps, Fail, RetainOk, RetainFails, Prepare,
             EmptyToml, WriteToml, EmptyJson, WriteJson, RunStarts, Tidy, Push, Delete, RemoveToml, Unpush, ReadAndPatch, ListRunning
      <4> QED
        BY <2>1, <2>2, <4>1
    <3>2. ASSUME "overlap" \notin excuse', NEW j \in Handlers
          PROVE  /\ (pc'[j] \in {"run", "tidy", "push"} /\ req'[j].op # "restart")
                       => json'[req'[j].sp] = req'[j].cfg
                 /\ (pc'[j] \in {"tidy", "push"} /\ core' = "up")
                       => inst'[req'[j].sp] = build_proto_config(req'[j].cfg)
      <4>1. "overlap" \notin excuse
        BY <1>4, <2>4, <3>2, StepOverlap
      <4>2. CASE j # i
        BY <2>1, <2>2, <4>1, <4>2 DEF Alone
      <4>3. CASE j = i
        <5>1. pc'[i] \in {"tidy", "push"} => req'[i].op # "restart"
          BY <1>1 DEF TypeOK, Serves, Fits
        <5> QED
          BY <1>4, <2>2, <4>1, <4>3, <5>1, AppliedStep
      <4> QED
        BY <4>2, <4>3
    <3> QED
      BY <1>1, <3>1, <3>2
  <2> QED
    BY <2>3, <2>4
<1>5. CASE CleanStale \/ SpawnCore
  <2>1. \A i \in Handlers : pc[i] \notin {"tidy", "push"}
    BY <1>5 DEF CleanStale, SpawnCore
  <2> QED
    BY <1>1, <1>5, <2>1 DEF CleanStale, SpawnCore, FilesUntouched
<1>6. CASE CoreExit \/ NewSession
  BY <1>1, <1>6 DEF CoreExit, NewSession, FilesUntouched
<1> QED
  BY <1>2, <1>3, <1>4, <1>5, <1>6 DEF Next

\* A connect or patch that answers Ok, undisturbed, has saved its configuration,
\* and what runs is that configuration as far as it is sent to the core.
THEOREM Applied == Spec => []AppliedIsSaved
<1>1. Init => AppliedInv
  BY InitTypes DEF Init, AppliedInv, Alone
<1>2. AppliedInv => AppliedIsSaved
  BY DEF AppliedInv, AppliedIsSaved, TypeOK, Serves, Fits, build_proto_config
<1> QED
  BY <1>1, <1>2, AppliedInductive, PTL DEF Spec

-----------------------------------------------------------------------------
(* The network identity                                                    *)

Named(f) == \A s \in Spaces : f[s] # NoConfig => Identity \in f[s]
At(s, L) == \E i \in Handlers : pc[i] \in L /\ req[i].sp = s

\* As long as nothing is torn, every instance and configuration in hand names
\* its network, and so does every file that no handler has emptied and is
\* about to fill; a toml without a json is one whose json is about to be
\* written.
FilesNamed ==
    \A s \in Spaces :
        /\ toml[s] # NoConfig => Identity \in toml[s] \/ At(s, {"fill"})
        /\ toml[s] # NoConfig => json[s] # NoConfig \/ At(s, {"fill", "json"})
        /\ json[s] = CutOff => At(s, {"save"})
        /\ json[s] \notin {NoConfig, CutOff} => Identity \in json[s]
HandNamed ==
    \A i \in Handlers :
        /\ pc[i] \in {"clear", "prep", "toml", "fill", "json", "save", "run"} => Identity \in req[i].cfg
        /\ pc[i] = "run" => json[req[i].sp] \notin {NoConfig, CutOff}
IdentityParts == Named(inst) /\ FilesNamed /\ HandNamed

IdentityInv ==
    /\ TypeOK /\ Alone
    /\ "overlap" \in excuse => "torn" \in excuse
    /\ "torn" \notin excuse => IdentityParts

\* A single busy handler's step keeps IdentityParts.
LEMMA IdentityStep ==
    ASSUME TypeOK, TypeOK', IdentityParts, NEW i \in Handlers, Steps(i), "torn" \notin excuse',
           \A j \in Handlers \ {i} : pc[j] = "idle"
    PROVE  IdentityParts'
<1> DEFINE Holding == {"clear", "prep", "toml", "fill", "json", "save", "run"}
           sp == req[i].sp
<1> USE DEF IdentityParts
<1>1. /\ pc[i] \notin {"idle", "list", "next"} => req[i].sp \in Spaces
      /\ req[i].cfg \in Config /\ req[i].cfg # NoConfig /\ req[i].cfg # CutOff
  BY ConfigAssumption DEF TypeOK, Serves, Request
<1>2. \A j \in Handlers \ {i} : pc'[j] = "idle" /\ req'[j] = req[j]
  BY StepFrame
<1>3. /\ ~At(sp, {"fill", "json", "save"}) \/ pc[i] \in {"fill", "json", "save"}
      /\ \A s \in Spaces \ {sp}, L \in SUBSET {"fill", "json", "save"} : ~At(s, L)
  BY DEF At
<1>4. pc[i] \notin Holding \/ Identity \in req[i].cfg
  BY DEF HandNamed
<1>5. /\ Identity \in build_proto_config(req[i].cfg) \/ pc[i] \notin Holding
      /\ Identity \in to_easytier_config(req[i].cfg) \/ pc[i] \notin Holding
  BY <1>4, FieldAssumption DEF build_proto_config, to_easytier_config
\* A step that touches no file and no instance, away from the file writes.
<1>6. ASSUME UNCHANGED <<inst, toml, json>>, pc[i] \notin {"fill", "json", "save"},
             pc'[i] \notin Holding
      PROVE  IdentityParts'
  <2>1. FilesNamed'
    BY <1>3, <1>6 DEF FilesNamed, At
  <2> QED
    BY <1>2, <1>6, <2>1 DEF Named, HandNamed
<1>7. \A s \in Spaces, L \in SUBSET {"fill", "json", "save"} :
         (s # sp /\ toml'[s] = toml[s] /\ json'[s] = json[s]) =>
            /\ toml'[s] # NoConfig => Identity \in toml'[s] /\ json'[s] # NoConfig
            /\ json'[s] # CutOff
            /\ json'[s] # NoConfig => Identity \in json'[s]
  BY <1>3 DEF FilesNamed
<1>8. CASE Fail(i)
  <2>1. pc[i] \notin {"fill", "json", "save"} /\ pc'[i] \notin Holding
    BY <1>8 DEF Fail, Reply, Goto, TypeOK
  <2> QED
    BY <1>6, <1>8, <2>1 DEF Fail, CoreUntouched, FilesUntouched
<1>9. CASE RetainOk(i) \/ RetainFails(i)
  <2>1. pc[i] = "clear" /\ pc'[i] = "prep" /\ req' = req /\ UNCHANGED <<toml, json>>
    BY <1>9 DEF RetainOk, RetainFails, Goto, TypeOK, FilesUntouched
  <2>2. Named(inst')
    BY <1>9 DEF RetainOk, RetainFails, Nothing, Named, CoreUntouched
  <2>3. FilesNamed'
    BY <1>3, <2>1 DEF FilesNamed, At
  <2> QED
    BY <1>2, <1>4, <2>1, <2>2, <2>3 DEF HandNamed, Named
<1>10. CASE Prepare(i)
  <2>1. /\ pc[i] = "prep" /\ pc'[i] \in {"idle", "toml"} /\ UNCHANGED <<inst, json>>
        /\ toml' = [toml EXCEPT ![sp] = NoConfig]
        /\ pc'[i] = "toml" => req' = req
    BY <1>10 DEF Prepare, Reply, Goto, TypeOK, CoreUntouched
  <2>2. FilesNamed'
    BY <1>1, <1>3, <2>1 DEF FilesNamed, At, TypeOK
  <2> QED
    BY <1>2, <1>4, <2>1, <2>2 DEF HandNamed, Named
<1>11. CASE EmptyToml(i)
  <2>1. /\ pc[i] = "toml" /\ pc'[i] = "fill" /\ UNCHANGED <<inst, json, req>>
        /\ toml' = [toml EXCEPT ![sp] = DefaultConfig]
    BY <1>11 DEF EmptyToml, Goto, TypeOK, CoreUntouched
  <2>2. FilesNamed'
    BY <1>1, <1>3, <2>1 DEF FilesNamed, At, TypeOK
  <2> QED
    BY <1>2, <1>4, <2>1, <2>2 DEF HandNamed, Named
<1>12. CASE WriteToml(i)
  <2>1. /\ pc[i] = "fill" /\ pc'[i] = "json" /\ UNCHANGED <<inst, json, req>>
        /\ toml' = [toml EXCEPT ![sp] = to_easytier_config(req[i].cfg)]
    BY <1>12 DEF WriteToml, Goto, TypeOK, CoreUntouched
  <2>2. toml'[sp] = to_easytier_config(req[i].cfg) /\ \A s \in Spaces \ {sp} : toml'[s] = toml[s]
    BY <1>1, <2>1 DEF TypeOK
  <2>3. FilesNamed'
    <3>1. At(sp, {"fill", "json"})'
      BY <2>1 DEF At
    <3>2. json[sp] # CutOff /\ (json[sp] # NoConfig => Identity \in json[sp])
      BY <1>1, <2>1, <1>2 DEF FilesNamed, At
    <3> QED
      BY <1>5, <1>7, <2>1, <2>2, <3>1, <3>2 DEF FilesNamed
  <2> QED
    BY <1>2, <1>4, <2>1, <2>3 DEF HandNamed, Named
<1>13. CASE EmptyJson(i)
  <2>1. /\ pc[i] = "json" /\ pc'[i] = "save" /\ UNCHANGED <<inst, toml, req>>
        /\ json' = [json EXCEPT ![sp] = CutOff]
    BY <1>13 DEF EmptyJson, Goto, TypeOK, CoreUntouched
  <2>2. json'[sp] = CutOff /\ \A s \in Spaces \ {sp} : json'[s] = json[s]
    BY <1>1, <2>1 DEF TypeOK
  <2>3. FilesNamed'
    <3>1. At(sp, {"save"})'
      BY <2>1 DEF At
    <3>2. toml[sp] # NoConfig => Identity \in toml[sp]
      BY <1>1, <2>1, <1>2 DEF FilesNamed, At
    <3> QED
      BY <1>7, <2>1, <2>2, <3>1, <3>2, ConfigAssumption DEF FilesNamed
  <2> QED
    BY <1>2, <1>4, <2>1, <2>3 DEF HandNamed, Named
<1>14. CASE WriteJson(i)
  <2>1. /\ pc[i] = "save" /\ pc'[i] = "run" /\ UNCHANGED <<inst, toml, req>>
        /\ json' = [json EXCEPT ![sp] = req[i].cfg]
    BY <1>14 DEF WriteJson, Goto, TypeOK, CoreUntouched
  <2>2. json'[sp] = req[i].cfg /\ \A s \in Spaces \ {sp} : json'[s] = json[s]
    BY <1>1, <2>1 DEF TypeOK
  <2>3. FilesNamed'
    <3>1. toml[sp] # NoConfig => Identity \in toml[sp]
      BY <1>1, <2>1, <1>2 DEF FilesNamed, At
    <3> QED
      BY <1>1, <1>4, <1>7, <2>1, <2>2, <3>1 DEF FilesNamed
  <2> QED
    BY <1>1, <1>2, <1>4, <2>1, <2>2, <2>3 DEF HandNamed, Named
<1>15. CASE RunRefused(i)
  <2>1. pc[i] = "run" /\ pc'[i] \notin Holding
    BY <1>15 DEF RunRefused, AfterRun, Reply, Goto, TypeOK
  <2> QED
    BY <1>6, <1>15, <2>1 DEF RunRefused, CoreUntouched, FilesUntouched
<1>16. CASE RunBreaks(i) \/ RunStarts(i)
  <2>1. pc[i] = "run" /\ pc'[i] \notin Holding /\ json' = json
    BY <1>16 DEF RunBreaks, RunStarts, AfterRun, Reply, Goto, TypeOK
  <2>2. inst' \in {[inst EXCEPT ![sp] = NoConfig], [inst EXCEPT ![sp] = build_proto_config(req[i].cfg)]}
    BY <1>16 DEF RunBreaks, RunStarts
  <2>3. Named(inst')
    BY <1>1, <1>5, <2>1, <2>2 DEF Named, TypeOK
  <2>4. toml' \in {toml, [toml EXCEPT ![sp] = build_proto_config(req[i].cfg)]}
    BY <1>16 DEF RunBreaks, RunStarts, CoreWrites
  <2>5. json[sp] \notin {NoConfig, CutOff} /\ Identity \in json[sp]
    BY <1>1, <2>1 DEF HandNamed, FilesNamed
  <2>6. toml'[sp] # NoConfig => Identity \in toml'[sp]
    <3>1. toml[sp] # NoConfig => Identity \in toml[sp]
      BY <1>1, <1>3, <2>1 DEF FilesNamed, At
    <3> QED
      BY <1>1, <1>5, <2>1, <2>4, <3>1 DEF TypeOK
  <2>7. \A s \in Spaces \ {sp} : toml'[s] = toml[s]
    BY <1>1, <2>1, <2>4 DEF TypeOK
  <2>8. FilesNamed'
    BY <1>7, <2>1, <2>5, <2>6, <2>7 DEF FilesNamed
  <2> QED
    BY <1>2, <2>1, <2>3, <2>8 DEF HandNamed, Named
<1>17. CASE Tidy(i) \/ Delete(i) \/ RemoveToml(i)
  <2>1. /\ pc[i] \in {"tidy", "del", "rm"} /\ pc'[i] \notin Holding /\ json' = json
        /\ toml' \in {toml, [toml EXCEPT ![sp] = NoConfig]}
        /\ inst' \in {inst, [inst EXCEPT ![sp] = NoConfig]}
    BY <1>17 DEF Tidy, Delete, RemoveToml, Goto, TypeOK, CoreUntouched
  <2>2. FilesNamed'
    BY <1>1, <1>3, <2>1 DEF FilesNamed, At, TypeOK
  <2>3. Named(inst')
    BY <1>1, <2>1 DEF Named, TypeOK
  <2> QED
    BY <1>2, <2>1, <2>2, <2>3 DEF HandNamed, Named
<1>18. CASE Push(i) \/ Unpush(i) \/ ListRunning(i)
  <2>1. pc[i] \notin {"fill", "json", "save"} /\ pc'[i] \notin Holding
    BY <1>18 DEF Push, Unpush, ListRunning, Reply, Goto, TypeOK
  <2> QED
    BY <1>6, <1>18, <2>1 DEF Push, Unpush, ListRunning, CoreUntouched, FilesUntouched
<1>19. CASE ReadAndPatch(i)
  <2>1. pc[i] = "read" /\ json[sp] \notin {NoConfig, CutOff}
    <3>1. pc[i] = "read" /\ Readable(sp) /\ sp \in Spaces
      BY <1>1, <1>19 DEF ReadAndPatch
    <3>2. ~At(sp, {"fill", "json"})
      BY <3>1 DEF At
    <3> QED
      BY <3>1, <3>2 DEF Readable, FilesNamed
  <2>2. Identity \in patched(read_network_config(sp), req[i].cfg)
    BY <1>1, <2>1 DEF read_network_config, patched, FilesNamed
  <2>3. pc'[i] = "toml" /\ Identity \in req'[i].cfg
    BY <1>19, <2>2 DEF ReadAndPatch, Working, Goto, TypeOK
  <2>4. FilesNamed'
    BY <1>3, <1>19, <2>1 DEF ReadAndPatch, FilesUntouched, FilesNamed, At
  <2> QED
    BY <1>2, <1>19, <2>3, <2>4 DEF ReadAndPatch, CoreUntouched, HandNamed, Named
<1>20. CASE RestartNext(i)
  <2>1. pc[i] = "next" /\ UNCHANGED <<inst, toml, json>>
    BY <1>20 DEF RestartNext, CoreUntouched, FilesUntouched
  <2>2. CASE pc'[i] \notin Holding
    BY <1>6, <2>1, <2>2
  <2>3. ASSUME NEW s \in req[i].todo, toml[s] # NoConfig, Readable(s), Goto(i, "run"),
               req' = [req EXCEPT ![i] = Working("restart", s, read_network_config(s), req[i].todo \ {s})]
        PROVE  IdentityParts'
    <3>1. s \in Spaces
      BY <2>3 DEF TypeOK, Request
    <3>2. json[s] \notin {NoConfig, CutOff}
      <4>1. ~At(s, {"fill", "json"})
        BY <2>1 DEF At
      <4> QED
        BY <2>3, <3>1, <4>1 DEF FilesNamed, Readable
    <3>3. Identity \in read_network_config(s)
      BY <3>1, <3>2 DEF read_network_config, FilesNamed
    <3>4. pc'[i] = "run" /\ req'[i].sp = s /\ Identity \in req'[i].cfg
      BY <2>3, <3>3 DEF Working, Goto, TypeOK
    <3>5. FilesNamed'
      BY <1>2, <2>1, <3>4 DEF FilesNamed, At
    <3> QED
      BY <1>2, <2>1, <3>2, <3>4, <3>5 DEF HandNamed, Named
  <2> QED
    BY <1>20, <2>1, <2>2, <2>3 DEF RestartNext, Reply, Goto, TypeOK
<1> QED
  BY <1>8, <1>9, <1>10, <1>11, <1>12, <1>13, <1>14, <1>15, <1>16, <1>17, <1>18, <1>19, <1>20 DEF Steps

\* Accepting a request keeps IdentityParts.
LEMMA IdentityRequest ==
    ASSUME TypeOK, IdentityParts, NEW i \in Handlers, Requests(i)
    PROVE  IdentityParts'
<1>1. /\ pc[i] = "idle" /\ pc'[i] \in {"clear", "del", "read", "list"}
      /\ \A j \in Handlers \ {i} : pc'[j] = pc[j] /\ req'[j] = req[j]
      /\ UNCHANGED <<inst, toml, json>>
  BY RequestFrame
<1>2. pc'[i] = "clear" => Identity \in req'[i].cfg
  BY RequestAssumption DEF Requests, ConnectSpace, DisconnectSpace, PatchConfig, RestartAll,
     Accept, Goto, Working, TypeOK
<1>3. FilesNamed'
  BY <1>1 DEF IdentityParts, FilesNamed, At
<1> QED
  BY <1>1, <1>2, <1>3 DEF IdentityParts, Named, HandNamed

\* The identity invariant is inductive.
LEMMA IdentityInductive == IdentityInv /\ [Next]_vars => IdentityInv'
<1> SUFFICES ASSUME IdentityInv, [Next]_vars PROVE IdentityInv'
  OBVIOUS
<1> USE DEF IdentityInv
<1>1. TypeOK' /\ Alone'
  BY NextTypes, AloneInductive
<1>2. CASE UNCHANGED vars
  BY <1>1, <1>2 DEF vars, IdentityParts, Named, FilesNamed, HandNamed, At
<1>3. ASSUME NEW i \in Handlers, Requests(i)
      PROVE  IdentityInv'
  <2>1. "overlap" \in excuse' => "torn" \in excuse'
    BY <1>3 DEF Requests, ConnectSpace, DisconnectSpace, PatchConfig, RestartAll, Accept
  <2> QED
    BY <1>1, <1>3, <2>1, IdentityRequest, RequestFrame
<1>4. ASSUME NEW i \in Handlers, Steps(i)
      PROVE  IdentityInv'
  <2>1. "torn" \in excuse => "torn" \in excuse'
    BY <1>4, StepOverlap DEF RetainOk
  <2>2. "overlap" \in excuse' => "torn" \in excuse'
    <3>1. CASE RetainOk(i)
      <4>1. OthersBusy(i) => "torn" \in excuse
        BY <1>4, StepFrame DEF Alone, OthersBusy
      <4> QED
        BY <2>1, <3>1, <4>1 DEF RetainOk
    <3>2. CASE ~RetainOk(i)
      <4>0. pc[i] = "run" => req[i].op # "overlap"
        BY DEF TypeOK, Serves, Fits
      <4>1. CASE RunBreaks(i) \/ RunStarts(i)
        <5>1. "overlap" \in excuse' => "overlap" \in excuse
          <6>1. pc[i] = "run" /\ \E C \in {{}, {req[i].op}}, T \in {{}, {"torn"}} : excuse' = excuse \cup C \cup T
            BY <4>1 DEF RunBreaks, RunStarts, CoreWrites
          <6> QED
            BY <4>0, <6>1
        <5> QED
          BY <2>1, <5>1
      <4>2. CASE ~RunBreaks(i) /\ ~RunStarts(i)
        <5>1. excuse' \in {excuse, excuse \cup {"retain"}, excuse \cup {"torn"}}
          BY <1>4, <3>2, <4>2 DEF Steps, Fail, RetainFails, Prepare, EmptyToml, WriteToml, EmptyJson,
             WriteJson, RunRefused, Tidy, Push, Delete, RemoveToml, Unpush, ReadAndPatch, ListRunning,
             RestartNext
        <5> QED
          BY <2>1, <5>1
      <4> QED
        BY <4>1, <4>2
    <3> QED
      BY <3>1, <3>2
  <2>3. ASSUME "torn" \notin excuse'
        PROVE  IdentityParts'
    <3>1. \A j \in Handlers \ {i} : pc[j] = "idle"
      BY <1>4, <2>1, <2>3, StepFrame DEF Alone
    <3> QED
      BY <1>1, <1>4, <2>1, <2>3, <3>1, IdentityStep
  <2> QED
    BY <1>1, <2>2, <2>3
<1>5. CASE CleanStale
  <2>1. "torn" \in excuse' \/ IdentityParts'
    BY <1>1, <1>5 DEF CleanStale, IdentityParts, FilesNamed, HandNamed, Named, At, TypeOK
  <2> QED
    BY <1>1, <1>5, <2>1 DEF CleanStale
<1>6. CASE SpawnCore
  <2>1. UNCHANGED <<toml, json, pc, req>> /\ excuse \subseteq excuse'
    BY <1>6 DEF SpawnCore, FilesUntouched
  <2>2. ASSUME "torn" \notin excuse' PROVE Named(inst')
    <3>1. CASE UNCHANGED inst
      BY <2>1, <2>2, <3>1 DEF IdentityParts, Named
    <3>2. CASE inst' = toml /\ \A i \in Handlers : pc[i] # "fill"
      BY <2>1, <2>2, <3>2 DEF IdentityParts, FilesNamed, Named, At
    <3> QED
      BY <1>6, <2>2, <3>1, <3>2 DEF SpawnCore
  <2>3. "overlap" \in excuse' => "overlap" \in excuse
    BY <1>6 DEF SpawnCore
  <2> QED
    BY <1>1, <2>1, <2>2, <2>3 DEF IdentityParts, FilesNamed, HandNamed, Named, At
<1>7. CASE CoreExit
  BY <1>1, <1>7 DEF CoreExit, FilesUntouched, IdentityParts, FilesNamed, HandNamed, Named, At, Nothing
<1>8. CASE NewSession
  <2>1. UNCHANGED <<toml, json>> /\ "overlap" \notin excuse'
    BY <1>8 DEF NewSession, FilesUntouched
  <2>2. "torn" \notin excuse' =>
          "torn" \notin excuse /\ \A i \in Handlers : pc[i] \notin {"fill", "json", "save"}
    BY <1>8 DEF NewSession
  <2>3. HandNamed' /\ Named(inst')
    BY <1>8 DEF NewSession, HandNamed, Named, Nothing
  <2>4. "torn" \notin excuse' => FilesNamed'
    BY <2>1, <2>2 DEF IdentityParts, FilesNamed, At
  <2> QED
    BY <1>1, <2>1, <2>3, <2>4 DEF IdentityParts, Named
<1> QED
  BY <1>2, <1>3, <1>4, <1>5, <1>6, <1>7, <1>8 DEF Next

\* No instance runs without its network identity unless the write of a toml or json
\* failed, was cut off or was read half done, or two handlers overlapped.
THEOREM IdentityKept == Spec => []IdentityUnlessTorn
<1>1. Init => IdentityInv
  BY InitTypes, ConfigAssumption
     DEF Init, IdentityInv, Alone, IdentityParts, FilesNamed, HandNamed, Named, Nothing
<1>2. IdentityInv => IdentityUnlessTorn
  BY DEF IdentityInv, IdentityParts, Named, IdentityUnlessTorn, Running
<1> QED
  BY <1>1, <1>2, IdentityInductive, PTL DEF Spec
=============================================================================
