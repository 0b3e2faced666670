------------------------- MODULE ConfigStoreProofs --------------------------
(***************************************************************************)
(* TLAPS proofs about ConfigStore: no accepted task is forgotten, versions *)
(* do not roll back, and content, memory and versions.json stay in step    *)
(* through crashes and failed writes, for every set of names, versions and *)
(* clients.                                                                *)
(***************************************************************************)
EXTENDS ConfigStore, TLAPS

\* A client in the middle of a submission or a download is at a name.
ArgInv == \A c \in Clients : pc[c] \in {"send", "read"} => arg[c] \in Names

\* From the check to the insertion the version at hand is newer than the
\* index: clear() can only lower what was checked.
CheckedInv == at \in {"write", "content", "insert"} => meta[name] < ver

Types == TypeOK /\ ArgInv /\ CheckedInv

\* Versions and the two marks compare as integers.
LEMMA SlotFacts ==
    /\ Absent \in Int /\ Torn \in Int /\ Torn < Absent
    /\ \A x \in Slot : x \in Int /\ Absent <= x /\ (x # Absent => x \in Versions)
    /\ \A x \in Versions : x \in Int /\ x \in Slot /\ Absent < x
BY VersionAssumption DEF Slot, Absent, Torn

\* Initially every variable is of its type.
LEMMA InitTypes == Init => Types
<1>1. Init => queue \in Seq(Names)
  BY DEF Init
<1>2. Init => excused \in BOOLEAN
  BY DEF Init
<1> QED
  BY <1>1, <1>2, VersionAssumption, NameAssumption DEF Init, Types, TypeOK, ArgInv, CheckedInv, Empty, Slot, Absent

\* Every step keeps the types, and the newness of a checked version.
LEMMA NextTypes ==
    ASSUME Types, [Next]_vars
    PROVE  Types'
<1> USE VersionAssumption, NameAssumption, SubmitAssumption
        DEF Types, TypeOK, ArgInv, CheckedInv, Slot, Absent, Torn
<1>1. CASE UNCHANGED vars
  BY <1>1 DEF vars
<1>2. CASE Restart
  <2>1. queue' \in Seq(Names) /\ excused' \in BOOLEAN
    BY <1>2 DEF Restart
  <2> QED
    BY <1>2, <2>1 DEF Restart, Idle, Empty
<1>3. CASE Recv
  <2>1. queue # <<>> /\ queue \in Seq(Names)
    BY <1>3 DEF Recv
  <2>2. Head(queue) \in Names /\ Tail(queue) \in Seq(Names)
    BY <2>1
  <2>3. queue' \in Seq(Names) /\ name' \in Names
    BY <1>3, <2>2 DEF Recv
  <2> QED
    BY <1>3, <2>3 DEF Recv, storeVars, clientVars
<1>4. CASE Remove
  <2>1. excused' \in BOOLEAN
    BY <1>4 DEF Remove
  <2>2. CASE pending[name] = Absent
    BY <1>4, <2>1, <2>2 DEF Remove, Idle, Empty, storeVars, clientVars
  <2>3. CASE pending[name] # Absent
    BY <1>4, <2>1, <2>3, SlotFacts DEF Remove, storeVars, clientVars
  <2> QED
    BY <2>2, <2>3
<1>5. CASE Refuse
  BY <1>5 DEF Refuse, Idle, Empty, queueVars, storeVars, clientVars
<1>6. CASE Check
  <2>1. meta[name] < ver
    <3>1. meta[name] \in Slot /\ ver \in Versions /\ (meta[name] = Absent \/ ~(meta[name] >= ver))
      BY <1>6 DEF Check, Outdated
    <3> HIDE DEF Slot, Absent, Types
    <3> QED
      BY <3>1, SlotFacts
  <2> QED
    BY <1>6, <2>1 DEF Check, queueVars, storeVars, clientVars
<1>7. CASE Truncate
  BY <1>7 DEF Truncate, queueVars, clientVars
<1>8. CASE WriteContent
  BY <1>8 DEF WriteContent, queueVars, clientVars
<1>9. CASE WriteFails
  BY <1>9 DEF WriteFails, Idle, Empty, queueVars, storeVars, clientVars
<1>10. CASE InsertMeta
  BY <1>10 DEF InsertMeta, queueVars, clientVars
<1>11. CASE ListMeta
  BY <1>11 DEF ListMeta, queueVars, storeVars, clientVars
<1>12. CASE TruncateIndex
  BY <1>12 DEF TruncateIndex, Empty, queueVars, clientVars
<1>13. CASE Persist
  BY <1>13 DEF Persist, Idle, Empty, queueVars, clientVars
<1>14. CASE PersistFails
  BY <1>14 DEF PersistFails, Idle, Empty, queueVars, storeVars, clientVars
<1>15. ASSUME NEW c \in Clients, NEW n \in Names, NEW v \in Versions, Insert(c, n, v) PROVE Types'
  BY <1>15 DEF Insert, storeVars, consVars
<1>16. ASSUME NEW c \in Clients, NEW n \in Names, ReadMeta(c, n) PROVE Types'
  BY <1>16 DEF ReadMeta, queueVars, storeVars, consVars
<1>17. ASSUME NEW c \in Clients, Send(c) PROVE Types'
  <2>1. queue' \in Seq(Names)
    BY <1>17 DEF Send
  <2> QED
    BY <1>17, <2>1 DEF Send, storeVars, consVars
<1>18. ASSUME NEW c \in Clients, ReadContent(c) PROVE Types'
  BY <1>18 DEF ReadContent, queueVars, storeVars, consVars
<1>19. ASSUME NEW c \in Clients, ClearFiles(c) PROVE Types'
  BY <1>19 DEF ClearFiles, Empty, queueVars, consVars
<1>20. ASSUME NEW c \in Clients, ClearMap(c) PROVE Types'
  BY <1>20 DEF ClearMap, Empty, queueVars, consVars
<1> HIDE DEF Types, TypeOK, ArgInv, CheckedInv
<1> QED
  BY <1>1, <1>2, <1>3, <1>4, <1>5, <1>6, <1>7, <1>8, <1>9, <1>10, <1>11, <1>12, <1>13, <1>14,
     <1>15, <1>16, <1>17, <1>18, <1>19, <1>20 DEF Next, Consumer, Client

\* Types holds throughout.
LEMMA TypesHold == Spec => []Types
BY InitTypes, NextTypes, PTL DEF Spec

\* Whatever clients, consumer, failures and restarts do, the store's
\* variables keep their types.
THEOREM TypeCorrect == Spec => []TypeOK
<1>1. Types => TypeOK
  BY DEF Types
<1> QED
  BY <1>1, TypesHold, PTL

-----------------------------------------------------------------------------
(* Anti-rollback                                                           *)

\* store() never lowers a version of the index: only clear() and a restart
\* do.
THEOREM VersionsDoNotRollBack == Spec => NoRollback
<1> DEFINE Lowers == \E n \in Names : meta'[n] < meta[n]
           Allowed == Restart \/ \E c \in Clients : ClearMap(c)
<1>1. ASSUME Types, [Next]_vars, Lowers PROVE Allowed
  <2>1. UNCHANGED meta => ~Lowers
    BY <1>1, SlotFacts DEF Types, TypeOK
  <2>2. InsertMeta => ~Lowers
    BY <1>1, SlotFacts DEF Types, TypeOK, CheckedInv, InsertMeta
  <2> DEFINE P == UNCHANGED meta
  <2>3. ASSUME ~Restart, \A c \in Clients : ~ClearMap(c), ~InsertMeta PROVE P
    <3>1. UNCHANGED vars => P
      BY DEF vars
    <3>2. ASSUME Consumer PROVE P
      BY <2>3, <3>2 DEF Consumer, Recv, Remove, Refuse, Check, Truncate, WriteContent, WriteFails,
             ListMeta, TruncateIndex, Persist, PersistFails, storeVars
    <3>3. ASSUME NEW c \in Clients, Client(c) PROVE P
      BY <2>3, <3>3 DEF Client, Insert, ReadMeta, Send, ReadContent, ClearFiles, storeVars
    <3> HIDE DEF P
    <3> QED
      BY <1>1, <2>3, <3>1, <3>2, <3>3 DEF Next
  <2> QED
    BY <1>1, <2>1, <2>2, <2>3
<1>2. Types /\ [Next]_vars =>
          [\A n \in Names : meta'[n] < meta[n] => Restart \/ \E c \in Clients : ClearMap(c)]_vars
  BY <1>1
<1> QED
  BY <1>2, TypesHold, PTL DEF Spec, NoRollback

-----------------------------------------------------------------------------
(* No task is forgotten                                                    *)

\* An entry of pending is accounted for in the next state if it is new and
\* its submitter is about to send, or if its token is where it was or has
\* moved on.
LEMMA TokenInductive ==
    ASSUME Types, PendingHasToken, [Next]_vars
    PROVE  PendingHasToken'
<1> USE DEF Types, TypeOK, PendingHasToken
<1>0. ASSUME UNCHANGED <<pending, queue, at, name>>,
             \A c \in Clients : pc[c] = "send" => pc'[c] = "send" /\ arg'[c] = arg[c]
      PROVE PendingHasToken'
  <2> SUFFICES ASSUME NEW n \in Names, pending'[n] # Absent
               PROVE  \/ \E i \in 1..Len(queue') : queue'[i] = n
                      \/ \E c \in Clients : pc'[c] = "send" /\ arg'[c] = n
                      \/ at' = "recv" /\ name' = n
    OBVIOUS
  <2>1. CASE \E c \in Clients : pc[c] = "send" /\ arg[c] = n
    BY <1>0, <2>1
  <2>2. CASE ~\E c \in Clients : pc[c] = "send" /\ arg[c] = n
    BY <1>0, <2>2
  <2> QED
    BY <2>1, <2>2
<1>00. ASSUME UNCHANGED <<pending, queue, pc, arg>>, at # "recv" PROVE PendingHasToken'
  BY <1>00
<1>1. UNCHANGED vars => PendingHasToken'
  BY DEF vars
<1>2. Restart => PendingHasToken'
  BY DEF Restart, Empty
<1>3. Recv => PendingHasToken'
  <2> SUFFICES ASSUME Recv, NEW n \in Names, pending'[n] # Absent,
                      NEW i \in 1..Len(queue), queue[i] = n
               PROVE  \/ \E j \in 1..Len(queue') : queue'[j] = n
                      \/ at' = "recv" /\ name' = n
    BY DEF Recv, clientVars
  <2>1. queue # <<>> /\ queue' = Tail(queue) /\ at' = "recv" /\ name' = Head(queue)
    BY DEF Recv
  <2>2. CASE i = 1
    BY <2>1, <2>2
  <2>3. CASE i # 1
    <3>1. i - 1 \in 1..Len(Tail(queue)) /\ Tail(queue)[i - 1] = n
      BY <2>1, <2>3
    <3> QED
      BY <2>1, <3>1
  <2> QED
    BY <2>2, <2>3
<1>4. Remove => PendingHasToken'
  BY DEF Remove, clientVars
<1>5. Refuse \/ Check \/ Truncate \/ WriteContent \/ WriteFails \/ InsertMeta \/ ListMeta
      \/ TruncateIndex \/ Persist \/ PersistFails => PendingHasToken'
  BY <1>00 DEF Refuse, Check, Truncate, WriteContent, WriteFails, InsertMeta, ListMeta,
               TruncateIndex, Persist, PersistFails, queueVars, clientVars
<1>15. ASSUME NEW c \in Clients, NEW n \in Names, NEW v \in Versions, Insert(c, n, v) PROVE PendingHasToken'
  BY <1>15 DEF Insert, storeVars, consVars
<1>16. ASSUME NEW c \in Clients, NEW n \in Names, ReadMeta(c, n) PROVE PendingHasToken'
  BY <1>16, <1>0 DEF ReadMeta, queueVars, consVars
<1>17. ASSUME NEW c \in Clients, Send(c) PROVE PendingHasToken'
  <2>1. /\ arg[c] \in Names /\ queue' = Append(queue, arg[c])
        /\ pending' = pending /\ at' = at /\ name' = name
        /\ \A d \in Clients : d # c => pc'[d] = pc[d] /\ arg'[d] = arg[d]
    BY <1>17 DEF Send, ArgInv, consVars
  <2>2. /\ Len(queue') = Len(queue) + 1 /\ queue'[Len(queue) + 1] = arg[c]
        /\ \A i \in 1..Len(queue) : queue'[i] = queue[i]
    BY <2>1
  <2>3. ASSUME NEW n \in Names, pending'[n] # Absent
        PROVE  \/ \E i \in 1..Len(queue') : queue'[i] = n
               \/ \E d \in Clients : pc'[d] = "send" /\ arg'[d] = n
               \/ at' = "recv" /\ name' = n
    <3>1. CASE \E i \in 1..Len(queue) : queue[i] = n
      BY <3>1, <2>2
    <3>2. CASE n = arg[c]
      <4>1. Len(queue) + 1 \in 1..Len(queue')
        BY <2>2
      <4> QED
        BY <3>2, <2>2, <4>1
    <3>3. CASE \E d \in Clients : d # c /\ pc[d] = "send" /\ arg[d] = n
      BY <3>3, <2>1
    <3>4. CASE at = "recv" /\ name = n
      BY <3>4, <2>1
    <3> QED
      BY <2>1, <2>3, <3>1, <3>2, <3>3, <3>4
  <2> QED
    BY <2>3
<1>18. ASSUME NEW c \in Clients, ReadContent(c) \/ ClearFiles(c) \/ ClearMap(c) PROVE PendingHasToken'
  BY <1>18, <1>0 DEF ReadContent, ClearFiles, ClearMap, queueVars, consVars
<1> HIDE DEF Types, TypeOK, PendingHasToken
<1>19. Consumer => PendingHasToken'
  BY <1>3, <1>4, <1>5 DEF Consumer
<1>20. \A c \in Clients : Client(c) => PendingHasToken'
  BY <1>15, <1>16, <1>17, <1>18 DEF Client
<1> QED
  BY <1>1, <1>2, <1>19, <1>20 DEF Next

\* A task the queue has accepted always has a token on its way to the
\* consumer, for any number of submitters of any names.
THEOREM NoTaskForgotten == Spec => []PendingHasToken
<1>1. Init => PendingHasToken
  BY DEF Init, PendingHasToken, Empty
<1> QED
  BY <1>1, TypesHold, TokenInductive, PTL DEF Spec

-----------------------------------------------------------------------------
(* Content, memory and versions.json                                       *)

\* The content of n is version v or newer, or is torn.
Backed(n, v) == disk[n] = Torn \/ disk[n] >= v

\* Unless excused: clear() runs alone; versions.json agrees with the memory
\* until the insertion and what is about to be written is the memory; content
\* is written before it is claimed; and a download saw no newer version than
\* the memory holds.
StepInv ==
    ~excused =>
        /\ Clearing => at \in {"idle", "recv"} /\ index = Empty /\ ~Reading
        /\ (~Clearing /\ at \notin {"list", "index", "persist"}) => index = meta
        /\ at \in {"index", "persist"} => snap = meta
        /\ at = "insert" => disk[name] = ver
        /\ \A n \in Names : index[n] # Absent => Backed(n, index[n])
        /\ ~Clearing => \A n \in Names : meta[n] # Absent => Backed(n, meta[n])
        /\ \A c \in Clients : pc[c] = "read" => Absent < seen[c] /\ seen[c] <= meta[arg[c]]

\* The invariant gives the three properties of the store.
LEMMA StepInvSuffices ==
    ASSUME Types, StepInv
    PROVE  ContentBacksIndex /\ IndexCatchesUp /\ DownloadNotOlder
<1>1. ContentBacksIndex /\ IndexCatchesUp
  BY DEF StepInv, ContentBacksIndex, IndexCatchesUp, Backed
<1>2. DownloadNotOlder
  <2> SUFFICES ASSUME ~excused, NEW c \in Clients, pc[c] = "read"
               PROVE  disk[arg[c]] = Torn \/ disk[arg[c]] >= seen[c]
    BY DEF DownloadNotOlder
  <2>1. arg[c] \in Names /\ Absent < seen[c] /\ seen[c] <= meta[arg[c]] /\ ~Clearing
    BY DEF StepInv, Types, ArgInv, Reading
  <2>2. seen[c] \in Int /\ meta[arg[c]] \in Int /\ disk[arg[c]] \in Int
    BY <2>1, SlotFacts DEF Types, TypeOK
  <2>3. Backed(arg[c], meta[arg[c]])
    BY <2>1, <2>2, SlotFacts DEF StepInv
  <2> QED
    BY <2>1, <2>2, <2>3 DEF Backed
<1> QED
  BY <1>1, <1>2

\* Every step keeps StepInv.
LEMMA StepInductive ==
    ASSUME Types, Types', StepInv, [Next]_vars
    PROVE  StepInv'
<1> USE DEF StepInv, Backed, Clearing, Reading
<1>0. SUFFICES ASSUME ~excused' PROVE StepInv'
  OBVIOUS
<1>1. CASE UNCHANGED vars
  BY <1>1 DEF vars
<1>2. CASE Restart
  BY <1>0, <1>2 DEF Restart, Idle, Empty
<1>3. CASE Recv
  BY <1>0, <1>3 DEF Recv, storeVars, clientVars
<1>4. CASE Remove
  BY <1>0, <1>4 DEF Remove, Idle, storeVars, clientVars
<1>5. CASE Refuse
  BY <1>0, <1>5 DEF Refuse, Idle, queueVars, storeVars, clientVars
<1>6. CASE Check
  BY <1>0, <1>6 DEF Check, queueVars, storeVars, clientVars
<1>7. CASE Truncate
  BY <1>0, <1>7 DEF Truncate, queueVars, clientVars, Types, TypeOK
<1>8. CASE WriteContent
  BY <1>0, <1>8, SlotFacts DEF WriteContent, queueVars, clientVars, Types, TypeOK, CheckedInv
<1>9. CASE WriteFails
  BY <1>0, <1>9 DEF WriteFails, Idle, queueVars, storeVars, clientVars
<1>10. CASE InsertMeta
  BY <1>0, <1>10, SlotFacts DEF InsertMeta, queueVars, clientVars, Types, TypeOK, CheckedInv
<1>11. CASE ListMeta
  BY <1>0, <1>11 DEF ListMeta, queueVars, storeVars, clientVars
<1>12. CASE TruncateIndex
  BY <1>0, <1>12 DEF TruncateIndex, Empty, queueVars, clientVars
<1>13. CASE Persist
  BY <1>0, <1>13 DEF Persist, Idle, queueVars, clientVars
<1>14. CASE PersistFails
  BY <1>0, <1>14 DEF PersistFails
<1>15. ASSUME NEW c \in Clients, NEW n \in Names, NEW v \in Versions, Insert(c, n, v) PROVE StepInv'
  BY <1>0, <1>15 DEF Insert, storeVars, consVars, Types, TypeOK
<1>16. ASSUME NEW c \in Clients, NEW n \in Names, ReadMeta(c, n) PROVE StepInv'
  <2>1. ~excused /\ ~Clearing
    BY <1>0, <1>16 DEF ReadMeta
  <2>2. /\ \A d \in Clients : pc'[d] = "clear" <=> pc[d] = "clear"
        /\ \A d \in Clients : d # c => /\ pc'[d] = pc[d] /\ arg'[d] = arg[d]
                                       /\ seen'[d] = seen[d]
        /\ arg'[c] = n /\ seen'[c] = meta[n]
        /\ UNCHANGED <<meta, index, disk, at, name, ver, snap>>
    BY <1>16 DEF ReadMeta, storeVars, consVars, Types, TypeOK
  <2>3. Absent < meta[n] /\ meta[n] <= meta[n]
    <3>1. meta[n] \in Slot /\ meta[n] # Absent
      BY <1>16 DEF ReadMeta, Types, TypeOK
    <3> QED
      BY <3>1, SlotFacts
  <2> QED
    BY <2>1, <2>2, <2>3
<1>17. ASSUME NEW c \in Clients, Send(c) PROVE StepInv'
  BY <1>0, <1>17 DEF Send, storeVars, consVars, Types, TypeOK
<1>18. ASSUME NEW c \in Clients, ReadContent(c) PROVE StepInv'
  BY <1>0, <1>18 DEF ReadContent, queueVars, storeVars, consVars, Types, TypeOK
<1>19. ASSUME NEW c \in Clients, ClearFiles(c) PROVE StepInv'
  BY <1>0, <1>19 DEF ClearFiles, Empty, queueVars, consVars, Types, TypeOK
<1>20. ASSUME NEW c \in Clients, ClearMap(c) PROVE StepInv'
  BY <1>0, <1>20 DEF ClearMap, Empty, queueVars, consVars, Types, TypeOK
<1> HIDE DEF StepInv
<1>21. Consumer => StepInv'
  BY <1>3, <1>4, <1>5, <1>6, <1>7, <1>8, <1>9, <1>10, <1>11, <1>12, <1>13, <1>14 DEF Consumer
<1>22. \A c \in Clients : Client(c) => StepInv'
  BY <1>15, <1>16, <1>17, <1>18, <1>19, <1>20 DEF Client
<1> QED
  BY <1>1, <1>2, <1>21, <1>22 DEF Next

\* StepInv holds throughout.
LEMMA StepInvHolds == Spec => []StepInv
<1>1. Init => StepInv
  BY DEF Init, StepInv, Backed, Empty, Clearing, Reading
<1> QED
  BY <1>1, TypesHold, StepInductive, PTL DEF Spec

\* However crashes and failed writes cut a store short, the content on disk
\* is at least the version that versions.json and the memory claim, or torn.
THEOREM ContentIsBacked == Spec => []ContentBacksIndex
BY TypesHold, StepInvHolds, StepInvSuffices, PTL

\* Between stores versions.json is the index in memory.
THEOREM IndexIsCurrent == Spec => []IndexCatchesUp
BY TypesHold, StepInvHolds, StepInvSuffices, PTL

\* A download never pairs a version with older content.
THEOREM DownloadsAreCurrent == Spec => []DownloadNotOlder
BY TypesHold, StepInvHolds, StepInvSuffices, PTL
=============================================================================
