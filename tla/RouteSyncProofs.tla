-------------------------- MODULE RouteSyncProofs --------------------------
(***************************************************************************)
(* TLAPS proofs about RouteSync: versions never run ahead of their origin, *)
(* what a session takes for saved is held, and no item is silently left    *)
(* out, for every set of peers and links and every plan of events.         *)
(***************************************************************************)
EXTENDS RouteSync, TLAPS

Conn(q) == <<q, "conn">>

\* A peer reaches itself, and its bitmap is not ahead of the peers in it.
OwnReach == \A p \in Peers : p \in reach[p]
CachedNotAhead == \A p, q \in Peers : cached[p][q] <= Origin(Conn(q))
AheadInv == TypeOK /\ OwnReach /\ NotAhead /\ CachedNotAhead

\* Session ids: only ids drawn before are in use or on the way, and without
\* a session there is no call.
IdInv ==
    /\ \A s \in Sessions : sid[s] <= made[s] /\ (sid[s] = 0 => call[s].at = "idle")
    /\ \A m \in msgs : m.id \in 1..made[m.s]

\* A request of the current session is the one its call waits for, or an
\* older one that was given up.
Awaited(m) ==
    \/ call[m.s].at = "sent" /\ m.n = call[m.s].n /\ m.rows = call[m.s].rows
    \/ m.n > plan.events /\ (call[m.s].at = "sent" => m.n > call[m.s].n)
CallInv ==
    /\ \A s \in Sessions : call[s].at = "sent" => call[s].n >= plan.events
    /\ \A m \in msgs : m.id = sid[m.s] => Awaited(m)

Forgot(p, i) == <<p, i>> \in forgot

\* What is on the way the sender still has, what was answered the other side
\* has, and a bitmap row is not newer than the item it was made of.
HeldInv ==
    /\ SavedIsHeld
    /\ \A m \in msgs, i \in Items : Forgot(m.s[1], i) \/ m.rows[i] <= store[m.s[1]][i]
    /\ \A s \in Sessions, i \in Items : call[s].at = "answered" =>
          Forgot(s[2], i) \/ call[s].rows[i] <= store[s[2]][i]
    /\ \A p, q \in Peers : Forgot(p, Conn(q)) \/ cached[p][q] <= store[p][Conn(q)]

\* The other side lacks a version of i that this side has.
Lacks(s, i) ==
    /\ sid[s] # 0 /\ i[1] # s[2] /\ ~Forgot(s[2], i)
    /\ store[s[1]][i] > store[s[2]][i]
Lost(s, i) == \E w \in {"missed", "cleared"} : <<s, i, w>> \in skipped

\* What a request that is under way does not carry is still remembered.
CarryInv ==
    \A s \in Sessions, i \in Items :
        (call[s].at # "idle" /\ i \notin call[s].new /\ Lacks(s, i)) =>
            i \in unreach[s] \/ Lost(s, i) \/ store[s[1]][i] <= call[s].rows[i]

-----------------------------------------------------------------------------
(* Peers, items and sessions                                               *)

\* A session joins two different peers, and there is one the other way round.
LEMMA SessionFacts ==
    ASSUME NEW s \in Sessions
    PROVE  /\ s[1] \in Peers /\ s[2] \in Peers /\ s[1] # s[2]
           /\ <<s[2], s[1]>> \in Sessions
<1>1. s[1] \in Peers /\ s[2] \in Peers /\ s[1] # s[2] /\ {s[1], s[2]} \in Possible
  BY DEF Sessions
<1>2. {s[2], s[1]} = {s[1], s[2]}
  OBVIOUS
<1> QED
  BY <1>1, <1>2 DEF Sessions

\* An item belongs to a peer, and each peer has a conn item.
LEMMA ItemFacts ==
    /\ \A i \in Items : i[1] \in Peers
    /\ \A q \in Peers : Conn(q) \in Items /\ Conn(q)[1] = q
    /\ \A i \in Items : i[2] = "conn" => i = Conn(i[1])
BY DEF Items, Conn

\* Everybody is joined to himself.
LEMMA TogetherSelf == \A p \in Peers : Together(p, p)
BY DEF Together

\* The graph search finds where it starts.
LEMMA ReachableSelf ==
    ASSUME NEW p \in Peers, NEW known
    PROVE  p \in Reachable(p, known) /\ Reachable(p, known) \in SUBSET Peers
BY DEF Reachable

-----------------------------------------------------------------------------
(* Types and versions                                                      *)

\* Initially every variable is of its type and nobody is ahead.
LEMMA InitAhead == Init => AheadInv
<1> SUFFICES ASSUME Init PROVE AheadInv
  OBVIOUS
<1> DEFINE first(i) == IF i[2] = "conn" /\ Neighbours(i[1]) # {} THEN 2 ELSE 1
<1>1. store = [p \in Peers |-> [i \in Items |-> IF Together(p, i[1]) THEN first(i) ELSE 0]]
  BY DEF Init
<1>2. \A i \in Items : first(i) \in Nat
  OBVIOUS
<1>3. store \in [Peers -> Versions]
  BY <1>1, <1>2 DEF Versions
<1>4. \A i \in Items : Origin(i) = first(i)
  BY <1>1, ItemFacts, TogetherSelf DEF Origin
<1>5. ASSUME NEW p \in Peers, NEW i \in Items PROVE store[p][i] <= Origin(i)
  <2>1. store[p][i] = IF Together(p, i[1]) THEN first(i) ELSE 0
    BY <1>1
  <2> HIDE DEF first
  <2> QED
    BY <2>1, <1>2, <1>4
<1>6. /\ links \in SUBSET Possible
      /\ plan \in [first : SUBSET Possible, flaps : Seq(Possible), events : Nat]
  BY PlansAssumption DEF Init
<1>7. hist \in [Peers -> Seq(SUBSET Peers)]
  <2>1. \A p \in Peers : Neighbours(p) \in SUBSET Peers
    BY DEF Neighbours
  <2>2. \A p \in Peers : <<{}>> \in Seq(SUBSET Peers) /\ <<{}, Neighbours(p)>> \in Seq(SUBSET Peers)
    BY <2>1
  <2> QED
    BY <2>2 DEF Init
<1>8. \A p \in Peers : Len(hist[p]) = store[p][<<p, "conn">>]
  <2> SUFFICES ASSUME NEW p \in Peers PROVE Len(hist[p]) = store[p][Conn(p)]
    BY DEF Conn
  <2>1. store[p][Conn(p)] = IF Neighbours(p) # {} THEN 2 ELSE 1
    BY <1>1, TogetherSelf, ItemFacts DEF Conn
  <2>2. hist[p] = IF Neighbours(p) = {} THEN <<{}>> ELSE <<{}, Neighbours(p)>>
    BY DEF Init
  <2> QED
    BY <2>1, <2>2
<1>9. /\ dirty \in SUBSET Peers /\ reach \in [Peers -> SUBSET Peers]
      /\ \A p \in Peers : p \in reach[p]
  BY TogetherSelf DEF Init
<1>10. /\ cached \in [Peers -> [Peers -> Nat]]
       /\ \A p, q \in Peers : cached[p][q] = store[p][Conn(q)]
  BY <1>3, ItemFacts DEF Init, Conn, Versions
<1>11. sid \in [Sessions -> Nat] /\ dst \in [Sessions -> Nat] /\ made \in [Sessions -> Nat]
  BY DEF Init
<1>12. /\ saved \in [Sessions -> Versions]
       /\ \A s \in Sessions, i \in Items : saved[s][i] \in {0, store[s[1]][i]}
  BY <1>3, SessionFacts DEF Init, Versions
<1>13. /\ since \in [Sessions -> SUBSET Items] /\ unreach \in [Sessions -> SUBSET Items]
       /\ msgs = {} /\ forgot = {} /\ skipped = {}
  BY DEF Init
<1>14. /\ call \in [Sessions -> [at : {"idle", "sent", "answered"}, n : Nat, id : Nat,
                                 rows : Versions, new : SUBSET Items]]
       /\ \A s \in Sessions, i \in Items : call[s].rows[i] = 0
  BY DEF Init, Idle, Nothing, Versions
<1>15. TypeOK
  BY <1>3, <1>6, <1>7, <1>8, <1>9, <1>10, <1>11, <1>12, <1>13, <1>14 DEF TypeOK
<1>16. \A i \in Items : Origin(i) \in Nat
  BY <1>2, <1>4
<1>17. NotAhead
  <2>1. ASSUME NEW s \in Sessions, NEW i \in Items
        PROVE  saved[s][i] <= Origin(i) /\ call[s].rows[i] <= Origin(i)
    <3>1. s[1] \in Peers
      BY SessionFacts
    <3>2. saved[s][i] \in {0, store[s[1]][i]} /\ call[s].rows[i] = 0
      BY <1>12, <1>14
    <3> QED
      BY <3>1, <3>2, <1>5, <1>16
  <2> QED
    BY <2>1, <1>5, <1>13 DEF NotAhead
<1>18. OwnReach /\ CachedNotAhead
  BY <1>5, <1>9, <1>10, ItemFacts DEF OwnReach, CachedNotAhead
<1> QED
  BY <1>15, <1>17, <1>18 DEF AheadInv

CallType == [at : {"idle", "sent", "answered"}, n : Nat, id : Nat, rows : Versions, new : SUBSET Items]
MsgType == [s : Sessions, id : Nat, n : Nat, rows : Versions]

\* Versions and origins are natural numbers.
LEMMA OriginNat ==
    ASSUME TypeOK
    PROVE  /\ \A i \in Items : Origin(i) \in Nat
           /\ \A p \in Peers, i \in Items : store[p][i] \in Nat
BY ItemFacts DEF TypeOK, Versions, Origin

\* Touch marks items and leaves the calls otherwise as they are.
LEMMA TouchFacts ==
    ASSUME TypeOK, NEW p \in Peers, NEW I \in SUBSET Items, Touch(p, I)
    PROVE  /\ since' \in [Sessions -> SUBSET Items] /\ call' \in [Sessions -> CallType]
           /\ \A s \in Sessions : /\ call'[s].at = call[s].at /\ call'[s].rows = call[s].rows
                                  /\ call'[s].n = call[s].n
                                  /\ call[s].new \subseteq call'[s].new
                                  /\ since[s] \subseteq since'[s]
                                  /\ (s[1] = p /\ sid[s] # 0) => I \subseteq since'[s]
                                  /\ (s[1] = p /\ call[s].at # "idle") => I \subseteq call'[s].new
<1>1. since' \in [Sessions -> SUBSET Items]
  BY DEF TypeOK, Touch
<1>2. ASSUME NEW s \in Sessions
      PROVE  /\ call'[s] = IF s[1] = p /\ call[s].at # "idle"
                           THEN [call[s] EXCEPT !.new = @ \cup I] ELSE call[s]
             /\ call[s] \in CallType
  BY DEF TypeOK, Touch, CallType
<1>3. ASSUME NEW s \in Sessions
      PROVE  /\ call'[s] \in CallType
             /\ call'[s].at = call[s].at /\ call'[s].rows = call[s].rows /\ call'[s].n = call[s].n
             /\ call[s].new \subseteq call'[s].new
             /\ (s[1] = p /\ call[s].at # "idle") => I \subseteq call'[s].new
  <2>1. CASE s[1] = p /\ call[s].at # "idle"
    <3>1. call'[s] = [call[s] EXCEPT !.new = @ \cup I] /\ call[s] \in CallType
      BY <2>1, <1>2
    <3> HIDE DEF Touch
    <3>2. call'[s] \in CallType
      BY <3>1 DEF CallType
    <3>3. call'[s].at = call[s].at /\ call'[s].rows = call[s].rows /\ call'[s].n = call[s].n
      BY <3>1 DEF CallType
    <3>4. call'[s].new = call[s].new \cup I
      BY <3>1 DEF CallType
    <3> QED
      BY <3>2, <3>3, <3>4
  <2>2. CASE ~(s[1] = p /\ call[s].at # "idle")
    BY <2>2, <1>2
  <2> QED
    BY <2>1, <2>2
<1>4. call' \in [Sessions -> CallType]
  BY <1>3 DEF Touch
<1>5. ASSUME NEW s \in Sessions
      PROVE  /\ since[s] \subseteq since'[s]
             /\ (s[1] = p /\ sid[s] # 0) => I \subseteq since'[s]
  BY DEF Touch
<1> QED
  BY <1>1, <1>3, <1>4, <1>5

\* An event is used up.
LEMMA EventFacts ==
    ASSUME TypeOK, Event
    PROVE  /\ plan' \in [first : SUBSET Possible, flaps : Seq(Possible), events : Nat]
           /\ plan.events > 0 /\ plan'.events = plan.events - 1
<1>1. /\ plan \in [first : SUBSET Possible, flaps : Seq(Possible), events : Nat]
      /\ plan.events > 0 /\ plan' = [plan EXCEPT !.events = plan.events - 1]
  BY DEF TypeOK, Event
<1>2. plan.events - 1 \in Nat
  BY <1>1
<1> QED
  BY <1>1, <1>2

\* A step that uses an event up, or none.
LEMMA PlanFacts ==
    ASSUME TypeOK, UNCHANGED plan \/ Event
    PROVE  /\ plan' \in [first : SUBSET Possible, flaps : Seq(Possible), events : Nat]
           /\ plan'.events <= plan.events
<1>0. plan.events \in Nat
  BY DEF TypeOK
<1>1. CASE Event
  BY <1>0, <1>1, EventFacts
<1>2. CASE UNCHANGED plan
  BY <1>0, <1>2 DEF TypeOK
<1> QED
  BY <1>1, <1>2

\* Recomputing takes the bitmap rows from the items, or leaves them.
LEMMA RebuildFacts ==
    ASSUME TypeOK, NEW p \in Peers, NEW known \in Versions, NEW T, Rebuild(p, known, T)
    PROVE  /\ dirty' \in SUBSET Peers /\ reach' \in [Peers -> SUBSET Peers]
           /\ cached' \in [Peers -> [Peers -> Nat]]
           /\ OwnReach => OwnReach'
           /\ \A a, q \in Peers : cached'[a][q] = cached[a][q] \/ (a = p /\ cached'[a][q] \in {0, known[Conn(q)]})
<1>1. dirty' \in SUBSET Peers
  BY DEF TypeOK, Rebuild
<1>2. reach' \in [Peers -> SUBSET Peers] /\ (OwnReach => OwnReach')
  <2>1. p \in Reachable(p, known) /\ Reachable(p, known) \in SUBSET Peers
    BY ReachableSelf
  <2>2. reach' = [reach EXCEPT ![p] = Reachable(p, known)]
    BY DEF Rebuild
  <2> QED
    BY <2>1, <2>2 DEF TypeOK, OwnReach
<1> DEFINE row == [q \in Peers |-> IF q \in T THEN known[Conn(q)] ELSE 0]
<1>3. cached' = cached \/ cached' = [cached EXCEPT ![p] = row]
  BY DEF Rebuild, Conn
<1>4. \A q \in Peers : known[Conn(q)] \in Nat
  BY ItemFacts DEF Versions
<1>5. row \in [Peers -> Nat] /\ \A q \in Peers : row[q] \in {0, known[Conn(q)]}
  BY <1>4
<1> HIDE DEF row
<1>6. CASE cached' = cached
  BY <1>1, <1>2, <1>6 DEF TypeOK
<1>7. CASE cached' = [cached EXCEPT ![p] = row]
  <2>1. cached' \in [Peers -> [Peers -> Nat]]
    BY <1>5, <1>7 DEF TypeOK
  <2>2. ASSUME NEW a \in Peers, NEW q \in Peers
        PROVE  cached'[a][q] = cached[a][q] \/ (a = p /\ cached'[a][q] \in {0, known[Conn(q)]})
    <3>1. cached'[p] = row /\ (a # p => cached'[a] = cached[a])
      BY <1>7 DEF TypeOK
    <3>2. CASE a = p
      BY <3>1, <3>2, <1>5
    <3>3. CASE a # p
      BY <3>1, <3>3
    <3> QED
      BY <3>2, <3>3
  <2> QED
    BY <1>1, <1>2, <2>1, <2>2
<1> QED
  BY <1>3, <1>6, <1>7

\* The same, whichever route table the bitmap comes from.
LEMMA RecomputeFacts ==
    ASSUME TypeOK, NEW p \in Peers, NEW known \in Versions, Recompute(p, known)
    PROVE  /\ dirty' \in SUBSET Peers /\ reach' \in [Peers -> SUBSET Peers]
           /\ cached' \in [Peers -> [Peers -> Nat]]
           /\ OwnReach => OwnReach'
           /\ \A a, q \in Peers : cached'[a][q] = cached[a][q] \/ (a = p /\ cached'[a][q] \in {0, known[Conn(q)]})
<1>1. \E T \in {Reachable(p, known), reach[p]} : Rebuild(p, known, T)
  BY DEF Recompute
<1> QED
  BY <1>1, RebuildFacts

\* A request carries what the peer has, or the rows of its bitmap.
LEMMA RequestFacts ==
    ASSUME TypeOK, NEW s \in Sessions, NEW I \in SUBSET Items
    PROVE  /\ Request(s, I) \in Versions
           /\ \A i \in Items : \/ Request(s, I)[i] = 0
                               \/ Request(s, I)[i] = store[s[1]][i]
                               \/ i = Conn(i[1]) /\ Request(s, I)[i] = cached[s[1]][i[1]]
<1>1. s[1] \in Peers
  BY SessionFacts
<1> DEFINE bitmap == UsesBitmap(s, {i \in I : i[2] = "conn"})
<1>2. Request(s, I) = [i \in Items |-> IF i[2] = "conn" /\ bitmap THEN cached[s[1]][i[1]]
                                       ELSE IF i \in I THEN store[s[1]][i] ELSE 0]
  BY DEF Request
<1> HIDE DEF bitmap
<1>3. ASSUME NEW i \in Items PROVE cached[s[1]][i[1]] \in Nat /\ store[s[1]][i] \in Nat
  <2>1. i[1] \in Peers
    BY ItemFacts
  <2>2. store[s[1]][i] \in Nat
    BY <1>1, OriginNat
  <2>3. cached[s[1]][i[1]] \in Nat
    BY <1>1, <2>1 DEF TypeOK
  <2> QED
    BY <2>2, <2>3
<1> QED
  BY <1>2, <1>3, ItemFacts DEF Versions

\* Nothing that is sent is ahead.
LEMMA RequestNotAhead ==
    ASSUME AheadInv, NEW s \in Sessions, NEW I \in SUBSET Items
    PROVE  Request(s, I) \in Versions /\ \A i \in Items : Request(s, I)[i] <= Origin(i)
<1>1. s[1] \in Peers /\ TypeOK
  BY SessionFacts DEF AheadInv
<1>2. \A i \in Items : store[s[1]][i] <= Origin(i) /\ Origin(i) \in Nat
  BY <1>1, OriginNat DEF AheadInv, NotAhead
<1>3. \A q \in Peers : cached[s[1]][q] <= Origin(Conn(q))
  BY <1>1 DEF AheadInv, CachedNotAhead
<1>4. ASSUME NEW i \in Items PROVE Request(s, I)[i] <= Origin(i)
  <2>1. i[1] \in Peers
    BY ItemFacts
  <2>2. \/ Request(s, I)[i] = 0
        \/ Request(s, I)[i] = store[s[1]][i]
        \/ i = Conn(i[1]) /\ Request(s, I)[i] = cached[s[1]][i[1]]
    BY <1>1, RequestFacts
  <2>3. CASE Request(s, I)[i] \in {0, store[s[1]][i]}
    BY <2>3, <1>2
  <2>4. CASE i = Conn(i[1]) /\ Request(s, I)[i] = cached[s[1]][i[1]]
    BY <2>1, <2>4, <1>3
  <2> QED
    BY <2>2, <2>3, <2>4
<1> QED
  BY <1>1, <1>4, RequestFacts

\* A step that leaves the items alone, and moves only versions that are not
\* ahead, keeps everybody behind the origins.
LEMMA SameStoreAhead ==
    ASSUME AheadInv, TypeOK', OwnReach', store' = store,
           \A p, q \in Peers : cached'[p][q] \in {0, cached[p][q], store[p][Conn(q)]},
           \A s \in Sessions, i \in Items : saved'[s][i] <= Origin(i),
           \A s \in Sessions, i \in Items : call'[s].rows[i] <= Origin(i),
           \A m \in msgs' : \A i \in Items : m.rows[i] <= Origin(i)
    PROVE  AheadInv'
<1>1. \A i \in Items : Origin(i)' = Origin(i)
  BY DEF Origin
<1>2. \A i \in Items, p \in Peers : store[p][i] <= Origin(i)
  BY DEF AheadInv, NotAhead
<1>3. NotAhead'
  BY <1>1, <1>2 DEF NotAhead
<1>4. ASSUME NEW p \in Peers, NEW q \in Peers
      PROVE  cached'[p][q] <= Origin(Conn(q))
  <2>1. Conn(q) \in Items
    BY ItemFacts
  <2>2. store[p][Conn(q)] <= Origin(Conn(q)) /\ cached[p][q] <= Origin(Conn(q)) /\ Origin(Conn(q)) \in Nat
    BY <1>2, <2>1, OriginNat DEF AheadInv, CachedNotAhead
  <2> QED
    BY <2>2
<1>5. CachedNotAhead'
  BY <1>1, <1>4, ItemFacts DEF CachedNotAhead
<1> QED
  BY <1>3, <1>5 DEF AheadInv

\* One peer counts up one of its own items.
LEMMA OwnItemAhead ==
    ASSUME AheadInv, TypeOK', NEW p \in Peers, NEW j \in Items, j[1] = p,
           store' = [store EXCEPT ![p][j] = @ + 1],
           UNCHANGED <<reach, cached, saved, msgs>>,
           \A s \in Sessions : call'[s].rows = call[s].rows
    PROVE  AheadInv'
<1>1. \A q \in Peers, i \in Items : store'[q][i] = IF q = p /\ i = j THEN store[q][i] + 1 ELSE store[q][i]
  BY DEF AheadInv, TypeOK, Versions
<1>2. ASSUME NEW i \in Items PROVE Origin(i)' = IF i = j THEN Origin(i) + 1 ELSE Origin(i)
  BY <1>1, ItemFacts DEF Origin
<1>3. \A i \in Items : Origin(i) \in Nat /\ \A q \in Peers : store[q][i] \in Nat
  BY OriginNat DEF AheadInv
<1>4. ASSUME NEW i \in Items, NEW q \in Peers PROVE store'[q][i] <= Origin(i)'
  BY <1>1, <1>2, <1>3 DEF AheadInv, NotAhead
<1>5. ASSUME NEW i \in Items, NEW n \in Nat, n <= Origin(i) PROVE n <= Origin(i)'
  BY <1>2, <1>3, <1>5
<1>6. ASSUME NEW i \in Items, NEW s \in Sessions
      PROVE  saved'[s][i] <= Origin(i)' /\ call'[s].rows[i] <= Origin(i)'
  <2>1. saved[s][i] \in Nat /\ call[s].rows[i] \in Nat
    BY DEF AheadInv, TypeOK, Versions
  <2>2. saved[s][i] <= Origin(i) /\ call[s].rows[i] <= Origin(i)
    BY DEF AheadInv, NotAhead
  <2> QED
    BY <2>1, <2>2, <1>5
<1>7. ASSUME NEW i \in Items, NEW m \in msgs' PROVE m.rows[i] <= Origin(i)'
  <2>1. m.rows[i] \in Nat /\ m.rows[i] <= Origin(i)
    BY DEF AheadInv, TypeOK, Versions, NotAhead
  <2> QED
    BY <2>1, <1>5
<1>8. NotAhead'
  BY <1>4, <1>6, <1>7 DEF NotAhead
<1>9. ASSUME NEW a \in Peers, NEW q \in Peers PROVE cached'[a][q] <= Origin(Conn(q))'
  <2>1. cached[a][q] \in Nat /\ cached[a][q] <= Origin(Conn(q)) /\ Conn(q) \in Items
    BY ItemFacts DEF AheadInv, TypeOK, CachedNotAhead
  <2> QED
    BY <2>1, <1>5
<1> QED
  BY <1>8, <1>9 DEF AheadInv, CachedNotAhead, OwnReach

\* What the items, the bitmaps, the saved versions and the requests were,
\* they are: the step is about something else.
LEMMA FrameAhead ==
    ASSUME AheadInv, TypeOK', UNCHANGED <<store, reach, cached, saved, msgs>>,
           \A s \in Sessions : call'[s].rows \in {call[s].rows, Nothing}
    PROVE  AheadInv'
<1>1. OwnReach'
  BY DEF AheadInv, OwnReach
<1>2. ASSUME NEW s \in Sessions, NEW i \in Items
      PROVE  saved'[s][i] <= Origin(i) /\ call'[s].rows[i] <= Origin(i)
  <2>1. Origin(i) \in Nat /\ saved[s][i] <= Origin(i) /\ call[s].rows[i] <= Origin(i)
    BY OriginNat DEF AheadInv, NotAhead
  <2>2. Nothing[i] = 0
    BY DEF Nothing
  <2> QED
    BY <2>1, <2>2
<1>3. \A m \in msgs' : \A i \in Items : m.rows[i] <= Origin(i)
  BY DEF AheadInv, NotAhead
<1> QED
  BY <1>1, <1>2, <1>3, SameStoreAhead

\* A link comes or goes.
LEMMA LinkChangeAhead == ASSUME AheadInv, LinkChange PROVE AheadInv'
<1>1. plan.flaps # <<>> /\ plan.flaps \in Seq(Possible)
  BY DEF AheadInv, TypeOK, LinkChange
<1>2. Head(plan.flaps) \in Possible /\ Tail(plan.flaps) \in Seq(Possible)
  BY <1>1
<1>3. links' \in SUBSET Possible
  BY <1>2 DEF AheadInv, TypeOK, LinkChange
<1>4. plan' \in [first : SUBSET Possible, flaps : Seq(Possible), events : Nat]
  BY <1>2 DEF AheadInv, TypeOK, LinkChange
<1>5. UNCHANGED <<nodes, sessions, call, msgs, made, ghosts>>
  BY DEF LinkChange
<1>6. TypeOK'
  BY <1>3, <1>4, <1>5 DEF AheadInv, TypeOK, nodes, sessions, ghosts
<1> QED
  BY <1>5, <1>6, FrameAhead DEF nodes, sessions

\* A peer publishes its neighbours anew.
LEMMA ConnInfoAhead == ASSUME AheadInv, NEW p \in Peers, update_my_conn_info(p) PROVE AheadInv'
<1>1. TypeOK /\ Conn(p) \in Items /\ Conn(p)[1] = p /\ Touch(p, {Conn(p)})
  BY ItemFacts DEF AheadInv, update_my_conn_info, Conn
<1>2. store' = [store EXCEPT ![p][Conn(p)] = @ + 1]
  BY DEF update_my_conn_info, Conn
<1>3. store' \in [Peers -> Versions]
  <2>1. store[p][Conn(p)] + 1 \in Nat
    BY <1>1, OriginNat
  <2> QED
    BY <1>1, <1>2, <2>1 DEF TypeOK, Versions
<1>4. hist' \in [Peers -> Seq(SUBSET Peers)] /\ \A q \in Peers : Len(hist'[q]) = store'[q][Conn(q)]
  <2>1. Neighbours(p) \in SUBSET Peers
    BY DEF Neighbours
  <2>2. hist[p] \in Seq(SUBSET Peers) /\ hist' = [hist EXCEPT ![p] = Append(hist[p], Neighbours(p))]
    BY <1>1 DEF TypeOK, update_my_conn_info
  <2>3. Append(hist[p], Neighbours(p)) \in Seq(SUBSET Peers) /\ Len(Append(hist[p], Neighbours(p))) = Len(hist[p]) + 1
    BY <2>1, <2>2
  <2>4. hist' \in [Peers -> Seq(SUBSET Peers)]
    BY <2>2, <2>3, <1>1 DEF TypeOK
  <2>5. ASSUME NEW q \in Peers PROVE Len(hist'[q]) = store'[q][Conn(q)]
    <3>1. Len(hist[q]) = store[q][Conn(q)] /\ Conn(q) \in Items
      BY <1>1, ItemFacts DEF TypeOK, Conn
    <3>2. CASE q = p
      BY <3>1, <3>2, <1>1, <1>2, <2>2, <2>3 DEF TypeOK, Versions
    <3>3. CASE q # p
      BY <3>1, <3>3, <1>1, <1>2, <2>2 DEF TypeOK, Versions
    <3> QED
      BY <3>2, <3>3
  <2> QED
    BY <2>4, <2>5
<1>5. /\ since' \in [Sessions -> SUBSET Items] /\ call' \in [Sessions -> CallType]
      /\ \A s \in Sessions : call'[s].rows = call[s].rows
  BY <1>1, TouchFacts
<1>6. dirty' \in SUBSET Peers
  BY <1>1 DEF TypeOK, update_my_conn_info
<1>7. UNCHANGED <<links, reach, cached, sid, dst, saved, unreach, msgs, made, plan, ghosts>>
  BY DEF update_my_conn_info
<1>8. TypeOK'
  BY <1>1, <1>3, <1>4, <1>5, <1>6, <1>7 DEF TypeOK, CallType, Conn, ghosts
<1> QED
  BY <1>1, <1>2, <1>5, <1>7, <1>8, OwnItemAhead

\* A peer publishes a change of its information.
LEMMA PeerInfoAhead == ASSUME AheadInv, NEW p \in Peers, update_my_peer_info(p) PROVE AheadInv'
<1> DEFINE j == <<p, "info">>
<1>1. TypeOK /\ j \in Items /\ j[1] = p /\ j[2] # "conn" /\ Touch(p, {j}) /\ Event
  BY DEF AheadInv, update_my_peer_info, Items
<1>2. store' = [store EXCEPT ![p][j] = @ + 1]
  BY DEF update_my_peer_info
<1>3. store' \in [Peers -> Versions]
  <2>1. store[p][j] + 1 \in Nat
    BY <1>1, OriginNat
  <2> QED
    BY <1>1, <1>2, <2>1 DEF TypeOK, Versions
<1>4. ASSUME NEW q \in Peers PROVE Len(hist'[q]) = store'[q][Conn(q)]
  <2>1. Len(hist[q]) = store[q][Conn(q)] /\ Conn(q) \in Items /\ Conn(q) # j /\ hist' = hist
    BY <1>1, ItemFacts DEF TypeOK, Conn, update_my_peer_info
  <2> HIDE DEF j
  <2> QED
    BY <2>1, <1>1, <1>2 DEF TypeOK, Versions
<1>5. /\ since' \in [Sessions -> SUBSET Items] /\ call' \in [Sessions -> CallType]
      /\ \A s \in Sessions : call'[s].rows = call[s].rows
  BY <1>1, TouchFacts
<1>6. dirty' \in SUBSET Peers
  BY <1>1 DEF TypeOK, update_my_peer_info
<1>7. UNCHANGED <<links, hist, reach, cached, sid, dst, saved, unreach, msgs, made, ghosts>>
  BY DEF update_my_peer_info
<1>8. plan' \in [first : SUBSET Possible, flaps : Seq(Possible), events : Nat]
  BY <1>1, EventFacts
<1>9. TypeOK'
  BY <1>1, <1>3, <1>4, <1>5, <1>6, <1>7, <1>8 DEF TypeOK, CallType, Conn, ghosts
<1> HIDE DEF j
<1> QED
  BY <1>1, <1>2, <1>5, <1>7, <1>9, OwnItemAhead

\* The table and the bitmap are computed anew.
LEMMA RefreshAhead == ASSUME AheadInv, NEW p \in Peers, Refresh(p) PROVE AheadInv'
<1>1. TypeOK /\ store[p] \in Versions /\ Recompute(p, store[p])
  BY DEF AheadInv, TypeOK, Refresh
<1>2. /\ dirty' \in SUBSET Peers /\ reach' \in [Peers -> SUBSET Peers]
      /\ cached' \in [Peers -> [Peers -> Nat]] /\ OwnReach'
      /\ \A a, q \in Peers : cached'[a][q] = cached[a][q] \/ (a = p /\ cached'[a][q] \in {0, store[p][Conn(q)]})
  BY <1>1, RecomputeFacts DEF AheadInv
<1>3. UNCHANGED <<links, hist, store, sessions, call, msgs, made, ghosts>>
  BY DEF Refresh
<1>7. plan' \in [first : SUBSET Possible, flaps : Seq(Possible), events : Nat]
  BY <1>1, PlanFacts DEF Recompute
<1>4. TypeOK'
  BY <1>1, <1>2, <1>3, <1>7 DEF TypeOK, sessions, ghosts
<1>5. \A a, q \in Peers : cached'[a][q] \in {0, cached[a][q], store[a][Conn(q)]}
  BY <1>2
<1>6. /\ \A s \in Sessions, i \in Items : saved'[s][i] <= Origin(i) /\ call'[s].rows[i] <= Origin(i)
      /\ \A m \in msgs' : \A i \in Items : m.rows[i] <= Origin(i)
  BY <1>3 DEF AheadInv, NotAhead, sessions
<1> QED
  BY <1>2, <1>3, <1>4, <1>5, <1>6, SameStoreAhead

\* An expired peer is removed; nobody removes himself.
LEMMA ExpiryAhead == ASSUME AheadInv, NEW p \in Peers, clear_expired_peer(p) PROVE AheadInv'
<1>1. TypeOK /\ Event
  BY DEF AheadInv, clear_expired_peer
<1>2. PICK q \in Peers \ {p} :
         /\ store' = [store EXCEPT ![p] = [i \in Items |-> IF i[1] = q THEN 0 ELSE store[p][i]]]
         /\ forgot' = forgot \cup {<<p, i>> : i \in {j \in Items : j[1] = q}}
  BY DEF clear_expired_peer
<1>3. q # p
  OBVIOUS
<1>4. \A a \in Peers, i \in Items : store'[a][i] = IF a = p /\ i[1] = q THEN 0 ELSE store[a][i]
  BY <1>1, <1>2 DEF TypeOK, Versions
<1>5. store' \in [Peers -> Versions]
  <2>1. [i \in Items |-> IF i[1] = q THEN 0 ELSE store[p][i]] \in Versions
    BY <1>1, OriginNat DEF Versions
  <2> QED
    BY <1>1, <1>2, <2>1 DEF TypeOK
<1>6. forgot' \in SUBSET (Peers \X Items)
  BY <1>1, <1>2 DEF TypeOK
<1>7. UNCHANGED <<links, hist, sessions, call, msgs, made, skipped>>
  BY DEF clear_expired_peer
<1>15. /\ dirty' \in SUBSET Peers /\ reach' \in [Peers -> SUBSET Peers]
       /\ cached' \in [Peers -> [Peers -> Nat]] /\ OwnReach'
       /\ \A a, b \in Peers : cached'[a][b] = cached[a][b] \/ (a = p /\ cached'[a][b] \in {0, store'[p][Conn(b)]})
  <2>1. store'[p] \in Versions
    BY <1>5
  <2>2. Rebuild(p, store'[p], Reachable(p, store'[p]))
    BY DEF clear_expired_peer
  <2> QED
    BY <1>1, <2>1, <2>2, RebuildFacts DEF AheadInv
<1>8. ASSUME NEW a \in Peers PROVE Len(hist'[a]) = store'[a][Conn(a)]
  <2>1. Conn(a) \in Items /\ Conn(a)[1] = a /\ Len(hist[a]) = store[a][Conn(a)]
    BY <1>1, ItemFacts DEF TypeOK, Conn
  <2>2. store'[a][Conn(a)] = store[a][Conn(a)]
    BY <2>1, <1>3, <1>4
  <2> QED
    BY <2>1, <2>2, <1>7
<1>9. plan' \in [first : SUBSET Possible, flaps : Seq(Possible), events : Nat]
  BY <1>1, EventFacts
<1>10. TypeOK'
  BY <1>1, <1>5, <1>6, <1>7, <1>8, <1>9, <1>15 DEF TypeOK, sessions, Conn
<1>11. \A i \in Items : Origin(i)' = Origin(i)
  BY <1>3, <1>4, ItemFacts DEF Origin
<1>12. \A i \in Items, a \in Peers : store'[a][i] <= Origin(i)'
  BY <1>1, <1>4, <1>11, OriginNat DEF AheadInv, NotAhead
<1>13. NotAhead'
  BY <1>7, <1>11, <1>12 DEF AheadInv, NotAhead, sessions
<1>14. ASSUME NEW a \in Peers, NEW b \in Peers PROVE cached'[a][b] <= Origin(Conn(b))'
  <2>1. Conn(b) \in Items
    BY ItemFacts
  <2>2. cached[a][b] <= Origin(Conn(b)) /\ Origin(Conn(b)) \in Nat
    BY <1>1, <2>1, OriginNat DEF AheadInv, CachedNotAhead
  <2> QED
    BY <1>11, <1>12, <1>15, <2>1, <2>2
<1>16. CachedNotAhead'
  BY <1>14 DEF CachedNotAhead
<1> QED
  BY <1>10, <1>13, <1>15, <1>16 DEF AheadInv

\* A session begins or ends.
LEMMA NewSessionFacts ==
    ASSUME TypeOK, NEW s \in Sessions, NewSession(s)
    PROVE  /\ made' \in [Sessions -> Nat] /\ sid' \in [Sessions -> Nat]
           /\ made' = [made EXCEPT ![s] = made[s] + 1] /\ sid' = [sid EXCEPT ![s] = made[s] + 1]
BY DEF TypeOK, NewSession

\* Unsaved items are items.
LEMMA UnsavedFacts ==
    ASSUME NEW s, NEW I \in SUBSET Items, NEW known, NEW sv
    PROVE  Unsaved(s, I, known, sv) \in SUBSET Items
BY DEF Unsaved

\* A session is started.
LEMMA StartSessionAhead == ASSUME AheadInv, NEW s \in Sessions, StartSession(s) PROVE AheadInv'
<1>1. TypeOK /\ NewSession(s)
  BY DEF AheadInv, StartSession
<1>2. since' \in [Sessions -> SUBSET Items]
  BY <1>1, UnsavedFacts DEF TypeOK, StartSession
<1>3. UNCHANGED <<links, nodes, dst, saved, unreach, call, msgs, plan, ghosts>>
  BY DEF StartSession
<1>4. TypeOK'
  BY <1>1, <1>2, <1>3, NewSessionFacts DEF TypeOK, nodes, ghosts
<1> QED
  BY <1>3, <1>4, FrameAhead DEF nodes

\* A session is stopped.
LEMMA StopSessionAhead == ASSUME AheadInv, NEW s \in Sessions, StopSession(s) PROVE AheadInv'
<1>1. TypeOK
  BY DEF AheadInv
<1>2. Nothing \in Versions /\ Idle \in CallType /\ \A i \in Items : Nothing[i] = 0 /\ Idle.rows[i] = 0
  BY DEF Nothing, Versions, Idle, CallType
<1>3. /\ sid' \in [Sessions -> Nat] /\ dst' \in [Sessions -> Nat]
      /\ since' \in [Sessions -> SUBSET Items] /\ unreach' \in [Sessions -> SUBSET Items]
      /\ saved' \in [Sessions -> Versions] /\ call' \in [Sessions -> CallType]
  BY <1>1, <1>2 DEF TypeOK, StopSession, CallType
<1>4. UNCHANGED <<links, nodes, msgs, made, plan, ghosts>>
  BY DEF StopSession
<1>5. TypeOK'
  BY <1>1, <1>3, <1>4 DEF TypeOK, CallType, nodes, ghosts
<1>6. ASSUME NEW a \in Sessions, NEW i \in Items
      PROVE  saved'[a][i] <= Origin(i) /\ call'[a].rows[i] <= Origin(i)
  <2>1. saved'[a] \in {saved[a], Nothing} /\ call'[a] \in {call[a], Idle}
    BY <1>1 DEF TypeOK, StopSession
  <2>2. saved[a][i] <= Origin(i) /\ call[a].rows[i] <= Origin(i) /\ Origin(i) \in Nat
    BY <1>1, OriginNat DEF AheadInv, NotAhead
  <2> QED
    BY <2>1, <2>2, <1>2
<1>7. \A m \in msgs' : \A i \in Items : m.rows[i] <= Origin(i)
  BY <1>4 DEF AheadInv, NotAhead
<1>8. OwnReach' /\ store' = store /\ cached' = cached
  BY <1>4 DEF AheadInv, OwnReach, nodes
<1> QED
  BY <1>5, <1>6, <1>7, <1>8, SameStoreAhead

\* A call times out.
LEMMA TimeoutAhead == ASSUME AheadInv, NEW s \in Sessions, Timeout(s) PROVE AheadInv'
<1>1. TypeOK /\ Event
  BY DEF AheadInv, Timeout
<1>2. Idle \in CallType /\ Idle.rows = Nothing
  BY DEF Nothing, Versions, Idle, CallType
<1>3. call' \in [Sessions -> CallType] /\ \A a \in Sessions : call'[a] \in {call[a], Idle}
  BY <1>1, <1>2 DEF TypeOK, Timeout, CallType
<1>4. msgs' \subseteq msgs
  BY DEF Timeout
<1>5. UNCHANGED <<links, nodes, sessions, made, ghosts>>
  BY DEF Timeout
<1>6. plan' \in [first : SUBSET Possible, flaps : Seq(Possible), events : Nat]
  BY <1>1, EventFacts
<1>7. TypeOK'
  BY <1>1, <1>3, <1>4, <1>5, <1>6 DEF TypeOK, CallType, nodes, sessions, ghosts
<1>8. ASSUME NEW a \in Sessions, NEW i \in Items
      PROVE  saved'[a][i] <= Origin(i) /\ call'[a].rows[i] <= Origin(i)
  <2>1. saved[a][i] <= Origin(i) /\ call[a].rows[i] <= Origin(i) /\ Origin(i) \in Nat /\ Nothing[i] = 0
    BY <1>1, OriginNat DEF AheadInv, NotAhead, Nothing
  <2> QED
    BY <2>1, <1>2, <1>3, <1>5 DEF sessions
<1>9. \A m \in msgs' : \A i \in Items : m.rows[i] <= Origin(i)
  BY <1>4 DEF AheadInv, NotAhead
<1>10. OwnReach' /\ store' = store /\ cached' = cached
  BY <1>5 DEF AheadInv, OwnReach, nodes
<1> QED
  BY <1>7, <1>8, <1>9, <1>10, SameStoreAhead

\* set_if_larger takes each version from one side or the other.
LEMMA SaveFacts ==
    ASSUME NEW old \in Versions, NEW rows \in Versions, NEW q
    PROVE  /\ Save(old, rows, q) \in Versions
           /\ \A i \in Items : Save(old, rows, q)[i] \in {old[i], rows[i]}
           /\ \A i \in Items : i[1] # q => Save(old, rows, q)[i] >= rows[i]
BY DEF Save, Versions

\* What a request takes with it.
LEMMA ChosenFacts ==
    ASSUME TypeOK, NEW s \in Sessions
    PROVE  Due(s) \in SUBSET Items /\ Chosen(s) \in SUBSET Items /\ Kept(s) \in SUBSET Items
BY UnsavedFacts DEF TypeOK, Due, Chosen, Kept

NewCall(s) == [Idle EXCEPT !.at = "sent", !.n = plan.events, !.rows = Request(s, Chosen(s))]
NewMsg(s) == [s |-> s, id |-> sid[s], n |-> plan.events, rows |-> Request(s, Chosen(s))]

\* The call and the message of a request.
LEMMA NewCallFacts ==
    ASSUME TypeOK, NEW s \in Sessions
    PROVE  /\ NewCall(s) \in CallType /\ NewMsg(s) \in MsgType
           /\ NewCall(s).rows = Request(s, Chosen(s)) /\ NewMsg(s).rows = Request(s, Chosen(s))
           /\ NewCall(s).at = "sent" /\ NewCall(s).n = plan.events /\ NewCall(s).new = {}
           /\ NewMsg(s).s = s /\ NewMsg(s).id = sid[s] /\ NewMsg(s).n = plan.events
<1>1. Request(s, Chosen(s)) \in Versions
  BY ChosenFacts, RequestFacts
<1>2. plan.events \in Nat /\ sid[s] \in Nat
  BY DEF TypeOK
<1>3. Idle \in CallType
  BY DEF Idle, CallType, Nothing, Versions
<1>4. /\ NewCall(s) \in CallType /\ NewCall(s).at = "sent" /\ NewCall(s).n = plan.events
      /\ NewCall(s).rows = Request(s, Chosen(s)) /\ NewCall(s).new = Idle.new
  BY <1>1, <1>2, <1>3 DEF NewCall, CallType
<1>5. Idle.new = {}
  BY DEF Idle
<1>6. NewMsg(s) \in MsgType
  BY <1>1, <1>2 DEF NewMsg, MsgType
<1> QED
  BY <1>4, <1>5, <1>6 DEF NewMsg

\* What sending a request changes.
LEMMA SyncFacts ==
    ASSUME TypeOK, NEW s \in Sessions, sync_route_with_peer(s)
    PROVE  /\ sid[s] # 0 /\ call[s].at = "idle"
           /\ call' = [call EXCEPT ![s] = NewCall(s)] /\ msgs' = msgs \cup {NewMsg(s)}
           /\ skipped' = skipped \cup {<<s, i, "missed">> :
                            i \in {j \in Chosen(s) : Request(s, Chosen(s))[j] < store[s[1]][j]}}
           /\ unreach' = [unreach EXCEPT ![s] = Kept(s)]
           /\ UNCHANGED <<links, nodes, sid, dst, saved, since, made, plan, forgot>>
BY DEF sync_route_with_peer, NewCall, NewMsg

\* A request is sent.
LEMMA SyncAhead == ASSUME AheadInv, NEW s \in Sessions, sync_route_with_peer(s) PROVE AheadInv'
<1>1. TypeOK
  BY DEF AheadInv
<1>2. /\ call' = [call EXCEPT ![s] = NewCall(s)] /\ msgs' = msgs \cup {NewMsg(s)}
      /\ unreach' = [unreach EXCEPT ![s] = Kept(s)]
      /\ UNCHANGED <<links, nodes, sid, dst, saved, since, made, plan, forgot>>
  BY <1>1, SyncFacts
<1>3. Chosen(s) \in SUBSET Items /\ Kept(s) \in SUBSET Items
  BY <1>1, ChosenFacts
<1>4. /\ NewCall(s) \in CallType /\ NewMsg(s) \in MsgType
      /\ NewCall(s).rows = Request(s, Chosen(s)) /\ NewMsg(s).rows = Request(s, Chosen(s))
  BY <1>1, NewCallFacts
<1>5. \A i \in Items : Request(s, Chosen(s))[i] <= Origin(i)
  BY <1>3, RequestNotAhead
<1>6. call' \in [Sessions -> CallType] /\ unreach' \in [Sessions -> SUBSET Items]
  BY <1>1, <1>2, <1>3, <1>4 DEF TypeOK, CallType
<1>7. \A m \in msgs' : m \in MsgType
  BY <1>1, <1>2, <1>4 DEF TypeOK, MsgType
<1>8. skipped' \in SUBSET (Sessions \X Items \X {"missed", "cleared"})
  <2>1. skipped' = skipped \cup {<<s, i, "missed">> :
                        i \in {j \in Chosen(s) : Request(s, Chosen(s))[j] < store[s[1]][j]}}
    BY <1>1, SyncFacts
  <2>2. skipped \in SUBSET (Sessions \X Items \X {"missed", "cleared"})
    BY <1>1 DEF TypeOK
  <2>3. \A i \in Chosen(s) : <<s, i, "missed">> \in Sessions \X Items \X {"missed", "cleared"}
    BY <1>3
  <2> QED
    BY <2>1, <2>2, <2>3
<1>9. TypeOK'
  BY <1>1, <1>2, <1>6, <1>7, <1>8 DEF TypeOK, CallType, MsgType, nodes
<1>10. ASSUME NEW a \in Sessions, NEW i \in Items
       PROVE  saved'[a][i] <= Origin(i) /\ call'[a].rows[i] <= Origin(i)
  <2>1. saved[a][i] <= Origin(i) /\ call[a].rows[i] <= Origin(i)
    BY DEF AheadInv, NotAhead
  <2>2. call'[a] = IF a = s THEN NewCall(s) ELSE call[a]
    BY <1>1, <1>2 DEF TypeOK
  <2> QED
    BY <2>1, <2>2, <1>2, <1>4, <1>5
<1>11. ASSUME NEW m \in msgs', NEW i \in Items PROVE m.rows[i] <= Origin(i)
  BY <1>2, <1>4, <1>5 DEF AheadInv, NotAhead
<1>12. OwnReach' /\ store' = store /\ cached' = cached
  BY <1>2 DEF AheadInv, OwnReach, nodes
<1> QED
  BY <1>9, <1>10, <1>11, <1>12, SameStoreAhead

\* What an answer changes.
LEMMA DoneFacts ==
    ASSUME TypeOK, NEW s \in Sessions, Done(s)
    PROVE  /\ call[s].at = "answered" /\ call[s] \in CallType
           /\ call' = [call EXCEPT ![s] = Idle] /\ dst' = [dst EXCEPT ![s] = call[s].id]
           /\ \E old \in {saved[s], Nothing} :
                saved' = [saved EXCEPT ![s] = Save(old, call[s].rows, s[2])]
           /\ unreach' = [unreach EXCEPT ![s] = IF call[s].id # dst[s] THEN {} ELSE unreach[s]]
           /\ since' = [since EXCEPT ![s] = Unsaved(s, call[s].new, store[s[1]], saved'[s])]
           /\ skipped' = IF call[s].id # dst[s] THEN LoseSight(s) ELSE skipped
           /\ UNCHANGED <<links, nodes, sid, msgs, made, plan, forgot>>
BY DEF TypeOK, Done, CallType

\* The items a session loses sight of.
LEMMA LoseSightFacts ==
    ASSUME TypeOK, NEW s \in Sessions
    PROVE  /\ LoseSight(s) \in SUBSET (Sessions \X Items \X {"missed", "cleared"})
           /\ skipped \subseteq LoseSight(s)
           /\ \A i \in unreach[s] : <<s, i, "cleared">> \in LoseSight(s)
<1>1. \A i \in unreach[s] : <<s, i, "cleared">> \in Sessions \X Items \X {"missed", "cleared"}
  BY DEF TypeOK
<1> QED
  BY <1>1 DEF LoseSight, TypeOK

\* An answer arrives.
LEMMA DoneAhead == ASSUME AheadInv, NEW s \in Sessions, Done(s) PROVE AheadInv'
<1>1. TypeOK
  BY DEF AheadInv
<1>2. /\ call[s] \in CallType
      /\ call' = [call EXCEPT ![s] = Idle] /\ dst' = [dst EXCEPT ![s] = call[s].id]
      /\ unreach' = [unreach EXCEPT ![s] = IF call[s].id # dst[s] THEN {} ELSE unreach[s]]
      /\ since' = [since EXCEPT ![s] = Unsaved(s, call[s].new, store[s[1]], saved'[s])]
      /\ skipped' = IF call[s].id # dst[s] THEN LoseSight(s) ELSE skipped
      /\ UNCHANGED <<links, nodes, sid, msgs, made, plan, forgot>>
  BY <1>1, DoneFacts
<1>3. PICK old \in {saved[s], Nothing} : saved' = [saved EXCEPT ![s] = Save(old, call[s].rows, s[2])]
  BY <1>1, DoneFacts
<1>4. Idle \in CallType /\ Nothing \in Versions /\ \A i \in Items : Nothing[i] = 0 /\ Idle.rows[i] = 0
  BY DEF Nothing, Versions, Idle, CallType
<1>5. old \in Versions /\ call[s].rows \in Versions /\ call[s].id \in Nat /\ call[s].new \in SUBSET Items
  BY <1>1, <1>2, <1>4 DEF TypeOK, CallType
<1>6. /\ Save(old, call[s].rows, s[2]) \in Versions
      /\ \A i \in Items : Save(old, call[s].rows, s[2])[i] \in {old[i], call[s].rows[i]}
  BY <1>5, SaveFacts
<1>7. saved' \in [Sessions -> Versions] /\ call' \in [Sessions -> CallType] /\ dst' \in [Sessions -> Nat]
  BY <1>1, <1>2, <1>3, <1>4, <1>5, <1>6 DEF TypeOK, CallType
<1>8. since' \in [Sessions -> SUBSET Items] /\ unreach' \in [Sessions -> SUBSET Items]
  <2>1. Unsaved(s, call[s].new, store[s[1]], saved'[s]) \in SUBSET Items
    BY <1>5, UnsavedFacts
  <2> QED
    BY <1>1, <1>2, <2>1 DEF TypeOK
<1>9. skipped' \in SUBSET (Sessions \X Items \X {"missed", "cleared"})
  BY <1>1, <1>2, LoseSightFacts DEF TypeOK
<1>10. TypeOK'
  BY <1>1, <1>2, <1>7, <1>8, <1>9 DEF TypeOK, CallType, nodes
<1>11. ASSUME NEW a \in Sessions, NEW i \in Items
       PROVE  saved'[a][i] <= Origin(i) /\ call'[a].rows[i] <= Origin(i)
  <2>1. /\ saved[a][i] <= Origin(i) /\ call[a].rows[i] <= Origin(i)
        /\ saved[s][i] <= Origin(i) /\ call[s].rows[i] <= Origin(i) /\ Origin(i) \in Nat
    BY <1>1, OriginNat DEF AheadInv, NotAhead
  <2>2. call'[a] \in {Idle, call[a]} /\ saved'[a] \in {Save(old, call[s].rows, s[2]), saved[a]}
    BY <1>1, <1>2, <1>3 DEF TypeOK
  <2> QED
    BY <2>1, <2>2, <1>4, <1>6
<1>12. \A m \in msgs' : \A i \in Items : m.rows[i] <= Origin(i)
  BY <1>2 DEF AheadInv, NotAhead
<1>13. OwnReach' /\ store' = store /\ cached' = cached
  BY <1>2 DEF AheadInv, OwnReach, nodes
<1> QED
  BY <1>10, <1>11, <1>12, <1>13, SameStoreAhead

To(m) == m.s[2]
Back(m) == <<m.s[2], m.s[1]>>
Renewed(m) == m.id # dst[Back(m)]
Newer(m) == {i \in Items : m.rows[i] > store[To(m)][i]}
Answers(m) == call[m.s].at = "sent" /\ m.id = sid[m.s] /\ m.n = call[m.s].n

\* What handling a request changes, but for the calls.
LEMMA HandleFacts ==
    ASSUME TypeOK, NEW m \in msgs, Handle(m)
    PROVE  /\ m \in MsgType /\ m.s \in Sessions /\ To(m) \in Peers /\ Back(m) \in Sessions
           /\ Back(m)[1] = To(m) /\ Back(m)[2] = m.s[1] /\ m.s[2] = To(m) /\ m.s # Back(m)
           /\ \/ sid[Back(m)] # 0 /\ UNCHANGED <<sid, made>>
              \/ sid[Back(m)] = 0 /\ NewSession(Back(m))
           /\ dst' = [dst EXCEPT ![Back(m)] = m.id]
           /\ saved' = [saved EXCEPT ![Back(m)] =
                           Save(IF Renewed(m) THEN Nothing ELSE saved[Back(m)], m.rows, m.s[1])]
           /\ unreach' = [unreach EXCEPT ![Back(m)] = IF Renewed(m) THEN {} ELSE unreach[Back(m)]]
           /\ store' = [store EXCEPT ![To(m)] =
                           [i \in Items |-> IF i \in Newer(m) THEN m.rows[i] ELSE store[To(m)][i]]]
           /\ \/ UNCHANGED <<dirty, reach, cached>>
              \/ Recompute(To(m), store'[To(m)])
           /\ plan' \in [first : SUBSET Possible, flaps : Seq(Possible), events : Nat]
           /\ plan'.events <= plan.events
           /\ since' = [s \in Sessions |->
                          IF s[1] # To(m) \/ sid'[s] = 0 THEN since[s]
                          ELSE Unsaved(s, IF s = Back(m) /\ (Renewed(m) \/ sid[s] = 0) THEN Items
                                          ELSE since[s] \cup Newer(m), store'[To(m)], saved'[s])]
           /\ msgs' = msgs \ {m}
           /\ skipped' = IF Renewed(m) /\ call[Back(m)].at # "idle" THEN LoseSight(Back(m)) ELSE skipped
           /\ UNCHANGED <<links, hist, forgot>>
<1>1. m \in MsgType /\ m.s \in Sessions
  BY DEF TypeOK, MsgType
<1>2. /\ To(m) \in Peers /\ Back(m) \in Sessions /\ Back(m)[1] = To(m) /\ Back(m)[2] = m.s[1]
      /\ m.s[2] = To(m) /\ m.s # Back(m)
  BY <1>1, SessionFacts DEF To, Back
<1>3. UNCHANGED plan \/ Event
  BY DEF Handle, Recompute
<1> QED
  BY <1>1, <1>2, <1>3, PlanFacts DEF Handle, To, Back, Renewed, Newer

\* The call that a handled request answers, and the calls that see new items.
LEMMA HandleCallFacts ==
    ASSUME TypeOK, NEW m \in msgs, Handle(m)
    PROVE  /\ call' \in [Sessions -> CallType]
           /\ \A s \in Sessions :
                /\ call'[s].rows = call[s].rows /\ call'[s].n = call[s].n
                /\ call[s].new \subseteq call'[s].new
                /\ s = m.s /\ Answers(m) => call'[s].at = "answered" /\ call'[s].id = sid'[Back(m)]
                /\ ~(s = m.s /\ Answers(m)) => call'[s].at = call[s].at
                /\ s[1] = To(m) /\ call[s].at # "idle" => Newer(m) \subseteq call'[s].new
<1>1. /\ To(m) \in Peers /\ Back(m) \in Sessions /\ m.s \in Sessions
      /\ m.s[1] # To(m)
  BY HandleFacts, SessionFacts
<1>2. sid' \in [Sessions -> Nat]
  BY HandleFacts, NewSessionFacts DEF TypeOK
<1>3. call' = [s \in Sessions |->
                 IF s = m.s /\ Answers(m) THEN [call[s] EXCEPT !.at = "answered", !.id = sid'[Back(m)]]
                 ELSE IF s[1] = To(m) /\ call[s].at # "idle" THEN [call[s] EXCEPT !.new = @ \cup Newer(m)]
                 ELSE call[s]]
  <2>1. call' = [s \in Sessions |->
                  IF s = m.s /\ call[s].at = "sent" /\ m.id = sid[s] /\ m.n = call[s].n
                  THEN [call[s] EXCEPT !.at = "answered", !.id = sid'[Back(m)]]
                  ELSE IF s[1] = To(m) /\ call[s].at # "idle" THEN [call[s] EXCEPT !.new = @ \cup Newer(m)]
                  ELSE call[s]]
    BY DEF Handle, To, Back, Newer
  <2> QED
    BY <2>1 DEF Answers
<1>4. Newer(m) \in SUBSET Items
  BY DEF Newer
<1>5. ASSUME NEW s \in Sessions
      PROVE  /\ call'[s] \in CallType
             /\ call'[s].rows = call[s].rows /\ call'[s].n = call[s].n
             /\ call[s].new \subseteq call'[s].new
             /\ s = m.s /\ Answers(m) => call'[s].at = "answered" /\ call'[s].id = sid'[Back(m)]
             /\ ~(s = m.s /\ Answers(m)) => call'[s].at = call[s].at
             /\ s[1] = To(m) /\ call[s].at # "idle" => Newer(m) \subseteq call'[s].new
  <2>0. call[s] \in CallType
    BY DEF TypeOK, CallType
  <2>1. CASE s = m.s /\ Answers(m)
    <3>1. call'[s] = [call[s] EXCEPT !.at = "answered", !.id = sid'[Back(m)]]
      BY <2>1, <1>3
    <3>2. sid'[Back(m)] \in Nat
      BY <1>1, <1>2
    <3> QED
      BY <2>0, <2>1, <3>1, <3>2, <1>1 DEF CallType
  <2>2. CASE ~(s = m.s /\ Answers(m)) /\ s[1] = To(m) /\ call[s].at # "idle"
    <3>1. call'[s] = [call[s] EXCEPT !.new = call[s].new \cup Newer(m)]
      BY <2>2, <1>3
    <3> QED
      BY <2>0, <2>2, <3>1, <1>4 DEF CallType
  <2>3. CASE ~(s = m.s /\ Answers(m)) /\ ~(s[1] = To(m) /\ call[s].at # "idle")
    <3>1. call'[s] = call[s]
      BY <2>3, <1>3
    <3> QED
      BY <2>0, <2>3, <3>1
  <2> QED
    BY <2>1, <2>2, <2>3
<1>6. call' \in [Sessions -> CallType]
  BY <1>3, <1>5
<1> QED
  BY <1>5, <1>6

\* Versions that are stored or saved are the old ones or those of the request,
\* and what is stored never shrinks.
LEMMA HandleStoreFacts ==
    ASSUME TypeOK, NEW m \in msgs, Handle(m)
    PROVE  /\ store' \in [Peers -> Versions] /\ saved' \in [Sessions -> Versions]
           /\ \A p \in Peers, i \in Items :
                /\ store[p][i] <= store'[p][i]
                /\ store'[p][i] = store[p][i] \/ (p = To(m) /\ store'[p][i] = m.rows[i])
                /\ i \notin Newer(m) => store'[p][i] = store[p][i]
                /\ p = To(m) => m.rows[i] <= store'[p][i]
           /\ \A s \in Sessions, i \in Items :
                \/ saved'[s][i] = saved[s][i] \/ saved'[s][i] = 0
                \/ s = Back(m) /\ saved'[s][i] = m.rows[i]
<1>1. m \in MsgType /\ To(m) \in Peers /\ Back(m) \in Sessions
  BY HandleFacts
<1>2. m.rows \in Versions
  BY <1>1 DEF MsgType
<1> DEFINE row == [i \in Items |-> IF i \in Newer(m) THEN m.rows[i] ELSE store[To(m)][i]]
<1>3. row \in Versions
  BY <1>1, <1>2, OriginNat DEF Versions
<1>4. store' = [store EXCEPT ![To(m)] = row]
  BY HandleFacts
<1>5. store' \in [Peers -> Versions]
  BY <1>3, <1>4 DEF TypeOK
<1>6. ASSUME NEW p \in Peers, NEW i \in Items
      PROVE  /\ store[p][i] <= store'[p][i]
             /\ store'[p][i] = store[p][i] \/ (p = To(m) /\ store'[p][i] = m.rows[i])
             /\ i \notin Newer(m) => store'[p][i] = store[p][i]
             /\ p = To(m) => m.rows[i] <= store'[p][i]
  <2>1. store[p][i] \in Nat /\ m.rows[i] \in Nat
    BY <1>2, OriginNat DEF Versions
  <2>2. store'[p][i] = IF p = To(m) THEN row[i] ELSE store[p][i]
    BY <1>1, <1>4 DEF TypeOK
  <2>3. row[i] = IF i \in Newer(m) THEN m.rows[i] ELSE store[To(m)][i]
    OBVIOUS
  <2>4. i \in Newer(m) <=> m.rows[i] > store[To(m)][i]
    BY DEF Newer
  <2> HIDE DEF row
  <2> QED
    BY <2>1, <2>2, <2>3, <2>4
<1> DEFINE old == IF Renewed(m) THEN Nothing ELSE saved[Back(m)]
<1>7. Nothing \in Versions /\ \A i \in Items : Nothing[i] = 0
  BY DEF Nothing, Versions
<1>8. old \in Versions /\ \A i \in Items : old[i] \in {0, saved[Back(m)][i]}
  BY <1>1, <1>7 DEF TypeOK
<1> HIDE DEF old
<1>9. saved' = [saved EXCEPT ![Back(m)] = Save(old, m.rows, m.s[1])]
  BY HandleFacts DEF old
<1>10. /\ Save(old, m.rows, m.s[1]) \in Versions
       /\ \A i \in Items : Save(old, m.rows, m.s[1])[i] \in {old[i], m.rows[i]}
  BY <1>2, <1>8, SaveFacts
<1>11. saved' \in [Sessions -> Versions]
  BY <1>9, <1>10 DEF TypeOK
<1>12. ASSUME NEW s \in Sessions, NEW i \in Items
       PROVE  \/ saved'[s][i] = saved[s][i] \/ saved'[s][i] = 0
              \/ s = Back(m) /\ saved'[s][i] = m.rows[i]
  <2>1. saved'[s] = IF s = Back(m) THEN Save(old, m.rows, m.s[1]) ELSE saved[s]
    BY <1>1, <1>9 DEF TypeOK
  <2> QED
    BY <2>1, <1>8, <1>10
<1> QED
  BY <1>5, <1>6, <1>11, <1>12

\* A request is handled: a peer's own items are never replaced.
LEMMA HandleAhead == ASSUME AheadInv, NEW m \in msgs, Handle(m) PROVE AheadInv'
<1>1. TypeOK
  BY DEF AheadInv
<1>2. /\ m \in MsgType /\ To(m) \in Peers /\ Back(m) \in Sessions
      /\ dst' = [dst EXCEPT ![Back(m)] = m.id]
      /\ unreach' = [unreach EXCEPT ![Back(m)] = IF Renewed(m) THEN {} ELSE unreach[Back(m)]]
      /\ msgs' = msgs \ {m}
      /\ UNCHANGED <<links, hist, forgot>>
      /\ plan' \in [first : SUBSET Possible, flaps : Seq(Possible), events : Nat]
  BY <1>1, HandleFacts
<1>3. \A i \in Items : m.rows[i] <= Origin(i) /\ m.rows[i] \in Nat /\ Origin(i) \in Nat
  BY <1>1, <1>2, OriginNat DEF AheadInv, NotAhead, MsgType, Versions
<1>4. /\ store' \in [Peers -> Versions] /\ saved' \in [Sessions -> Versions]
      /\ \A p \in Peers, i \in Items : store'[p][i] = store[p][i] \/ (p = To(m) /\ store'[p][i] = m.rows[i])
      /\ \A p \in Peers, i \in Items : store[p][i] <= store'[p][i]
      /\ \A s \in Sessions, i \in Items :
                \/ saved'[s][i] = saved[s][i] \/ saved'[s][i] = 0
                \/ s = Back(m) /\ saved'[s][i] = m.rows[i]
  BY <1>1, HandleStoreFacts
<1>5. ASSUME NEW i \in Items PROVE Origin(i)' = Origin(i)
  <2>1. i[1] \in Peers /\ store[i[1]][i] \in Nat
    BY <1>1, ItemFacts, OriginNat
  <2>2. /\ store'[i[1]][i] = store[i[1]][i] \/ store'[i[1]][i] = m.rows[i]
        /\ store[i[1]][i] <= store'[i[1]][i] /\ m.rows[i] <= store[i[1]][i] /\ m.rows[i] \in Nat
    BY <1>3, <1>4, <2>1 DEF Origin
  <2> QED
    BY <2>1, <2>2 DEF Origin
<1>6. \A p \in Peers, i \in Items : store[p][i] <= Origin(i) /\ store'[p][i] <= Origin(i)
  BY <1>3, <1>4 DEF AheadInv, NotAhead
<1>7. sid' \in [Sessions -> Nat] /\ made' \in [Sessions -> Nat]
  BY <1>1, HandleFacts, NewSessionFacts DEF TypeOK
<1>8. call' \in [Sessions -> CallType] /\ \A s \in Sessions : call'[s].rows = call[s].rows
  BY <1>1, HandleCallFacts
<1>9. since' \in [Sessions -> SUBSET Items]
  <2>1. since' = [s \in Sessions |->
                          IF s[1] # To(m) \/ sid'[s] = 0 THEN since[s]
                          ELSE Unsaved(s, IF s = Back(m) /\ (Renewed(m) \/ sid[s] = 0) THEN Items
                                          ELSE since[s] \cup Newer(m), store'[To(m)], saved'[s])]
    BY <1>1, HandleFacts
  <2>2. \A s \in Sessions : since[s] \in SUBSET Items /\ Newer(m) \in SUBSET Items
    BY <1>1 DEF TypeOK, Newer
  <2> QED
    BY <2>1, <2>2, UnsavedFacts
<1>10. unreach' \in [Sessions -> SUBSET Items] /\ dst' \in [Sessions -> Nat]
  BY <1>1, <1>2 DEF TypeOK, MsgType
<1>11. skipped' \in SUBSET (Sessions \X Items \X {"missed", "cleared"})
  <2>1. skipped' \in {LoseSight(Back(m)), skipped}
    BY <1>1, HandleFacts
  <2>2. LoseSight(Back(m)) \in SUBSET (Sessions \X Items \X {"missed", "cleared"})
    BY <1>1, <1>2, LoseSightFacts
  <2>3. skipped \in SUBSET (Sessions \X Items \X {"missed", "cleared"})
    BY <1>1 DEF TypeOK
  <2> QED
    BY <2>1, <2>2, <2>3
<1>12. /\ dirty' \in SUBSET Peers /\ reach' \in [Peers -> SUBSET Peers]
       /\ cached' \in [Peers -> [Peers -> Nat]] /\ OwnReach'
       /\ \A a, q \in Peers : cached'[a][q] \in {0, cached[a][q], store'[a][Conn(q)]}
  <2>1. CASE UNCHANGED <<dirty, reach, cached>>
    BY <1>1, <2>1 DEF TypeOK, AheadInv, OwnReach
  <2>2. CASE Recompute(To(m), store'[To(m)])
    <3>1. store'[To(m)] \in Versions
      BY <1>2, <1>4
    <3> QED
      BY <1>1, <1>2, <2>2, <3>1, RecomputeFacts DEF AheadInv
  <2> QED
    BY <1>1, <2>1, <2>2, HandleFacts
<1>13. ASSUME NEW p \in Peers PROVE Len(hist'[p]) = store'[p][Conn(p)]
  <2>1. Len(hist[p]) = store[p][Conn(p)] /\ Conn(p) \in Items /\ Conn(p)[1] = p
    BY <1>1, ItemFacts DEF TypeOK, Conn
  <2>2. store'[p][Conn(p)] = store[p][Conn(p)]
    BY <2>1, <1>5 DEF Origin
  <2> QED
    BY <2>1, <2>2, <1>2
<1>14. TypeOK'
  BY <1>1, <1>2, <1>4, <1>7, <1>8, <1>9, <1>10, <1>11, <1>12, <1>13 DEF TypeOK, CallType, Conn
<1>15. ASSUME NEW s \in Sessions, NEW i \in Items
       PROVE  saved'[s][i] <= Origin(i) /\ call'[s].rows[i] <= Origin(i)
  <2>1. saved[s][i] <= Origin(i) /\ call[s].rows[i] <= Origin(i)
    BY DEF AheadInv, NotAhead
  <2>2. m.rows[i] <= Origin(i) /\ Origin(i) \in Nat
    BY <1>3
  <2> QED
    BY <2>1, <2>2, <1>4, <1>8
<1>16. \A n \in msgs' : \A i \in Items : n.rows[i] <= Origin(i)
  BY <1>2 DEF AheadInv, NotAhead
<1>17. NotAhead'
  BY <1>5, <1>6, <1>15, <1>16 DEF NotAhead
<1>18. ASSUME NEW a \in Peers, NEW q \in Peers PROVE cached'[a][q] <= Origin(Conn(q))'
  <2>1. Conn(q) \in Items
    BY ItemFacts
  <2>2. cached[a][q] <= Origin(Conn(q)) /\ Origin(Conn(q)) \in Nat /\ store'[a][Conn(q)] <= Origin(Conn(q))
    BY <2>1, <1>3, <1>6 DEF AheadInv, CachedNotAhead
  <2> QED
    BY <2>1, <2>2, <1>5, <1>12
<1> QED
  BY <1>12, <1>14, <1>17, <1>18 DEF AheadInv, CachedNotAhead

\* Every step keeps the types and the versions behind their origins.
LEMMA NextAhead == AheadInv /\ [Next]_vars => AheadInv'
<1> SUFFICES ASSUME AheadInv, [Next]_vars PROVE AheadInv'
  OBVIOUS
<1>1. CASE UNCHANGED vars
  BY <1>1 DEF vars, nodes, sessions, ghosts, AheadInv, TypeOK, OwnReach, NotAhead, CachedNotAhead, Origin
<1>2. CASE \E p \in Peers : update_my_conn_info(p) \/ Refresh(p)
  BY <1>2, ConnInfoAhead, RefreshAhead
<1>3. CASE \E s \in Sessions : StartSession(s) \/ sync_route_with_peer(s) \/ Done(s)
  BY <1>3, StartSessionAhead, SyncAhead, DoneAhead
<1>4. CASE \E m \in msgs : Handle(m)
  BY <1>4, HandleAhead
<1>5. CASE LinkChange
  BY <1>5, LinkChangeAhead
<1>6. CASE \E p \in Peers : update_my_peer_info(p) \/ clear_expired_peer(p)
  BY <1>6, PeerInfoAhead, ExpiryAhead
<1>7. CASE \E s \in Sessions : StopSession(s) \/ Timeout(s)
  BY <1>7, StopSessionAhead, TimeoutAhead
<1> QED
  BY <1>1, <1>2, <1>3, <1>4, <1>5, <1>6, <1>7 DEF Next, Tasks

\* Always, nobody's versions are ahead of their origin and a peer reaches itself.
LEMMA AlwaysAhead == Spec => []AheadInv
BY InitAhead, NextAhead, PTL DEF Spec

\* Every variable of the route sessions keeps the type that the code gives it.
THEOREM TypeCorrect == Spec => []TypeOK
<1>1. AheadInv => TypeOK
  BY DEF AheadInv
<1> QED
  BY <1>1, AlwaysAhead, PTL

\* Nobody has, sends or is believed to have a newer version of an item than the
\* peer it is about, however many peers, links and events there are.
THEOREM NobodyIsAhead == Spec => []NotAhead
<1>1. AheadInv => NotAhead
  BY DEF AheadInv
<1> QED
  BY <1>1, AlwaysAhead, PTL
-----------------------------------------------------------------------------
(* Session ids and calls                                                   *)

SendInv == IdInv /\ CallInv

\* Initially no call is under way and every session has its first id.
LEMMA InitSend == Init => SendInv
<1> SUFFICES ASSUME Init PROVE SendInv
  OBVIOUS
<1>1. \A s \in Sessions : sid[s] = made[s] /\ sid[s] \in Nat /\ call[s].at = "idle"
  BY DEF Init, Idle
<1>2. msgs = {}
  BY DEF Init
<1> QED
  BY <1>1, <1>2 DEF SendInv, IdInv, CallInv

\* Calls and messages have their types.
LEMMA CallTypes ==
    ASSUME TypeOK
    PROVE  /\ \A s \in Sessions : /\ call[s] \in CallType /\ call[s].n \in Nat
                                  /\ sid[s] \in Nat /\ made[s] \in Nat
           /\ \A m \in msgs : m \in MsgType /\ m.s \in Sessions /\ m.id \in Nat /\ m.n \in Nat
           /\ plan.events \in Nat
<1>1. \A s \in Sessions : call[s] \in CallType
  BY DEF TypeOK, CallType
<1>2. \A m \in msgs : m \in MsgType
  BY DEF TypeOK, MsgType
<1>3. plan.events \in Nat /\ \A s \in Sessions : sid[s] \in Nat /\ made[s] \in Nat
  BY DEF TypeOK
<1> QED
  BY <1>1, <1>2, <1>3 DEF CallType, MsgType

\* The versions a session is about are numbers, before and after a step.
LEMMA SessionNat ==
    ASSUME TypeOK, NEW s \in Sessions, NEW i \in Items
    PROVE  /\ store[s[1]][i] \in Nat /\ store[s[2]][i] \in Nat
           /\ saved[s][i] \in Nat /\ call[s].rows[i] \in Nat
<1>1. s[1] \in Peers /\ s[2] \in Peers
  BY SessionFacts
<1>2. store[s[1]][i] \in Nat /\ store[s[2]][i] \in Nat
  BY <1>1, OriginNat
<1>3. saved[s][i] \in Nat
  BY DEF TypeOK, Versions
<1>4. call[s] \in CallType
  BY CallTypes
<1>5. call[s].rows[i] \in Nat
  BY <1>4 DEF CallType, Versions
<1> QED
  BY <1>2, <1>3, <1>5

\* The same after a step.
LEMMA SessionNatNext ==
    ASSUME TypeOK', NEW s \in Sessions, NEW i \in Items
    PROVE  store'[s[1]][i] \in Nat /\ store'[s[2]][i] \in Nat /\ saved'[s][i] \in Nat
<1>1. s[1] \in Peers /\ s[2] \in Peers
  BY SessionFacts
<1>2. \A p \in Peers : store'[p][i] \in Nat
  BY DEF TypeOK, Versions
<1>3. saved'[s][i] \in Nat
  BY DEF TypeOK, Versions
<1> QED
  BY <1>1, <1>2, <1>3

\* A step that draws no id and builds no request: calls go on or are given
\* up, and a call that is given up before its answer uses up an event.
LEMMA FrameSend ==
    ASSUME TypeOK, TypeOK', SendInv, UNCHANGED <<sid, made>>, msgs' \subseteq msgs,
           plan'.events <= plan.events,
           \A s \in Sessions :
              \/ call'[s].at = call[s].at /\ call'[s].n = call[s].n /\ call'[s].rows = call[s].rows
              \/ call'[s].at = "idle" /\ (call[s].at = "sent" => plan'.events < plan.events)
    PROVE  SendInv'
<1>1. IdInv'
  BY DEF SendInv, IdInv
<1>2. plan.events \in Nat /\ plan'.events \in Nat
  BY DEF TypeOK
<1>3. ASSUME NEW s \in Sessions, call'[s].at = "sent" PROVE call'[s].n >= plan'.events
  <2>1. call[s].n \in Nat /\ call'[s].n = call[s].n /\ call[s].n >= plan.events
    BY <1>3, CallTypes DEF SendInv, CallInv
  <2> QED
    BY <1>2, <2>1
<1>4. ASSUME NEW m \in msgs', m.id = sid'[m.s] PROVE Awaited(m)'
  <2>1. m \in msgs /\ m.s \in Sessions /\ m.n \in Nat /\ Awaited(m) /\ call[m.s].n \in Nat
    BY <1>4, CallTypes DEF SendInv, CallInv
  <2>2. call[m.s].at = "sent" => call[m.s].n >= plan.events
    BY <2>1 DEF SendInv, CallInv
  <2> QED
    BY <1>2, <2>1, <2>2 DEF Awaited
<1>5. CallInv'
  BY <1>3, <1>4 DEF CallInv
<1> QED
  BY <1>1, <1>5 DEF SendInv

\* A session is started with an id that no message has.
LEMMA StartSessionSend ==
    ASSUME TypeOK, TypeOK', SendInv, NEW s \in Sessions, StartSession(s)
    PROVE  SendInv'
<1>1. /\ made' = [made EXCEPT ![s] = made[s] + 1] /\ sid' = [sid EXCEPT ![s] = made[s] + 1]
      /\ UNCHANGED <<call, msgs, plan>>
  BY NewSessionFacts DEF StartSession
<1>2. ASSUME NEW a \in Sessions
      PROVE  /\ made'[a] = IF a = s THEN made[a] + 1 ELSE made[a]
             /\ sid'[a] = IF a = s THEN made[a] + 1 ELSE sid[a]
             /\ sid[a] \in Nat /\ made[a] \in Nat /\ sid[a] <= made[a]
  BY <1>1 DEF TypeOK, SendInv, IdInv
<1>3. ASSUME NEW a \in Sessions PROVE sid'[a] <= made'[a] /\ (sid'[a] = 0 => call'[a].at = "idle")
  BY <1>1, <1>2 DEF SendInv, IdInv
<1>4. ASSUME NEW m \in msgs'
      PROVE  m.id \in 1..made'[m.s] /\ (m.id = sid'[m.s] => Awaited(m)')
  <2>1. m \in msgs /\ m.s \in Sessions /\ m.id \in Nat /\ m.id \in 1..made[m.s]
    BY <1>1, CallTypes DEF SendInv, IdInv
  <2>2. m.id = sid[m.s] => Awaited(m)
    BY <2>1 DEF SendInv, CallInv
  <2>3. Awaited(m)' <=> Awaited(m)
    BY <1>1 DEF Awaited
  <2> QED
    BY <2>1, <2>2, <2>3, <1>2
<1>5. \A a \in Sessions : call'[a].at = "sent" => call'[a].n >= plan'.events
  BY <1>1 DEF SendInv, CallInv
<1> QED
  BY <1>3, <1>4, <1>5 DEF SendInv, IdInv, CallInv

\* A session is stopped, its call with it.
LEMMA StopSessionSend ==
    ASSUME TypeOK, TypeOK', SendInv, NEW s \in Sessions, StopSession(s)
    PROVE  SendInv'
<1>1. /\ sid' = [sid EXCEPT ![s] = 0] /\ call' = [call EXCEPT ![s] = Idle]
      /\ UNCHANGED <<msgs, plan, made>> /\ Idle.at = "idle"
  BY DEF StopSession, Idle
<1>2. ASSUME NEW a \in Sessions
      PROVE  /\ a = s => sid'[a] = 0 /\ call'[a].at = "idle"
             /\ a # s => sid'[a] = sid[a] /\ call'[a] = call[a]
             /\ sid[a] \in Nat /\ made[a] \in Nat /\ sid[a] <= made[a]
  BY <1>1 DEF TypeOK, SendInv, IdInv
<1>3. ASSUME NEW a \in Sessions PROVE sid'[a] <= made'[a] /\ (sid'[a] = 0 => call'[a].at = "idle")
  BY <1>1, <1>2 DEF SendInv, IdInv
<1>4. ASSUME NEW m \in msgs'
      PROVE  m.id \in 1..made'[m.s] /\ (m.id = sid'[m.s] => Awaited(m)')
  <2>1. m \in msgs /\ m.s \in Sessions /\ m.id \in Nat /\ m.id \in 1..made[m.s]
    BY <1>1, CallTypes DEF SendInv, IdInv
  <2>2. m.id = sid[m.s] => Awaited(m)
    BY <2>1 DEF SendInv, CallInv
  <2>3. m.s # s => (Awaited(m)' <=> Awaited(m))
    BY <1>1, <1>2, <2>1 DEF Awaited
  <2>4. m.s = s => m.id # sid'[m.s]
    BY <1>2, <2>1
  <2> QED
    BY <1>1, <1>2, <2>1, <2>2, <2>3, <2>4
<1>5. \A a \in Sessions : call'[a].at = "sent" => call'[a].n >= plan'.events
  BY <1>1, <1>2 DEF SendInv, CallInv
<1> QED
  BY <1>3, <1>4, <1>5 DEF SendInv, IdInv, CallInv

\* The request that is sent is the one its call waits for; those that were
\* given up before are older.
LEMMA SyncSend ==
    ASSUME TypeOK, TypeOK', SendInv, NEW s \in Sessions, sync_route_with_peer(s)
    PROVE  SendInv'
<1>1. /\ sid[s] # 0 /\ call[s].at = "idle"
      /\ call' = [call EXCEPT ![s] = NewCall(s)] /\ msgs' = msgs \cup {NewMsg(s)}
      /\ UNCHANGED <<sid, made, plan>>
  BY SyncFacts
<1>2. /\ NewCall(s).rows = NewMsg(s).rows /\ NewMsg(s).s = s /\ NewMsg(s).id = sid[s]
      /\ NewCall(s).at = "sent" /\ NewCall(s).n = plan.events /\ NewMsg(s).n = plan.events
  BY NewCallFacts
<1>3. call'[s] = NewCall(s) /\ \A a \in Sessions : a # s => call'[a] = call[a]
  BY <1>1 DEF TypeOK
<1>4. plan.events \in Nat
  BY CallTypes
<1>5. \A a \in Sessions : /\ sid'[a] <= made'[a] /\ (sid'[a] = 0 => call'[a].at = "idle")
                          /\ (call'[a].at = "sent" => call'[a].n >= plan'.events)
  BY <1>1, <1>2, <1>3, <1>4 DEF SendInv, IdInv, CallInv
<1>6. ASSUME NEW m \in msgs'
      PROVE  m.id \in 1..made'[m.s] /\ (m.id = sid'[m.s] => Awaited(m)')
  <2>1. CASE m = NewMsg(s)
    <3>1. sid[s] \in Nat /\ made[s] \in Nat /\ sid[s] <= made[s]
      BY CallTypes DEF SendInv, IdInv
    <3> QED
      BY <2>1, <3>1, <1>1, <1>2, <1>3 DEF Awaited
  <2>2. CASE m \in msgs
    <3>1. m.s \in Sessions /\ m.n \in Nat /\ m.id \in 1..made[m.s] /\ (m.id = sid[m.s] => Awaited(m))
      BY <2>2, CallTypes DEF SendInv, IdInv, CallInv
    <3>2. CASE m.s # s
      BY <3>1, <3>2, <1>1, <1>3 DEF Awaited
    <3>3. CASE m.s = s
      BY <3>1, <3>3, <1>1, <1>2, <1>3 DEF Awaited
    <3> QED
      BY <3>2, <3>3
  <2> QED
    BY <1>1, <2>1, <2>2
<1> QED
  BY <1>5, <1>6 DEF SendInv, IdInv, CallInv

\* The request that answers a call carries the call's rows, and is the only one.
LEMMA AnswerFacts ==
    ASSUME TypeOK, SendInv, NEW m \in msgs, Answers(m)
    PROVE  /\ m.rows = call[m.s].rows
           /\ \A n \in msgs : n.s = m.s /\ n.id = sid[n.s] /\ n # m => n.n > plan.events
<1>1. m \in MsgType /\ call[m.s].n \in Nat /\ m.n \in Nat
  BY CallTypes
<1>2. m.rows = call[m.s].rows
  BY <1>1 DEF SendInv, CallInv, Answers, Awaited
<1>3. ASSUME NEW n \in msgs, n.s = m.s, n.id = sid[n.s], n # m PROVE n.n > plan.events
  <2>1. n \in MsgType /\ Awaited(n)
    BY <1>3, CallTypes DEF SendInv, CallInv
  <2>2. CASE n.n = call[n.s].n /\ n.rows = call[n.s].rows
    <3>1. n.id = m.id /\ n.n = m.n /\ n.rows = m.rows /\ n.s = m.s
      BY <1>2, <1>3, <2>2 DEF Answers
    <3> QED
      BY <1>1, <1>3, <2>1, <3>1 DEF MsgType
  <2> QED
    BY <2>1, <2>2 DEF Awaited
<1> QED
  BY <1>2, <1>3

\* A handled request answers its call, or belongs to one that was given up.
LEMMA HandleSend ==
    ASSUME TypeOK, TypeOK', SendInv, NEW m \in msgs, Handle(m)
    PROVE  SendInv'
<1>1. /\ m.s \in Sessions /\ Back(m) \in Sessions /\ m.s # Back(m)
      /\ \/ sid[Back(m)] # 0 /\ UNCHANGED <<sid, made>>
         \/ sid[Back(m)] = 0 /\ NewSession(Back(m))
      /\ msgs' = msgs \ {m} /\ plan'.events <= plan.events
  BY HandleFacts
<1>0. plan.events \in Nat /\ plan'.events \in Nat
  BY DEF TypeOK
<1>2. ASSUME NEW a \in Sessions
      PROVE  /\ sid[a] \in Nat /\ made[a] \in Nat /\ sid[a] <= made[a]
             /\ \/ sid'[a] = sid[a] /\ made'[a] = made[a]
                \/ a = Back(m) /\ sid[a] = 0 /\ sid'[a] = made[a] + 1 /\ made'[a] = made[a] + 1
  <2>1. sid[a] \in Nat /\ made[a] \in Nat /\ sid[a] <= made[a]
    BY CallTypes DEF SendInv, IdInv
  <2>2. CASE UNCHANGED <<sid, made>>
    BY <2>1, <2>2
  <2>3. CASE sid[Back(m)] = 0 /\ NewSession(Back(m))
    <3>1. /\ made' = [made EXCEPT ![Back(m)] = made[Back(m)] + 1]
          /\ sid' = [sid EXCEPT ![Back(m)] = made[Back(m)] + 1]
      BY <2>3, <1>1, NewSessionFacts
    <3> QED
      BY <2>1, <2>3, <3>1, <1>1 DEF TypeOK
  <2> QED
    BY <1>1, <2>2, <2>3
<1>3. ASSUME NEW a \in Sessions
      PROVE  /\ call'[a].rows = call[a].rows /\ call'[a].n = call[a].n
             /\ a = m.s /\ Answers(m) => call'[a].at = "answered"
             /\ ~(a = m.s /\ Answers(m)) => call'[a].at = call[a].at
  BY HandleCallFacts
<1>4. ASSUME NEW a \in Sessions
      PROVE  /\ sid'[a] <= made'[a] /\ (sid'[a] = 0 => call'[a].at = "idle")
             /\ (call'[a].at = "sent" => call'[a].n >= plan'.events)
  <2>1. (call[a].at = "sent" => call[a].n >= plan.events) /\ call[a].n \in Nat
    BY CallTypes DEF SendInv, CallInv
  <2>2. sid[a] = 0 => call[a].at = "idle"
    BY DEF SendInv, IdInv
  <2>3. call'[a].at = "sent" => call'[a].n >= plan'.events
    BY <1>0, <1>1, <1>3, <2>1
  <2> QED
    BY <2>2, <2>3, <1>1, <1>2, <1>3 DEF Answers
<1>5. ASSUME NEW n \in msgs'
      PROVE  n.id \in 1..made'[n.s] /\ (n.id = sid'[n.s] => Awaited(n)')
  <2>1. /\ n \in msgs /\ n # m /\ n.s \in Sessions /\ n.id \in Nat
        /\ n.id \in 1..made[n.s] /\ (n.id = sid[n.s] => Awaited(n))
    BY <1>1, CallTypes DEF SendInv, IdInv, CallInv
  <2>2. n.id \in 1..made'[n.s] /\ (n.id = sid'[n.s] => n.id = sid[n.s])
    BY <2>1, <1>2
  <2>0. n.n \in Nat
    BY <2>1, CallTypes DEF MsgType
  <2>3. CASE n.s = m.s /\ Answers(m)
    BY <2>0, <2>1, <2>2, <2>3, <1>0, <1>1, <1>3, AnswerFacts DEF Awaited
  <2>4. CASE ~(n.s = m.s /\ Answers(m))
    BY <2>0, <2>1, <2>2, <2>4, <1>0, <1>1, <1>3 DEF Awaited
  <2> QED
    BY <2>2, <2>3, <2>4
<1> QED
  BY <1>4, <1>5 DEF SendInv, IdInv, CallInv

\* Every step keeps the session ids and the calls in order.
LEMMA NextSend == AheadInv /\ AheadInv' /\ SendInv /\ [Next]_vars => SendInv'
<1> SUFFICES ASSUME AheadInv, AheadInv', SendInv, [Next]_vars PROVE SendInv'
  OBVIOUS
<1>0. TypeOK /\ TypeOK' /\ plan.events \in Nat
  BY CallTypes DEF AheadInv
<1>1. CASE UNCHANGED vars
  <2>1. UNCHANGED <<sid, made, msgs, plan, call>>
    BY <1>1 DEF vars, sessions
  <2> QED
    BY <1>0, <2>1, FrameSend
<1>2. ASSUME NEW p \in Peers, update_my_conn_info(p) PROVE SendInv'
  <2>1. Touch(p, {Conn(p)}) /\ UNCHANGED <<sid, made, msgs, plan>> /\ {Conn(p)} \in SUBSET Items
    BY <1>2, ItemFacts DEF update_my_conn_info, Conn
  <2> QED
    BY <1>0, <2>1, FrameSend, TouchFacts
<1>3. ASSUME NEW p \in Peers, Refresh(p) PROVE SendInv'
  <2>1. UNCHANGED <<sid, made, call, msgs>> /\ (UNCHANGED plan \/ Event)
    BY <1>3 DEF Refresh, Recompute, sessions
  <2>2. plan'.events <= plan.events
    BY <1>0, <2>1, PlanFacts
  <2> QED
    BY <1>0, <2>1, <2>2, FrameSend
<1>4. ASSUME NEW s \in Sessions, Done(s) PROVE SendInv'
  <2>1. /\ call[s].at = "answered" /\ call' = [call EXCEPT ![s] = Idle] /\ Idle.at = "idle"
        /\ UNCHANGED <<sid, msgs, made, plan>>
    BY <1>4 DEF Done, Idle
  <2>2. \A a \in Sessions : call'[a] = IF a = s THEN Idle ELSE call[a]
    BY <1>0, <2>1 DEF TypeOK
  <2> QED
    BY <1>0, <2>1, <2>2, FrameSend
<1>5. CASE LinkChange
  <2>1. UNCHANGED <<sid, made, call, msgs>> /\ plan'.events = plan.events
    BY <1>0, <1>5 DEF LinkChange, sessions, TypeOK
  <2> QED
    BY <1>0, <2>1, FrameSend
<1>6. ASSUME NEW p \in Peers, update_my_peer_info(p) PROVE SendInv'
  <2>1. Touch(p, {<<p, "info">>}) /\ UNCHANGED <<sid, made, msgs>> /\ {<<p, "info">>} \in SUBSET Items /\ Event
    BY <1>6 DEF update_my_peer_info, Items
  <2>2. plan'.events <= plan.events
    BY <1>0, <2>1, EventFacts
  <2> QED
    BY <1>0, <2>1, <2>2, FrameSend, TouchFacts
<1>7. ASSUME NEW p \in Peers, clear_expired_peer(p) PROVE SendInv'
  <2>1. UNCHANGED <<sid, made, msgs, call>> /\ Event
    BY <1>7 DEF clear_expired_peer, sessions
  <2>2. plan'.events <= plan.events
    BY <1>0, <2>1, EventFacts
  <2> QED
    BY <1>0, <2>1, <2>2, FrameSend
<1>8. ASSUME NEW s \in Sessions, Timeout(s) PROVE SendInv'
  <2>1. /\ Event /\ call' = [call EXCEPT ![s] = Idle] /\ Idle.at = "idle"
        /\ UNCHANGED <<sid, made>> /\ msgs' \subseteq msgs
    BY <1>8 DEF Timeout, Idle, sessions
  <2>2. \A a \in Sessions : call'[a] = IF a = s THEN Idle ELSE call[a]
    BY <1>0, <2>1 DEF TypeOK
  <2>3. plan'.events < plan.events
    BY <1>0, <2>1, EventFacts
  <2>4. plan'.events <= plan.events
    BY <1>0, <2>1, EventFacts
  <2> QED
    BY <1>0, <2>1, <2>2, <2>3, <2>4, FrameSend
<1> QED
  BY <1>0, <1>1, <1>2, <1>3, <1>4, <1>5, <1>6, <1>7, <1>8,
     StartSessionSend, StopSessionSend, SyncSend, HandleSend DEF Next, Tasks
-----------------------------------------------------------------------------
(* What is saved is held                                                   *)

\* p holds version v of item i, unless it has removed the item.
Held(p, i, v) == Forgot(p, i) \/ v <= store[p][i]
\* Versions only grow, but for the items a peer removes.
Grows ==
    /\ forgot \subseteq forgot'
    /\ \A p \in Peers, i \in Items : <<p, i>> \in forgot' \/ store[p][i] <= store'[p][i]

\* What is held stays held.
LEMMA HeldGrows ==
    ASSUME TypeOK, TypeOK', Grows, NEW p \in Peers, NEW i \in Items, NEW v \in Nat, Held(p, i, v)
    PROVE  Held(p, i, v)'
<1>1. store[p][i] \in Nat /\ store'[p][i] \in Nat
  BY DEF TypeOK, Versions
<1> QED
  BY <1>1 DEF Grows, Held, Forgot

\* Initially linked peers have the same items.
LEMMA InitSame ==
    ASSUME Init, NEW s \in Sessions, Linked(s), NEW i \in Items
    PROVE  store[s[1]][i] = store[s[2]][i]
<1>1. s[1] \in Peers /\ s[2] \in Peers /\ i[1] \in Peers
  BY SessionFacts, ItemFacts
<1>2. \A p \in Peers : store[p][i] = IF Together(p, i[1])
                                     THEN IF i[2] = "conn" /\ Neighbours(i[1]) # {} THEN 2 ELSE 1 ELSE 0
  BY DEF Init
<1>3. {s[1], s[2]} \in links /\ {s[2], s[1]} \in links
  <2>1. {s[2], s[1]} = {s[1], s[2]}
    OBVIOUS
  <2> QED
    BY <2>1 DEF Linked
<1>4. Together(s[1], i[1]) <=> Together(s[2], i[1])
  BY <1>1, <1>3 DEF Together
<1> QED
  BY <1>1, <1>2, <1>4

\* Initially what is saved is held.
LEMMA InitHeld == ASSUME Init PROVE HeldInv
<1>1. TypeOK
  BY InitAhead DEF AheadInv
<1>2. ASSUME NEW s \in Sessions, NEW i \in Items PROVE saved[s][i] <= store[s[2]][i]
  <2>1. saved[s][i] = IF Linked(s) /\ i[1] # s[2] THEN store[s[1]][i] ELSE 0
    BY DEF Init
  <2>2. s[1] \in Peers /\ s[2] \in Peers
    BY SessionFacts
  <2>3. store[s[1]][i] \in Nat /\ store[s[2]][i] \in Nat
    BY <1>1, <2>2, OriginNat
  <2>4. Linked(s) => store[s[1]][i] = store[s[2]][i]
    BY InitSame
  <2> QED
    BY <2>1, <2>3, <2>4
<1>3. msgs = {} /\ \A s \in Sessions : call[s].at # "answered"
  BY DEF Init, Idle
<1>4. ASSUME NEW p \in Peers, NEW q \in Peers PROVE cached[p][q] <= store[p][Conn(q)]
  <2>1. cached[p][q] = store[p][Conn(q)]
    BY DEF Init, Conn
  <2>2. store[p][Conn(q)] \in Nat
    BY <1>1, ItemFacts, OriginNat
  <2> QED
    BY <2>1, <2>2
<1> QED
  BY <1>2, <1>3, <1>4 DEF HeldInv, SavedIsHeld

\* A step keeps what is held if everything it adds is held afterwards.
LEMMA FrameHeld ==
    ASSUME TypeOK, TypeOK', HeldInv, Grows,
           \A s \in Sessions, i \in Items :
              saved'[s][i] = saved[s][i] \/ <<s[2], i>> \in forgot' \/ saved'[s][i] <= store'[s[2]][i],
           \A m \in msgs', i \in Items :
              m \in msgs \/ <<m.s[1], i>> \in forgot' \/ m.rows[i] <= store'[m.s[1]][i],
           \A s \in Sessions, i \in Items : call'[s].at = "answered" =>
              \/ call[s].at = "answered" /\ call'[s].rows = call[s].rows
              \/ <<s[2], i>> \in forgot' \/ call'[s].rows[i] <= store'[s[2]][i],
           \A p, q \in Peers : \/ cached'[p][q] = cached[p][q]
                               \/ <<p, Conn(q)>> \in forgot' \/ cached'[p][q] <= store'[p][Conn(q)]
    PROVE  HeldInv'
<1>1. ASSUME NEW s \in Sessions, NEW i \in Items
      PROVE  /\ <<s[2], i>> \in forgot' \/ saved'[s][i] <= store'[s[2]][i]
             /\ call'[s].at = "answered" => <<s[2], i>> \in forgot' \/ call'[s].rows[i] <= store'[s[2]][i]
  <2>1. s[2] \in Peers /\ saved[s][i] \in Nat /\ call[s].rows[i] \in Nat
    BY SessionFacts, SessionNat
  <2>2. Held(s[2], i, saved[s][i])
    BY DEF HeldInv, SavedIsHeld, Held, Forgot
  <2>3. call[s].at = "answered" => Held(s[2], i, call[s].rows[i])
    BY DEF HeldInv, Held, Forgot
  <2>4. ASSUME NEW v \in Nat, Held(s[2], i, v) PROVE <<s[2], i>> \in forgot' \/ v <= store'[s[2]][i]
    BY <2>1, <2>4, HeldGrows DEF Held, Forgot
  <2> QED
    BY <2>1, <2>2, <2>3, <2>4
<1>2. ASSUME NEW m \in msgs', NEW i \in Items
      PROVE  <<m.s[1], i>> \in forgot' \/ m.rows[i] <= store'[m.s[1]][i]
  <2>1. CASE m \in msgs
    <3>1. m.s[1] \in Peers /\ m.rows[i] \in Nat
      BY <2>1, CallTypes, SessionFacts DEF MsgType, Versions
    <3>2. Held(m.s[1], i, m.rows[i])
      BY <2>1 DEF HeldInv, Held
    <3>3. ASSUME NEW v \in Nat, Held(m.s[1], i, v) PROVE <<m.s[1], i>> \in forgot' \/ v <= store'[m.s[1]][i]
      BY <3>1, <3>3, HeldGrows DEF Held, Forgot
    <3> QED
      BY <3>1, <3>2, <3>3
  <2> QED
    BY <2>1
<1>3. ASSUME NEW p \in Peers, NEW q \in Peers
      PROVE  <<p, Conn(q)>> \in forgot' \/ cached'[p][q] <= store'[p][Conn(q)]
  <2>1. cached[p][q] \in Nat /\ Conn(q) \in Items
    BY ItemFacts DEF TypeOK
  <2>2. Held(p, Conn(q), cached[p][q])
    BY DEF HeldInv, Held
  <2>3. ASSUME NEW v \in Nat, Held(p, Conn(q), v) PROVE <<p, Conn(q)>> \in forgot' \/ v <= store'[p][Conn(q)]
    BY <2>1, <2>3, HeldGrows DEF Held, Forgot
  <2> QED
    BY <2>1, <2>2, <2>3
<1> QED
  BY <1>1, <1>2, <1>3 DEF HeldInv, SavedIsHeld, Forgot

\* A step that leaves the items alone removes nothing.
LEMMA SameStoreGrows == ASSUME TypeOK, UNCHANGED <<store, forgot>> PROVE Grows
BY OriginNat DEF Grows

\* A peer counts up one of its own items.
LEMMA OwnItemGrows ==
    ASSUME TypeOK, NEW p \in Peers, NEW j \in Items, forgot' = forgot,
           store' = [store EXCEPT ![p][j] = @ + 1]
    PROVE  /\ Grows
           /\ \A q \in Peers, i \in Items :
                store'[q][i] = IF q = p /\ i = j THEN store[q][i] + 1 ELSE store[q][i]
<1>1. \A q \in Peers, i \in Items : store'[q][i] = IF q = p /\ i = j THEN store[q][i] + 1 ELSE store[q][i]
  BY DEF TypeOK, Versions
<1>2. \A q \in Peers, i \in Items : store[q][i] \in Nat
  BY OriginNat
<1> QED
  BY <1>1, <1>2 DEF Grows

\* An expired peer's items are forgotten, the others stay.
LEMMA ExpiryGrows ==
    ASSUME TypeOK, NEW p \in Peers, clear_expired_peer(p)
    PROVE  /\ Grows
           /\ \A a \in Peers, i \in Items :
                /\ store'[a][i] <= store[a][i]
                /\ store'[a][i] = store[a][i] \/ <<a, i>> \in forgot'
           /\ UNCHANGED <<sessions, call, msgs, made, skipped>>
           /\ store'[p] \in Versions /\ Rebuild(p, store'[p], Reachable(p, store'[p]))
<1>1. PICK q \in Peers :
         /\ store' = [store EXCEPT ![p] = [i \in Items |-> IF i[1] = q THEN 0 ELSE store[p][i]]]
         /\ forgot' = forgot \cup {<<p, i>> : i \in {j \in Items : j[1] = q}}
  BY DEF clear_expired_peer
<1>2. \A a \in Peers, i \in Items : store[a][i] \in Nat
  BY OriginNat
<1>3. \A a \in Peers, i \in Items : store'[a][i] = IF a = p /\ i[1] = q THEN 0 ELSE store[a][i]
  BY <1>1 DEF TypeOK, Versions
<1>4. \A i \in Items : i[1] = q => <<p, i>> \in forgot'
  BY <1>1
<1>5. \A a \in Peers, i \in Items : store'[a][i] <= store[a][i] /\ (store'[a][i] = store[a][i] \/ <<a, i>> \in forgot')
  BY <1>2, <1>3, <1>4
<1>6. Grows
  BY <1>1, <1>2, <1>5 DEF Grows
<1>7. store'[p] \in Versions
  BY <1>1, <1>2 DEF TypeOK, Versions
<1> QED
  BY <1>5, <1>6, <1>7 DEF clear_expired_peer

\* A request carries what its sender holds.
LEMMA SyncHeld ==
    ASSUME TypeOK, TypeOK', HeldInv, NEW s \in Sessions, sync_route_with_peer(s)
    PROVE  HeldInv'
<1>1. /\ call' = [call EXCEPT ![s] = NewCall(s)] /\ msgs' = msgs \cup {NewMsg(s)}
      /\ UNCHANGED <<store, cached, saved, forgot>>
  BY SyncFacts DEF nodes
<1>2. /\ NewCall(s).at = "sent" /\ NewMsg(s).s = s /\ NewMsg(s).rows = Request(s, Chosen(s))
  BY NewCallFacts
<1>3. ASSUME NEW i \in Items PROVE Forgot(s[1], i) \/ Request(s, Chosen(s))[i] <= store[s[1]][i]
  <2>1. s[1] \in Peers /\ i[1] \in Peers /\ store[s[1]][i] \in Nat
    BY SessionFacts, ItemFacts, OriginNat
  <2>2. Forgot(s[1], Conn(i[1])) \/ cached[s[1]][i[1]] <= store[s[1]][Conn(i[1])]
    BY <2>1 DEF HeldInv
  <2>3. \/ Request(s, Chosen(s))[i] = 0
        \/ Request(s, Chosen(s))[i] = store[s[1]][i]
        \/ i = Conn(i[1]) /\ Request(s, Chosen(s))[i] = cached[s[1]][i[1]]
    BY RequestFacts, ChosenFacts
  <2> QED
    BY <2>1, <2>2, <2>3
<1>4. \A a \in Sessions : call'[a].at = "answered" => call[a].at = "answered" /\ call'[a].rows = call[a].rows
  BY <1>1, <1>2 DEF TypeOK
<1>5. \A m \in msgs', i \in Items :
              m \in msgs \/ <<m.s[1], i>> \in forgot' \/ m.rows[i] <= store'[m.s[1]][i]
  BY <1>1, <1>2, <1>3 DEF Forgot
<1> QED
  BY <1>1, <1>4, <1>5, SameStoreGrows, FrameHeld

\* An answer tells of what the other side holds.
LEMMA DoneHeld ==
    ASSUME TypeOK, TypeOK', HeldInv, NEW s \in Sessions, Done(s)
    PROVE  HeldInv'
<1>1. /\ call[s].at = "answered" /\ call' = [call EXCEPT ![s] = Idle]
      /\ UNCHANGED <<store, cached, msgs, forgot>> /\ Idle.at = "idle"
  BY DoneFacts DEF nodes, Idle
<1>2. PICK old \in {saved[s], Nothing} : saved' = [saved EXCEPT ![s] = Save(old, call[s].rows, s[2])]
  BY DoneFacts
<1>3. old \in Versions /\ call[s].rows \in Versions /\ \A i \in Items : Nothing[i] = 0
  <2>1. Nothing \in Versions /\ \A i \in Items : Nothing[i] = 0
    BY DEF Nothing, Versions
  <2>2. saved[s] \in Versions /\ call[s].rows \in Versions
    BY CallTypes DEF TypeOK, CallType
  <2> QED
    BY <2>1, <2>2
<1>4. ASSUME NEW a \in Sessions, NEW i \in Items
      PROVE  saved'[a][i] = saved[a][i] \/ <<a[2], i>> \in forgot' \/ saved'[a][i] <= store'[a[2]][i]
  <2>1. CASE a = s
    <3>1. saved'[s] = Save(old, call[s].rows, s[2])
      BY <1>2 DEF TypeOK
    <3>2. saved'[s][i] \in {0, saved[s][i], call[s].rows[i]}
      BY <3>1, <1>3, SaveFacts
    <3>3. Forgot(s[2], i) \/ call[s].rows[i] <= store[s[2]][i]
      BY <1>1 DEF HeldInv
    <3>4. store[s[2]][i] \in Nat
      BY SessionFacts, OriginNat
    <3> QED
      BY <2>1, <3>2, <3>3, <3>4, <1>1 DEF Forgot
  <2>2. CASE a # s
    BY <2>2, <1>2 DEF TypeOK
  <2> QED
    BY <2>1, <2>2
<1>5. \A a \in Sessions : call'[a].at = "answered" => call[a].at = "answered" /\ call'[a].rows = call[a].rows
  BY <1>1 DEF TypeOK
<1> QED
  BY <1>1, <1>4, <1>5, SameStoreGrows, FrameHeld

\* The receiver holds what it has handled, and the sender what it has sent.
LEMMA HandleHeld ==
    ASSUME TypeOK, TypeOK', SendInv, HeldInv, NEW m \in msgs, Handle(m)
    PROVE  HeldInv'
<1>1. /\ m \in MsgType /\ m.s \in Sessions /\ To(m) \in Peers /\ Back(m) \in Sessions
      /\ Back(m)[2] = m.s[1] /\ m.s[2] = To(m) /\ msgs' = msgs \ {m} /\ forgot' = forgot
  BY HandleFacts
<1>2. ASSUME NEW p \in Peers, NEW i \in Items
      PROVE  /\ store[p][i] <= store'[p][i] /\ store[p][i] \in Nat /\ store'[p][i] \in Nat
             /\ p = To(m) => m.rows[i] <= store'[p][i]
  <2>1. store[p][i] \in Nat /\ store'[p][i] \in Nat
    BY DEF TypeOK, Versions
  <2> QED
    BY <2>1, HandleStoreFacts
<1>3. Grows
  BY <1>1, <1>2 DEF Grows
<1>4. ASSUME NEW s \in Sessions, NEW i \in Items
      PROVE  saved'[s][i] = saved[s][i] \/ <<s[2], i>> \in forgot' \/ saved'[s][i] <= store'[s[2]][i]
  <2>1. s[2] \in Peers /\ m.rows[i] \in Nat
    BY <1>1, SessionFacts DEF MsgType, Versions
  <2>2. \/ saved'[s][i] = saved[s][i] \/ saved'[s][i] = 0
        \/ s = Back(m) /\ saved'[s][i] = m.rows[i]
    BY HandleStoreFacts
  <2>3. Forgot(m.s[1], i) \/ m.rows[i] <= store[m.s[1]][i]
    BY DEF HeldInv
  <2>4. store[s[2]][i] <= store'[s[2]][i] /\ store[s[2]][i] \in Nat /\ store'[s[2]][i] \in Nat
    BY <2>1, <1>2
  <2> QED
    BY <1>1, <2>1, <2>2, <2>3, <2>4 DEF Forgot
<1>5. ASSUME NEW s \in Sessions, NEW i \in Items, call'[s].at = "answered"
      PROVE  \/ call[s].at = "answered" /\ call'[s].rows = call[s].rows
             \/ <<s[2], i>> \in forgot' \/ call'[s].rows[i] <= store'[s[2]][i]
  <2>1. /\ call'[s].rows = call[s].rows
        /\ ~(s = m.s /\ Answers(m)) => call'[s].at = call[s].at
    BY HandleCallFacts
  <2>2. CASE s = m.s /\ Answers(m)
    <3>1. m.rows = call[s].rows
      BY <2>2, AnswerFacts
    <3>2. m.rows[i] <= store'[s[2]][i]
      BY <1>1, <1>2, <2>2
    <3> QED
      BY <2>1, <3>1, <3>2
  <2>3. CASE ~(s = m.s /\ Answers(m))
    BY <1>5, <2>1, <2>3
  <2> QED
    BY <2>2, <2>3
<1>6. ASSUME NEW p \in Peers, NEW q \in Peers
      PROVE  \/ cached'[p][q] = cached[p][q]
             \/ <<p, Conn(q)>> \in forgot' \/ cached'[p][q] <= store'[p][Conn(q)]
  <2>1. store'[p][Conn(q)] \in Nat
    BY <1>2, ItemFacts
  <2>2. CASE Recompute(To(m), store'[To(m)])
    <3>1. store'[To(m)] \in Versions
      BY <1>1 DEF TypeOK
    <3>2. cached'[p][q] = cached[p][q] \/ (p = To(m) /\ cached'[p][q] \in {0, store'[To(m)][Conn(q)]})
      BY <1>1, <2>2, <3>1, RecomputeFacts
    <3> QED
      BY <2>1, <3>2
  <2> QED
    BY <2>2, HandleFacts
<1> QED
  BY <1>1, <1>3, <1>4, <1>5, <1>6, FrameHeld

\* Every step keeps what is saved among what is held.
LEMMA NextHeld == AheadInv /\ AheadInv' /\ SendInv /\ HeldInv /\ [Next]_vars => HeldInv'
<1> SUFFICES ASSUME AheadInv, AheadInv', SendInv, HeldInv, [Next]_vars PROVE HeldInv'
  OBVIOUS
<1>0. TypeOK /\ TypeOK'
  BY DEF AheadInv
<1>1. CASE UNCHANGED vars
  <2>1. UNCHANGED <<store, saved, msgs, call, cached, forgot>>
    BY <1>1 DEF vars, nodes, sessions, ghosts
  <2> QED
    BY <1>0, <2>1, FrameHeld, SameStoreGrows
<1>2. ASSUME NEW p \in Peers, update_my_conn_info(p) PROVE HeldInv'
  <2>1. /\ Touch(p, {Conn(p)}) /\ UNCHANGED <<saved, cached, msgs, forgot>> /\ Conn(p) \in Items
        /\ store' = [store EXCEPT ![p][Conn(p)] = @ + 1]
    BY <1>2, ItemFacts DEF update_my_conn_info, Conn, ghosts
  <2>2. Grows /\ \A s \in Sessions : call'[s].at = call[s].at /\ call'[s].rows = call[s].rows
    BY <1>0, <2>1, OwnItemGrows, TouchFacts
  <2> QED
    BY <1>0, <2>1, <2>2, FrameHeld
<1>3. ASSUME NEW p \in Peers, Refresh(p) PROVE HeldInv'
  <2>1. UNCHANGED <<store, saved, msgs, call, forgot>> /\ Recompute(p, store[p]) /\ store[p] \in Versions
    BY <1>0, <1>3 DEF Refresh, sessions, ghosts, TypeOK
  <2>2. \A a, q \in Peers : cached'[a][q] = cached[a][q] \/ (a = p /\ cached'[a][q] \in {0, store[p][Conn(q)]})
    BY <1>0, <2>1, RecomputeFacts
  <2>3. \A a, q \in Peers : store[a][Conn(q)] \in Nat
    BY <1>0, OriginNat, ItemFacts
  <2>4. \A a, q \in Peers : cached'[a][q] = cached[a][q] \/ cached'[a][q] <= store'[a][Conn(q)]
    BY <2>1, <2>2, <2>3
  <2> QED
    BY <1>0, <2>1, <2>4, FrameHeld, SameStoreGrows
<1>4. ASSUME NEW s \in Sessions, StartSession(s) PROVE HeldInv'
  <2>1. UNCHANGED <<store, saved, msgs, call, cached, forgot>>
    BY <1>4 DEF StartSession, nodes, ghosts
  <2> QED
    BY <1>0, <2>1, FrameHeld, SameStoreGrows
<1>5. CASE LinkChange
  <2>1. UNCHANGED <<store, saved, msgs, call, cached, forgot>>
    BY <1>5 DEF LinkChange, nodes, sessions, ghosts
  <2> QED
    BY <1>0, <2>1, FrameHeld, SameStoreGrows
<1>6. ASSUME NEW p \in Peers, update_my_peer_info(p) PROVE HeldInv'
  <2>1. /\ Touch(p, {<<p, "info">>}) /\ UNCHANGED <<saved, cached, msgs, forgot>> /\ <<p, "info">> \in Items
        /\ store' = [store EXCEPT ![p][<<p, "info">>] = @ + 1]
    BY <1>6 DEF update_my_peer_info, ghosts, Items
  <2>2. Grows
    BY <1>0, <2>1, OwnItemGrows
  <2>3. \A s \in Sessions : call'[s].at = call[s].at /\ call'[s].rows = call[s].rows
    BY <1>0, <2>1, TouchFacts
  <2> QED
    BY <1>0, <2>1, <2>2, <2>3, FrameHeld
<1>7. ASSUME NEW p \in Peers, clear_expired_peer(p) PROVE HeldInv'
  <2>1. /\ Grows /\ UNCHANGED <<saved, msgs, call>>
        /\ store'[p] \in Versions /\ Rebuild(p, store'[p], Reachable(p, store'[p]))
    BY <1>0, <1>7, ExpiryGrows DEF sessions
  <2>2. \A a, q \in Peers : cached'[a][q] = cached[a][q] \/ (a = p /\ cached'[a][q] \in {0, store'[p][Conn(q)]})
    BY <1>0, <2>1, RebuildFacts
  <2>3. \A a, q \in Peers : store'[a][Conn(q)] \in Nat
    BY <1>0, ItemFacts DEF TypeOK, Versions
  <2>4. \A a, q \in Peers : cached'[a][q] = cached[a][q] \/ cached'[a][q] <= store'[a][Conn(q)]
    BY <2>2, <2>3
  <2> QED
    BY <1>0, <2>1, <2>4, FrameHeld
<1>8. ASSUME NEW s \in Sessions, StopSession(s) PROVE HeldInv'
  <2>1. /\ saved' = [saved EXCEPT ![s] = Nothing] /\ call' = [call EXCEPT ![s] = Idle]
        /\ UNCHANGED <<store, msgs, cached, forgot>> /\ Idle.at = "idle" /\ \A i \in Items : Nothing[i] = 0
    BY <1>8 DEF StopSession, nodes, ghosts, Idle, Nothing
  <2>2. \A a \in Sessions : call'[a].at = "answered" => call[a].at = "answered" /\ call'[a].rows = call[a].rows
    BY <1>0, <2>1 DEF TypeOK
  <2>3. \A a \in Sessions, i \in Items : store[a[2]][i] \in Nat
    BY <1>0, SessionFacts, OriginNat
  <2>4. \A a \in Sessions : saved'[a] \in {saved[a], Nothing}
    BY <1>0, <2>1 DEF TypeOK
  <2>5. \A a \in Sessions, i \in Items : saved'[a][i] = saved[a][i] \/ saved'[a][i] <= store'[a[2]][i]
    BY <2>1, <2>3, <2>4
  <2> QED
    BY <1>0, <2>1, <2>2, <2>5, FrameHeld, SameStoreGrows
<1>9. ASSUME NEW s \in Sessions, Timeout(s) PROVE HeldInv'
  <2>1. /\ call' = [call EXCEPT ![s] = Idle] /\ Idle.at = "idle"
        /\ UNCHANGED <<store, saved, cached, forgot>> /\ msgs' \subseteq msgs
    BY <1>9 DEF Timeout, Idle, sessions, nodes, ghosts
  <2>2. \A a \in Sessions : call'[a].at = "answered" => call[a].at = "answered" /\ call'[a].rows = call[a].rows
    BY <1>0, <2>1 DEF TypeOK
  <2> QED
    BY <1>0, <2>1, <2>2, FrameHeld, SameStoreGrows
<1> QED
  BY <1>0, <1>1, <1>2, <1>3, <1>4, <1>5, <1>6, <1>7, <1>8, <1>9,
     SyncHeld, DoneHeld, HandleHeld DEF Next, Tasks

\* Always, requests and what is believed saved are held.
LEMMA AlwaysHeld == Spec => [](AheadInv /\ SendInv /\ HeldInv)
<1>1. Init => SendInv /\ HeldInv
  BY InitSend, InitHeld
<1> QED
  BY <1>1, InitAhead, NextAhead, NextSend, NextHeld, PTL DEF Spec

\* What a session takes for saved by the other side the other side has, unless
\* it removed it: requests may be lost, late or answered after a restart.
THEOREM SavedVersionsAreHeld == Spec => []SavedIsHeld
<1>1. HeldInv => SavedIsHeld
  BY DEF HeldInv
<1> QED
  BY <1>1, AlwaysHeld, PTL
-----------------------------------------------------------------------------
(* No silent gap                                                           *)

Remembered(s, i) == i \in since[s] \/ i \in unreach[s] \/ Lost(s, i)
Carried(s, i) ==
    \/ call[s].at = "idle" \/ i \in call[s].new
    \/ i \in unreach[s] \/ Lost(s, i) \/ store[s[1]][i] <= call[s].rows[i]

\* What the other side lacks is remembered, and a request under way carries it
\* or leaves it remembered: NoSilentGap and CarryInv in one.
GapInv == \A s \in Sessions, i \in Items : Lacks(s, i) => Remembered(s, i) /\ Carried(s, i)

\* The invariant is what it was taken apart from.
LEMMA GapSplit == GapInv <=> NoSilentGap /\ CarryInv
BY DEF GapInv, NoSilentGap, CarryInv, Gap, Lacks, Forgot, Lost, Remembered, Carried

\* What is not saved by the other side is unsaved here.
LEMMA LacksUnsaved ==
    ASSUME TypeOK, HeldInv, NEW s \in Sessions, NEW i \in Items, Lacks(s, i)
    PROVE  i[1] # s[2] /\ store[s[1]][i] > saved[s][i] /\ store[s[1]][i] > 0
<1>1. s[1] \in Peers /\ s[2] \in Peers
  BY SessionFacts
<1>2. store[s[1]][i] \in Nat /\ store[s[2]][i] \in Nat /\ saved[s][i] \in Nat
  BY <1>1 DEF TypeOK, Versions
<1>3. saved[s][i] <= store[s[2]][i]
  BY DEF Lacks, Forgot, HeldInv, SavedIsHeld
<1> QED
  BY <1>2, <1>3 DEF Lacks

\* The same after a step.
LEMMA LacksUnsavedNext ==
    ASSUME TypeOK', HeldInv', NEW s \in Sessions, NEW i \in Items, Lacks(s, i)'
    PROVE  i[1] # s[2] /\ store'[s[1]][i] > saved'[s][i] /\ store'[s[1]][i] > 0
<1>1. s[1] \in Peers /\ s[2] \in Peers
  BY SessionFacts
<1>2. store'[s[1]][i] \in Nat /\ store'[s[2]][i] \in Nat /\ saved'[s][i] \in Nat
  BY <1>1 DEF TypeOK, Versions
<1>3. saved'[s][i] <= store'[s[2]][i]
  BY DEF Lacks, Forgot, HeldInv, SavedIsHeld
<1> QED
  BY <1>2, <1>3 DEF Lacks

\* Initially linked peers have the same.
LEMMA InitGap == ASSUME Init PROVE GapInv
<1>1. ASSUME NEW s \in Sessions, NEW i \in Items PROVE ~Lacks(s, i)
  <2>1. sid[s] # 0 => Linked(s)
    BY DEF Init
  <2>2. Linked(s) => store[s[1]][i] = store[s[2]][i]
    BY InitSame
  <2>3. store[s[1]][i] \in Nat
    BY InitAhead, SessionFacts, OriginNat DEF AheadInv
  <2> QED
    BY <2>1, <2>2, <2>3 DEF Lacks
<1> QED
  BY <1>1 DEF GapInv

\* What s, which lacks an item, remembers and carries of it is kept: its sets,
\* its call and the sender's version are as before.
LEMMA SameSessionGap ==
    ASSUME TypeOK, TypeOK', GapInv, Grows, NEW s \in Sessions, NEW i \in Items, Lacks(s, i)',
           sid[s] # 0, store'[s[1]][i] <= store[s[1]][i], skipped \subseteq skipped',
           i \in since[s] => i \in since'[s], i \in unreach[s] => i \in unreach'[s] \/ Lost(s, i)',
           \/ call'[s].at = "idle"
           \/ call[s].at # "idle" /\ call'[s].rows = call[s].rows /\ call[s].new \subseteq call'[s].new
    PROVE  Lacks(s, i) /\ Remembered(s, i)' /\ Carried(s, i)'
<1>1. s[1] \in Peers /\ s[2] \in Peers
  BY SessionFacts
<1>2. /\ store[s[1]][i] \in Nat /\ store[s[2]][i] \in Nat
      /\ store'[s[1]][i] \in Nat /\ store'[s[2]][i] \in Nat
  BY SessionNat, SessionNatNext
<1>3. <<s[2], i>> \notin forgot' /\ forgot \subseteq forgot' /\ store[s[2]][i] <= store'[s[2]][i]
  BY <1>1 DEF Lacks, Forgot, Grows
<1>4. Lacks(s, i)
  BY <1>2, <1>3 DEF Lacks, Forgot
<1>5. Remembered(s, i) /\ Carried(s, i)
  BY <1>4 DEF GapInv
<1>6. Lost(s, i) => Lost(s, i)'
  BY DEF Lost
<1>7. Remembered(s, i)'
  BY <1>5, <1>6 DEF Remembered
<1>8. call[s].rows[i] \in Nat
  BY SessionNat
<1>9. Carried(s, i)'
  <2>1. CASE call'[s].at = "idle"
    BY <2>1 DEF Carried
  <2>2. CASE call[s].at # "idle" /\ call'[s].rows = call[s].rows /\ call[s].new \subseteq call'[s].new
    BY <2>2, <1>2, <1>5, <1>6, <1>8 DEF Carried
  <2> QED
    BY <2>1, <2>2
<1> QED
  BY <1>4, <1>7, <1>9

\* A step that leaves the sessions and the sender's versions alone, or ends them.
LEMMA FrameGap ==
    ASSUME TypeOK, TypeOK', GapInv, Grows, skipped' = skipped,
           \A p \in Peers, i \in Items : store'[p][i] <= store[p][i],
           \A s \in Sessions :
              \/ sid'[s] = 0
              \/ /\ sid'[s] = sid[s] /\ since'[s] = since[s] /\ unreach'[s] = unreach[s]
                 /\ call'[s].at = "idle" \/ call'[s] = call[s]
    PROVE  GapInv'
<1> SUFFICES ASSUME NEW s \in Sessions, NEW i \in Items, Lacks(s, i)'
             PROVE  Remembered(s, i)' /\ Carried(s, i)'
  BY DEF GapInv
<1>1. s[1] \in Peers /\ sid'[s] # 0 /\ store'[s[1]][i] <= store[s[1]][i]
  BY SessionFacts DEF Lacks
<1> QED
  BY <1>1, SameSessionGap

\* A peer's own item grows and is due for each of its sessions.
LEMMA OwnItemGap ==
    ASSUME TypeOK, TypeOK', GapInv, NEW p \in Peers, NEW j \in Items, Touch(p, {j}),
           store' = [store EXCEPT ![p][j] = @ + 1], UNCHANGED <<sid, unreach, skipped, forgot>>
    PROVE  GapInv'
<1> SUFFICES ASSUME NEW s \in Sessions, NEW i \in Items, Lacks(s, i)'
             PROVE  Remembered(s, i)' /\ Carried(s, i)'
  BY DEF GapInv
<1>1. s[1] \in Peers /\ sid[s] # 0 /\ store[s[1]][i] \in Nat
  BY SessionFacts, OriginNat DEF Lacks
<1>2. /\ Grows
      /\ store'[s[1]][i] = IF s[1] = p /\ i = j THEN store[s[1]][i] + 1 ELSE store[s[1]][i]
  <2>1. /\ Grows
        /\ \A q \in Peers, k \in Items :
             store'[q][k] = IF q = p /\ k = j THEN store[q][k] + 1 ELSE store[q][k]
    BY OwnItemGrows
  <2> QED
    BY <1>1, <2>1
<1>3. /\ call'[s].at = call[s].at /\ call'[s].rows = call[s].rows
      /\ call[s].new \subseteq call'[s].new /\ since[s] \subseteq since'[s]
      /\ s[1] = p => j \in since'[s]
      /\ s[1] = p /\ call[s].at # "idle" => j \in call'[s].new
  BY <1>1, TouchFacts
<1>4. CASE s[1] = p /\ i = j
  BY <1>3, <1>4 DEF Remembered, Carried
<1>5. CASE ~(s[1] = p /\ i = j)
  BY <1>1, <1>2, <1>3, <1>5, SameSessionGap
<1> QED
  BY <1>4, <1>5

\* A session starts with everything due.
LEMMA StartSessionGap ==
    ASSUME TypeOK, TypeOK', SendInv, HeldInv', GapInv, NEW b \in Sessions, StartSession(b)
    PROVE  GapInv'
<1> SUFFICES ASSUME NEW s \in Sessions, NEW i \in Items, Lacks(s, i)'
             PROVE  Remembered(s, i)' /\ Carried(s, i)'
  BY DEF GapInv
<1>1. /\ since' = [since EXCEPT ![b] = Unsaved(b, Items, store[b[1]], Nothing)]
      /\ sid' = [sid EXCEPT ![b] = made[b] + 1] /\ sid[b] = 0
      /\ UNCHANGED <<store, unreach, call, skipped, forgot>>
  BY DEF StartSession, NewSession, nodes, ghosts
<1>2. CASE s = b
  <2>1. call'[s].at = "idle"
    BY <1>1, <1>2 DEF SendInv, IdInv
  <2>2. i[1] # b[2] /\ store[b[1]][i] > 0 /\ Nothing[i] = 0
    BY <1>1, <1>2, LacksUnsavedNext DEF Nothing
  <2>3. i \in since'[s]
    BY <1>1, <1>2, <2>2 DEF Unsaved, TypeOK
  <2> QED
    BY <2>1, <2>3 DEF Remembered, Carried
<1>3. CASE s # b
  <2>1. sid[s] = sid'[s] /\ since'[s] = since[s] /\ sid'[s] # 0
    BY <1>1, <1>3 DEF TypeOK, Lacks
  <2>2. store'[s[1]][i] <= store[s[1]][i]
    <3>1. store[s[1]][i] \in Nat
      BY SessionNat
    <3> QED
      BY <1>1, <3>1
  <2> QED
    BY <1>1, <2>1, <2>2, SameStoreGrows, SameSessionGap
<1> QED
  BY <1>2, <1>3

\* A request takes the items that are due and reachable; the others stay
\* among the unreachable ones.
LEMMA SyncGap ==
    ASSUME TypeOK, TypeOK', HeldInv, GapInv, NEW b \in Sessions, sync_route_with_peer(b)
    PROVE  GapInv'
<1> SUFFICES ASSUME NEW s \in Sessions, NEW i \in Items, Lacks(s, i)'
             PROVE  Remembered(s, i)' /\ Carried(s, i)'
  BY DEF GapInv
<1> DEFINE rows == Request(b, Chosen(b))
<1>1. /\ call' = [call EXCEPT ![b] = NewCall(b)] /\ unreach' = [unreach EXCEPT ![b] = Kept(b)]
      /\ skipped' = skipped \cup {<<b, j, "missed">> : j \in {k \in Chosen(b) : rows[k] < store[b[1]][k]}}
      /\ UNCHANGED <<store, sid, since, saved, forgot>>
  BY SyncFacts DEF nodes
<1>2. CASE s # b
  <2>1. call'[s] = call[s] /\ unreach'[s] = unreach[s] /\ sid[s] # 0
    BY <1>1, <1>2 DEF TypeOK, Lacks
  <2>2. store'[s[1]][i] <= store[s[1]][i]
    <3>1. store[s[1]][i] \in Nat
      BY SessionNat
    <3> QED
      BY <1>1, <3>1
  <2> QED
    BY <1>1, <2>1, <2>2, SameStoreGrows, SameSessionGap
<1>3. CASE s = b
  <2>1. Lacks(b, i)
    BY <1>1, <1>3 DEF Lacks, Forgot
  <2>2. i \in since[b] \/ i \in unreach[b] \/ Lost(b, i)
    BY <2>1 DEF GapInv, Remembered
  <2>3. i[1] # b[2] /\ store[b[1]][i] > saved[b][i]
    BY <2>1, LacksUnsaved
  <2>4. i \in since[b] \/ i \in unreach[b] => i \in Due(b)
    BY <2>3 DEF Due, Unsaved
  <2>5. Lost(b, i) => Lost(b, i)'
    BY <1>1 DEF Lost
  <2>6. unreach'[b] = Kept(b) /\ call'[b] = NewCall(b) /\ NewCall(b).rows = rows
    <3>1. NewCall(b).rows = rows
      BY NewCallFacts
    <3> HIDE DEF rows
    <3>2. unreach'[b] = Kept(b) /\ call'[b] = NewCall(b)
      BY <1>1 DEF TypeOK
    <3> QED
      BY <3>1, <3>2
  <2>7. i \in unreach[b] => i \in Kept(b)
    BY <2>4 DEF Kept
  <2>8. Remembered(b, i)'
    BY <1>1, <2>2, <2>5, <2>6, <2>7 DEF Remembered
  <2>9. CASE i \in Due(b) /\ i \notin Kept(b)
    <3>1. i \in Chosen(b)
      BY <2>9 DEF Kept
    <3>2. rows[i] \in Nat /\ store[b[1]][i] \in Nat
      <4>1. rows \in Versions
        BY RequestFacts, ChosenFacts
      <4>2. store[b[1]][i] \in Nat
        BY SessionNat
      <4> HIDE DEF rows
      <4> QED
        BY <4>1, <4>2 DEF Versions
    <3>3. rows[i] < store[b[1]][i] => Lost(b, i)'
      BY <1>1, <3>1 DEF Lost
    <3>4. store'[b[1]][i] <= call'[b].rows[i] \/ Lost(b, i)'
      BY <1>1, <2>6, <3>2, <3>3
    <3> QED
      BY <1>3, <2>8, <3>4 DEF Carried
  <2>10. CASE i \in Kept(b) \/ Lost(b, i)
    BY <1>3, <2>5, <2>6, <2>8, <2>10 DEF Carried
  <2> QED
    BY <2>2, <2>4, <2>9, <2>10
<1> QED
  BY <1>2, <1>3

\* An answer: what was carried the other side has, the rest is still remembered.
LEMMA DoneGap ==
    ASSUME TypeOK, TypeOK', HeldInv, HeldInv', GapInv, NEW b \in Sessions, Done(b)
    PROVE  GapInv'
<1> SUFFICES ASSUME NEW s \in Sessions, NEW i \in Items, Lacks(s, i)'
             PROVE  Remembered(s, i)' /\ Carried(s, i)'
  BY DEF GapInv
<1>1. /\ call[b].at = "answered" /\ call' = [call EXCEPT ![b] = Idle] /\ Idle.at = "idle"
      /\ unreach' = [unreach EXCEPT ![b] = IF call[b].id # dst[b] THEN {} ELSE unreach[b]]
      /\ since' = [since EXCEPT ![b] = Unsaved(b, call[b].new, store[b[1]], saved'[b])]
      /\ skipped' = IF call[b].id # dst[b] THEN LoseSight(b) ELSE skipped
      /\ UNCHANGED <<store, sid, forgot>>
  BY DoneFacts DEF nodes, Idle
<1>2. skipped \subseteq skipped'
  BY <1>1, LoseSightFacts
<1>3. CASE s # b
  <2>1. call'[s] = call[s] /\ unreach'[s] = unreach[s] /\ since'[s] = since[s] /\ sid[s] # 0
    BY <1>1, <1>3 DEF TypeOK, Lacks
  <2>2. store'[s[1]][i] <= store[s[1]][i]
    <3>1. store[s[1]][i] \in Nat
      BY SessionNat
    <3> QED
      BY <1>1, <3>1
  <2> QED
    BY <1>1, <1>2, <2>1, <2>2, SameStoreGrows, SameSessionGap
<1>4. CASE s = b
  <2>1. Lacks(b, i)
    BY <1>1, <1>4 DEF Lacks, Forgot
  <2>2. call'[b].at = "idle"
    BY <1>1 DEF TypeOK
  <2>3. i \in call[b].new \/ i \in unreach[b] \/ Lost(b, i) \/ store[b[1]][i] <= call[b].rows[i]
    BY <1>1, <2>1 DEF GapInv, Carried
  <2>4. ~(store[b[1]][i] <= call[b].rows[i])
    <3>1. call[b].rows[i] <= store[b[2]][i]
      BY <1>1, <2>1 DEF HeldInv, Lacks
    <3>2. store[b[1]][i] \in Nat /\ store[b[2]][i] \in Nat /\ call[b].rows[i] \in Nat
      BY SessionNat
    <3> QED
      BY <2>1, <3>1, <3>2 DEF Lacks
  <2>5. i \in call[b].new => i \in since'[b]
    <3>1. i[1] # b[2] /\ store'[b[1]][i] > saved'[b][i]
      BY <1>4, LacksUnsavedNext
    <3>2. since'[b] = Unsaved(b, call[b].new, store[b[1]], saved'[b])
      BY <1>1 DEF TypeOK
    <3> QED
      BY <1>1, <3>1, <3>2 DEF Unsaved
  <2>6. Lost(b, i) => Lost(b, i)'
    BY <1>2 DEF Lost
  <2>7. i \in unreach[b] => i \in unreach'[b] \/ Lost(b, i)'
    <3>1. CASE call[b].id = dst[b]
      BY <1>1, <3>1 DEF TypeOK
    <3>2. CASE call[b].id # dst[b]
      BY <1>1, <3>2, LoseSightFacts DEF Lost
    <3> QED
      BY <3>1, <3>2
  <2> QED
    BY <1>4, <2>2, <2>3, <2>4, <2>5, <2>6, <2>7 DEF Remembered, Carried
<1> QED
  BY <1>3, <1>4

\* A request is handled: what it brought is due for the receiver's sessions,
\* and a session of the other side that is new is sent everything.
LEMMA HandleGap ==
    ASSUME TypeOK, TypeOK', SendInv, HeldInv', GapInv, NEW m \in msgs, Handle(m)
    PROVE  GapInv'
<1> SUFFICES ASSUME NEW s \in Sessions, NEW i \in Items, Lacks(s, i)'
             PROVE  Remembered(s, i)' /\ Carried(s, i)'
  BY DEF GapInv
<1>1. /\ To(m) \in Peers /\ Back(m) \in Sessions /\ Back(m)[1] = To(m)
      /\ \/ sid[Back(m)] # 0 /\ UNCHANGED <<sid, made>>
         \/ sid[Back(m)] = 0 /\ NewSession(Back(m))
      /\ unreach' = [unreach EXCEPT ![Back(m)] = IF Renewed(m) THEN {} ELSE unreach[Back(m)]]
      /\ skipped' = IF Renewed(m) /\ call[Back(m)].at # "idle" THEN LoseSight(Back(m)) ELSE skipped
      /\ forgot' = forgot
  BY HandleFacts
<1>2. skipped \subseteq skipped'
  BY <1>1, LoseSightFacts
<1>3. s[1] \in Peers /\ sid'[s] # 0 /\ s \in Sessions
  BY SessionFacts DEF Lacks
<1>4. sid'[s] = sid[s] \/ (s = Back(m) /\ sid[s] = 0)
  <2>1. CASE sid[Back(m)] = 0 /\ NewSession(Back(m))
    <3>1. sid' = [sid EXCEPT ![Back(m)] = made[Back(m)] + 1]
      BY <2>1 DEF NewSession
    <3> QED
      BY <2>1, <3>1, <1>1 DEF TypeOK
  <2> QED
    BY <1>1, <2>1
<1>5. /\ call'[s].rows = call[s].rows /\ call[s].new \subseteq call'[s].new
      /\ call'[s].at # "idle" => call[s].at # "idle"
      /\ s[1] = To(m) /\ call[s].at # "idle" => Newer(m) \subseteq call'[s].new
  BY HandleCallFacts DEF Answers
<1>6. Grows /\ (i \notin Newer(m) \/ s[1] # To(m) => store'[s[1]][i] = store[s[1]][i])
  BY <1>1, <1>3, HandleStoreFacts DEF Grows
<1>7. /\ i[1] # s[2] /\ store'[s[1]][i] > saved'[s][i]
      /\ store[s[1]][i] \in Nat
  BY <1>3, LacksUnsavedNext, OriginNat
<1>8. since'[s] = IF s[1] # To(m) THEN since[s]
                  ELSE Unsaved(s, IF s = Back(m) /\ (Renewed(m) \/ sid[s] = 0) THEN Items
                                  ELSE since[s] \cup Newer(m), store'[To(m)], saved'[s])
  BY <1>3, HandleFacts
<1>9. CASE s[1] # To(m)
  <2>1. s # Back(m) /\ since'[s] = since[s]
    BY <1>1, <1>8, <1>9
  <2>2. unreach'[s] = unreach[s]
    BY <1>1, <2>1 DEF TypeOK
  <2>3. sid[s] # 0 /\ store'[s[1]][i] <= store[s[1]][i]
    BY <1>3, <1>4, <1>6, <1>7, <1>9, <2>1
  <2> QED
    BY <1>2, <1>5, <1>6, <2>1, <2>2, <2>3, SameSessionGap
<1>10. CASE s[1] = To(m)
  <2>1. ASSUME i \in since[s] \/ i \in Newer(m) \/ (s = Back(m) /\ (Renewed(m) \/ sid[s] = 0))
        PROVE  i \in since'[s]
    BY <1>7, <1>8, <1>10, <2>1 DEF Unsaved
  <2>2. call[s].at # "idle" /\ i \in unreach[s] => i \in unreach'[s] \/ Lost(s, i)'
    <3>1. CASE s = Back(m) /\ Renewed(m)
      BY <1>1, <3>1, LoseSightFacts DEF Lost
    <3>2. CASE ~(s = Back(m) /\ Renewed(m))
      BY <1>1, <1>3, <3>2 DEF TypeOK
    <3> QED
      BY <3>1, <3>2
  <2>3. CASE i \in Newer(m)
    BY <1>5, <1>10, <2>1, <2>3 DEF Remembered, Carried
  <2>4. CASE i \notin Newer(m) /\ sid[s] = 0
    BY <1>3, <1>4, <1>5, <2>1, <2>4 DEF Remembered, Carried, SendInv, IdInv
  <2>5. CASE i \notin Newer(m) /\ sid[s] # 0 /\ call[s].at # "idle"
    <3>1. store'[s[1]][i] <= store[s[1]][i]
      BY <1>6, <1>7, <2>5
    <3> QED
      BY <1>2, <1>5, <1>6, <2>1, <2>2, <2>5, <3>1, SameSessionGap
  <2>6. CASE i \notin Newer(m) /\ sid[s] # 0 /\ call[s].at = "idle"
    <3>1. store'[s[1]][i] <= store[s[1]][i]
      BY <1>6, <1>7, <2>6
    <3>2. CASE s = Back(m) /\ Renewed(m)
      BY <1>5, <2>1, <2>6, <3>2 DEF Remembered, Carried
    <3>3. CASE ~(s = Back(m) /\ Renewed(m))
      <4>1. unreach'[s] = unreach[s]
        BY <1>1, <1>3, <3>3 DEF TypeOK
      <4> QED
        BY <1>2, <1>5, <1>6, <2>1, <2>6, <3>1, <4>1, SameSessionGap
    <3> QED
      BY <3>2, <3>3
  <2> QED
    BY <2>3, <2>4, <2>5, <2>6
<1> QED
  BY <1>9, <1>10

\* Every step leaves the gaps remembered.
LEMMA NextGap ==
    AheadInv /\ AheadInv' /\ SendInv /\ HeldInv /\ HeldInv' /\ GapInv /\ [Next]_vars => GapInv'
<1> SUFFICES ASSUME AheadInv, AheadInv', SendInv, HeldInv, HeldInv', GapInv, [Next]_vars PROVE GapInv'
  OBVIOUS
<1>0. TypeOK /\ TypeOK' /\ \A p \in Peers, i \in Items : store[p][i] <= store[p][i]
  BY OriginNat DEF AheadInv
<1>1. CASE UNCHANGED vars
  <2>1. UNCHANGED <<store, sid, since, unreach, call, forgot, skipped>>
    BY <1>1 DEF vars, nodes, sessions, ghosts
  <2> QED
    BY <1>0, <2>1, FrameGap, SameStoreGrows
<1>2. ASSUME NEW p \in Peers, update_my_conn_info(p) PROVE GapInv'
  <2>1. /\ Touch(p, {Conn(p)}) /\ UNCHANGED <<sid, unreach, skipped, forgot>> /\ Conn(p) \in Items
        /\ store' = [store EXCEPT ![p][Conn(p)] = @ + 1]
    BY <1>2, ItemFacts DEF update_my_conn_info, Conn, ghosts
  <2> QED
    BY <1>0, <2>1, OwnItemGap
<1>3. ASSUME NEW p \in Peers, Refresh(p) PROVE GapInv'
  <2>1. UNCHANGED <<store, sid, since, unreach, call, forgot, skipped>>
    BY <1>3 DEF Refresh, sessions, ghosts
  <2> QED
    BY <1>0, <2>1, FrameGap, SameStoreGrows
<1>4. CASE LinkChange
  <2>1. UNCHANGED <<store, sid, since, unreach, call, forgot, skipped>>
    BY <1>4 DEF LinkChange, nodes, sessions, ghosts
  <2> QED
    BY <1>0, <2>1, FrameGap, SameStoreGrows
<1>5. ASSUME NEW p \in Peers, update_my_peer_info(p) PROVE GapInv'
  <2> DEFINE j == <<p, "info">>
  <2>1. /\ Touch(p, {j}) /\ UNCHANGED <<sid, unreach, skipped, forgot>> /\ j \in Items
        /\ store' = [store EXCEPT ![p][j] = @ + 1]
    BY <1>5 DEF update_my_peer_info, ghosts, Items
  <2> HIDE DEF j
  <2> QED
    BY <1>0, <2>1, OwnItemGap
<1>6. ASSUME NEW p \in Peers, clear_expired_peer(p) PROVE GapInv'
  <2>1. /\ Grows /\ UNCHANGED <<sid, since, unreach, call, skipped>>
        /\ \A a \in Peers, i \in Items : store'[a][i] <= store[a][i]
    BY <1>0, <1>6, ExpiryGrows DEF sessions
  <2> QED
    BY <1>0, <2>1, FrameGap
<1>7. ASSUME NEW b \in Sessions, StopSession(b) PROVE GapInv'
  <2>1. /\ sid' = [sid EXCEPT ![b] = 0] /\ since' = [since EXCEPT ![b] = {}]
        /\ unreach' = [unreach EXCEPT ![b] = {}] /\ call' = [call EXCEPT ![b] = Idle]
        /\ UNCHANGED <<store, forgot, skipped>>
    BY <1>7 DEF StopSession, nodes, ghosts
  <2>2. \A s \in Sessions :
              \/ sid'[s] = 0
              \/ /\ sid'[s] = sid[s] /\ since'[s] = since[s] /\ unreach'[s] = unreach[s]
                 /\ call'[s] = call[s]
    BY <1>0, <2>1 DEF TypeOK
  <2> QED
    BY <1>0, <2>1, <2>2, FrameGap, SameStoreGrows
<1>8. ASSUME NEW b \in Sessions, Timeout(b) PROVE GapInv'
  <2>1. /\ call' = [call EXCEPT ![b] = Idle] /\ Idle.at = "idle"
        /\ UNCHANGED <<store, sid, since, unreach, forgot, skipped>>
    BY <1>8 DEF Timeout, Idle, sessions, nodes, ghosts
  <2>2. \A s \in Sessions : call'[s].at = "idle" \/ call'[s] = call[s]
    BY <1>0, <2>1 DEF TypeOK
  <2> QED
    BY <1>0, <2>1, <2>2, FrameGap, SameStoreGrows
<1> QED
  BY <1>0, <1>1, <1>2, <1>3, <1>4, <1>5, <1>6, <1>7, <1>8,
     StartSessionGap, SyncGap, DoneGap, HandleGap DEF Next, Tasks

\* An item that the other side has not got is never hidden from its session by
\* the time of the last sync, unless the session has lost sight of it.
THEOREM GapsAreNotSilent == Spec => []NoSilentGap
<1>1. Init => AheadInv /\ SendInv /\ HeldInv /\ GapInv
  BY InitAhead, InitSend, InitHeld, InitGap
<1>2. GapInv => NoSilentGap
  BY GapSplit
<1> QED
  BY <1>1, <1>2, NextAhead, NextSend, NextHeld, NextGap, PTL DEF Spec
=============================================================================
