------------------------------ MODULE RouteSync ------------------------------
(***************************************************************************)
(* How the peers of a network learn of each other: the route sessions of   *)
(* easytier-core (peers/peer_ospf_route.rs).  Every peer publishes two     *)
(* versioned items, its RoutePeerInfo and the set of peers it is connected *)
(* to; a session sends a neighbour the items that it is not known to have. *)
(*                                                                         *)
(* What a session sends is limited three times over: to items updated      *)
(* since the last successful sync, to versions that the other side has     *)
(* not saved, and to peers that the route table reaches.  A request is     *)
(* built, sent, handled and answered in separate steps, beside everything  *)
(* else; it may be lost, answered too late or handled after its session    *)
(* has gone.  A peer's id is drawn anew by every process, so a restart is  *)
(* a new peer.  Version 0 stands for no item as for the empty placeholder. *)
(***************************************************************************)
EXTENDS Naturals, Sequences, FiniteSets

CONSTANTS Peers,
          Possible,    \* the links, as sets of two peers, that may exist
          Initiators,  \* the sessions that their first peer initiates
          Changing,    \* the peers whose information changes
          Plans        \* bounds: the links that exist at first, those that then go
                       \* or come, one after the other, and how many other events
                       \* (changes, timeouts, removals, overlaps) there are

Items == Peers \X {"info", "conn"}
Sessions == {s \in Peers \X Peers : s[1] # s[2] /\ {s[1], s[2]} \in Possible}

ASSUME PossibleAssumption == \A l \in Possible : \E s \in Sessions : l = {s[1], s[2]}
ASSUME InitiatorsAssumption == Initiators \in SUBSET Sessions
ASSUME PlansAssumption == Plans \subseteq [first : SUBSET Possible, flaps : Seq(Possible), events : Nat]

VARIABLES
    links,    \* the links there are
    hist,     \* per peer: connected_peers of version 1, 2, ... of its conn item
    store,    \* peer_infos and conn_map: the version of each item
    dirty,    \* the items have changed since the next two were computed
    reach,    \* the peers the route table has a next hop for
    cached,   \* cached_local_conn_map: the version of each peer's row
    sid,      \* my_session_id; 0 without a session
    dst,      \* dst_session_id
    saved,    \* dst_saved_peer_info_versions and dst_saved_conn_info_version
    since,    \* items whose last_update is not before last_sync_succ_timestamp
    unreach,  \* unreachable_peers_for_peer_info and .._for_conn_info
    call,     \* the request a session waits for
    msgs,     \* requests on their way
    made,     \* session ids drawn so far
    plan,     \* the link changes and the other events to come
    forgot,   \* ghost: the items a peer has removed
    skipped   \* ghost: items that a session was due to send and has lost sight of

nodes == <<hist, store, dirty, reach, cached>>
sessions == <<sid, dst, saved, since, unreach>>
ghosts == <<forgot, skipped>>
vars == <<links, nodes, sessions, call, msgs, made, plan, ghosts>>

Nothing == [i \in Items |-> 0]
Idle == [at |-> "idle", n |-> 0, rows |-> Nothing, new |-> {}, id |-> 0]
Neighbours(p) == {q \in Peers : {p, q} \in links}
Linked(s) == {s[1], s[2]} \in links
\* p and q are joined by links.
Together(p, q) ==
    \A S \in SUBSET Peers : p \in S /\ (\A a \in S, b \in Peers : {a, b} \in links => b \in S) => q \in S

\* The peers that are linked have settled.
Init ==
    LET first(i) == IF i[2] = "conn" /\ Neighbours(i[1]) # {} THEN 2 ELSE 1 IN
    /\ plan \in Plans /\ links = plan.first
    /\ hist = [p \in Peers |-> IF Neighbours(p) = {} THEN <<{}>> ELSE <<{}, Neighbours(p)>>]
    /\ store = [p \in Peers |-> [i \in Items |-> IF Together(p, i[1]) THEN first(i) ELSE 0]]
    /\ dirty = {} /\ reach = [p \in Peers |-> {q \in Peers : Together(p, q)}]
    /\ cached = [p \in Peers |-> [q \in Peers |-> store[p][<<q, "conn">>]]]
    /\ sid = [s \in Sessions |-> IF Linked(s) THEN 1 ELSE 0] /\ dst = sid /\ made = sid
    /\ saved = [s \in Sessions |-> [i \in Items |-> IF Linked(s) /\ i[1] # s[2] THEN store[s[1]][i] ELSE 0]]
    /\ since = [s \in Sessions |-> {}] /\ unreach = [s \in Sessions |-> {}]
    /\ call = [s \in Sessions |-> Idle] /\ msgs = {}
    /\ forgot = {} /\ skipped = {}

Event == plan.events > 0 /\ plan' = [plan EXCEPT !.events = @ - 1]

\* Items of p were stored: last_update is now, for each of its sessions, also
\* for one whose request was built before.  Of the items updated since the last
\* sync only those are kept that the other side has not saved.
Touch(p, I) ==
    /\ since' = [s \in Sessions |-> IF s[1] = p /\ sid[s] # 0 THEN since[s] \cup I ELSE since[s]]
    /\ call' = [s \in Sessions |-> IF s[1] = p /\ call[s].at # "idle"
                                   THEN [call[s] EXCEPT !.new = @ \cup I] ELSE call[s]]

-----------------------------------------------------------------------------
(* A peer's own items and what is computed from all of them                *)

LinkChange ==
    /\ plan.flaps # <<>> /\ plan' = [plan EXCEPT !.flaps = Tail(@)]
    /\ LET l == Head(plan.flaps) IN links' = IF l \in links THEN links \ {l} ELSE links \cup {l}
    /\ UNCHANGED <<nodes, sessions, call, msgs, made, ghosts>>

\* Mutant: the version is not counted up.
ConnSameVersion(p) ==
    /\ hist[p][Len(hist[p])] # Neighbours(p)
    /\ hist' = [hist EXCEPT ![p] = Append(@, Neighbours(p))]
    /\ dirty' = dirty \cup {p}
    /\ Touch(p, {<<p, "conn">>})
    /\ UNCHANGED <<links, store, reach, cached, sid, dst, saved, unreach, msgs, made, plan, ghosts>>

\* Mutant: a peer without neighbours begins to count again.
ConnFromOne(p) ==
    /\ hist[p][Len(hist[p])] # Neighbours(p)
    /\ hist' = [hist EXCEPT ![p] = IF Neighbours(p) = {} THEN <<{}>> ELSE Append(@, Neighbours(p))]
    /\ store' = [store EXCEPT ![p][<<p, "conn">>] = IF Neighbours(p) = {} THEN 1 ELSE @ + 1]
    /\ dirty' = dirty \cup {p}
    /\ Touch(p, {<<p, "conn">>})
    /\ UNCHANGED <<links, reach, cached, sid, dst, saved, unreach, msgs, made, plan, ghosts>>

update_my_conn_info(p) ==
    /\ hist[p][Len(hist[p])] # Neighbours(p)
    /\ hist' = [hist EXCEPT ![p] = Append(@, Neighbours(p))]
    /\ store' = [store EXCEPT ![p][<<p, "conn">>] = @ + 1]
    /\ dirty' = dirty \cup {p}
    /\ Touch(p, {<<p, "conn">>})
    /\ UNCHANGED <<links, reach, cached, sid, dst, saved, unreach, msgs, made, plan, ghosts>>

update_my_peer_info(p) ==
    /\ p \in Changing /\ Event
    /\ store' = [store EXCEPT ![p][<<p, "info">>] = @ + 1]
    /\ dirty' = dirty \cup {p}
    /\ Touch(p, {<<p, "info">>})
    /\ UNCHANGED <<links, hist, reach, cached, sid, dst, saved, unreach, msgs, made, ghosts>>

\* The graph: an edge from each known peer to those its conn item names.
Edge(known, a, b) ==
    /\ known[<<a, "info">>] > 0 /\ known[<<b, "info">>] > 0
    /\ known[<<a, "conn">>] > 0 /\ b \in hist[a][known[<<a, "conn">>]]
Reachable(p, known) ==
    {q \in Peers : \A S \in SUBSET Peers :
        p \in S /\ (\A a \in S, b \in Peers : Edge(known, a, b) => b \in S) => q \in S}

\* update_route_table_and_cached_local_conn_bitmap: the bitmap has the peers that
\* the table T reaches, and is replaced only by one of a later version of the items.
Rebuild(p, known, T) ==
    /\ dirty' = dirty \ {p}
    /\ reach' = [reach EXCEPT ![p] = Reachable(p, known)]
    /\ \/ p \notin dirty /\ known = store[p] /\ UNCHANGED cached
       \/ /\ p \in dirty \/ known # store[p]
          /\ cached' = [cached EXCEPT ![p] = [q \in Peers |-> IF q \in T THEN known[<<q, "conn">>] ELSE 0]]

\* Another task may do the same at the same time: it has read the route table
\* before and the items after the change, and its bitmap stays.
Recompute(p, known) ==
    \/ Rebuild(p, known, Reachable(p, known)) /\ UNCHANGED plan
    \/ Rebuild(p, known, reach[p]) /\ Event

\* update_my_infos computes them anew after an await.
Refresh(p) ==
    /\ p \in dirty /\ Recompute(p, store[p])
    /\ UNCHANGED <<links, hist, store, sessions, call, msgs, made, ghosts>>

\* clear_expired_peer: no newer version for 90 s, and unreachable now, or none
\* for 3660 s.  A peer draws up its own information anew every hour.
clear_expired_peer(p) ==
    /\ Event
    /\ \E q \in Peers \ {p} :
         /\ \E i \in Items : i[1] = q /\ store[p][i] > 0
         /\ store' = [store EXCEPT ![p] = [i \in Items |-> IF i[1] = q THEN 0 ELSE @[i]]]
         /\ forgot' = forgot \cup {<<p, i>> : i \in {j \in Items : j[1] = q}}
    /\ Rebuild(p, store'[p], Reachable(p, store'[p]))
    /\ UNCHANGED <<links, hist, sessions, call, msgs, made, skipped>>

-----------------------------------------------------------------------------
(* Sessions                                                                *)

\* check_saved_*_update_to_date: the items the other side has not got.
Unsaved(s, I, known, sv) == {i \in I : i[1] # s[2] /\ known[i] > sv[i]}

\* The id of a session is random; all that matters is that it is a new one.
NewSession(s) == made' = [made EXCEPT ![s] = @ + 1] /\ sid' = [sid EXCEPT ![s] = made[s] + 1]

\* get_or_start_session, by maintain_sessions.
StartSession(s) ==
    /\ s \in Initiators /\ sid[s] = 0 /\ Linked(s)
    /\ NewSession(s)
    /\ since' = [since EXCEPT ![s] = Unsaved(s, Items, store[s[1]], Nothing)]
    /\ UNCHANGED <<links, nodes, dst, saved, unreach, call, msgs, plan, ghosts>>

\* The neighbour has gone; a request that was sent goes on without its session.
\* Were it lost with the link, it would be as if it had not been sent.
StopSession(s) ==
    /\ sid[s] # 0 /\ ~Linked(s)
    /\ sid' = [sid EXCEPT ![s] = 0] /\ dst' = [dst EXCEPT ![s] = 0]
    /\ saved' = [saved EXCEPT ![s] = Nothing] /\ since' = [since EXCEPT ![s] = {}]
    /\ unreach' = [unreach EXCEPT ![s] = {}]
    /\ call' = [call EXCEPT ![s] = Idle]
    /\ UNCHANGED <<links, nodes, msgs, made, plan, ghosts>>

\* build_route_info and build_conn_peer_list
Due(s) == Unsaved(s, since[s] \cup unreach[s], store[s[1]], saved[s])
Chosen(s) == {i \in Due(s) : i[1] \in reach[s[1]]}
\* Mutant: items that are not reachable are not remembered.
KeptNone(s) == {}

Kept(s) == Due(s) \ (Chosen(s) \ unreach[s])

\* build_conn_info: connections go as a list, or as the whole cached bitmap if
\* that is not larger or the other side is not known to understand lists.
ListSize(p, C) ==
    8 * Cardinality(C) + 4 * Cardinality({e \in C \X Peers : e[2] \in hist[e[1][1]][store[p][e[1]]]})
BitmapSize(p) ==
    LET R == {q \in Peers : cached[p][q] > 0}
        N == Cardinality(R \cup UNION {hist[q][cached[p][q]] : q \in R})
    IN (N * N + 7) \div 8 + 8 * N
UsesBitmap(s, C) ==
    /\ C # {}
    /\ store[s[1]][<<s[2], "info">>] = 0 \/ ListSize(s[1], C) >= BitmapSize(s[1])

\* build_sync_request: the version of each item that is sent, of the items I.
Request(s, I) ==
    LET bitmap == UsesBitmap(s, {i \in I : i[2] = "conn"}) IN
    [i \in Items |-> IF i[2] = "conn" /\ bitmap THEN cached[s[1]][i[1]]
                     ELSE IF i \in I THEN store[s[1]][i] ELSE 0]

\* Mutant: what is sent is taken for saved at once.
SyncAndSave(s) ==
    LET I == Chosen(s)
        rows == Request(s, I)
    IN
    /\ sid[s] # 0 /\ call[s].at = "idle" /\ Linked(s)
    /\ I # {} \/ (s \in Initiators /\ sid[<<s[2], s[1]>>] # dst[s])
    /\ call' = [call EXCEPT ![s] = [Idle EXCEPT !.at = "sent", !.n = plan.events, !.rows = rows]]
    /\ msgs' = msgs \cup {[s |-> s, id |-> sid[s], n |-> plan.events, rows |-> rows]}
    /\ saved' = [saved EXCEPT ![s] = [i \in Items |-> IF i \in I THEN rows[i] ELSE @[i]]]
    /\ unreach' = [unreach EXCEPT ![s] = Kept(s)]
    /\ UNCHANGED <<links, nodes, sid, dst, since, made, plan, ghosts>>

\* An initiator also sends a request without any row every ten seconds, which
\* changes nothing unless the other side has another session than it knows.
\* Without the link the call fails, and changes nothing.
sync_route_with_peer(s) ==
    LET I == Chosen(s)
        rows == Request(s, I)
    IN
    /\ sid[s] # 0 /\ call[s].at = "idle" /\ Linked(s)
    /\ I # {} \/ (s \in Initiators /\ sid[<<s[2], s[1]>>] # dst[s])
    /\ call' = [call EXCEPT ![s] = [Idle EXCEPT !.at = "sent", !.n = plan.events, !.rows = rows]]
    /\ msgs' = msgs \cup {[s |-> s, id |-> sid[s], n |-> plan.events, rows |-> rows]}
    /\ skipped' = skipped \cup {<<s, i, "missed">> : i \in {j \in I : rows[j] < store[s[1]][j]}}
    /\ unreach' = [unreach EXCEPT ![s] = Kept(s)]
    /\ UNCHANGED <<links, nodes, sid, dst, saved, since, made, plan, forgot>>

\* set_if_larger, for what is not the other side's own
Save(old, rows, q) == [i \in Items |-> IF i[1] # q /\ rows[i] > old[i] THEN rows[i] ELSE old[i]]

\* The unreachable items are cleared, and the answer to a request built before
\* sets last_sync_succ_timestamp again.
LoseSight(s) == skipped \cup {<<s, i, "cleared">> : i \in unreach[s]}

\* do_sync_route_info: the session is started if there is none; a new id of
\* the other side clears what was known of it.
Handle(m) ==
    LET p == m.s[2]
        b == <<p, m.s[1]>>
        renewed == m.id # dst[b]
        newer == {i \in Items : m.rows[i] > store[p][i]}
    IN
    /\ m \in msgs
    /\ \/ sid[b] # 0 /\ UNCHANGED <<sid, made>>
       \/ sid[b] = 0 /\ NewSession(b)
    /\ dst' = [dst EXCEPT ![b] = m.id]
    /\ saved' = [saved EXCEPT ![b] = Save(IF renewed THEN Nothing ELSE @, m.rows, m.s[1])]
    /\ unreach' = [unreach EXCEPT ![b] = IF renewed THEN {} ELSE @]
    /\ store' = [store EXCEPT ![p] = [i \in Items |-> IF i \in newer THEN m.rows[i] ELSE @[i]]]
    /\ IF m.rows = Nothing THEN UNCHANGED <<dirty, reach, cached, plan>> ELSE Recompute(p, store'[p])
    /\ since' = [s \in Sessions |->
                   IF s[1] # p \/ sid'[s] = 0 THEN since[s]
                   ELSE Unsaved(s, IF s = b /\ (renewed \/ sid[s] = 0) THEN Items ELSE since[s] \cup newer,
                                store'[p], saved'[s])]
    /\ call' = [s \in Sessions |->
                  IF s = m.s /\ call[s].at = "sent" /\ m.id = sid[s] /\ m.n = call[s].n
                  THEN [call[s] EXCEPT !.at = "answered", !.id = sid'[b]]
                  ELSE IF s[1] = p /\ call[s].at # "idle" THEN [call[s] EXCEPT !.new = @ \cup newer]
                  ELSE call[s]]
    /\ msgs' = msgs \ {m}
    /\ skipped' = IF renewed /\ call[b].at # "idle" THEN LoseSight(b) ELSE skipped
    /\ UNCHANGED <<links, hist, forgot>>

\* Mutant: the last successful sync is now.
DoneNow(s) ==
    LET c == call[s] IN
    /\ c.at = "answered"
    /\ dst' = [dst EXCEPT ![s] = c.id]
    /\ saved' = [saved EXCEPT ![s] = Save(IF c.id # dst[s] THEN Nothing ELSE @, c.rows, s[2])]
    /\ unreach' = [unreach EXCEPT ![s] = IF c.id # dst[s] THEN {} ELSE @]
    /\ since' = [since EXCEPT ![s] = {}]
    /\ call' = [call EXCEPT ![s] = Idle]
    /\ skipped' = IF c.id # dst[s] THEN LoseSight(s) ELSE skipped
    /\ UNCHANGED <<links, nodes, sid, msgs, made, plan, forgot>>

\* The answer: what was sent is saved by the other side, and the time at
\* which the request was built is that of the last successful sync.
Done(s) ==
    LET c == call[s] IN
    /\ c.at = "answered"
    /\ dst' = [dst EXCEPT ![s] = c.id]
    /\ saved' = [saved EXCEPT ![s] = Save(IF c.id # dst[s] THEN Nothing ELSE @, c.rows, s[2])]
    /\ unreach' = [unreach EXCEPT ![s] = IF c.id # dst[s] THEN {} ELSE @]
    /\ since' = [since EXCEPT ![s] = Unsaved(s, c.new, store[s[1]], saved'[s])]
    /\ call' = [call EXCEPT ![s] = Idle]
    /\ skipped' = IF c.id # dst[s] THEN LoseSight(s) ELSE skipped
    /\ UNCHANGED <<links, nodes, sid, msgs, made, plan, forgot>>

\* Three seconds have passed: the request or the answer is lost, or late.
Timeout(s) ==
    /\ call[s].at # "idle" /\ Event
    /\ call' = [call EXCEPT ![s] = Idle]
    /\ \/ UNCHANGED msgs
       \/ msgs' = {m \in msgs : m.s # s}
    /\ UNCHANGED <<links, nodes, sessions, made, ghosts>>

-----------------------------------------------------------------------------
\* What the tasks do on their own.
Tasks ==
    \/ \E p \in Peers : update_my_conn_info(p) \/ Refresh(p)
    \/ \E s \in Sessions : StartSession(s) \/ sync_route_with_peer(s) \/ Done(s)
    \/ \E m \in msgs : Handle(m)

Next ==
    \/ Tasks
    \/ LinkChange
    \/ \E p \in Peers : update_my_peer_info(p) \/ clear_expired_peer(p)
    \/ \E s \in Sessions : StopSession(s) \/ Timeout(s)

\* As long as some task can go on, one does; a request is lost or late only as
\* often as Timeout says.
Fairness == WF_vars(Tasks)

Spec == Init /\ [][Next]_vars /\ Fairness

-----------------------------------------------------------------------------
Versions == [Items -> Nat]

\* Every variable holds what the code can make of it; a peer's own conn item
\* counts its versions.
TypeOK ==
    /\ links \in SUBSET Possible
    /\ hist \in [Peers -> Seq(SUBSET Peers)] /\ store \in [Peers -> Versions]
    /\ dirty \in SUBSET Peers /\ reach \in [Peers -> SUBSET Peers] /\ cached \in [Peers -> [Peers -> Nat]]
    /\ sid \in [Sessions -> Nat] /\ dst \in [Sessions -> Nat] /\ made \in [Sessions -> Nat]
    /\ saved \in [Sessions -> Versions]
    /\ since \in [Sessions -> SUBSET Items] /\ unreach \in [Sessions -> SUBSET Items]
    /\ call \in [Sessions -> [at : {"idle", "sent", "answered"}, n : Nat, id : Nat,
                              rows : Versions, new : SUBSET Items]]
    /\ \A m \in msgs : m \in [s : Sessions, id : Nat, n : Nat, rows : Versions]
    /\ plan \in [first : SUBSET Possible, flaps : Seq(Possible), events : Nat]
    /\ forgot \in SUBSET (Peers \X Items) /\ skipped \in SUBSET (Sessions \X Items \X {"missed", "cleared"})
    /\ \A p \in Peers : Len(hist[p]) = store[p][<<p, "conn">>]

Origin(i) == store[i[1]][i]

\* Whatever is lost, late or handled out of order, nobody has, sends or is
\* believed to have a newer version of an item than the peer it is about:
\* update_peer_infos would replace that peer's own information by it.
NotAhead ==
    \A i \in Items :
      /\ \A p \in Peers : store[p][i] <= Origin(i)
      /\ \A s \in Sessions : saved[s][i] <= Origin(i) /\ call[s].rows[i] <= Origin(i)
      /\ \A m \in msgs : m.rows[i] <= Origin(i)

\* What a session takes for saved by the other side, and does not send again,
\* the other side has, unless it has removed it (clear_expired_peer).
SavedIsHeld ==
    \A s \in Sessions, i \in Items : <<s[2], i>> \notin forgot => saved[s][i] <= store[s[2]][i]

Gap(s, i) ==
    /\ sid[s] # 0 /\ i[1] # s[2] /\ <<s[2], i>> \notin forgot
    /\ store[s[1]][i] > store[s[2]][i]
    /\ i \notin since[s] \cup unreach[s]

\* An item that the other side has not got is never hidden from its session by
\* last_sync_succ_timestamp, unless the session has lost sight of it.
NoSilentGap == \A s \in Sessions, i \in Items : Gap(s, i) => \E w \in {"missed", "cleared"} : <<s, i, w>> \in skipped

\* "this round rpc may fail, so keep it and remove the id only when it's in
\* dst_saved_map": an unreachable item is kept until it has been sent.
UnreachableKept == \A s \in Sessions, i \in Items : Gap(s, i) => <<s, i, "missed">> \in skipped

\* Once the links stay as they are, every peer gets the newest items of all the
\* peers it is joined to, unless an item was removed or lost sight of.
Converged ==
    \A p, q \in Peers : Together(p, q) => \A k \in {"info", "conn"} : store[p][<<q, k>>] = Origin(<<q, k>>)
Converges == <>[](forgot = {} /\ skipped = {} => Converged)
=============================================================================
