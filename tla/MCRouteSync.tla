---------------------------- MODULE MCRouteSync ----------------------------
(* RouteSync for TLC: three peers in a line, so that the two at its ends    *)
(* hear of each other through the one between them.                         *)
EXTENDS RouteSync

MCPeers == 1..3
MCPossible == {{1, 2}, {2, 3}}
MCInitiators == {<<1, 2>>, <<2, 3>>}

\* A link breaks and heals; two peers meet, and something else happens; one
\* peer leaves another and meets a third.
MCPlans == {[first |-> MCPossible, flaps |-> <<{1, 2}, {1, 2}>>, events |-> 0],
            [first |-> {}, flaps |-> <<{2, 3}>>, events |-> 1],
            [first |-> {{1, 2}}, flaps |-> <<{1, 2}, {2, 3}>>, events |-> 0]}
=============================================================================
