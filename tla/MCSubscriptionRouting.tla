------------------------ MODULE MCSubscriptionRouting ------------------------
(***************************************************************************)
(* Small buses for SubscriptionRouting: a, b, c are nodes; x, y, z clients. *)
(***************************************************************************)
EXTENDS SubscriptionRouting, TLC

CONSTANTS a, b, c, x, y, z   \* nodes and clients
CONSTANT  s               \* a subject
CONSTANT  p               \* a publish

EstOf(ends) == [ l \in DOMAIN ends |-> ends[l][1] ]
AccOf(ends) == [ l \in DOMAIN ends |-> ends[l][2] ]

(* Clients x and y of two nodes; the link between the nodes is link 3. *)
Pair     == << <<x, a>>, <<y, b>>, <<a, b>> >>
PairEst  == EstOf(Pair)
PairAcc  == AccOf(Pair)
PairLink == DOMAIN Pair

(* A chain a, b that c joins (link 5), with a client at each node. *)
Star     == << <<x, a>>, <<y, b>>, <<z, c>>, <<a, b>>, <<c, b>> >>
StarEst  == EstOf(Star)
StarAcc  == AccOf(Star)
StarLink == DOMAIN Star

(* Clients of two nodes; y can connect to a once it has left b (link 4). *)
Reconnect     == << <<x, a>>, <<y, b>>, <<a, b>>, <<y, a>> >>
ReconnectEst  == EstOf(Reconnect)
ReconnectAcc  == AccOf(Reconnect)
ReconnectLink == DOMAIN Reconnect

(* A node a with three clients, and a neighbour b without any. *)
Hub     == << <<x, a>>, <<y, a>>, <<z, a>>, <<a, b>> >>
HubEst  == EstOf(Hub)
HubAcc  == AccOf(Hub)
HubLink == DOMAIN Hub

MatchOne  == [r \in {p} |-> {s}]
=============================================================================
