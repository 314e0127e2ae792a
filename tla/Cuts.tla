-------------------------------- MODULE Cuts --------------------------------
(***************************************************************************)
(* The graph that links make between nodes, and when it has no cycle.      *)
(*                                                                         *)
(* Connectedness is stated by cuts, not by paths: a set S of nodes that no *)
(* link crosses is a union of connected components, so two nodes are in    *)
(* different components exactly when some such S holds only one of them.   *)
(***************************************************************************)

CONSTANTS
  Node,   \* the nodes of the bus
  Link,   \* the connections that can be made between them
  Est,    \* Est[l]: the node that establishes l (its upstream connection)
  Acc     \* Acc[l]: the node that accepts l (its downstream connection)

ASSUME LinkEndsAssumption ==
  /\ Est \in [Link -> Node]
  /\ Acc \in [Link -> Node]

(* l leads out of the set S of nodes. *)
Crosses(l, S) == (Est[l] \in S) # (Acc[l] \in S)

(* S is a union of connected components of the graph made by the links L. *)
Closed(S, L) == \A l \in L : ~ Crosses(l, S)

(* The nodes joined by l are in different components of the graph L. *)
Separated(l, L) == \E S \in SUBSET Node : Closed(S, L) /\ Crosses(l, S)

(* Every link is a bridge, i.e. the graph L has no cycle (a link from a node
   to itself and two links between the same nodes are cycles too). *)
IsForest(L) == \A l \in L : Separated(l, L \ {l})
=============================================================================
