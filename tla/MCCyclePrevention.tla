-------------------------- MODULE MCCyclePrevention --------------------------
(***************************************************************************)
(* Small buses for CyclePrevention.  A link is a number; Ends lists, per    *)
(* link, the node that establishes it and the node that accepts it.         *)
(***************************************************************************)
EXTENDS CyclePrevention, TLC

CONSTANTS a, b, c, d   \* the nodes

EstOf(ends) == [ l \in DOMAIN ends |-> ends[l][1] ]
AccOf(ends) == [ l \in DOMAIN ends |-> ends[l][2] ]

(* Two halves, a-c and b-d, that two nodes join at the same time. *)
Halves     == << <<a, c>>, <<b, d>>, <<a, b>>, <<c, d>> >>
HalvesEst  == EstOf(Halves)
HalvesAcc  == AccOf(Halves)
HalvesLink == DOMAIN Halves

(* A chain a-b that both its ends, and c, extend to a triangle. *)
Triangle     == << <<a, b>>, <<c, b>>, <<a, c>> >>
TriangleEst  == EstOf(Triangle)
TriangleAcc  == AccOf(Triangle)
TriangleLink == DOMAIN Triangle

(* Two nodes that connect to each other. *)
Mutual     == << <<a, b>>, <<b, a>> >>
MutualEst  == EstOf(Mutual)
MutualAcc  == AccOf(Mutual)
MutualLink == DOMAIN Mutual

(* A chain a-b-c, whose end a connects to its other end, and to b once more. *)
Chain     == << <<a, b>>, <<b, c>>, <<a, c>>, <<a, b>> >>
ChainEst  == EstOf(Chain)
ChainAcc  == AccOf(Chain)
ChainLink == DOMAIN Chain

(* Three nodes that connect in a ring, all at the same time. *)
Ring     == << <<a, b>>, <<b, c>>, <<c, a>> >>
RingEst  == EstOf(Ring)
RingAcc  == AccOf(Ring)
RingLink == DOMAIN Ring
=============================================================================
