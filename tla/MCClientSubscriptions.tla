------------------------ MODULE MCClientSubscriptions ------------------------
(***************************************************************************)
(* Two subjects, and what is published, for ClientSubscriptions.            *)
(***************************************************************************)
EXTENDS ClientSubscriptions, TLC

CONSTANTS x, y   \* the parts

ShortAndPattern == { <<x>>, <<x, Wildcard>> }
ShortAndLong == { <<x>>, <<x, y>>, <<x, Wildcard>> }

(* The callbacks are alike. *)
Symmetry == Permutations(Callback)
=============================================================================
