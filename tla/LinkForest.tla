----------------------------- MODULE LinkForest -----------------------------
(***************************************************************************)
(* What the cycle check of a PubSubNode promises about a whole bus: nodes  *)
(* are joined by links, a link is only ever added between two nodes that   *)
(* were not yet connected, and links may disappear at any time.  The       *)
(* subscription routing of pubsub.py relies on the links being a forest.   *)
(* CyclePrevention implements this specification (see Refinement there).   *)
(***************************************************************************)
EXTENDS Cuts

VARIABLE links  \* the links that carry traffic in both directions

-----------------------------------------------------------------------------
Init == links \in SUBSET Link /\ IsForest(links)

(* A connection passed its check and is activated by the node that
   established it. *)
Join(l) ==
  /\ l \notin links
  /\ Separated(l, links)
  /\ links' = links \cup {l}

(* A connection is closed, or lost. *)
Part(l) ==
  /\ l \in links
  /\ links' = links \ {l}

Next == \E l \in Link : Join(l) \/ Part(l)

Spec == Init /\ [][Next]_links

-----------------------------------------------------------------------------
(* The links are links of the bus. *)
TypeOK == links \subseteq Link

(* "The nodes always form a tree": no sequence of joins and losses, in
   whatever order they come, closes a cycle. *)
AlwaysForest == IsForest(links)

=============================================================================
