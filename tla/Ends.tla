-------------------------------- MODULE Ends --------------------------------
(***************************************************************************)
(* The two Connection objects of every link: each of its nodes has one.    *)
(* The establishing end is in the node's upstream_connections, the         *)
(* accepting end in the other node's downstream_connections.               *)
(***************************************************************************)
EXTENDS Cuts

End == [link: Link, side: {"est", "acc"}]

EstEnd(l) == [link |-> l, side |-> "est"]
AccEnd(l) == [link |-> l, side |-> "acc"]

(* The node that has the end e, and the other end of e's link. *)
At(e)   == IF e.side = "est" THEN Est[e.link] ELSE Acc[e.link]
Peer(e) == IF e.side = "est" THEN AccEnd(e.link) ELSE EstEnd(e.link)
=============================================================================
