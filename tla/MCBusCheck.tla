------------------------------ MODULE MCBusCheck ------------------------------
(***************************************************************************)
(* The machines that BusCheck is checked on: all small graphs of nodes of   *)
(* which everything is shown, and machines with few connections of which    *)
(* not everything is shown, and where not every process is a node.          *)
(***************************************************************************)
EXTENDS BusCheck

Procs == 1 .. 4
NConn == 1 .. 4
Nobody == 0

(* Four nodes, and any four links between them; which nodes the first link has
   does not matter, only whether they are two. *)
Plain(ends) ==
  [kind    |-> [p \in Process |-> "ps_server"],
   parent  |-> [p \in Process |-> Away],
   serves  |-> Process,
   extra   |-> {},
   ends    |-> ends,
   listens |-> [c \in Connection |-> {2}],
   shown   |-> [p \in Process |-> "all"]]

Graphs ==
  { Plain(ends) :
      ends \in { e \in [Connection -> Process \X Process] :
                  e[1] \in {<<1, 1>>, <<1, 2>>} } }

(* Process 1 and 2 may be linked twice, or to others; 3 may be a node too, one
   given with --pid, a client, or the launcher of 2; 4 is a client. *)
Roles == {"node", "given", "client", "launcher"}

Mixed(role, ends, listens, shown) ==
  [kind    |-> [p \in Process |->
                  IF p \in {1, 2} \/ (p = 3 /\ role \in {"node", "launcher"})
                  THEN "ps_server" ELSE NoKind],
   parent  |-> [p \in Process |-> IF p = 2 /\ role = "launcher" THEN 3
                                 ELSE Away],
   serves  |-> {1, 2} \cup (IF role \in {"node", "given"} THEN {3} ELSE {}),
   extra   |-> IF role = "given" THEN {3} ELSE {},
   ends    |-> [c \in Connection |-> IF c <= 2 THEN ends[c] ELSE <<4, 4>>],
   listens |-> [c \in Connection |-> IF c = 1 THEN listens
                                     ELSE IF c = 2 THEN {1} ELSE {}],
   shown   |-> [p \in Process |-> IF p = shown.of THEN shown.what ELSE "all"]]

(* A launcher has no connections of its own. *)
MixedMachines ==
  { m \in { Mixed(role, ends, listens, shown) :
              role \in Roles,
              ends \in [{1, 2} -> (1 .. 4) \X {1, 2, 3, Nobody}],
              listens \in {{}, {1}, {2}},
              shown \in [of: {1, 3}, what: {"all", "no owner", "nothing"}] } :
      m.parent[2] = 3 =>
        \A c \in Connection, i \in Side : m.ends[c][i] # 3 }

AllMachines == Graphs \cup MixedMachines
=============================================================================
