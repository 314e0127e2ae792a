------------------------------- MODULE BusCheck -------------------------------
(***************************************************************************)
(* bus_check (bus_check.py): what it finds out about the bus on a machine,  *)
(* from what the operating system shows of processes and TCP connections.   *)
(*                                                                         *)
(* A machine is an input: which processes there are, which of them serve a  *)
(* node, and all TCP connections, with what is hidden of them.  An end of a *)
(* connection stands for its two addresses: end 1 is the one whose local    *)
(* address is the smaller one, and "listens" tells whether a local address  *)
(* is one that the process listens on.  Connections are numbered in the     *)
(* order of the operating system's list.                                    *)
(***************************************************************************)
EXTENDS Naturals, Sequences, FiniteSets

CONSTANTS
  Process,    \* the processes of the machine
  Away,       \* other machines, and processes that no list shows
  Kind,       \* the scripts: bl_server, ps_server
  NoKind,     \* what runs none of them
  Connection, \* the TCP connections, as numbers
  Machines    \* bound: the machines to look at, a subset of Machine

Side == {1, 2}
Other(i) == 3 - i

Machine ==
  [kind:    [Process -> Kind \cup {NoKind}],       \* from its command line
   parent:  [Process -> Process \cup {Away}],
   serves:  SUBSET Process,                        \* runs a node
   extra:   SUBSET Process,                        \* given with --pid
   ends:    [Connection -> [Side -> Process \cup {Away}]],
   listens: [Connection -> SUBSET Side],
   shown:   [Process -> {"all", "no owner", "nothing"}]]  \* of its sockets

ASSUME MachinesAssumption ==
  /\ Away \notin Process /\ NoKind \notin Kind
  /\ IsFiniteSet(Process) /\ Connection \subseteq Nat
  /\ Machines \subseteq Machine

VARIABLES
  machine,   \* the input
  step,     \* "collect", "links", then "cycles"
  nodes,     \* the processes taken to be nodes
  left,      \* the links that find_cycles has not looked at yet
  unchecked, hidden, \* the counts of warnings of find_links
  parent,    \* find_cycles: parent of each node, of the search for a root
  tree,      \* find_cycles: the links that joined two trees
  cycles     \* find_cycles: links that close a cycle, and the nodes along it

checkVars == <<machine, step, nodes, left, unchecked, hidden, parent, tree, cycles>>

EndOf(c, i) == machine.ends[c][i]

-----------------------------------------------------------------------------
(* drop_launchers: those that have a child that is a node of the same kind.  *)
Scripts == { p \in Process : machine.kind[p] # NoKind }
Launchers ==
  { p \in Scripts : \E child \in Scripts :
      machine.parent[child] = p /\ machine.kind[child] = machine.kind[p] }

(* Ends that are in the list at all; without the process; of a node. *)
Listed(c, i) ==
  EndOf(c, i) # Away /\ machine.shown[EndOf(c, i)] # "nothing"
Hidden(c, i) == Listed(c, i) /\ machine.shown[EndOf(c, i)] = "no owner"
NodeEnds ==
  { e \in Connection \X Side :
      /\ EndOf(e[1], e[2]) \in nodes
      /\ machine.shown[EndOf(e[1], e[2])] = "all" }

(* Mutant of Links: it is end 1 that must listen. *)
LinksOneWay ==
  { c \in Connection : {<<c, 1>>, <<c, 2>>} \subseteq NodeEnds
                       /\ 1 \in machine.listens[c] }

(* The connections between nodes, one of whose ends a node listens on. *)
Links ==
  { c \in Connection : {<<c, 1>>, <<c, 2>>} \subseteq NodeEnds
                       /\ machine.listens[c] # {} }

(* root() in find_cycles: what it returns, and the parents that it leaves, each
   second node on the way having become a child of its grandparent. *)
Root(q, p) ==
  LET root[r \in nodes] == IF q[r] = r THEN r ELSE root[q[r]]
  IN root[p]

Halved(q, p) ==
  LET halved[x \in [nodes -> nodes] \X nodes] ==
        LET r == x[1]
            n == x[2]
        IN IF r[n] = n THEN r
           ELSE halved[<<[r EXCEPT ![n] = r[r[n]]], r[r[n]]>>]
  IN halved[<<q, p>>]

(* a and b are the nodes of a link in L. *)
Adjacent(L, a, b) ==
  \E c \in L, i \in Side : EndOf(c, i) = a /\ EndOf(c, Other(i)) = b

(* Sequences of distinct nodes along the links of L. *)
Paths(L) ==
  { path \in UNION { [1 .. n -> nodes] : n \in 1 .. Cardinality(nodes) } :
      /\ \A i, j \in DOMAIN path : path[i] = path[j] => i = j
      /\ \A i \in 1 .. Len(path) - 1 : Adjacent(L, path[i], path[i + 1]) }

(* Mutant of TreePath: the path goes on past b. *)
TreePathTooLong(a, b) ==
  LET from == { path \in Paths(tree) :
                  path[1] = a /\ \E i \in DOMAIN path : path[i] = b }
  IN CHOOSE path \in from : \A other \in from : Len(path) >= Len(other)

(* _tree_path: the shortest path from a to b, found breadth first. *)
TreePath(a, b) ==
  LET from == { path \in Paths(tree) : path[1] = a /\ path[Len(path)] = b }
  IN CHOOSE path \in from : \A other \in from : Len(path) <= Len(other)

-----------------------------------------------------------------------------
CheckInit ==
  /\ machine \in Machines
  /\ step = "collect"
  /\ nodes = {}
  /\ left = {}
  /\ unchecked = 0 /\ hidden = 0
  /\ parent = [p \in {} |-> p]
  /\ tree = {}
  /\ cycles = {}

(* The nodes: servers without launchers, and those given with --pid. *)
Collect ==
  /\ step = "collect"
  /\ step' = "links"
  /\ nodes' = (Scripts \ Launchers) \cup machine.extra
  /\ UNCHANGED <<machine, left, unchecked, hidden, parent, tree, cycles>>

(* find_links; then find_cycles starts with each node on its own.  The far ends
   of connections of nodes that belong to no node may be worth a warning. *)
FindLinks ==
  LET far == { <<e[1], Other(e[2])>> : e \in NodeEnds } \ NodeEnds
  IN /\ step = "links"
     /\ step' = "cycles"
     /\ left' = Links
     /\ hidden' = Cardinality({ e \in far : Hidden(e[1], e[2]) })
     /\ unchecked' = Cardinality({ e \in far : ~ Listed(e[1], e[2]) })
     /\ parent' = [p \in nodes |-> p]
     /\ UNCHANGED <<machine, nodes, tree, cycles>>

(* Mutant of Joined: only a, not the tree of a, gets a new root. *)
JoinedBelow(q, a, b) == [q EXCEPT ![a] = Root(q, b)]

(* The tree of a goes below the root of the tree of b. *)
Joined(q, a, b) ==
  LET h == Halved(Halved(q, b), a)
  IN [h EXCEPT ![Root(h, a)] = Root(h, b)]

(* find_cycles looks at the next link. *)
LookAt(c) ==
  LET a == EndOf(c, 1)
      b == EndOf(c, 2)
      looked == Halved(Halved(parent, a), b)
      closes(path) == cycles \cup {[link |-> c, path |-> path]}
  IN /\ step = "cycles"
     /\ c \in left /\ \A k \in left : c <= k
     /\ left' = left \ {c}
     /\ \/ a = b
           /\ cycles' = closes(<<a>>)
           /\ UNCHANGED <<parent, tree>>
        \/ a # b /\ Root(parent, a) = Root(parent, b)
           /\ cycles' = closes(TreePath(a, b))
           /\ parent' = looked
           /\ UNCHANGED tree
        \/ a # b /\ Root(parent, a) # Root(parent, b)
           /\ parent' = Joined(looked, a, b)
           /\ tree' = tree \cup {c}
           /\ UNCHANGED cycles
     /\ UNCHANGED <<machine, step, nodes, unchecked, hidden>>

CheckNext == Collect \/ FindLinks \/ \E c \in Connection : LookAt(c)

CheckSpec == CheckInit /\ [][CheckNext]_checkVars

-----------------------------------------------------------------------------
(* The graph of the connections, whatever is shown of it. *)
Graph == INSTANCE Cuts WITH
  Node <- Process \cup {Away},
  Link <- Connection,
  Est  <- [c \in Connection |-> EndOf(c, 1)],
  Acc  <- [c \in Connection |-> EndOf(c, 2)]

(* Two nodes have the same root exactly when the links that were kept connect
   them: shortening the ways to the roots never moves a node to another tree. *)
RootsAreComponents ==
  step = "cycles" =>
    \A p, q \in nodes :
      Root(parent, p) = Root(parent, q) <=>
        \A S \in SUBSET nodes : Graph!Closed(S, tree) => (p \in S <=> q \in S)

(* "report that cycle as the list of nodes along it": the nodes are distinct,
   neighbours in the list are linked, and the link that closes the cycle, which
   is none of those, leads from its last node back to its first. *)
CyclesAreCycles ==
  \A k \in cycles :
    /\ k.path \in Paths(tree)
    /\ k.path[1] = EndOf(k.link, 1)
    /\ k.path[Len(k.path)] = EndOf(k.link, 2)
    /\ k.link \notin tree

(* The links of the bus on this machine, and whether the report warns. *)
BusLinks ==
  { c \in Connection : /\ EndOf(c, 1) \in machine.serves
                       /\ EndOf(c, 2) \in machine.serves
                       /\ machine.listens[c] # {} }
Warned ==
  unchecked > 0 \/ hidden > 0 \/ \E p \in nodes : machine.shown[p] # "all"

(* "Find cycles among the bus nodes running on this machine": if the report has
   no warning, the nodes of this machine form a tree (or several) exactly when
   it says "No cycles found", and do once the links that close the reported
   cycles are cut. *)
ReportIsRight ==
  step = "cycles" /\ left = {} /\ ~ Warned =>
    /\ cycles = {} <=> Graph!IsForest(BusLinks)
    /\ Graph!IsForest(BusLinks \ { k.link : k \in cycles })
=============================================================================
