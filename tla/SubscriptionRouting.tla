------------------------- MODULE SubscriptionRouting -------------------------
(***************************************************************************)
(* How the PubSubNodes of a bus route subscriptions and publishes          *)
(* (pubsub.py) over links that come and go, and what the clients get.      *)
(*                                                                         *)
(* A PubSubClient is a leaf that establishes one link at a time; it        *)
(* accepts none.  What a node decides by its cycle check is taken from      *)
(* LinkForest: a pending link is activated only if it joins two parts of   *)
(* the bus, which CyclePrevention is checked to ensure.                    *)
(*                                                                         *)
(* A node is one asyncio thread: a handler is one action, unless it        *)
(* suspends.  The only handlers that do are those that find a send queue   *)
(* full while they relay a message: dropping that connection awaits its    *)
(* closing, and what is still to be sent waits in "unsent".  A message     *)
(* that its receiver ignores (a subscription sent to a client) is left     *)
(* out, and so are Hello messages and queries.                             *)
(***************************************************************************)
EXTENDS Naturals, Sequences, FiniteSets, Ends

CONSTANTS
  Client,       \* the PubSubClients, of Node; the others are PubSubNodes
  Subject,      \* the subscribed subjects
  Pub,          \* the publishes that can be made
  MatchedBy,    \* MatchedBy[p]: the subjects that match the subject of p
  Initial,      \* the links that are active at the start
  HeldLimit,    \* PubSubNode.held_messages_limit, in messages
  Buffered,     \* whether frames are read ahead, see OverLimit
  MaxChanges,   \* bound: how often clients subscribe or unsubscribe
  MaxLosses,    \* bound: how many ends fail, or are closed, on their own
  MaxOverflows  \* bound: how often a relayed message finds a queue full

ASSUME SubjectAssumption ==
  /\ IsFiniteSet(Subject)
  /\ MatchedBy \in [Pub -> SUBSET Subject]
ASSUME ClientAssumption ==
  /\ Client \subseteq Node
  /\ \A l \in Link : Acc[l] \notin Client
ASSUME RoutingInitialAssumption ==
  /\ Initial \subseteq Link /\ IsForest(Initial)
  /\ \A k, l \in Initial : Est[k] = Est[l] /\ Est[k] \in Client => k = l
ASSUME RoutingBoundsAssumption ==
  /\ HeldLimit \in Nat /\ MaxChanges \in Nat
  /\ MaxLosses \in Nat /\ MaxOverflows \in Nat
  /\ Buffered \in BOOLEAN

SubMessage == [type: {"sub"}, subject: Subject, on: BOOLEAN]
PubMessage == [type: {"pub"}, pub: Pub]
Message == SubMessage \cup PubMessage

Sub(s, on) == [type |-> "sub", subject |-> s, on |-> on]

(* A relay that was suspended: who is still to get the message.  It is run by
   the relay loop of the end it is about, or by the check that drains the
   messages held for that end. *)
NoRelay == [to |-> {}, what |-> <<>>, by |-> "loop"]
Relay == [to: SUBSET End, what: Message, by: {"loop", "drain"}] \cup {NoRelay}

VARIABLES
  life,      \* life[e]: "none", then "up" while listed by its node, then "down"
  chan,      \* chan[e]: messages sent from e and not yet received, in order
  pending,   \* PubSubNode._pending: the links whose check is not over
  held,      \* held[l]: the messages kept until l is accepted and drained
  tags,      \* tags[n][s]: the ends subscribed to s, in either list of n
  unsent,    \* unsent[e]: what the suspended handler of e has yet to send
  lingering, \* ends that were dropped by their own relay loop
  wants,     \* wants[c]: keys of PubSubClient._subscribe_callbacks
  got,       \* got[c][p]: how often c was given p; 2 is more than once
  published, \* the publishes that were made
  due,       \* history: due[p]: the clients that must get p
  changes, losses, overflows  \* counters of the bounds

vars == <<life, chan, pending, held, tags, unsent, lingering, wants, got,
          published, due, changes, losses, overflows>>
net      == <<life, pending, held, tags, unsent, lingering>>
clients  == <<wants, got, published>>
counters == <<changes, losses, overflows>>

-----------------------------------------------------------------------------
IsPending(e) == e.side = "est" /\ e.link \in pending

(* _active: the connections of n that messages are sent to. *)
ActiveEnds(n) ==
  { e \in End : At(e) = n /\ life[e] = "up" /\ ~ IsPending(e) }

(* The links over which both nodes send. *)
Joined ==
  { l \in Link : l \notin pending /\ life[EstEnd(l)] = "up"
                 /\ life[AccEnd(l)] = "up" }

(* The subscribe or unsubscribe messages for the subjects of S, in some order:
   routing treats each subject on its own. *)
Each(S, on) ==
  LET order == CHOOSE f \in [1 .. Cardinality(S) -> S] :
                 \A s \in S : \E i \in DOMAIN f : f[i] = s
  IN [i \in 1 .. Cardinality(S) |-> Sub(order[i], on)]

(* Whether a message sent from e has any effect at the other end. *)
Heeded(e, m) ==
  /\ life[e] = "up"
  /\ life[Peer(e)] # "down"
  /\ m.type = "sub" => At(Peer(e)) \notin Client

(* _relay_to: the channels c once m has been queued on targets. *)
Sent(c, targets, m) ==
  [e \in End |-> IF e \in targets /\ Heeded(e, m) THEN Append(c[e], m) ELSE c[e]]

(* Mutant of NoLongerWantedFrom: neighbours are told only once nobody is left. *)
NotWantedOnceEmpty(T, e, s) ==
  IF e \in T[At(e)][s] /\ T[At(e)][s] \ {e} = {}
  THEN ActiveEnds(At(e)) \ {e}
  ELSE {}

(* Mutant of NoLongerWantedFrom: everybody is told, whoever is left. *)
NotWantedOfAnybody(T, e, s) ==
  IF e \in T[At(e)][s] THEN ActiveEnds(At(e)) \ {e} ELSE {}

(* The connections that have to learn that e is no longer subscribed to s at
   its node: those that the node no longer wants s from. *)
NoLongerWantedFrom(T, e, s) ==
  LET remaining == T[At(e)][s] \ {e}
  IN IF e \notin T[At(e)][s] THEN {}
     ELSE IF remaining = {} THEN ActiveEnds(At(e)) \ {e}
     ELSE IF \E r \in remaining : remaining = {r} THEN remaining
     ELSE {}

(* Mutant of Targets: a publish may go back to where it came from. *)
TargetsAndSource(e, m) ==
  IF m.type = "pub"
  THEN UNION { tags[At(e)][s] : s \in MatchedBy[m.pub] }
  ELSE IF m.on THEN ActiveEnds(At(e)) \ {e}
  ELSE NoLongerWantedFrom(tags, e, m.subject)

(* Where a message from e goes, ... *)
Targets(e, m) ==
  IF m.type = "pub"
  THEN (UNION { tags[At(e)][s] : s \in MatchedBy[m.pub] }) \ {e}
  ELSE IF m.on THEN ActiveEnds(At(e)) \ {e}
  ELSE NoLongerWantedFrom(tags, e, m.subject)

(* ... and the subscribers after it. *)
Tagged(e, m) ==
  IF m.type = "pub" THEN tags
  ELSE [tags EXCEPT ![At(e)][m.subject] =
          IF m.on THEN @ \cup {e} ELSE @ \ {e}]

(* c once the node of e, with the subscribers T, has sent the unsubscribes for
   e's subjects. *)
Untold(c, T, e) ==
  [x \in End |->
     c[x] \o Each({ s \in Subject : x \in NoLongerWantedFrom(T, e, s)
                                   /\ Heeded(x, Sub(s, FALSE)) }, FALSE)]

(* Mutant of DropFrom: e stays subscribed. *)
DropFromList(e, c, T, h, u) ==
  /\ life' = [life EXCEPT ![e] = "down"]
  /\ pending' = IF e.side = "est" THEN pending \ {e.link} ELSE pending
  /\ held' = IF e.side = "est" THEN [h EXCEPT ![e.link] = <<>>] ELSE h
  /\ tags' = T
  /\ chan' = [c EXCEPT ![Peer(e)] = <<>>]
  /\ unsent' = IF u[e].by = "loop" THEN [u EXCEPT ![e] = NoRelay] ELSE u
  /\ due' = [p \in Pub |-> {}]

(* The node of e takes e off its list (_handle_connection_error, or
   close_connection), forgets it and what it held for it, and unsubscribes it
   from every subject; c, T, h and u are the channels, subscribers, held
   messages and suspended relays before.  The relay loop of e is cancelled. *)
DropFrom(e, c, T, h, u) ==
  /\ life' = [life EXCEPT ![e] = "down"]
  /\ pending' = IF e.side = "est" THEN pending \ {e.link} ELSE pending
  /\ held' = IF e.side = "est" THEN [h EXCEPT ![e.link] = <<>>] ELSE h
  /\ tags' = [T EXCEPT ![At(e)] = [s \in Subject |-> @[s] \ {e}]]
  /\ chan' = [Untold(c, T, e) EXCEPT ![Peer(e)] = <<>>]
  /\ unsent' = IF u[e].by = "loop" THEN [u EXCEPT ![e] = NoRelay] ELSE u
  /\ due' = [p \in Pub |-> {}]

Drop(e) == DropFrom(e, chan, tags, held, unsent)

-----------------------------------------------------------------------------
Init ==
  /\ life = [e \in End |-> IF e.link \in Initial THEN "up" ELSE "none"]
  /\ chan = [e \in End |-> <<>>]
  /\ pending = {}
  /\ held = [l \in Link |-> <<>>]
  /\ tags = [n \in Node |-> [s \in Subject |-> {}]]
  /\ unsent = [e \in End |-> NoRelay]
  /\ lingering = {}
  /\ wants = [c \in Client |-> {}]
  /\ got = [c \in Client |-> [p \in Pub |-> 0]]
  /\ published = {}
  /\ due = [p \in Pub |-> {}]
  /\ changes = 0 /\ losses = 0 /\ overflows = 0

-----------------------------------------------------------------------------
(* Links: made, accepted, activated, refused, lost.                        *)

(* Mutant of Establish: the peer is told the subscriptions at once. *)
EstablishEagerly(l) ==
  /\ Est[l] \notin Client
  /\ life[EstEnd(l)] = "none"
  /\ life' = [life EXCEPT ![EstEnd(l)] = "up"]
  /\ pending' = pending \cup {l}
  /\ chan' = [chan EXCEPT ![EstEnd(l)] =
                 Each({ s \in Subject : tags[Est[l]][s] # {} }, TRUE)]
  /\ UNCHANGED <<held, tags, unsent, lingering, clients, due, counters>>

(* PubSubNode.establish_connection: pending before anything is received. *)
Establish(l) ==
  /\ Est[l] \notin Client
  /\ life[EstEnd(l)] = "none"
  /\ life' = [life EXCEPT ![EstEnd(l)] = "up"]
  /\ pending' = pending \cup {l}
  /\ UNCHANGED <<chan, held, tags, unsent, lingering, clients, due, counters>>

(* PubSubClient.connect, of a client that is not connected: it subscribes to
   what it still wants. *)
Connect(l) ==
  /\ Est[l] \in Client
  /\ life[EstEnd(l)] = "none"
  /\ \A k \in Link : Est[k] = Est[l] => life[EstEnd(k)] # "up"
  /\ life' = [life EXCEPT ![EstEnd(l)] = "up"]
  /\ chan' = [chan EXCEPT ![EstEnd(l)] = Each(wants[Est[l]], TRUE)]
  /\ UNCHANGED <<pending, held, tags, unsent, lingering, clients, due, counters>>

(* The subjects with subscribers at n. *)
Known(n) == { s \in Subject : tags[n][s] # {} }

(* _send_subscriptions on e. *)
SubscriptionsSent(e) == [chan EXCEPT ![e] = @ \o Each(Known(At(e)), TRUE)]

(* _on_downstream_connected: active at once, and told every subject. *)
Accept(l) ==
  /\ life[EstEnd(l)] # "none"
  /\ life[AccEnd(l)] = "none"
  /\ life' = [life EXCEPT ![AccEnd(l)] = "up"]
  /\ IF Est[l] \in Client \/ life[EstEnd(l)] = "down"
     THEN UNCHANGED chan
     ELSE chan' = SubscriptionsSent(AccEnd(l))
  /\ UNCHANGED <<pending, held, tags, unsent, lingering, clients, due, counters>>

(* Mutant of Activate: what was held is discarded. *)
ActivateDiscarding(l) ==
  /\ l \in pending
  /\ life[AccEnd(l)] # "none"
  /\ life[AccEnd(l)] = "up" => Separated(l, Joined)
  /\ pending' = pending \ {l}
  /\ held' = [held EXCEPT ![l] = <<>>]
  /\ IF life[AccEnd(l)] = "down"
     THEN UNCHANGED chan
     ELSE chan' = SubscriptionsSent(EstEnd(l))
  /\ UNCHANGED <<life, tags, unsent, lingering, clients, due, counters>>

(* _activate: the cycle check found no way to the peer.  What was held is
   processed by DrainHeld. *)
Activate(l) ==
  /\ l \in pending
  /\ life[AccEnd(l)] # "none"
  /\ life[AccEnd(l)] = "up" => Separated(l, Joined)
  /\ pending' = pending \ {l}
  /\ IF life[AccEnd(l)] = "down"
     THEN UNCHANGED chan
     ELSE chan' = SubscriptionsSent(EstEnd(l))
  /\ UNCHANGED <<life, held, tags, unsent, lingering, clients, due, counters>>

(* The cycle check refuses the link, or cannot tell. *)
Refuse(l) ==
  /\ l \in pending
  /\ Drop(EstEnd(l))
  /\ UNCHANGED <<lingering, clients, counters>>

(* An end fails, or is closed on purpose, at a node or at a client. *)
Lose(e) ==
  /\ life[e] = "up"
  /\ losses < MaxLosses
  /\ Drop(e)
  /\ losses' = losses + 1
  /\ UNCHANGED <<lingering, clients, changes, overflows>>

(* The end of a link learns that its peer has closed. *)
NoticeLoss(e) ==
  /\ life[e] = "up"
  /\ life[Peer(e)] = "down"
  /\ Drop(e)
  /\ UNCHANGED <<lingering, clients, counters>>

-----------------------------------------------------------------------------
(* Clients.                                                                *)

(* The bus is at rest: nothing is under way, and no link is half made. *)
Quiet ==
  /\ \A e \in End : chan[e] = <<>> /\ unsent[e].to = {}
  /\ \A l \in Link : held[l] = <<>> /\ l \notin pending
  /\ \A l \in Link : life[EstEnd(l)] = life[AccEnd(l)]

(* The nodes and clients on n's side of a link l of n. *)
Behind(n, l) ==
  { x \in Node : \A S \in SUBSET Node :
      Closed(S, Joined \ {l}) /\ n \in S => x \in S }

(* Everybody on the bus of n. *)
Bus(n) == { x \in Node : \A S \in SUBSET Node : Closed(S, Joined) /\ n \in S => x \in S }

(* The first callback of c for s: the node is told. *)
Subscribe(c, l, s) ==
  /\ Est[l] = c /\ life[EstEnd(l)] = "up"
  /\ s \notin wants[c]
  /\ changes < MaxChanges
  /\ wants' = [wants EXCEPT ![c] = @ \cup {s}]
  /\ chan' = Sent(chan, {EstEnd(l)}, Sub(s, TRUE))
  /\ changes' = changes + 1
  /\ UNCHANGED <<net, got, published, due, losses, overflows>>

(* The last callback of c for s is removed; the node is told if c has one. *)
Unsubscribe(c, s) ==
  /\ s \in wants[c]
  /\ changes < MaxChanges
  /\ wants' = [wants EXCEPT ![c] = @ \ {s}]
  /\ chan' = Sent(chan, { e \in End : e.side = "est" /\ At(e) = c }, Sub(s, FALSE))
  /\ due' = [p \in Pub |-> due[p] \ {c}]
  /\ changes' = changes + 1
  /\ UNCHANGED <<net, got, published, losses, overflows>>

Interested(c, p) == wants[c] \cap MatchedBy[p] # {}

(* c gets p, if it has a callback for it (_deliver). *)
Deliver(c, p) ==
  got' = [got EXCEPT ![c][p] = IF Interested(c, p) /\ @ < 2 THEN @ + 1 ELSE @]

(* Publish, and delivery to c itself.  What is published while the bus is at
   rest is due to every interested client on it. *)
Publish(c, l, p) ==
  /\ Est[l] = c /\ life[EstEnd(l)] = "up"
  /\ p \notin published
  /\ published' = published \cup {p}
  /\ chan' = Sent(chan, {EstEnd(l)}, [type |-> "pub", pub |-> p])
  /\ Deliver(c, p)
  /\ due' = [due EXCEPT ![p] =
               IF Quiet THEN { x \in Client \cap Bus(c) : Interested(x, p) }
               ELSE {}]
  /\ UNCHANGED <<net, wants, counters>>

-----------------------------------------------------------------------------
(* Messages.                                                               *)

(* The first message under way to e, whose relay loop is not suspended. *)
Arrives(e) ==
  /\ life[e] = "up" \/ e \in lingering
  /\ chan[Peer(e)] # <<>>
  /\ unsent[e].to = {} \/ unsent[e].by = "drain"

(* What e receives is kept: its check is not over, or older messages still
   have to be drained. *)
Holding(e) ==
  /\ e.side = "est" /\ At(e) \notin Client /\ life[e] = "up"
  /\ e.link \in pending \/ held[e.link] # <<>> \/ unsent[e].by = "drain"

(* A client gets a publish. *)
ClientReceives(e) ==
  /\ Arrives(e)
  /\ At(e) \in Client
  /\ Deliver(At(e), Head(chan[Peer(e)]).pub)
  /\ chan' = [chan EXCEPT ![Peer(e)] = Tail(@)]
  /\ UNCHANGED <<net, wants, published, due, counters>>

(* Mutant of Hold: one message too many. *)
HoldOneMore(e) ==
  /\ Arrives(e)
  /\ Holding(e)
  /\ Len(held[e.link]) <= HeldLimit
  /\ held' = [held EXCEPT ![e.link] = Append(@, Head(chan[Peer(e)]))]
  /\ chan' = [chan EXCEPT ![Peer(e)] = Tail(@)]
  /\ UNCHANGED <<life, pending, tags, unsent, lingering, clients, due, counters>>

(* _on_receive, while e's messages are held: it is kept, ... *)
Hold(e) ==
  /\ Arrives(e)
  /\ Holding(e)
  /\ Len(held[e.link]) < HeldLimit
  /\ held' = [held EXCEPT ![e.link] = Append(@, Head(chan[Peer(e)]))]
  /\ chan' = [chan EXCEPT ![Peer(e)] = Tail(@)]
  /\ UNCHANGED <<life, pending, tags, unsent, lingering, clients, due, counters>>

(* ... or is too much (HeldMessagesOverLimit): e is dropped by its own relay
   loop, which is not cancelled and goes on with the frames it had already
   buffered, if any. *)
OverLimit(e) ==
  /\ Arrives(e)
  /\ Holding(e)
  /\ Len(held[e.link]) >= HeldLimit
  /\ life' = [life EXCEPT ![e] = "down"]
  /\ pending' = pending \ {e.link}
  /\ held' = [held EXCEPT ![e.link] = <<>>]
  /\ tags' = [tags EXCEPT ![At(e)] = [s \in Subject |-> @[s] \ {e}]]
  /\ LET rest == Tail(chan[Peer(e)])
     IN \E k \in IF Buffered THEN 0 .. Len(rest) ELSE {0} :
          chan' = [Untold(chan, tags, e) EXCEPT ![Peer(e)] = SubSeq(rest, 1, k)]
  /\ lingering' = lingering \cup {e}
  /\ due' = [p \in Pub |-> {}]
  /\ UNCHANGED <<unsent, clients, counters>>

(* _handle_message for m from e, at its node: retag, and relay.  c and h are the
   channels and held messages with m taken from them. *)
Handle(e, m, c, h, by) ==
  \/ /\ tags' = Tagged(e, m)
     /\ chan' = Sent(c, Targets(e, m), m)
     /\ held' = h
     /\ UNCHANGED <<life, pending, unsent, due, overflows>>
  \/ /\ overflows < MaxOverflows
     /\ overflows' = overflows + 1
     /\ \E full \in Targets(e, m) : \E later \in SUBSET (Targets(e, m) \ {full}) :
          /\ life[full] = "up"
          /\ DropFrom(full, Sent(c, Targets(e, m) \ (later \cup {full}), m),
                      Tagged(e, m), h,
                      IF later = {} THEN unsent
                      ELSE [unsent EXCEPT ![e] =
                              [to |-> later, what |-> m, by |-> by]])

NodeReceives(e) ==
  /\ Arrives(e)
  /\ At(e) \notin Client
  /\ ~ Holding(e)
  /\ Handle(e, Head(chan[Peer(e)]), [chan EXCEPT ![Peer(e)] = Tail(@)], held,
            "loop")
  /\ UNCHANGED <<lingering, clients, changes, losses>>

(* The drain loop of _activate, one message. *)
DrainHeld(l) ==
  /\ l \notin pending
  /\ held[l] # <<>>
  /\ unsent[EstEnd(l)].to = {}
  /\ Handle(EstEnd(l), Head(held[l]), chan, [held EXCEPT ![l] = Tail(@)], "drain")
  /\ UNCHANGED <<lingering, clients, changes, losses>>

(* The dropped connection is closed: the suspended relay goes on. *)
ResumeRelay(e) ==
  /\ unsent[e].to # {}
  /\ chan' = Sent(chan, unsent[e].to, unsent[e].what)
  /\ unsent' = [unsent EXCEPT ![e] = NoRelay]
  /\ UNCHANGED <<life, pending, held, tags, lingering, clients, due, counters>>

-----------------------------------------------------------------------------
LinkStep(l) ==
  Establish(l) \/ Connect(l) \/ Accept(l) \/ Activate(l) \/ Refuse(l)

ClientStep(c) ==
  \/ \E s \in Subject : Unsubscribe(c, s) \/ \E l \in Link : Subscribe(c, l, s)
  \/ \E l \in Link, p \in Pub : Publish(c, l, p)

ReceiveStep(e) ==
  \/ ClientReceives(e) \/ Hold(e) \/ OverLimit(e) \/ NodeReceives(e)
  \/ ResumeRelay(e)

Next ==
  \/ \E l \in Link : LinkStep(l) \/ DrainHeld(l)
  \/ \E c \in Client : ClientStep(c)
  \/ \E e \in End : Lose(e) \/ NoticeLoss(e) \/ ReceiveStep(e)

(* Nodes and the network keep going, and checks end (CyclePrevention);
   nobody has to connect, subscribe or publish. *)
Fairness ==
  /\ \A l \in Link : WF_vars(Accept(l)) /\ WF_vars(Activate(l) \/ Refuse(l))
                     /\ WF_vars(DrainHeld(l))
  /\ \A e \in End : WF_vars(NoticeLoss(e)) /\ WF_vars(ReceiveStep(e))

Spec == Init /\ [][Next]_vars

FairSpec == Spec /\ Fairness

-----------------------------------------------------------------------------
LinksTyped ==
  /\ life \in [End -> {"none", "up", "down"}]
  /\ pending \subseteq Link
  /\ tags \in [Node -> [Subject -> SUBSET End]]
  /\ lingering \subseteq End
MessagesTyped ==
  /\ chan \in [End -> Seq(Message)]
  /\ held \in [Link -> { h \in Seq(Message) : Len(h) <= HeldLimit }]
  /\ unsent \in [End -> Relay]
ClientsTyped ==
  /\ wants \in [Client -> SUBSET Subject]
  /\ got \in [Client -> [Pub -> 0 .. 2]]
  /\ published \subseteq Pub
  /\ due \in [Pub -> SUBSET Client]
CountersTyped ==
  /\ changes \in 0 .. MaxChanges
  /\ losses \in 0 .. MaxLosses
  /\ overflows \in 0 .. MaxOverflows

(* Types of the state; in particular no more is held than the limit. *)
TypeOK == LinksTyped /\ MessagesTyped /\ ClientsTyped /\ CountersTyped

(* The ends a node sends publishes to are connections it has, and has
   accepted: none outlives its connection, whatever happens to it and in
   whatever order (_drop_connection, and the guard in _activate's loop). *)
TagsAreCurrent ==
  \A n \in Node, s \in Subject : tags[n][s] \subseteq ActiveEnds(n)

(* What the peer of e takes e's node to want once it has received everything
   that is under way: the last word on s, or else how e's peer is tagged. *)
Word(c, s) ==
  LET about == { i \in DOMAIN c : c[i].type = "sub" /\ c[i].subject = s }
  IN IF about = {} THEN "none"
     ELSE IF c[CHOOSE i \in about : \A j \in about : j <= i].on THEN "on"
     ELSE "off"

ToldWanted(e, s) ==
  LET h == IF e.side = "acc" THEN Word(held[e.link], s) ELSE "none"
      w == IF Word(chan[e], s) # "none" THEN Word(chan[e], s) ELSE h
  IN IF w = "none" THEN Peer(e) \in tags[At(Peer(e))][s] ELSE w = "on"

(* A neighbour has always been told exactly whether this node wants a subject
   from it, i.e. whether anyone else at this node subscribes to it: the rule
   _unsubscribe is written for, and what every relayed subscribe, every join
   and every loss must keep, whatever crosses on the way. *)
NeighboursToldExactly ==
  \A e \in End, s \in Subject :
    /\ e \in ActiveEnds(At(e)) /\ life[Peer(e)] # "down"
    /\ At(e) \notin Client /\ At(Peer(e)) \notin Client
    => (ToldWanted(e, s) <=> tags[At(e)][s] \ {e} # {})

(* When the bus is at rest, publishes on a subject go in exactly the directions
   where a client wants it: no subscription is missing, and none is left over
   once the last subscriber on that side has gone. *)
RoutingExact ==
  Quiet =>
    \A l \in Joined : \A e \in {EstEnd(l), AccEnd(l)} :
      At(e) \notin Client =>
        \A s \in Subject :
          e \in tags[At(e)][s] <=>
            \E c \in Client \cap Behind(At(Peer(e)), l) : s \in wants[c]

(* A publish from a bus at rest reaches every interested client on it, once,
   whoever else subscribes, unsubscribes or joins while it is under way. *)
UnderWay(p) ==
  LET m == [type |-> "pub", pub |-> p]
  IN \/ \E e \in End : \E i \in DOMAIN chan[e] : chan[e][i] = m
     \/ \E l \in Link : \E i \in DOMAIN held[l] : held[l][i] = m
     \/ \E e \in End : unsent[e].to # {} /\ unsent[e].what = m

DueIsDelivered ==
  \A p \in published : ~ UnderWay(p) => \A c \in due[p] : got[c][p] = 1

(* No client gets a publish twice, its own or another's, however links are made
   and dropped for a full queue while it is under way. *)
NoDuplicates == \A c \in Client, p \in Pub : got[c][p] < 2

(* Nothing but subscriptions is ever sent on a link that is still pending at
   the other end, so held messages are few ("It sends no publishes there"). *)
NoPublishHeldForCheck ==
  \A l \in pending : \A i \in DOMAIN held[l] : held[l][i].type = "sub"

(* The bus comes to rest: no subscription or publish goes round for ever. *)
ComesToRest == <>[] Quiet
=============================================================================
