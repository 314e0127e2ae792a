---------------------- MODULE SubscriptionRouting_proofs ----------------------
(***************************************************************************)
(* Proofs about SubscriptionRouting, for any nodes, clients, links and      *)
(* subjects, and any bounds on changes, losses and overflows.               *)
(***************************************************************************)
EXTENDS SubscriptionRouting, Ends_proofs, TLAPS, FiniteSetTheorems, SequenceTheorems,
        WellFoundedInduction

-----------------------------------------------------------------------------
(* Ends and messages. *)

Channels    == [End -> Seq(Message)]
Subscribers == [Node -> [Subject -> SUBSET End]]
HeldLists   == [Link -> { h \in Seq(Message) : Len(h) <= HeldLimit }]
Relays      == [End -> Relay]

LEMMA SubType ==
  ASSUME NEW s \in Subject, NEW on \in BOOLEAN
  PROVE  /\ Sub(s, on) \in Message
         /\ Sub(s, on).type = "sub" /\ Sub(s, on).subject = s /\ Sub(s, on).on = on
BY DEF Sub, Message, SubMessage

LEMMA PubType ==
  ASSUME NEW p \in Pub
  PROVE  /\ [type |-> "pub", pub |-> p] \in Message
         /\ [type |-> "pub", pub |-> p].type = "pub"
BY DEF Message, PubMessage

LEMMA MessageCases ==
  ASSUME NEW m \in Message
  PROVE  \/ m.type = "sub" /\ m.subject \in Subject /\ m.on \in BOOLEAN
         \/ m.type = "pub" /\ m.pub \in Pub
BY DEF Message, SubMessage, PubMessage

(* The messages of Each are those for the subjects of S, and no others. *)
LEMMA EachIs ==
  ASSUME NEW S \in SUBSET Subject, NEW on \in BOOLEAN
  PROVE  /\ Each(S, on) \in Seq(Message)
         /\ \A i \in DOMAIN Each(S, on) : \E s \in S : Each(S, on)[i] = Sub(s, on)
         /\ \A s \in S : \E i \in DOMAIN Each(S, on) : Each(S, on)[i] = Sub(s, on)
<1> DEFINE n == Cardinality(S)
           Orders(f) == f \in [1 .. n -> S] /\ \A s \in S : \E i \in DOMAIN f : f[i] = s
           order == CHOOSE f \in [1 .. n -> S] : \A s \in S : \E i \in DOMAIN f : f[i] = s
<1>1. IsFiniteSet(S)
  BY SubjectAssumption, FS_Subset
<1>2. n \in Nat /\ ExistsBijection(1 .. n, S)
  BY <1>1, FS_CardinalityType
<1>3. \E f \in [1 .. n -> S] : \A s \in S : \E i \in DOMAIN f : f[i] = s
  BY <1>2 DEF ExistsBijection, Bijection, Surjection
<1>4. order \in [1 .. n -> S] /\ \A s \in S : \E i \in DOMAIN order : order[i] = s
  BY <1>3
<1>5. Each(S, on) = [i \in 1 .. n |-> Sub(order[i], on)]
  BY DEF Each
<1> HIDE DEF n, order
<1>6. \A i \in 1 .. n : order[i] \in S /\ Sub(order[i], on) \in Message
  BY <1>4, SubType
<1>7. Each(S, on) \in Seq(Message)
  BY <1>2, <1>5, <1>6, IsASeq
<1> QED  BY <1>4, <1>5, <1>6, <1>7

LEMMA EachOfNone ==
  ASSUME NEW on \in BOOLEAN
  PROVE  Each({}, on) = <<>>
<1> DEFINE r == Each({}, on)
<1>1. {} \in SUBSET Subject
  OBVIOUS
<1>2. r \in Seq(Message) /\ \A i \in DOMAIN r : \E s \in {} : r[i] = Sub(s, on)
  BY <1>1, EachIs
<1> HIDE DEF r
<1>3. Len(r) \in Nat /\ DOMAIN r = 1 .. Len(r) /\ DOMAIN r = {}
  BY <1>2, LenProperties
<1>4. Len(r) = 0
  BY <1>3
<1> QED  BY <1>2, <1>4, EmptySeq DEF r

LEMMA SentType ==
  ASSUME NEW c \in Channels, NEW targets, NEW m \in Message
  PROVE  Sent(c, targets, m) \in Channels
<1>1. \A e \in End : Append(c[e], m) \in Seq(Message)
  BY AppendProperties DEF Channels
<1> QED  BY <1>1 DEF Sent, Channels

LEMMA UntoldType ==
  ASSUME NEW c \in Channels, NEW T, NEW e
  PROVE  Untold(c, T, e) \in Channels
<1> DEFINE S(x) == { s \in Subject : x \in NoLongerWantedFrom(T, e, s)
                                     /\ Heeded(x, Sub(s, FALSE)) }
<1>1. \A x \in End : S(x) \in SUBSET Subject
  OBVIOUS
<1>2. \A x \in End : Each(S(x), FALSE) \in Seq(Message)
  BY <1>1, EachIs
<1>3. \A x \in End : c[x] \o Each(S(x), FALSE) \in Seq(Message)
  BY <1>2, ConcatProperties DEF Channels
<1> QED  BY <1>3 DEF Untold, Channels

-----------------------------------------------------------------------------
(* Types. *)

LEMMA TargetsType ==
  ASSUME LinksTyped, NEW e \in End, NEW m \in Message
  PROVE  /\ Targets(e, m) \subseteq End \ {e}
         /\ Tagged(e, m) \in Subscribers
<1>1. CASE m.type = "sub" /\ m.subject \in Subject /\ m.on \in BOOLEAN
  <2>1. ActiveEnds(At(e)) \subseteq End
    BY DEF ActiveEnds
  <2>2. tags[At(e)][m.subject] \subseteq End
    BY <1>1, EndFacts DEF LinksTyped
  <2>3. NoLongerWantedFrom(tags, e, m.subject) \subseteq End \ {e}
    BY <2>1, <2>2 DEF NoLongerWantedFrom
  <2>4. Targets(e, m) \subseteq End \ {e}
    BY <1>1, <2>1, <2>3 DEF Targets
  <2>5. Tagged(e, m) \in Subscribers
    BY <1>1, EndFacts DEF Tagged, LinksTyped, Subscribers
  <2> QED  BY <2>4, <2>5
<1>2. CASE m.type = "pub" /\ m.pub \in Pub
  <2>1. \A s \in MatchedBy[m.pub] : tags[At(e)][s] \subseteq End
    BY <1>2, EndFacts, SubjectAssumption DEF LinksTyped
  <2> DEFINE lists == { tags[At(e)][s] : s \in MatchedBy[m.pub] }
  <2>2. Targets(e, m) = (UNION lists) \ {e}
    BY <1>2 DEF Targets
  <2>3. ASSUME NEW x \in Targets(e, m)  PROVE x \in End \ {e}
    <3>1. x # e /\ x \in UNION lists
      BY <2>2
    <3>2. PICK list \in lists : x \in list
      BY <3>1
    <3> QED  BY <2>1, <3>1, <3>2
  <2> QED  BY <1>2, <2>3 DEF Tagged, LinksTyped, Subscribers
<1> QED  BY <1>1, <1>2, MessageCases

LEMMA DropType ==
  ASSUME LinksTyped, NEW e \in End, NEW c \in Channels, NEW T \in Subscribers,
         NEW h \in HeldLists, NEW u \in Relays, DropFrom(e, c, T, h, u)
  PROVE  /\ life' \in [End -> {"none", "up", "down"}] /\ pending' \subseteq Link
         /\ tags' \in Subscribers /\ chan' \in Channels /\ held' \in HeldLists
         /\ unsent' \in Relays /\ due' \in [Pub -> SUBSET Client]
<1>1. life' \in [End -> {"none", "up", "down"}] /\ pending' \subseteq Link
  BY DEF DropFrom, LinksTyped
<1>2. tags' \in Subscribers
  BY EndFacts DEF DropFrom, Subscribers
<1>3. chan' \in Channels
  <2>1. Untold(c, T, e) \in Channels /\ <<>> \in Seq(Message)
    BY UntoldType
  <2>2. chan' = [Untold(c, T, e) EXCEPT ![Peer(e)] = <<>>]
    BY DEF DropFrom
  <2> QED  BY <2>1, <2>2 DEF Channels
<1>4. held' \in HeldLists
  <2>1. <<>> \in Seq(Message) /\ Len(<<>>) <= HeldLimit
    BY RoutingBoundsAssumption
  <2> QED  BY <2>1 DEF DropFrom, HeldLists
<1>5. unsent' \in Relays
  BY DEF DropFrom, Relays, Relay
<1> QED  BY <1>1, <1>2, <1>3, <1>4, <1>5 DEF DropFrom

LEMMA HandleType ==
  ASSUME LinksTyped, MessagesTyped, NEW e \in End, NEW m \in Message,
         NEW c \in Channels, NEW h \in HeldLists, NEW by \in {"loop", "drain"},
         Handle(e, m, c, h, by), UNCHANGED lingering,
         due \in [Pub -> SUBSET Client], overflows \in 0 .. MaxOverflows
  PROVE  /\ LinksTyped' /\ MessagesTyped' /\ due' \in [Pub -> SUBSET Client]
         /\ overflows' \in 0 .. MaxOverflows
<1>1. Targets(e, m) \subseteq End \ {e} /\ Tagged(e, m) \in Subscribers
  BY TargetsType
<1>2. CASE /\ tags' = Tagged(e, m) /\ chan' = Sent(c, Targets(e, m), m) /\ held' = h
           /\ UNCHANGED <<life, pending, unsent, due, overflows>>
  <2>1. chan' \in Channels
    BY <1>2, SentType
  <2>2. LinksTyped'
    BY <1>1, <1>2 DEF LinksTyped, Subscribers
  <2>3. MessagesTyped'
    BY <1>2, <2>1 DEF MessagesTyped, Channels, HeldLists
  <2> QED  BY <1>2, <2>2, <2>3
<1>3. ASSUME overflows < MaxOverflows, overflows' = overflows + 1,
             NEW full \in Targets(e, m), NEW later \in SUBSET (Targets(e, m) \ {full}),
             DropFrom(full, Sent(c, Targets(e, m) \ (later \cup {full}), m),
                      Tagged(e, m), h,
                      IF later = {} THEN unsent
                      ELSE [unsent EXCEPT ![e] = [to |-> later, what |-> m, by |-> by]])
      PROVE  /\ LinksTyped' /\ MessagesTyped' /\ due' \in [Pub -> SUBSET Client]
             /\ overflows' \in 0 .. MaxOverflows
  <2> DEFINE sent == Sent(c, Targets(e, m) \ (later \cup {full}), m)
             suspended == IF later = {} THEN unsent
                ELSE [unsent EXCEPT ![e] = [to |-> later, what |-> m, by |-> by]]
  <2>1. sent \in Channels
    BY SentType
  <2>2. suspended \in Relays
    <3>1. [to |-> later, what |-> m, by |-> by] \in Relay
      BY <1>1 DEF Relay
    <3> QED  BY <3>1 DEF MessagesTyped, Relays
  <2>3. DropFrom(full, sent, Tagged(e, m), h, suspended)
    BY <1>3
  <2> HIDE DEF sent, suspended
  <2>4. /\ life' \in [End -> {"none", "up", "down"}] /\ pending' \subseteq Link
        /\ tags' \in Subscribers /\ chan' \in Channels /\ held' \in HeldLists
        /\ unsent' \in Relays /\ due' \in [Pub -> SUBSET Client]
    BY <1>1, <2>1, <2>2, <2>3, DropType
  <2>5. overflows' \in 0 .. MaxOverflows
    BY <1>3, RoutingBoundsAssumption
  <2> QED
    BY <2>4, <2>5 DEF LinksTyped, MessagesTyped, Channels, Subscribers, HeldLists, Relays
<1> QED  BY <1>2, <1>3 DEF Handle

USE DEF net, clients, counters

LEMMA HeadType ==
  ASSUME NEW q \in Seq(Message), q # <<>>
  PROVE  Head(q) \in Message /\ Tail(q) \in Seq(Message) /\ Len(Tail(q)) < Len(q)
BY HeadTailProperties, LenProperties

(* The links of a step of l. *)
LEMMA LinkStepType ==
  ASSUME TypeOK, NEW l \in Link, LinkStep(l)
  PROVE  TypeOK'
<1> USE DEF TypeOK
<1>1. Channels = [End -> Seq(Message)]
  BY DEF Channels
<1>2. \A e \in End, S \in SUBSET Subject :
        /\ Each(S, TRUE) \in Seq(Message)
        /\ chan[e] \o Each(S, TRUE) \in Seq(Message)
  BY EachIs, ConcatProperties DEF MessagesTyped
<1>3. \A e \in End : SubscriptionsSent(e) \in [End -> Seq(Message)]
  BY <1>2 DEF SubscriptionsSent, Known, MessagesTyped
<1>4. CASE Establish(l)
  BY <1>4, LinkFacts DEF Establish, LinksTyped, MessagesTyped, ClientsTyped, CountersTyped
<1>5. CASE Connect(l)
  <2>1. wants[Est[l]] \in SUBSET Subject
    BY <1>5 DEF Connect, ClientsTyped
  <2>2. MessagesTyped'
    BY <1>2, <1>5, <2>1 DEF Connect, MessagesTyped
  <2> QED  BY <1>5, <2>2 DEF Connect, LinksTyped, ClientsTyped, CountersTyped
<1>6. CASE Accept(l)
  <2>1. chan' \in [End -> Seq(Message)]
    <3>1. chan' \in {chan, SubscriptionsSent(AccEnd(l))}
      BY <1>6 DEF Accept
    <3> QED  BY <1>3, <3>1, LinkFacts DEF MessagesTyped
  <2> QED
    BY <1>6, <2>1 DEF Accept, LinksTyped, MessagesTyped, ClientsTyped, CountersTyped
<1>7. CASE Activate(l)
  <2>1. chan' \in [End -> Seq(Message)]
    <3>1. chan' \in {chan, SubscriptionsSent(EstEnd(l))}
      BY <1>7 DEF Activate
    <3> QED  BY <1>3, <3>1, LinkFacts DEF MessagesTyped
  <2> QED
    BY <1>7, <2>1 DEF Activate, LinksTyped, MessagesTyped, ClientsTyped, CountersTyped
<1>8. CASE Refuse(l)
  BY <1>8, LinkFacts, DropType
     DEF Refuse, Drop, LinksTyped, MessagesTyped, ClientsTyped, CountersTyped,
         Channels, Subscribers, HeldLists, Relays
<1> QED  BY <1>4, <1>5, <1>6, <1>7, <1>8 DEF LinkStep

LEMMA LossType ==
  ASSUME TypeOK, NEW e \in End, Lose(e) \/ NoticeLoss(e)
  PROVE  TypeOK'
<1> USE DEF TypeOK
<1>1. Drop(e)
  BY DEF Lose, NoticeLoss
<1>2. LinksTyped' /\ MessagesTyped' /\ due' \in [Pub -> SUBSET Client]
  BY <1>1, DropType
     DEF Drop, Lose, NoticeLoss, LinksTyped, MessagesTyped, Channels, Subscribers,
         HeldLists, Relays
<1>3. losses' \in 0 .. MaxLosses
  BY RoutingBoundsAssumption DEF Lose, NoticeLoss, CountersTyped
<1> QED  BY <1>2, <1>3 DEF Lose, NoticeLoss, ClientsTyped, CountersTyped

LEMMA DeliverType ==
  ASSUME ClientsTyped, NEW c \in Client, NEW p, Deliver(c, p)
  PROVE  got' \in [Client -> [Pub -> 0 .. 2]]
<1> DEFINE n == got[c][p]
<1>1. CASE p \in Pub
  <2>1. n \in 0 .. 2
    BY <1>1 DEF ClientsTyped
  <2>2. (IF Interested(c, p) /\ n < 2 THEN n + 1 ELSE n) \in 0 .. 2
    BY <2>1
  <2> QED  BY <1>1, <2>2 DEF ClientsTyped, Deliver
<1>2. CASE p \notin Pub
  BY <1>2 DEF ClientsTyped, Deliver
<1> QED  BY <1>1, <1>2

LEMMA ClientStepType ==
  ASSUME TypeOK, NEW c \in Client, ClientStep(c)
  PROVE  TypeOK'
<1> USE DEF TypeOK
<1>0. chan \in Channels /\ Channels = [End -> Seq(Message)]
  BY DEF Channels, MessagesTyped
<1>1. ASSUME NEW s \in Subject, Unsubscribe(c, s)  PROVE TypeOK'
  <2>1. MessagesTyped'
    BY <1>0, <1>1, SubType, SentType DEF Unsubscribe, MessagesTyped
  <2>2. changes' \in 0 .. MaxChanges
    BY <1>1, RoutingBoundsAssumption DEF Unsubscribe, CountersTyped
  <2> QED  BY <1>1, <2>1, <2>2 DEF Unsubscribe, LinksTyped, ClientsTyped, CountersTyped
<1>2. ASSUME NEW s \in Subject, NEW l \in Link, Subscribe(c, l, s)  PROVE TypeOK'
  <2>1. MessagesTyped'
    BY <1>0, <1>2, SubType, SentType DEF Subscribe, MessagesTyped
  <2>2. changes' \in 0 .. MaxChanges
    BY <1>2, RoutingBoundsAssumption DEF Subscribe, CountersTyped
  <2> QED  BY <1>2, <2>1, <2>2 DEF Subscribe, LinksTyped, ClientsTyped, CountersTyped
<1>3. ASSUME NEW l \in Link, NEW p \in Pub, Publish(c, l, p)  PROVE TypeOK'
  <2>1. MessagesTyped'
    BY <1>0, <1>3, PubType, SentType DEF Publish, MessagesTyped
  <2>2. got' \in [Client -> [Pub -> 0 .. 2]]
    BY <1>3, DeliverType DEF Publish
  <2>3. due' \in [Pub -> SUBSET Client]
    BY <1>3 DEF Publish, ClientsTyped
  <2> QED  BY <1>3, <2>1, <2>2, <2>3 DEF Publish, LinksTyped, ClientsTyped, CountersTyped
<1> QED  BY <1>1, <1>2, <1>3 DEF ClientStep

LEMMA ReceiveStepType ==
  ASSUME TypeOK, NEW e \in End, ReceiveStep(e)
  PROVE  TypeOK'
<1> USE DEF TypeOK
<1>0. Peer(e) \in End /\ At(e) \in Node /\ e.link \in Link
  BY EndFacts
<1>1. ASSUME Arrives(e)
      PROVE  /\ Head(chan[Peer(e)]) \in Message /\ Tail(chan[Peer(e)]) \in Seq(Message)
             /\ [chan EXCEPT ![Peer(e)] = Tail(@)] \in [End -> Seq(Message)]
  BY <1>0, <1>1, HeadType DEF Arrives, MessagesTyped
<1>2. CASE ClientReceives(e)
  <2>1. got' \in [Client -> [Pub -> 0 .. 2]]
    BY <1>2, DeliverType DEF ClientReceives
  <2> QED
    BY <1>1, <1>2, <2>1
       DEF ClientReceives, LinksTyped, MessagesTyped, ClientsTyped, CountersTyped
<1>3. CASE Hold(e)
  <2> DEFINE m == Head(chan[Peer(e)])
  <2>1. m \in Message /\ Len(held[e.link]) < HeldLimit /\ held[e.link] \in Seq(Message)
    BY <1>0, <1>1, <1>3 DEF Hold, MessagesTyped
  <2>2. Append(held[e.link], m) \in Seq(Message) /\ Len(Append(held[e.link], m)) <= HeldLimit
    <3> HIDE DEF m
    <3> QED  BY <2>1, AppendProperties, LenProperties, RoutingBoundsAssumption
  <2>3. held' \in HeldLists
    BY <1>0, <1>3, <2>2 DEF Hold, MessagesTyped, HeldLists
  <2> QED
    BY <1>1, <1>3, <2>3
       DEF Hold, LinksTyped, MessagesTyped, ClientsTyped, CountersTyped, HeldLists
<1>4. CASE OverLimit(e)
  <2> DEFINE rest == Tail(chan[Peer(e)])
  <2>1. PICK k \in 0 .. Len(rest) :
          chan' = [Untold(chan, tags, e) EXCEPT ![Peer(e)] = SubSeq(rest, 1, k)]
    <3>1. 0 \in 0 .. Len(rest)
      BY <1>1, <1>4, LenProperties DEF OverLimit
    <3> QED  BY <1>4, <3>1 DEF OverLimit
  <2>2. rest \in Seq(Message) /\ chan \in Channels
    BY <1>1, <1>4 DEF OverLimit, MessagesTyped, Channels
  <2>3. SubSeq(rest, 1, k) \in Seq(Message)
    <3> HIDE DEF rest
    <3>1. \A i \in 1 .. k : rest[i] \in Message
      BY <2>1, <2>2, LenProperties, ElementOfSeq
    <3> QED  BY <2>1, <2>2, <3>1, LenProperties, SubSeqProperties
  <2>4. chan' \in Channels
    BY <2>1, <2>2, <2>3, UntoldType DEF Channels
  <2>5. held' \in HeldLists
    <3>1. <<>> \in Seq(Message) /\ Len(<<>>) <= HeldLimit
      BY RoutingBoundsAssumption
    <3> QED  BY <1>4, <3>1 DEF OverLimit, MessagesTyped, HeldLists
  <2>6. tags' \in Subscribers
    BY <1>0, <1>4 DEF OverLimit, LinksTyped, Subscribers
  <2> QED
    BY <1>4, <2>4, <2>5, <2>6
       DEF OverLimit, LinksTyped, MessagesTyped, ClientsTyped, CountersTyped, Channels,
           Subscribers, HeldLists
<1>5. CASE NodeReceives(e)
  <2>1. [chan EXCEPT ![Peer(e)] = Tail(@)] \in Channels /\ held \in HeldLists
    BY <1>1, <1>5 DEF NodeReceives, Channels, HeldLists, MessagesTyped
  <2>2. LinksTyped' /\ MessagesTyped' /\ due' \in [Pub -> SUBSET Client]
        /\ overflows' \in 0 .. MaxOverflows
    BY <1>1, <1>5, <2>1, HandleType DEF NodeReceives, ClientsTyped, CountersTyped
  <2> QED  BY <1>5, <2>2 DEF NodeReceives, ClientsTyped, CountersTyped
<1>6. CASE ResumeRelay(e)
  <2>1. unsent[e].what \in Message /\ chan \in Channels
    BY <1>6 DEF ResumeRelay, MessagesTyped, Relay, NoRelay, Channels
  <2>2. chan' \in Channels
    BY <1>6, <2>1, SentType DEF ResumeRelay
  <2> QED
    BY <1>6, <2>2
       DEF ResumeRelay, LinksTyped, MessagesTyped, ClientsTyped, CountersTyped, Channels,
           Relay
<1> QED  BY <1>2, <1>3, <1>4, <1>5, <1>6 DEF ReceiveStep

LEMMA DrainType ==
  ASSUME TypeOK, NEW l \in Link, DrainHeld(l)
  PROVE  TypeOK'
<1> USE DEF TypeOK
<1>1. held[l] \in Seq(Message) /\ Len(held[l]) <= HeldLimit /\ held[l] # <<>>
  BY DEF DrainHeld, MessagesTyped
<1>2. /\ Head(held[l]) \in Message /\ Tail(held[l]) \in Seq(Message)
      /\ Len(Tail(held[l])) <= HeldLimit
  BY <1>1, HeadType, LenProperties, RoutingBoundsAssumption
<1>3. [held EXCEPT ![l] = Tail(@)] \in HeldLists /\ chan \in Channels
  BY <1>2 DEF MessagesTyped, HeldLists, Channels
<1>4. LinksTyped' /\ MessagesTyped' /\ due' \in [Pub -> SUBSET Client]
      /\ overflows' \in 0 .. MaxOverflows
  BY <1>2, <1>3, HandleType, LinkFacts DEF DrainHeld, ClientsTyped, CountersTyped
<1> QED  BY <1>4 DEF DrainHeld, ClientsTyped, CountersTyped

LEMMA TypeStep ==
  ASSUME TypeOK, [Next]_vars
  PROVE  TypeOK'
<1>1. CASE UNCHANGED vars
  BY <1>1
     DEF vars, TypeOK, LinksTyped, MessagesTyped, ClientsTyped, CountersTyped
<1> QED
  BY <1>1, LinkStepType, DrainType, ClientStepType, LossType, ReceiveStepType DEF Next

(* Whatever fails and in whatever order, no more messages are held for a link
   than held_messages_limit; the other variables keep their types, too. *)
THEOREM TypeCorrect == Spec => []TypeOK
<1>1. Init => TypeOK
  BY RoutingBoundsAssumption
     DEF Init, TypeOK, LinksTyped, MessagesTyped, ClientsTyped, CountersTyped, Relay
<1> QED  BY <1>1, TypeStep, PTL DEF Spec

-----------------------------------------------------------------------------
(* Links under check. *)

OnlySubs(q) == \A i \in DOMAIN q : q[i].type = "sub"

(* A node may send m from e: its end is there, and has been accepted, or it is
   the accepting end of a link under check and m is a subscription. *)
MayGet(e, m) ==
  life[e] # "none" /\ (e.link \in pending => e.side = "acc" /\ m.type = "sub")

(* No subscriber is on a link under check, at neither end: nothing is received
   from it there, and nothing is sent from the other. *)
SubscribersOK(T) ==
  \A n \in Node, s \in Subject : \A e \in T[n][s] :
    life[e] # "none" /\ e.link \notin pending

RelaysOK(u) == \A e \in End : \A x \in u[e].to : MayGet(x, u[e].what)

(* What is on its way over, or held for, a link that is not there yet or under
   check. *)
UnderWayOK(c, h) ==
  /\ \A l \in pending :
       c[EstEnd(l)] = <<>> /\ OnlySubs(c[AccEnd(l)]) /\ OnlySubs(h[l])
  /\ \A e \in End : life[e] = "none" => c[e] = <<>>
  /\ \A l \in Link : life[EstEnd(l)] = "none" => h[l] = <<>>

LinksOK ==
  /\ \A l \in pending : life[EstEnd(l)] = "up" /\ Est[l] \notin Client
  /\ \A l \in Link : life[AccEnd(l)] # "none" => life[EstEnd(l)] # "none"
  /\ \A e \in lingering : life[e] = "down"

CheckInv ==
  LinksOK /\ SubscribersOK(tags) /\ RelaysOK(unsent) /\ UnderWayOK(chan, held)

LEMMA OnlySubsFacts ==
  /\ OnlySubs(<<>>)
  /\ \A q \in Seq(Message) : OnlySubs(q) /\ q # <<>> =>
       Head(q).type = "sub" /\ OnlySubs(Tail(q))
  /\ \A q \in Seq(Message), m \in Message :
       OnlySubs(q) /\ m.type = "sub" => OnlySubs(Append(q, m))
<1>1. OnlySubs(<<>>)
  BY DEF OnlySubs
<1>2. ASSUME NEW q \in Seq(Message), OnlySubs(q), q # <<>>
      PROVE  Head(q).type = "sub" /\ OnlySubs(Tail(q))
  <2>1. Head(q) = q[1] /\ 1 \in DOMAIN q
    BY <1>2, LenProperties, EmptySeq
  <2>2. /\ DOMAIN Tail(q) = 1 .. Len(Tail(q)) /\ DOMAIN q = 1 .. Len(q)
        /\ Len(Tail(q)) = Len(q) - 1 /\ Len(q) \in Nat
        /\ \A i \in 1 .. Len(Tail(q)) : Tail(q)[i] = q[i + 1]
    BY <1>2, HeadTailProperties, LenProperties
  <2>3. \A i \in DOMAIN Tail(q) : i + 1 \in DOMAIN q /\ Tail(q)[i] = q[i + 1]
    BY <2>2
  <2> QED  BY <1>2, <2>1, <2>3 DEF OnlySubs
<1>3. ASSUME NEW q \in Seq(Message), NEW m \in Message, OnlySubs(q), m.type = "sub"
      PROVE  OnlySubs(Append(q, m))
  <2> DEFINE r == Append(q, m)
  <2>1. /\ r \in Seq(Message) /\ Len(r) = Len(q) + 1 /\ Len(q) \in Nat
        /\ \A i \in 1 .. Len(q) : r[i] = q[i]
        /\ r[Len(q) + 1] = m /\ DOMAIN q = 1 .. Len(q)
    BY AppendProperties, LenProperties
  <2> HIDE DEF r
  <2>2. DOMAIN r = 1 .. Len(q) + 1
    BY <2>1, LenProperties
  <2>3. \A i \in DOMAIN r : i = Len(q) + 1 \/ i \in 1 .. Len(q)
    BY <2>1, <2>2
  <2> QED  BY <1>3, <2>1, <2>3 DEF OnlySubs, r
<1> QED  BY <1>1, <1>2, <1>3

LEMMA OnlySubsEach ==
  ASSUME NEW q \in Seq(Message), OnlySubs(q), NEW S \in SUBSET Subject,
         NEW on \in BOOLEAN
  PROVE  /\ q \o Each(S, on) \in Seq(Message)
         /\ OnlySubs(q \o Each(S, on))
         /\ S = {} => q \o Each(S, on) = q
<1> DEFINE r == Each(S, on)
<1>1. r \in Seq(Message) /\ \A i \in DOMAIN r : r[i].type = "sub"
  BY EachIs, SubType
<1>2. S = {} => r = <<>>
  BY EachOfNone
<1> HIDE DEF r
<1>3. q \o r \in Seq(Message) /\ q \o <<>> = q
  BY <1>1, ConcatProperties, ConcatEmptySeq
<1>4. \A i \in DOMAIN (q \o r) :
        \/ i \in DOMAIN q /\ (q \o r)[i] = q[i]
        \/ i - Len(q) \in DOMAIN r /\ (q \o r)[i] = r[i - Len(q)]
  <2>1. /\ Len(q \o r) = Len(q) + Len(r) /\ Len(q) \in Nat /\ Len(r) \in Nat
        /\ \A i \in 1 .. Len(q) + Len(r) :
             (q \o r)[i] = IF i <= Len(q) THEN q[i] ELSE r[i - Len(q)]
        /\ DOMAIN q = 1 .. Len(q) /\ DOMAIN r = 1 .. Len(r)
        /\ DOMAIN (q \o r) = 1 .. Len(q \o r)
    BY <1>1, <1>3, ConcatProperties, LenProperties
  <2> QED  BY <2>1
<1>5. OnlySubs(q \o r)
  BY <1>1, <1>4 DEF OnlySubs
<1> QED  BY <1>2, <1>3, <1>5 DEF r

LEMMA SentOK ==
  ASSUME LinksTyped, NEW c \in Channels, NEW h, UnderWayOK(c, h), NEW m \in Message,
         NEW targets, \A x \in targets \cap End : Heeded(x, m) => MayGet(x, m)
  PROVE  UnderWayOK(Sent(c, targets, m), h)
<1> DEFINE d == Sent(c, targets, m)
<1>1. \A e \in End : d[e] = IF e \in targets /\ Heeded(e, m) THEN Append(c[e], m) ELSE c[e]
  BY DEF Sent
<1> HIDE DEF d
<1>2. ASSUME NEW l \in pending  PROVE d[EstEnd(l)] = <<>> /\ OnlySubs(d[AccEnd(l)])
  <2>1. l \in Link
    BY DEF LinksTyped
  <2>2. d[EstEnd(l)] = c[EstEnd(l)]
    BY <1>1, <2>1, LinkFacts DEF MayGet
  <2>3. OnlySubs(c[AccEnd(l)]) /\ c[AccEnd(l)] \in Seq(Message)
    BY <2>1, LinkFacts DEF UnderWayOK, Channels
  <2>4. AccEnd(l) \in targets /\ Heeded(AccEnd(l), m) => m.type = "sub"
    BY <2>1, LinkFacts DEF MayGet
  <2>5. OnlySubs(d[AccEnd(l)])
    BY <1>1, <2>1, <2>3, <2>4, LinkFacts, OnlySubsFacts
  <2> QED  BY <2>2, <2>5 DEF UnderWayOK
<1>3. ASSUME NEW e \in End, life[e] = "none"  PROVE d[e] = <<>>
  BY <1>1, <1>3 DEF MayGet, UnderWayOK
<1> QED  BY <1>2, <1>3 DEF UnderWayOK, d

LEMMA UntoldOK ==
  ASSUME LinksTyped, NEW c \in Channels, NEW h, UnderWayOK(c, h),
         NEW T \in Subscribers, SubscribersOK(T), NEW e \in End
  PROVE  UnderWayOK(Untold(c, T, e), h)
<1> DEFINE d == Untold(c, T, e)
           S(x) == { s \in Subject : x \in NoLongerWantedFrom(T, e, s)
                                     /\ Heeded(x, Sub(s, FALSE)) }
<1>1. \A x \in End : d[x] = c[x] \o Each(S(x), FALSE) /\ S(x) \in SUBSET Subject
  BY DEF Untold
<1>2. ASSUME NEW x \in End, S(x) # {}
      PROVE  life[x] # "none" /\ (x.link \in pending => x.side = "acc")
  <2>1. PICK s \in Subject : x \in NoLongerWantedFrom(T, e, s)
    BY <1>2
  <2>2. x \in ActiveEnds(At(e)) \/ x \in T[At(e)][s]
    BY <2>1 DEF NoLongerWantedFrom
  <2>3. CASE x \in ActiveEnds(At(e))
    BY <2>3, EndFacts DEF ActiveEnds, IsPending
  <2>4. CASE x \in T[At(e)][s]
    BY <2>4, EndFacts DEF SubscribersOK
  <2> QED  BY <2>2, <2>3, <2>4
<1> HIDE DEF S, d
<1>3. \A x \in End : c[x] \in Seq(Message)
  BY DEF Channels
<1>4. ASSUME NEW x \in End, S(x) = {}  PROVE d[x] = c[x]
  <2>1. d[x] = c[x] \o <<>>
    BY <1>1, <1>4, EachOfNone
  <2> QED  BY <1>3, <2>1, ConcatEmptySeq
<1>5. ASSUME NEW l \in pending  PROVE d[EstEnd(l)] = <<>> /\ OnlySubs(d[AccEnd(l)])
  <2>1. l \in Link
    BY DEF LinksTyped
  <2>2. d[EstEnd(l)] = c[EstEnd(l)]
    BY <1>2, <1>4, <2>1, LinkFacts
  <2>3. OnlySubs(c[AccEnd(l)]) /\ c[AccEnd(l)] \in Seq(Message)
    BY <1>3, <2>1, LinkFacts DEF UnderWayOK
  <2>4. OnlySubs(d[AccEnd(l)])
    BY <1>1, <2>1, <2>3, LinkFacts, OnlySubsEach, ZenonT(60)
  <2> QED  BY <2>2, <2>4 DEF UnderWayOK
<1>6. ASSUME NEW x \in End, life[x] = "none"  PROVE d[x] = <<>>
  BY <1>2, <1>4, <1>6 DEF UnderWayOK
<1> QED  BY <1>5, <1>6 DEF UnderWayOK, d

LEMMA TargetsOK ==
  ASSUME LinksTyped, SubscribersOK(tags), NEW e \in End, NEW m \in Message,
         NEW x \in Targets(e, m)
  PROVE  MayGet(x, m)
<1>1. x \in End /\ At(e) \in Node
  BY TargetsType, EndFacts
<1>2. ASSUME NEW s \in Subject, x \in tags[At(e)][s]  PROVE MayGet(x, m)
  BY <1>1, <1>2 DEF SubscribersOK, MayGet
<1>3. CASE m.type = "pub" /\ m.pub \in Pub
  <2> DEFINE lists == { tags[At(e)][s] : s \in MatchedBy[m.pub] }
  <2>1. x \in UNION lists
    BY <1>3 DEF Targets
  <2>2. PICK s \in MatchedBy[m.pub] : x \in tags[At(e)][s]
    BY <2>1
  <2> QED  BY <1>2, <1>3, <2>2, SubjectAssumption
<1>4. CASE m.type = "sub" /\ m.subject \in Subject
  <2>1. x \in ActiveEnds(At(e)) \/ x \in tags[At(e)][m.subject]
    BY <1>4 DEF Targets, NoLongerWantedFrom
  <2>2. x \in ActiveEnds(At(e)) => MayGet(x, m)
    BY <1>1, <1>4, EndFacts DEF ActiveEnds, IsPending, MayGet
  <2> QED  BY <1>2, <1>4, <2>1, <2>2
<1> QED  BY <1>3, <1>4, MessageCases

LEMMA TaggedOK ==
  ASSUME SubscribersOK(tags), NEW e \in End, NEW m \in Message,
         life[e] # "none", e.link \notin pending, tags \in Subscribers
  PROVE  SubscribersOK(Tagged(e, m))
<1>1. \A n \in Node, s \in Subject : Tagged(e, m)[n][s] \subseteq tags[n][s] \cup {e}
  <2>1. CASE m.type = "pub"
    BY <2>1 DEF Tagged
  <2>2. CASE m.type = "sub" /\ m.subject \in Subject /\ m.on \in BOOLEAN
    BY <2>2, EndFacts DEF Tagged, Subscribers
  <2> QED  BY <2>1, <2>2, MessageCases
<1> QED  BY <1>1 DEF SubscribersOK

LEMMA DropOK ==
  ASSUME LinksTyped, LinksOK, NEW e \in End, life[e] = "up", NEW c \in Channels,
         NEW T \in Subscribers, NEW h \in HeldLists, NEW u \in Relays,
         SubscribersOK(T), RelaysOK(u), UnderWayOK(c, h),
         DropFrom(e, c, T, h, u), UNCHANGED lingering
  PROVE  CheckInv'
<1>1. /\ e.link \in Link /\ Peer(e) \in End /\ At(e) \in Node
      /\ e = EstEnd(e.link) \/ e = AccEnd(e.link)
      /\ e.side = "est" <=> e = EstEnd(e.link)
  BY EndFacts, LinkFacts
<1>2. /\ pending' \subseteq pending /\ pending \subseteq Link
      /\ e.side = "est" => e.link \notin pending'
      /\ \A x \in End : life'[x] = IF x = e THEN "down" ELSE life[x]
  BY DEF DropFrom, LinksTyped
<1>3. LinksOK'
  <2>1. ASSUME NEW l \in pending'  PROVE life'[EstEnd(l)] = "up" /\ Est[l] \notin Client
    BY <1>1, <1>2, LinkFacts DEF LinksOK
  <2>2. ASSUME NEW l \in Link, life'[AccEnd(l)] # "none"  PROVE life'[EstEnd(l)] # "none"
    BY <1>2, <2>2, LinkFacts DEF LinksOK
  <2>3. ASSUME NEW x \in lingering'  PROVE life'[x] = "down"
    BY <1>2 DEF LinksOK, LinksTyped
  <2> QED  BY <2>1, <2>2, <2>3 DEF LinksOK
<1>4. SubscribersOK(tags)'
  <2>1. \A n \in Node, s \in Subject : tags'[n][s] \subseteq T[n][s]
    BY <1>1 DEF DropFrom, Subscribers
  <2>2. \A n \in Node, s \in Subject : T[n][s] \subseteq End
    BY DEF Subscribers
  <2> QED  BY <1>2, <2>1, <2>2 DEF SubscribersOK
<1>5. RelaysOK(unsent)'
  <2>1. \A y \in End : unsent'[y].to \subseteq End
                       /\ (unsent'[y] = u[y] \/ unsent'[y].to = {})
    BY DEF DropFrom, Relays, Relay, NoRelay
  <2>2. \A y \in End, x \in End : MayGet(x, u[y].what) => MayGet(x, u[y].what)'
    BY <1>2 DEF MayGet
  <2> QED  BY <2>1, <2>2 DEF RelaysOK
<1>6. UnderWayOK(chan, held)'
  <2> DEFINE d == Untold(c, T, e)
  <2>1. UnderWayOK(d, h) /\ d \in Channels
    BY UntoldOK, UntoldType
  <2>2. chan' = [d EXCEPT ![Peer(e)] = <<>>]
    BY DEF DropFrom
  <2> HIDE DEF d
  <2>3. \A x \in End : chan'[x] = d[x] \/ chan'[x] = <<>>
    BY <2>1, <2>2 DEF Channels
  <2>4. \A l \in Link : held'[l] = h[l] \/ held'[l] = <<>>
    BY DEF DropFrom, HeldLists
  <2>5. OnlySubs(<<>>)
    BY OnlySubsFacts
  <2>6. ASSUME NEW l \in pending'
        PROVE  chan'[EstEnd(l)] = <<>> /\ OnlySubs(chan'[AccEnd(l)]) /\ OnlySubs(held'[l])
    BY <1>2, <2>1, <2>3, <2>4, <2>5, LinkFacts DEF UnderWayOK
  <2>7. ASSUME NEW x \in End, life'[x] = "none"  PROVE chan'[x] = <<>>
    BY <1>2, <2>1, <2>3, <2>7 DEF UnderWayOK
  <2>8. ASSUME NEW l \in Link, life'[EstEnd(l)] = "none"  PROVE held'[l] = <<>>
    BY <1>2, <2>1, <2>4, <2>8, LinkFacts DEF UnderWayOK
  <2>9. \A l \in pending' : OnlySubs(chan'[AccEnd(l)]) = OnlySubs(chan[AccEnd(l)])'
    OBVIOUS
  <2> QED  BY <2>6, <2>7, <2>8 DEF UnderWayOK, OnlySubs
<1> QED  BY <1>3, <1>4, <1>5, <1>6 DEF CheckInv

LEMMA HandleOK ==
  ASSUME LinksTyped, MessagesTyped, CheckInv, NEW e \in End, NEW m \in Message,
         life[e] # "none", e.link \notin pending,
         NEW c \in Channels, NEW h \in HeldLists, UnderWayOK(c, h),
         NEW by \in {"loop", "drain"}, Handle(e, m, c, h, by), UNCHANGED lingering
  PROVE  CheckInv'
<1>1. tags \in Subscribers /\ unsent \in Relays
  BY DEF LinksTyped, MessagesTyped, Subscribers, Relays
<1>2. /\ \A x \in Targets(e, m) : MayGet(x, m)
      /\ Targets(e, m) \subseteq End /\ Tagged(e, m) \in Subscribers
      /\ SubscribersOK(Tagged(e, m))
  BY <1>1, TargetsOK, TaggedOK, TargetsType DEF CheckInv
<1>3. CASE /\ tags' = Tagged(e, m) /\ chan' = Sent(c, Targets(e, m), m) /\ held' = h
           /\ UNCHANGED <<life, pending, unsent, due, overflows>>
  <2>1. UnderWayOK(Sent(c, Targets(e, m), m), h)
    BY <1>2, SentOK
  <2>2. UnderWayOK(chan, held)'
    BY <1>3, <2>1 DEF UnderWayOK
  <2>3. SubscribersOK(tags)'
    BY <1>2, <1>3 DEF SubscribersOK
  <2> QED  BY <1>3, <2>2, <2>3 DEF CheckInv, LinksOK, RelaysOK, MayGet
<1>4. ASSUME NEW full \in Targets(e, m), NEW later \in SUBSET (Targets(e, m) \ {full}),
             life[full] = "up",
             DropFrom(full, Sent(c, Targets(e, m) \ (later \cup {full}), m),
                      Tagged(e, m), h,
                      IF later = {} THEN unsent
                      ELSE [unsent EXCEPT ![e] = [to |-> later, what |-> m, by |-> by]])
      PROVE  CheckInv'
  <2> DEFINE sent == Sent(c, Targets(e, m) \ (later \cup {full}), m)
             suspended == IF later = {} THEN unsent
                ELSE [unsent EXCEPT ![e] = [to |-> later, what |-> m, by |-> by]]
  <2>1. sent \in Channels /\ UnderWayOK(sent, h)
    BY <1>2, SentType, SentOK
  <2>2. suspended \in Relays
    <3>1. [to |-> later, what |-> m, by |-> by] \in Relay
      BY <1>2 DEF Relay
    <3> QED  BY <1>1, <3>1 DEF Relays
  <2>3. RelaysOK(suspended)
    BY <1>1, <1>2 DEF RelaysOK, CheckInv, Relays
  <2>4. DropFrom(full, sent, Tagged(e, m), h, suspended)
    BY <1>4
  <2> HIDE DEF sent, suspended
  <2> QED  BY <1>2, <1>4, <2>1, <2>2, <2>3, <2>4, DropOK DEF CheckInv
<1> QED  BY <1>3, <1>4 DEF Handle

(* Nothing is taken from a link under check but by keeping it. *)
LEMMA TakenOK ==
  ASSUME LinksTyped, MessagesTyped, NEW e \in End, UnderWayOK(chan, held),
         chan[Peer(e)] # <<>>
  PROVE  UnderWayOK([chan EXCEPT ![Peer(e)] = Tail(@)], held)
<1> DEFINE c == [chan EXCEPT ![Peer(e)] = Tail(@)]
<1>1. Peer(e) \in End /\ chan \in [End -> Seq(Message)]
  BY EndFacts DEF MessagesTyped
<1>2. \A x \in End : c[x] = IF x = Peer(e) THEN Tail(chan[Peer(e)]) ELSE chan[x]
  BY <1>1
<1> HIDE DEF c
<1>3. ASSUME NEW l \in pending  PROVE c[EstEnd(l)] = <<>> /\ OnlySubs(c[AccEnd(l)])
  <2>1. l \in Link
    BY DEF LinksTyped
  <2>2. EstEnd(l) # Peer(e)
    BY <2>1 DEF UnderWayOK
  <2>3. OnlySubs(chan[AccEnd(l)]) /\ chan[AccEnd(l)] \in Seq(Message)
    BY <1>1, <2>1, LinkFacts DEF UnderWayOK
  <2> QED  BY <1>2, <2>1, <2>2, <2>3, LinkFacts, OnlySubsFacts DEF UnderWayOK
<1>4. ASSUME NEW x \in End, life[x] = "none"  PROVE c[x] = <<>>
  BY <1>2, <1>4 DEF UnderWayOK
<1> QED  BY <1>3, <1>4 DEF UnderWayOK, c

LEMMA LinkStepOK ==
  ASSUME TypeOK, CheckInv, NEW l \in Link, LinkStep(l)
  PROVE  CheckInv'
<1> USE DEF CheckInv
<1>0. /\ \A e \in End : life[e] \in {"none", "up", "down"} /\ chan[e] \in Seq(Message)
      /\ \A x \in End : x.link \in Link /\ x \in {EstEnd(x.link), AccEnd(x.link)}
      /\ pending \subseteq Link /\ lingering \subseteq End
      /\ \A e \in End : unsent[e].to \subseteq End
      /\ \A n \in Node, s \in Subject : tags[n][s] \subseteq End
  BY EndFacts DEF TypeOK, LinksTyped, MessagesTyped, Relay, NoRelay
<1>1. ASSUME life' = [life EXCEPT ![EstEnd(l)] = "up"], life[EstEnd(l)] = "none",
             pending' \subseteq pending \cup {l},
             l \in pending' => Est[l] \notin Client,
             UNCHANGED <<held, tags, unsent, lingering>>
      PROVE  LinksOK' /\ SubscribersOK(tags)' /\ RelaysOK(unsent)' /\ l \notin pending
             /\ life[AccEnd(l)] = "none"
  <2>1. l \notin pending /\ life[AccEnd(l)] = "none"
    BY <1>0, <1>1 DEF LinksOK
  <2>2. \A x \in End : life'[x] = IF x = EstEnd(l) THEN "up" ELSE life[x]
    BY <1>1 DEF TypeOK, LinksTyped
  <2>3. LinksOK'
    BY <1>0, <1>1, <2>2, LinkFacts DEF LinksOK
  <2>4. \A x \in End : life[x] # "none" => x.link # l
    BY <1>0, <1>1, <2>1
  <2>5. SubscribersOK(tags)'
    BY <1>0, <1>1, <2>2, <2>4 DEF SubscribersOK
  <2>6. RelaysOK(unsent)'
    BY <1>0, <1>1, <2>2, <2>4 DEF RelaysOK, MayGet
  <2> QED  BY <2>1, <2>3, <2>5, <2>6
<1>2. CASE Establish(l)
  <2>1. /\ LinksOK' /\ SubscribersOK(tags)' /\ RelaysOK(unsent)'
        /\ l \notin pending /\ life[AccEnd(l)] = "none"
    BY <1>1, <1>2 DEF Establish
  <2>2. chan' = chan /\ held' = held /\ pending' = pending \cup {l}
        /\ \A x \in End : life'[x] = "none" => life[x] = "none"
    BY <1>2 DEF Establish, TypeOK, LinksTyped
  <2>3. chan[EstEnd(l)] = <<>> /\ chan[AccEnd(l)] = <<>> /\ held[l] = <<>>
    BY <1>2, <2>1, LinkFacts DEF Establish, UnderWayOK
  <2>4. UnderWayOK(chan, held)'
    BY <2>2, <2>3, OnlySubsFacts, LinkFacts DEF UnderWayOK, OnlySubs
  <2> QED  BY <2>1, <2>4
<1>3. CASE Connect(l)
  <2>1. /\ LinksOK' /\ SubscribersOK(tags)' /\ RelaysOK(unsent)'
        /\ l \notin pending /\ life[AccEnd(l)] = "none"
    BY <1>1, <1>3, <1>0 DEF Connect, LinksOK
  <2>2. /\ held' = held /\ pending' = pending
        /\ \A x \in End : life'[x] = "none" => life[x] = "none" /\ x # EstEnd(l)
    BY <1>3, LinkFacts DEF Connect, TypeOK, LinksTyped
  <2>3. \A x \in End : x # EstEnd(l) => chan'[x] = chan[x]
    BY <1>3 DEF Connect, TypeOK, MessagesTyped
  <2>4. UnderWayOK(chan, held)'
    BY <1>0, <2>1, <2>2, <2>3, LinkFacts DEF UnderWayOK, OnlySubs
  <2> QED  BY <2>1, <2>4
<1>4. CASE Accept(l)
  <2>1. /\ UNCHANGED <<pending, held, tags, unsent, lingering>>
        /\ \A x \in End : life'[x] = IF x = AccEnd(l) THEN "up" ELSE life[x]
        /\ life[AccEnd(l)] = "none" /\ life[EstEnd(l)] # "none"
    BY <1>4 DEF Accept, TypeOK, LinksTyped
  <2>2. LinksOK' /\ SubscribersOK(tags)' /\ RelaysOK(unsent)'
    <3>1. LinksOK'
      BY <1>0, <2>1, LinkFacts DEF LinksOK
    <3> QED  BY <1>0, <2>1, <3>1, LinkFacts DEF SubscribersOK, RelaysOK, MayGet
  <2>3. /\ \A x \in End : x # AccEnd(l) => chan'[x] = chan[x]
        /\ OnlySubs(chan[AccEnd(l)]) => OnlySubs(chan'[AccEnd(l)])
    <3>1. CASE chan' = chan
      BY <3>1
    <3>2. CASE chan' = SubscriptionsSent(AccEnd(l))
      <4>1. Known(Acc[l]) \in SUBSET Subject
        BY DEF Known
      <4> QED
        BY <1>0, <3>2, <4>1, LinkFacts, OnlySubsEach, ZenonT(60)
           DEF SubscriptionsSent, TypeOK, MessagesTyped
    <3> QED  BY <1>4, <3>1, <3>2 DEF Accept
  <2>4. UnderWayOK(chan, held)'
    <3>1. \A k \in pending : OnlySubs(chan'[AccEnd(k)]) /\ chan'[EstEnd(k)] = <<>>
      BY <1>0, <2>3, LinkFacts DEF UnderWayOK
    <3> QED  BY <2>1, <2>3, <3>1, LinkFacts DEF UnderWayOK, OnlySubs
  <2> QED  BY <2>2, <2>4
<1>5. CASE Activate(l)
  <2>1. /\ UNCHANGED <<life, held, tags, unsent, lingering>>
        /\ pending' = pending \ {l} /\ l \in pending
    BY <1>5 DEF Activate
  <2>2. LinksOK' /\ SubscribersOK(tags)' /\ RelaysOK(unsent)'
    BY <1>0, <2>1, LinkFacts DEF LinksOK, SubscribersOK, RelaysOK, MayGet
  <2>3. \A x \in End : x # EstEnd(l) => chan'[x] = chan[x]
    BY <1>5 DEF Activate, SubscriptionsSent, TypeOK, MessagesTyped
  <2>4. UnderWayOK(chan, held)'
    <3>1. \A k \in pending' : chan'[AccEnd(k)] = chan[AccEnd(k)]
                               /\ chan'[EstEnd(k)] = chan[EstEnd(k)]
      BY <1>0, <2>1, <2>3, LinkFacts
    <3>2. life[EstEnd(l)] # "none"
      BY <2>1 DEF LinksOK
    <3> QED  BY <1>0, <2>1, <2>3, <3>1, <3>2, LinkFacts DEF UnderWayOK, OnlySubs
  <2> QED  BY <2>2, <2>4
<1>6. CASE Refuse(l)
  <2>1. life[EstEnd(l)] = "up" /\ DropFrom(EstEnd(l), chan, tags, held, unsent)
        /\ UNCHANGED lingering
    BY <1>6 DEF Refuse, Drop, LinksOK
  <2> QED
    BY <2>1, DropOK, LinkFacts
       DEF TypeOK, LinksTyped, MessagesTyped, Channels, Subscribers, HeldLists, Relays
<1> QED  BY <1>2, <1>3, <1>4, <1>5, <1>6 DEF LinkStep

LEMMA LossOK ==
  ASSUME TypeOK, CheckInv, NEW e \in End, Lose(e) \/ NoticeLoss(e)
  PROVE  CheckInv'
<1>1. life[e] = "up" /\ DropFrom(e, chan, tags, held, unsent) /\ UNCHANGED lingering
  BY DEF Lose, NoticeLoss, Drop
<1> QED
  BY <1>1, DropOK
     DEF CheckInv, TypeOK, LinksTyped, MessagesTyped, Channels, Subscribers, HeldLists,
         Relays

LEMMA ClientStepOK ==
  ASSUME TypeOK, CheckInv, NEW c \in Client, ClientStep(c)
  PROVE  CheckInv'
<1>1. ASSUME NEW targets \in SUBSET End, NEW m \in Message, UNCHANGED net,
             chan' = Sent(chan, targets, m),
             \A x \in targets : x.side = "est" /\ At(x) = c
      PROVE  CheckInv'
  <2>1. \A x \in targets : Heeded(x, m) => MayGet(x, m)
    BY <1>1, EndFacts DEF Heeded, MayGet, CheckInv, LinksOK
  <2>2. UnderWayOK(Sent(chan, targets, m), held)
    BY <2>1, SentOK DEF CheckInv, TypeOK, MessagesTyped, Channels
  <2>3. UnderWayOK(chan, held)'
    BY <1>1, <2>2 DEF UnderWayOK
  <2> QED  BY <1>1, <2>3 DEF CheckInv, LinksOK, SubscribersOK, RelaysOK, MayGet
<1>2. ASSUME NEW s \in Subject, Unsubscribe(c, s)  PROVE CheckInv'
  <2> DEFINE targets == { e \in End : e.side = "est" /\ At(e) = c }
  <2>1. UNCHANGED net /\ chan' = Sent(chan, targets, Sub(s, FALSE))
    BY <1>2 DEF Unsubscribe
  <2>2. targets \in SUBSET End /\ \A x \in targets : x.side = "est" /\ At(x) = c
    OBVIOUS
  <2> HIDE DEF targets
  <2> QED  BY <1>1, <2>1, <2>2, SubType
<1>3. ASSUME NEW s \in Subject, NEW l \in Link, Subscribe(c, l, s)  PROVE CheckInv'
  <2>1. {EstEnd(l)} \in SUBSET End /\ EstEnd(l).side = "est" /\ At(EstEnd(l)) = c
    BY <1>3, LinkFacts DEF Subscribe
  <2> QED  BY <1>1, <1>3, <2>1, SubType DEF Subscribe
<1>4. ASSUME NEW l \in Link, NEW p \in Pub, Publish(c, l, p)  PROVE CheckInv'
  <2>1. {EstEnd(l)} \in SUBSET End /\ EstEnd(l).side = "est" /\ At(EstEnd(l)) = c
    BY <1>4, LinkFacts DEF Publish
  <2> QED  BY <1>1, <1>4, <2>1, PubType DEF Publish
<1> QED  BY <1>2, <1>3, <1>4 DEF ClientStep

LEMMA ReceiveStepOK ==
  ASSUME TypeOK, CheckInv, NEW e \in End, ReceiveStep(e)
  PROVE  CheckInv'
<1> DEFINE c == [chan EXCEPT ![Peer(e)] = Tail(@)]
<1>0. /\ e.link \in Link /\ Peer(e) \in End /\ At(e) \in Node
      /\ e.side = "est" => e = EstEnd(e.link) /\ Peer(e) = AccEnd(e.link)
      /\ e.side = "acc" => e = AccEnd(e.link) /\ Peer(e) = EstEnd(e.link)
      /\ e.side \in {"est", "acc"}
  BY EndFacts
<1>1. /\ tags \in Subscribers /\ chan \in Channels /\ held \in HeldLists /\ unsent \in Relays
      /\ life \in [End -> {"none", "up", "down"}] /\ LinksTyped /\ MessagesTyped
      /\ pending \subseteq Link
  BY DEF TypeOK, LinksTyped, MessagesTyped, Channels, Subscribers, HeldLists, Relays
<1>2. ASSUME Arrives(e)
      PROVE  /\ UnderWayOK(c, held) /\ c \in Channels
             /\ Head(chan[Peer(e)]) \in Message
             /\ e.link \in pending => e.side = "est" /\ Head(chan[Peer(e)]).type = "sub"
             /\ e.link \in pending => life[e] = "up"
  <2>1. chan[Peer(e)] # <<>> /\ chan[Peer(e)] \in Seq(Message)
    BY <1>0, <1>1, <1>2 DEF Arrives, Channels
  <2>2. UnderWayOK(c, held)
    BY <1>1, <2>1, TakenOK DEF CheckInv
  <2>3. Head(chan[Peer(e)]) \in Message /\ Tail(chan[Peer(e)]) \in Seq(Message)
    BY <2>1, HeadType
  <2>4. c \in Channels
    BY <1>0, <1>1, <2>3 DEF Channels
  <2>5. ASSUME e.link \in pending
        PROVE  e.side = "est" /\ Head(chan[Peer(e)]).type = "sub" /\ life[e] = "up"
    BY <1>0, <2>1, <2>5, OnlySubsFacts DEF CheckInv, UnderWayOK, LinksOK
  <2> QED  BY <2>2, <2>3, <2>4, <2>5
<1>3. CASE ClientReceives(e)
  <2>1. UnderWayOK(c, held) /\ chan' = c /\ UNCHANGED net
    BY <1>2, <1>3 DEF ClientReceives
  <2>2. UnderWayOK(chan, held)'
    BY <2>1 DEF UnderWayOK
  <2> QED  BY <2>1, <2>2 DEF CheckInv, LinksOK, SubscribersOK, RelaysOK, MayGet
<1>4. CASE Hold(e)
  <2> DEFINE m == Head(chan[Peer(e)])
  <2>1. /\ UnderWayOK(c, held) /\ chan' = c /\ UNCHANGED <<life, pending, tags, unsent, lingering>>
        /\ held' = [held EXCEPT ![e.link] = Append(@, m)] /\ m \in Message
        /\ e.link \in pending => m.type = "sub"
        /\ life[EstEnd(e.link)] = "up"
    BY <1>0, <1>2, <1>4 DEF Hold, Holding
  <2> HIDE DEF c, m
  <2>2. \A l \in Link : held'[l] = IF l = e.link THEN Append(held[l], m) ELSE held[l]
    BY <1>1, <2>1 DEF HeldLists
  <2>3. \A l \in pending : OnlySubs(held[l]) /\ held[l] \in Seq(Message)
    BY <1>1, <2>1 DEF UnderWayOK, HeldLists
  <2>4. \A l \in pending : OnlySubs(held'[l])
    BY <1>1, <2>1, <2>2, <2>3, OnlySubsFacts
  <2>5. \A l \in Link : life[EstEnd(l)] = "none" => held'[l] = <<>>
    BY <2>1, <2>2 DEF UnderWayOK
  <2>6. UnderWayOK(chan, held)'
    BY <2>1, <2>4, <2>5 DEF UnderWayOK, OnlySubs
  <2> QED  BY <2>1, <2>6 DEF CheckInv, LinksOK, SubscribersOK, RelaysOK, MayGet
<1>5. CASE OverLimit(e)
  <2> DEFINE d == Untold(chan, tags, e)
             rest == Tail(chan[Peer(e)])
  <2>1. /\ e.side = "est" /\ life[e] = "up" /\ chan[Peer(e)] # <<>>
        /\ life' = [life EXCEPT ![e] = "down"] /\ pending' = pending \ {e.link}
        /\ held' = [held EXCEPT ![e.link] = <<>>] /\ unsent' = unsent
        /\ tags' = [tags EXCEPT ![At(e)] = [s \in Subject |-> @[s] \ {e}]]
        /\ lingering' = lingering \cup {e}
    BY <1>5 DEF OverLimit, Holding, Arrives
  <2>2. UnderWayOK(d, held) /\ d \in Channels
    BY <1>1, UntoldOK, UntoldType DEF CheckInv
  <2>3. \E k : chan' = [d EXCEPT ![Peer(e)] = SubSeq(rest, 1, k)]
    BY <1>5 DEF OverLimit
  <2> HIDE DEF d, rest
  <2>4. /\ \A x \in End : x # Peer(e) => chan'[x] = d[x]
        /\ \A x \in End : life'[x] = IF x = e THEN "down" ELSE life[x]
        /\ \A l \in Link : held'[l] = IF l = e.link THEN <<>> ELSE held[l]
        /\ life[Peer(e)] # "none"
    BY <1>0, <1>1, <2>1, <2>2, <2>3 DEF Channels, HeldLists, CheckInv, UnderWayOK
  <2>5. LinksOK'
    BY <1>0, <1>1, <2>1, <2>4, LinkFacts DEF CheckInv, LinksOK
  <2>6. SubscribersOK(tags)'
    <3>1. \A n \in Node, s \in Subject : tags'[n][s] \subseteq tags[n][s] /\ tags[n][s] \subseteq End
      BY <1>0, <1>1, <2>1 DEF Subscribers
    <3> QED  BY <2>1, <2>4, <3>1 DEF CheckInv, SubscribersOK
  <2>7. RelaysOK(unsent)'
    <3>1. \A x \in End : unsent[x].to \subseteq End
      BY <1>1 DEF Relays, Relay, NoRelay
    <3> QED  BY <2>1, <2>4, <3>1 DEF CheckInv, RelaysOK, MayGet
  <2>8. UnderWayOK(chan, held)'
    BY <1>0, <1>1, <2>1, <2>2, <2>4, LinkFacts DEF UnderWayOK, OnlySubs
  <2> QED  BY <2>5, <2>6, <2>7, <2>8 DEF CheckInv
<1>6. CASE NodeReceives(e)
  <2>1. Arrives(e) /\ life[e] # "none"
    BY <1>6, <1>1 DEF NodeReceives, Arrives, CheckInv, LinksOK
  <2>2. e.link \notin pending
    BY <1>0, <1>2, <1>6, <2>1 DEF NodeReceives, Holding, CheckInv, LinksOK
  <2>3. Handle(e, Head(chan[Peer(e)]), c, held, "loop") /\ UNCHANGED lingering
    BY <1>6 DEF NodeReceives
  <2> QED  BY <1>1, <1>2, <2>1, <2>2, <2>3, HandleOK
<1>7. CASE ResumeRelay(e)
  <2>1. /\ chan' = Sent(chan, unsent[e].to, unsent[e].what)
        /\ unsent' = [unsent EXCEPT ![e] = NoRelay] /\ unsent[e].to # {}
        /\ UNCHANGED <<life, pending, held, tags, lingering>>
    BY <1>7 DEF ResumeRelay
  <2>2. unsent[e].what \in Message /\ \A x \in unsent[e].to : MayGet(x, unsent[e].what)
    BY <1>1, <2>1 DEF Relays, Relay, NoRelay, CheckInv, RelaysOK
  <2>3. UnderWayOK(Sent(chan, unsent[e].to, unsent[e].what), held)
    BY <1>1, <2>2, SentOK DEF CheckInv
  <2>4. UnderWayOK(chan, held)'
    BY <2>1, <2>3 DEF UnderWayOK
  <2>5. RelaysOK(unsent)'
    <3>1. \A x \in End : unsent'[x] = unsent[x] \/ unsent'[x].to = {}
      BY <1>1, <2>1 DEF Relays, NoRelay
    <3> QED  BY <2>1, <3>1 DEF CheckInv, RelaysOK, MayGet
  <2> QED  BY <2>1, <2>4, <2>5 DEF CheckInv, LinksOK, SubscribersOK
<1> QED  BY <1>3, <1>4, <1>5, <1>6, <1>7 DEF ReceiveStep

LEMMA DrainOK ==
  ASSUME TypeOK, CheckInv, NEW l \in Link, DrainHeld(l)
  PROVE  CheckInv'
<1> DEFINE h == [held EXCEPT ![l] = Tail(@)]
<1>1. /\ l \notin pending /\ held[l] # <<>> /\ UNCHANGED lingering
      /\ Handle(EstEnd(l), Head(held[l]), chan, h, "drain")
  BY DEF DrainHeld
<1>2. held[l] \in Seq(Message) /\ Len(held[l]) <= HeldLimit
  BY DEF TypeOK, MessagesTyped
<1>3. /\ Head(held[l]) \in Message /\ Tail(held[l]) \in Seq(Message)
      /\ Len(Tail(held[l])) <= HeldLimit
  BY <1>1, <1>2, HeadType, LenProperties, RoutingBoundsAssumption
<1>4. h \in HeldLists /\ chan \in Channels /\ LinksTyped /\ MessagesTyped
  BY <1>3 DEF TypeOK, MessagesTyped, HeldLists, Channels
<1>5. UnderWayOK(chan, h)
  BY <1>1 DEF CheckInv, UnderWayOK, TypeOK, LinksTyped, MessagesTyped
<1>6. life[EstEnd(l)] # "none"
  BY <1>1 DEF CheckInv, UnderWayOK
<1> HIDE DEF h
<1> QED  BY <1>1, <1>3, <1>4, <1>5, <1>6, LinkFacts, HandleOK

LEMMA CheckStep ==
  ASSUME TypeOK, CheckInv, [Next]_vars
  PROVE  CheckInv'
<1>1. CASE UNCHANGED vars
  BY <1>1 DEF vars, CheckInv, LinksOK, SubscribersOK, RelaysOK, MayGet, UnderWayOK
<1> QED
  BY <1>1, LinkStepOK, DrainOK, ClientStepOK, LossOK, ReceiveStepOK DEF Next

LEMMA CheckInit == Init => CheckInv
<1> SUFFICES ASSUME Init PROVE CheckInv
  OBVIOUS
<1>1. pending = {} /\ lingering = {} /\ \A e \in End : unsent[e].to = {}
  BY DEF Init, NoRelay
<1>2. \A l \in Link : life[EstEnd(l)] = life[AccEnd(l)]
  BY LinkFacts DEF Init
<1>3. \A n \in Node, s \in Subject : tags[n][s] = {}
  BY DEF Init
<1> QED
  BY <1>1, <1>2, <1>3 DEF Init, CheckInv, LinksOK, SubscribersOK, RelaysOK, UnderWayOK

(* The node that accepts a link sends no publishes there before the one that
   established it has accepted it, too, whatever fails, overflows and is kept
   meanwhile: what _HeldMessages holds for a check are subscriptions. *)
THEOREM NoPublishIsHeld == Spec => []NoPublishHeldForCheck
<1>1. Init => TypeOK /\ CheckInv
  BY CheckInit, RoutingBoundsAssumption
     DEF Init, TypeOK, LinksTyped, MessagesTyped, ClientsTyped, CountersTyped, Relay
<1>2. TypeOK /\ CheckInv /\ [Next]_vars => TypeOK' /\ CheckInv'
  BY TypeStep, CheckStep
<1>3. CheckInv => NoPublishHeldForCheck
  BY DEF CheckInv, UnderWayOK, OnlySubs, NoPublishHeldForCheck
<1> QED  BY <1>1, <1>2, <1>3, PTL DEF Spec

-----------------------------------------------------------------------------
(* Connections that are gone. *)

(* The subscribers of a node are connections that it has. *)
ListedOK(T) ==
  \A n \in Node, s \in Subject : \A e \in T[n][s] : At(e) = n /\ life[e] = "up"

(* Nothing is left for an end that is gone, ... *)
SilentOK(c) == \A e \in End : life[e] = "down" => c[Peer(e)] = <<>>

(* ... and what is held is held for an end that is there. *)
HeldOK(h) == \A l \in Link : h[l] # <<>> => life[EstEnd(l)] = "up"

GoneInv == ListedOK(tags) /\ SilentOK(chan) /\ HeldOK(held)

LEMMA SentSilent ==
  ASSUME NEW c \in Channels, SilentOK(c), NEW m \in Message, NEW targets
  PROVE  SilentOK(Sent(c, targets, m))
<1> DEFINE d == Sent(c, targets, m)
<1>1. \A e \in End : d[e] = IF e \in targets /\ Heeded(e, m) THEN Append(c[e], m) ELSE c[e]
  BY DEF Sent
<1> HIDE DEF d
<1>2. ASSUME NEW e \in End, life[e] = "down"  PROVE d[Peer(e)] = <<>>
  <2>1. Peer(e) \in End /\ ~ Heeded(Peer(e), m)
    BY <1>2, EndFacts DEF Heeded
  <2> QED  BY <1>1, <1>2, <2>1 DEF SilentOK
<1> QED  BY <1>2 DEF SilentOK, d

LEMMA UntoldSilent ==
  ASSUME NEW c \in Channels, SilentOK(c), NEW T, NEW e
  PROVE  SilentOK(Untold(c, T, e))
<1> DEFINE d == Untold(c, T, e)
           S(x) == { s \in Subject : x \in NoLongerWantedFrom(T, e, s)
                                     /\ Heeded(x, Sub(s, FALSE)) }
<1>1. \A x \in End : d[x] = c[x] \o Each(S(x), FALSE)
  BY DEF Untold
<1>2. ASSUME NEW x \in End, life[x] = "down"  PROVE S(Peer(x)) = {}
  BY <1>2, EndFacts DEF Heeded
<1> HIDE DEF S, d
<1>3. ASSUME NEW x \in End, life[x] = "down"  PROVE d[Peer(x)] = <<>>
  <2>1. Peer(x) \in End /\ c[Peer(x)] = <<>>
    BY <1>3, EndFacts DEF SilentOK
  <2>2. d[Peer(x)] = <<>> \o <<>>
    BY <1>1, <1>2, <1>3, <2>1, EachOfNone
  <2> QED  BY <2>2
<1> QED  BY <1>3 DEF SilentOK, d

LEMMA TaggedListed ==
  ASSUME ListedOK(tags), tags \in Subscribers, NEW e \in End, NEW m \in Message,
         life[e] = "up"
  PROVE  ListedOK(Tagged(e, m))
<1>1. CASE m.type = "pub"
  BY <1>1 DEF Tagged
<1>2. CASE m.type = "sub" /\ m.subject \in Subject /\ m.on \in BOOLEAN
  <2>1. \A n \in Node, s \in Subject :
          \/ Tagged(e, m)[n][s] \subseteq tags[n][s]
          \/ n = At(e) /\ Tagged(e, m)[n][s] = tags[n][s] \cup {e}
    BY <1>2, EndFacts DEF Tagged, Subscribers
  <2> QED  BY <2>1 DEF ListedOK
<1> QED  BY <1>1, <1>2, MessageCases

LEMMA DropListed ==
  ASSUME life \in [End -> {"none", "up", "down"}], NEW e \in End, NEW T \in Subscribers,
         ListedOK(T), life' = [life EXCEPT ![e] = "down"],
         tags' = [T EXCEPT ![At(e)] = [s \in Subject |-> @[s] \ {e}]]
  PROVE  ListedOK(tags)'
<1>1. At(e) \in Node
  BY EndFacts
<1>2. \A n \in Node, s \in Subject :
        /\ tags'[n][s] \subseteq T[n][s] /\ T[n][s] \subseteq End
        /\ n = At(e) => e \notin tags'[n][s]
  BY <1>1 DEF Subscribers
<1>3. ASSUME NEW n \in Node, NEW s \in Subject, NEW x \in tags'[n][s]
      PROVE  At(x) = n /\ life'[x] = "up"
  BY <1>2 DEF ListedOK
<1> QED  BY <1>3 DEF ListedOK

LEMMA DropGone ==
  ASSUME LinksTyped, NEW e \in End, NEW c \in Channels,
         NEW T \in Subscribers, NEW h \in HeldLists, NEW u,
         ListedOK(T), SilentOK(c), HeldOK(h), DropFrom(e, c, T, h, u)
  PROVE  GoneInv'
<1>1. /\ e.link \in Link /\ Peer(e) \in End /\ At(e) \in Node
      /\ e.side = "est" <=> e = EstEnd(e.link)
      /\ \A x \in End : Peer(x) \in End /\ (x # e => Peer(x) # Peer(e))
  BY EndFacts, LinkFacts
<1>2. /\ \A x \in End : life'[x] = IF x = e THEN "down" ELSE life[x]
      /\ life \in [End -> {"none", "up", "down"}]
  BY DEF DropFrom, LinksTyped
<1>3. ListedOK(tags)'
  BY <1>2, DropListed DEF DropFrom
<1>4. SilentOK(chan)'
  <2> DEFINE d == Untold(c, T, e)
  <2>1. SilentOK(d) /\ d \in Channels
    BY UntoldSilent, UntoldType
  <2>2. chan' = [d EXCEPT ![Peer(e)] = <<>>]
    BY DEF DropFrom
  <2> HIDE DEF d
  <2>3. \A x \in End : chan'[x] = IF x = Peer(e) THEN <<>> ELSE d[x]
    BY <2>1, <2>2 DEF Channels
  <2> QED  BY <1>1, <1>2, <2>1, <2>3 DEF SilentOK
<1>5. HeldOK(held)'
  <2>1. \A l \in Link : EstEnd(l) \in End /\ EstEnd(l).link = l
    BY LinkFacts
  <2>2. \A l \in Link : held'[l] = IF e = EstEnd(l) THEN <<>> ELSE h[l]
    BY <1>1, <2>1 DEF DropFrom, HeldLists
  <2> QED  BY <1>2, <2>1, <2>2 DEF HeldOK
<1> QED  BY <1>3, <1>4, <1>5 DEF GoneInv

LEMMA HandleGone ==
  ASSUME LinksTyped, MessagesTyped, GoneInv, NEW e \in End, NEW m \in Message,
         life[e] = "up", NEW c \in Channels, NEW h \in HeldLists,
         SilentOK(c), HeldOK(h), NEW by \in {"loop", "drain"}, Handle(e, m, c, h, by)
  PROVE  GoneInv'
<1>1. tags \in Subscribers
  BY DEF LinksTyped, Subscribers
<1>2. /\ Targets(e, m) \subseteq End /\ Tagged(e, m) \in Subscribers
      /\ ListedOK(Tagged(e, m))
  BY <1>1, TaggedListed, TargetsType DEF GoneInv
<1>3. CASE /\ tags' = Tagged(e, m) /\ chan' = Sent(c, Targets(e, m), m) /\ held' = h
           /\ UNCHANGED <<life, pending, unsent, due, overflows>>
  <2>1. SilentOK(Sent(c, Targets(e, m), m))
    BY SentSilent
  <2> QED  BY <1>2, <1>3, <2>1 DEF GoneInv, ListedOK, SilentOK, HeldOK
<1>4. ASSUME NEW full \in Targets(e, m), NEW later \in SUBSET (Targets(e, m) \ {full}),
             DropFrom(full, Sent(c, Targets(e, m) \ (later \cup {full}), m),
                      Tagged(e, m), h,
                      IF later = {} THEN unsent
                      ELSE [unsent EXCEPT ![e] = [to |-> later, what |-> m, by |-> by]])
      PROVE  GoneInv'
  <2> DEFINE sent == Sent(c, Targets(e, m) \ (later \cup {full}), m)
             suspended == IF later = {} THEN unsent
                ELSE [unsent EXCEPT ![e] = [to |-> later, what |-> m, by |-> by]]
  <2>1. sent \in Channels /\ SilentOK(sent)
    BY SentType, SentSilent
  <2>2. DropFrom(full, sent, Tagged(e, m), h, suspended)
    BY <1>4
  <2> HIDE DEF sent, suspended
  <2> QED  BY <1>2, <1>4, <2>1, <2>2, DropGone
<1> QED  BY <1>3, <1>4 DEF Handle

LEMMA LinkStepGone ==
  ASSUME TypeOK, CheckInv, GoneInv, NEW l \in Link, LinkStep(l)
  PROVE  GoneInv'
<1>0. /\ life \in [End -> {"none", "up", "down"}] /\ chan \in [End -> Seq(Message)]
      /\ \A n \in Node, s \in Subject : tags[n][s] \subseteq End
      /\ EstEnd(l) \in End /\ AccEnd(l) \in End
      /\ \A x \in End : Peer(x) \in End /\ Peer(Peer(x)) = x
  BY EndFacts, LinkFacts DEF TypeOK, LinksTyped, MessagesTyped
<1>1. ASSUME NEW e \in End, life[e] = "none", life' = [life EXCEPT ![e] = "up"],
             \/ chan' = chan
             \/ /\ life[Peer(e)] # "down"
                /\ \A x \in End : x # e => chan'[x] = chan[x],
             UNCHANGED <<held, tags>>
      PROVE  GoneInv'
  <2>1. \A x \in End : life'[x] = IF x = e THEN "up" ELSE life[x]
    BY <1>0, <1>1
  <2>2. ListedOK(tags)'
    BY <1>0, <1>1, <2>1 DEF GoneInv, ListedOK
  <2>3. SilentOK(chan)'
    BY <1>0, <1>1, <2>1 DEF GoneInv, SilentOK
  <2>4. HeldOK(held)'
    BY <1>1, <2>1, LinkFacts DEF GoneInv, HeldOK
  <2> QED  BY <2>2, <2>3, <2>4 DEF GoneInv
<1>2. CASE Establish(l)
  BY <1>0, <1>1, <1>2 DEF Establish
<1>3. CASE Connect(l)
  <2>1. \A x \in End : x # EstEnd(l) => chan'[x] = chan[x]
    BY <1>0, <1>3 DEF Connect
  <2>2. life[Peer(EstEnd(l))] # "down"
    BY <1>3, LinkFacts DEF Connect, CheckInv, LinksOK
  <2> QED  BY <1>0, <1>1, <1>3, <2>1, <2>2 DEF Connect
<1>4. CASE Accept(l)
  <2>1. \A x \in End : x # AccEnd(l) => chan'[x] = chan[x]
    BY <1>0, <1>4 DEF Accept, SubscriptionsSent
  <2>2. chan' = chan \/ life[Peer(AccEnd(l))] # "down"
    BY <1>4, LinkFacts DEF Accept
  <2> QED  BY <1>0, <1>1, <1>4, <2>1, <2>2 DEF Accept
<1>5. CASE Activate(l)
  <2>1. /\ UNCHANGED <<life, held, tags>>
        /\ chan' = chan \/ (life[Peer(EstEnd(l))] # "down"
                            /\ \A x \in End : x # EstEnd(l) => chan'[x] = chan[x])
    BY <1>0, <1>5, LinkFacts, ZenonT(60) DEF Activate, SubscriptionsSent
  <2>2. SilentOK(chan)'
    BY <1>0, <2>1 DEF GoneInv, SilentOK
  <2> QED  BY <2>1, <2>2 DEF GoneInv, ListedOK, HeldOK
<1>6. CASE Refuse(l)
  BY <1>6, DropGone, LinkFacts
     DEF Refuse, Drop, GoneInv, TypeOK, LinksTyped, MessagesTyped, Channels, Subscribers,
         HeldLists, Relays
<1> QED  BY <1>2, <1>3, <1>4, <1>5, <1>6 DEF LinkStep

LEMMA LossGone ==
  ASSUME TypeOK, GoneInv, NEW e \in End, Lose(e) \/ NoticeLoss(e)
  PROVE  GoneInv'
BY DropGone
   DEF Lose, NoticeLoss, Drop, GoneInv, TypeOK, LinksTyped, MessagesTyped, Channels,
       Subscribers, HeldLists

LEMMA ClientStepGone ==
  ASSUME TypeOK, GoneInv, NEW c \in Client, ClientStep(c)
  PROVE  GoneInv'
<1>1. ASSUME NEW targets, NEW m \in Message, UNCHANGED net, chan' = Sent(chan, targets, m)
      PROVE  GoneInv'
  <2>1. SilentOK(Sent(chan, targets, m))
    BY SentSilent DEF GoneInv, TypeOK, MessagesTyped, Channels
  <2> QED  BY <1>1, <2>1 DEF GoneInv, ListedOK, SilentOK, HeldOK
<1>2. ASSUME NEW s \in Subject, Unsubscribe(c, s)  PROVE GoneInv'
  <2> DEFINE targets == { e \in End : e.side = "est" /\ At(e) = c }
  <2>1. UNCHANGED net /\ chan' = Sent(chan, targets, Sub(s, FALSE))
    BY <1>2 DEF Unsubscribe
  <2> HIDE DEF targets
  <2> QED  BY <1>1, <2>1, SubType
<1>3. ASSUME NEW s \in Subject, NEW l \in Link, Subscribe(c, l, s)  PROVE GoneInv'
  BY <1>1, <1>3, SubType DEF Subscribe
<1>4. ASSUME NEW l \in Link, NEW p \in Pub, Publish(c, l, p)  PROVE GoneInv'
  BY <1>1, <1>4, PubType DEF Publish
<1> QED  BY <1>2, <1>3, <1>4 DEF ClientStep

(* A relay loop that has dropped its own connection goes on with the frames it
   has buffered, here with none. *)
LEMMA ReceiveStepGone ==
  ASSUME ~ Buffered, TypeOK, CheckInv, GoneInv, NEW e \in End, ReceiveStep(e)
  PROVE  GoneInv'
<1> DEFINE c == [chan EXCEPT ![Peer(e)] = Tail(@)]
<1>0. /\ e.link \in Link /\ Peer(e) \in End /\ At(e) \in Node
      /\ e.side = "est" => e = EstEnd(e.link)
      /\ \A x \in End : Peer(x) \in End /\ (x # e => Peer(x) # Peer(e))
  BY EndFacts
<1>1. /\ tags \in Subscribers /\ chan \in Channels /\ held \in HeldLists
      /\ life \in [End -> {"none", "up", "down"}] /\ LinksTyped /\ MessagesTyped
  BY DEF TypeOK, LinksTyped, MessagesTyped, Channels, Subscribers, HeldLists
<1>2. ASSUME Arrives(e)
      PROVE  /\ SilentOK(c) /\ c \in Channels /\ life[e] = "up"
             /\ Head(chan[Peer(e)]) \in Message
  <2>1. chan[Peer(e)] # <<>> /\ chan[Peer(e)] \in Seq(Message)
    BY <1>0, <1>1, <1>2 DEF Arrives, Channels
  <2>2. Head(chan[Peer(e)]) \in Message /\ Tail(chan[Peer(e)]) \in Seq(Message)
    BY <2>1, HeadType
  <2>3. life[e] = "up"
    BY <1>2, <2>1 DEF Arrives, GoneInv, SilentOK, CheckInv, LinksOK
  <2>4. \A x \in End : c[x] = IF x = Peer(e) THEN Tail(chan[Peer(e)]) ELSE chan[x]
    BY <1>0, <1>1 DEF Channels
  <2>5. c \in Channels
    BY <1>0, <1>1, <2>2 DEF Channels
  <2> HIDE DEF c
  <2>6. SilentOK(c)
    BY <1>0, <2>3, <2>4 DEF GoneInv, SilentOK
  <2> QED  BY <2>2, <2>3, <2>5, <2>6
<1>3. CASE ClientReceives(e)
  BY <1>2, <1>3 DEF ClientReceives, GoneInv, ListedOK, SilentOK, HeldOK
<1>4. CASE Hold(e)
  <2>1. SilentOK(c) /\ chan' = c /\ UNCHANGED <<life, tags>> /\ life[EstEnd(e.link)] = "up"
    BY <1>0, <1>2, <1>4 DEF Hold, Holding
  <2>2. \A l \in Link : l = e.link \/ held'[l] = held[l]
    BY <1>1, <1>4 DEF Hold, HeldLists
  <2> QED  BY <2>1, <2>2 DEF GoneInv, ListedOK, SilentOK, HeldOK
<1>5. CASE OverLimit(e)
  <2> DEFINE d == Untold(chan, tags, e)
             rest == Tail(chan[Peer(e)])
  <2>1. /\ e.side = "est" /\ Arrives(e)
        /\ life' = [life EXCEPT ![e] = "down"]
        /\ held' = [held EXCEPT ![e.link] = <<>>]
        /\ tags' = [tags EXCEPT ![At(e)] = [s \in Subject |-> @[s] \ {e}]]
    BY <1>5 DEF OverLimit, Holding
  <2>2. SilentOK(d) /\ d \in Channels
    BY <1>1, UntoldSilent, UntoldType DEF GoneInv
  <2>3. chan' = [d EXCEPT ![Peer(e)] = SubSeq(rest, 1, 0)]
    BY <1>5 DEF OverLimit
  <2> HIDE DEF d, rest
  <2>4. SubSeq(rest, 1, 0) = <<>>
    BY SubSeqEmpty
  <2>5. /\ \A x \in End : chan'[x] = IF x = Peer(e) THEN <<>> ELSE d[x]
        /\ \A x \in End : life'[x] = IF x = e THEN "down" ELSE life[x]
        /\ \A l \in Link : held'[l] = IF l = e.link THEN <<>> ELSE held[l]
    BY <1>1, <2>1, <2>2, <2>3, <2>4 DEF Channels, HeldLists
  <2>6. ListedOK(tags)'
    BY <1>1, <2>1, DropListed DEF GoneInv
  <2>7. SilentOK(chan)'
    BY <1>0, <2>2, <2>5 DEF SilentOK
  <2>8. HeldOK(held)'
    BY <1>0, <2>1, <2>5, LinkFacts DEF GoneInv, HeldOK
  <2> QED  BY <2>6, <2>7, <2>8 DEF GoneInv
<1>6. CASE NodeReceives(e)
  <2>1. Arrives(e) /\ Handle(e, Head(chan[Peer(e)]), c, held, "loop")
    BY <1>6 DEF NodeReceives
  <2> HIDE DEF c
  <2> QED  BY <1>1, <1>2, <2>1, HandleGone DEF GoneInv
<1>7. CASE ResumeRelay(e)
  <2>1. /\ chan' = Sent(chan, unsent[e].to, unsent[e].what) /\ unsent[e].to # {}
        /\ UNCHANGED <<life, held, tags>>
    BY <1>7 DEF ResumeRelay
  <2>2. unsent[e].what \in Message
    BY <2>1 DEF TypeOK, MessagesTyped, Relay, NoRelay
  <2>3. SilentOK(Sent(chan, unsent[e].to, unsent[e].what))
    BY <1>1, <2>2, SentSilent DEF GoneInv
  <2> QED  BY <2>1, <2>3 DEF GoneInv, ListedOK, SilentOK, HeldOK
<1> QED  BY <1>3, <1>4, <1>5, <1>6, <1>7 DEF ReceiveStep

LEMMA DrainGone ==
  ASSUME TypeOK, GoneInv, NEW l \in Link, DrainHeld(l)
  PROVE  GoneInv'
<1> DEFINE h == [held EXCEPT ![l] = Tail(@)]
<1>1. held[l] # <<>> /\ Handle(EstEnd(l), Head(held[l]), chan, h, "drain")
  BY DEF DrainHeld
<1>2. held[l] \in Seq(Message) /\ Len(held[l]) <= HeldLimit
  BY DEF TypeOK, MessagesTyped
<1>3. /\ Head(held[l]) \in Message /\ Tail(held[l]) \in Seq(Message)
      /\ Len(Tail(held[l])) <= HeldLimit
  BY <1>1, <1>2, HeadType, LenProperties, RoutingBoundsAssumption
<1>4. h \in HeldLists /\ chan \in Channels /\ LinksTyped /\ MessagesTyped
  BY <1>3 DEF TypeOK, MessagesTyped, HeldLists, Channels
<1>5. SilentOK(chan) /\ HeldOK(h) /\ life[EstEnd(l)] = "up"
  BY <1>1 DEF GoneInv, HeldOK, TypeOK, MessagesTyped
<1> HIDE DEF h
<1> QED  BY <1>1, <1>3, <1>4, <1>5, LinkFacts, HandleGone

LEMMA GoneStep ==
  ASSUME ~ Buffered, TypeOK, CheckInv, GoneInv, [Next]_vars
  PROVE  GoneInv'
<1>1. CASE UNCHANGED vars
  BY <1>1 DEF vars, GoneInv, ListedOK, SilentOK, HeldOK
<1> QED
  BY <1>1, LinkStepGone, DrainGone, ClientStepGone, LossGone, ReceiveStepGone DEF Next

LEMMA GoneInit == Init => GoneInv
BY EndFacts DEF Init, GoneInv, ListedOK, SilentOK, HeldOK

(* Whatever fails, is refused, overflows or is resumed: the ends a node sends
   publishes to are connections that it has, and has accepted; provided no
   further frame is buffered when a relay loop drops its own connection. *)
THEOREM TagsStayCurrent ==
  ASSUME ~ Buffered
  PROVE  Spec => []TagsAreCurrent
<1>1. Init => TypeOK /\ CheckInv /\ GoneInv
  BY CheckInit, GoneInit, RoutingBoundsAssumption
     DEF Init, TypeOK, LinksTyped, MessagesTyped, ClientsTyped, CountersTyped, Relay
<1>2. TypeOK /\ CheckInv /\ GoneInv /\ [Next]_vars
        => TypeOK' /\ CheckInv' /\ GoneInv'
  BY TypeStep, CheckStep, GoneStep
<1>3. TypeOK /\ CheckInv /\ GoneInv => TagsAreCurrent
  BY DEF TypeOK, LinksTyped, CheckInv, SubscribersOK, GoneInv, ListedOK, TagsAreCurrent,
         ActiveEnds, IsPending
<1> QED  BY <1>1, <1>2, <1>3, PTL DEF Spec

-----------------------------------------------------------------------------
(* The last word on a subject. *)

IsAbout(m, s) == m.type = "sub" /\ m.subject = s

Says(m, s) == IF IsAbout(m, s) THEN IF m.on THEN "on" ELSE "off" ELSE "none"

LEMMA LastOf ==
  ASSUME NEW n \in Nat, NEW I \in SUBSET (1 .. n), I # {}
  PROVE  \E i \in I : \A j \in I : j <= i
<1> DEFINE D == { k \in Nat : \E i \in I : k = n - i }
<1>1. D \subseteq Nat /\ D # {}
  <2>1. PICK i \in I : TRUE
    OBVIOUS
  <2>2. n - i \in D
    OBVIOUS
  <2> QED  BY <2>2
<1>2. IsWellFoundedOn(OpToRel(<, Nat), Nat)
  BY NatLessThanWellFounded
<1>3. PICK k \in D : \A j \in D : <<j, k>> \notin OpToRel(<, Nat)
  BY <1>1, <1>2, WFMin
<1>4. \A j \in D : ~ (j < k)
  BY <1>1, <1>3 DEF OpToRel
<1>5. PICK i \in I : k = n - i
  OBVIOUS
<1>6. ASSUME NEW j \in I  PROVE j <= i
  <2>1. n - j \in D
    OBVIOUS
  <2> HIDE DEF D
  <2> QED  BY <1>4, <1>5, <2>1
<1> QED  BY <1>6

LEMMA WordCases ==
  ASSUME NEW c \in Seq(Message), NEW s
  PROVE  \/ Word(c, s) = "none" /\ \A i \in DOMAIN c : ~ IsAbout(c[i], s)
         \/ \E i \in DOMAIN c :
              /\ IsAbout(c[i], s) /\ \A j \in DOMAIN c : IsAbout(c[j], s) => j <= i
              /\ Word(c, s) = Says(c[i], s)
<1> DEFINE about == { i \in DOMAIN c : c[i].type = "sub" /\ c[i].subject = s }
           last == CHOOSE i \in about : \A j \in about : j <= i
<1>1. Word(c, s) = IF about = {} THEN "none" ELSE IF c[last].on THEN "on" ELSE "off"
  BY DEF Word
<1>2. Len(c) \in Nat /\ DOMAIN c = 1 .. Len(c)
  BY LenProperties
<1>3. about \in SUBSET (1 .. Len(c)) /\ \A i \in DOMAIN c : i \in about <=> IsAbout(c[i], s)
  BY <1>2 DEF IsAbout
<1>4. about # {} => last \in about /\ \A j \in about : j <= last
  <2>1. about # {} => \E i \in about : \A j \in about : j <= i
    BY <1>2, <1>3, LastOf
  <2> QED  BY <2>1
<1> HIDE DEF about, last
<1> QED  BY <1>1, <1>2, <1>3, <1>4 DEF Says

(* The last word on s in c is its i-th message. *)
IsLast(c, i, s) ==
  /\ i \in DOMAIN c /\ IsAbout(c[i], s)
  /\ \A j \in DOMAIN c : IsAbout(c[j], s) => j <= i

LEMMA WordIs ==
  ASSUME NEW c \in Seq(Message), NEW s, NEW i, IsLast(c, i, s)
  PROVE  Word(c, s) = Says(c[i], s)
<1>1. PICK j \in DOMAIN c : /\ IsAbout(c[j], s)
                            /\ \A k \in DOMAIN c : IsAbout(c[k], s) => k <= j
                            /\ Word(c, s) = Says(c[j], s)
  BY WordCases DEF IsLast
<1>2. DOMAIN c = 1 .. Len(c) /\ Len(c) \in Nat
  BY LenProperties
<1>3. i = j
  BY <1>1, <1>2 DEF IsLast
<1> QED  BY <1>1, <1>3

LEMMA WordConcat ==
  ASSUME NEW c \in Seq(Message), NEW d \in Seq(Message), NEW s
  PROVE  Word(c \o d, s) = IF Word(d, s) = "none" THEN Word(c, s) ELSE Word(d, s)
<1> DEFINE r == c \o d
<1>1. /\ r \in Seq(Message) /\ Len(r) = Len(c) + Len(d) /\ Len(c) \in Nat /\ Len(d) \in Nat
      /\ DOMAIN c = 1 .. Len(c) /\ DOMAIN d = 1 .. Len(d)
      /\ \A i \in 1 .. Len(c) + Len(d) : r[i] = IF i <= Len(c) THEN c[i] ELSE d[i - Len(c)]
  BY ConcatProperties, LenProperties
<1> HIDE DEF r
<1>2. DOMAIN r = 1 .. Len(c) + Len(d)
  BY <1>1, LenProperties
<1>3. \A i \in DOMAIN c : i \in DOMAIN r /\ r[i] = c[i]
  BY <1>1, <1>2
<1>4. \A i \in DOMAIN d : Len(c) + i \in DOMAIN r /\ r[Len(c) + i] = d[i]
  BY <1>1, <1>2
<1>5. \A i \in DOMAIN r : i \in DOMAIN c \/ (i - Len(c) \in DOMAIN d /\ i = Len(c) + (i - Len(c)))
  BY <1>1, <1>2
<1>6. CASE \E i \in DOMAIN d : /\ IsAbout(d[i], s) /\ Word(d, s) = Says(d[i], s)
                               /\ \A j \in DOMAIN d : IsAbout(d[j], s) => j <= i
  <2>1. PICK i \in DOMAIN d : /\ IsAbout(d[i], s) /\ Word(d, s) = Says(d[i], s)
                              /\ \A j \in DOMAIN d : IsAbout(d[j], s) => j <= i
    BY <1>6
  <2>2. ASSUME NEW j \in DOMAIN r, IsAbout(r[j], s)  PROVE j <= Len(c) + i
    <3>1. CASE j \in DOMAIN c
      BY <1>1, <3>1
    <3>2. CASE j - Len(c) \in DOMAIN d /\ j = Len(c) + (j - Len(c))
      <4>1. IsAbout(d[j - Len(c)], s)
        BY <1>4, <2>2, <3>2
      <4>2. j - Len(c) <= i
        BY <2>1, <3>2, <4>1
      <4> QED  BY <1>1, <1>2, <4>2
    <3> QED  BY <1>5, <3>1, <3>2
  <2>3. IsLast(r, Len(c) + i, s)
    BY <1>4, <2>1, <2>2 DEF IsLast
  <2>4. Word(r, s) = Says(d[i], s)
    BY <1>1, <1>4, <2>3, WordIs
  <2> QED  BY <2>1, <2>4 DEF Says, r
<1>7. CASE Word(d, s) = "none" /\ \A i \in DOMAIN d : ~ IsAbout(d[i], s)
  <2>1. \A j \in DOMAIN r : IsAbout(r[j], s) => j \in DOMAIN c /\ IsAbout(c[j], s)
    BY <1>3, <1>4, <1>5, <1>7
  <2>2. CASE Word(c, s) = "none" /\ \A i \in DOMAIN c : ~ IsAbout(c[i], s)
    <3>1. Word(r, s) = "none"
      BY <1>1, <2>1, <2>2, WordCases
    <3> QED  BY <1>7, <2>2, <3>1 DEF r
  <2>3. CASE \E i \in DOMAIN c : /\ IsAbout(c[i], s) /\ Word(c, s) = Says(c[i], s)
                                 /\ \A j \in DOMAIN c : IsAbout(c[j], s) => j <= i
    <3>1. PICK i \in DOMAIN c : /\ IsAbout(c[i], s) /\ Word(c, s) = Says(c[i], s)
                                /\ \A j \in DOMAIN c : IsAbout(c[j], s) => j <= i
      BY <2>3
    <3>2. IsLast(r, i, s)
      BY <1>3, <2>1, <3>1 DEF IsLast
    <3>3. Word(r, s) = Says(c[i], s)
      BY <1>1, <1>3, <3>2, WordIs
    <3> QED  BY <1>7, <3>1, <3>3 DEF r
  <2> QED  BY <2>2, <2>3, WordCases
<1> QED  BY <1>6, <1>7, WordCases

LEMMA WordOne ==
  ASSUME NEW m \in Message, NEW s
  PROVE  <<m>> \in Seq(Message) /\ Word(<<m>>, s) = Says(m, s)
<1> DEFINE c == <<m>>
<1>1. c \in Seq(Message) /\ DOMAIN c = {1} /\ c[1] = m
  BY LenProperties
<1> HIDE DEF c
<1>2. CASE IsAbout(m, s)
  BY <1>1, <1>2, WordIs DEF IsLast, c
<1>3. CASE ~ IsAbout(m, s)
  BY <1>1, <1>3, WordCases DEF Says, c
<1> QED  BY <1>1, <1>2, <1>3 DEF c

LEMMA WordAppend ==
  ASSUME NEW c \in Seq(Message), NEW m \in Message, NEW s
  PROVE  Word(Append(c, m), s) = IF Says(m, s) = "none" THEN Word(c, s) ELSE Says(m, s)
<1> DEFINE d == <<m>>
<1>1. d \in Seq(Message) /\ Word(d, s) = Says(m, s) /\ Append(c, m) = c \o d
  BY WordOne, AppendIsConcat
<1> HIDE DEF d
<1>2. Word(c \o d, s) = IF Word(d, s) = "none" THEN Word(c, s) ELSE Word(d, s)
  BY <1>1, WordConcat
<1> QED  BY <1>1, <1>2

LEMMA WordTail ==
  ASSUME NEW c \in Seq(Message), c # <<>>, NEW s
  PROVE  Word(c, s) = IF Word(Tail(c), s) = "none" THEN Says(Head(c), s) ELSE Word(Tail(c), s)
<1>1. Head(c) \in Message /\ Tail(c) \in Seq(Message)
  BY HeadType
<1> DEFINE d == <<Head(c)>>
<1>2. c = d \o Tail(c)
  BY HeadTailProperties
<1>3. d \in Seq(Message) /\ Word(d, s) = Says(Head(c), s)
  BY <1>1, WordOne
<1> HIDE DEF d
<1>4. Word(d \o Tail(c), s) = IF Word(Tail(c), s) = "none" THEN Word(d, s) ELSE Word(Tail(c), s)
  BY <1>1, <1>3, WordConcat
<1> QED  BY <1>2, <1>3, <1>4

LEMMA WordEach ==
  ASSUME NEW S \in SUBSET Subject, NEW on \in BOOLEAN, NEW s \in Subject
  PROVE  Word(Each(S, on), s) = IF s \in S THEN IF on THEN "on" ELSE "off" ELSE "none"
<1> DEFINE r == Each(S, on)
<1>1. r \in Seq(Message)
  BY EachIs
<1>2. \A i \in DOMAIN r : \E t \in S : r[i] = Sub(t, on)
  BY EachIs
<1>3. s \in S => \E i \in DOMAIN r : r[i] = Sub(s, on)
  BY EachIs
<1>4. \A t \in Subject : (IsAbout(Sub(t, on), s) <=> t = s) /\ Sub(t, on).on = on
  BY SubType DEF IsAbout
<1> HIDE DEF r
<1>5. CASE s \in S
  <2>1. PICK i \in DOMAIN r : IsAbout(r[i], s) /\ Word(r, s) = Says(r[i], s)
    BY <1>1, <1>3, <1>4, <1>5, WordCases
  <2> QED  BY <1>2, <1>4, <1>5, <2>1 DEF Says, r
<1>6. CASE s \notin S
  <2>1. \A i \in DOMAIN r : ~ IsAbout(r[i], s)
    BY <1>2, <1>4, <1>6
  <2> QED  BY <1>1, <1>6, <2>1, WordCases DEF r
<1> QED  BY <1>5, <1>6

-----------------------------------------------------------------------------
(* What neighbours have been told. *)

(* The last word on s under way from e, or held for its peer. *)
Heard(c, h, e, s) ==
  IF e.side = "acc" /\ Word(c[e], s) = "none" THEN Word(h[e.link], s)
  ELSE Word(c[e], s)

(* What the peer of e takes e's node to want in the end. *)
Takes(c, h, T, e, s) ==
  IF Heard(c, h, e, s) = "none" THEN Peer(e) \in T[At(Peer(e))][s]
  ELSE Heard(c, h, e, s) = "on"

(* e is an active connection of a node to another one, which is not gone. *)
Between(e) ==
  /\ e \in ActiveEnds(At(e)) /\ life[Peer(e)] # "down"
  /\ At(e) \notin Client /\ At(Peer(e)) \notin Client

Exact(e) ==
  \A s \in Subject : Takes(chan, held, tags, e, s) <=> tags[At(e)][s] \ {e} # {}

ToldInv == \A e \in End : Between(e) => Exact(e)

(* Nothing has come over a link that is not accepted yet. *)
NewInv ==
  \A l \in Link : life[AccEnd(l)] = "none" =>
    held[l] = <<>> /\ \A n \in Node, s \in Subject : EstEnd(l) \notin tags[n][s]

NoneSuspended == \A e \in End : unsent[e] = NoRelay

LEMMA ToldIs == ToldInv <=> NeighboursToldExactly
<1>1. \A e \in End, s \in Subject : ToldWanted(e, s) <=> Takes(chan, held, tags, e, s)
  BY DEF ToldWanted, Takes, Heard
<1> QED  BY <1>1 DEF ToldInv, Between, Exact, NeighboursToldExactly

(* The rule of _unsubscribe: e learns that x is no longer subscribed exactly
   when that leaves nobody else than e. *)
LEMMA UnsubscribeRule ==
  ASSUME NEW T, NEW x, NEW e \in ActiveEnds(At(x)), e # x, NEW s
  PROVE  IF e \in NoLongerWantedFrom(T, x, s)
         THEN (T[At(x)][s] \ {x}) \ {e} = {}
         ELSE (T[At(x)][s] \ {x}) \ {e} # {} <=> T[At(x)][s] \ {e} # {}
<1> DEFINE R == T[At(x)][s]
<1>1. CASE x \notin R
  BY <1>1 DEF NoLongerWantedFrom
<1>2. CASE x \in R /\ R \ {x} = {}
  <2>1. e \in NoLongerWantedFrom(T, x, s)
    BY <1>2 DEF NoLongerWantedFrom
  <2> QED  BY <1>2, <2>1
<1>3. ASSUME x \in R, NEW r, R \ {x} = {r}
      PROVE  IF e \in NoLongerWantedFrom(T, x, s)
             THEN (R \ {x}) \ {e} = {}
             ELSE (R \ {x}) \ {e} # {} <=> R \ {e} # {}
  <2>1. NoLongerWantedFrom(T, x, s) = {r}
    BY <1>3 DEF NoLongerWantedFrom
  <2> QED  BY <1>3, <2>1
<1>4. CASE x \in R /\ R \ {x} # {} /\ ~ \E r \in R \ {x} : R \ {x} = {r}
  <2>1. NoLongerWantedFrom(T, x, s) = {}
    BY <1>4 DEF NoLongerWantedFrom
  <2>2. (R \ {x}) \ {e} # {}
    BY <1>4
  <2> QED  BY <2>1, <2>2
<1> HIDE DEF R
<1>5. QED  BY <1>1, <1>2, <1>3, <1>4 DEF R

LEMMA ToldAtNode ==
  ASSUME NEW T, ListedOK(T), NEW x \in End, NEW s \in Subject,
         NEW e \in NoLongerWantedFrom(T, x, s)
  PROVE  At(e) = At(x)
BY EndFacts DEF NoLongerWantedFrom, ActiveEnds, ListedOK

LEMMA TargetsAtNode ==
  ASSUME ListedOK(tags), NEW x \in End, NEW m \in Message, NEW e \in Targets(x, m)
  PROVE  At(e) = At(x)
<1>1. CASE m.type = "pub" /\ m.pub \in Pub
  <2> DEFINE lists == { tags[At(x)][s] : s \in MatchedBy[m.pub] }
  <2>1. e \in UNION lists
    BY <1>1 DEF Targets
  <2>2. PICK s \in MatchedBy[m.pub] : e \in tags[At(x)][s]
    BY <2>1
  <2> QED  BY <1>1, <2>2, EndFacts, SubjectAssumption DEF ListedOK
<1>2. CASE m.type = "sub" /\ m.subject \in Subject
  BY <1>2, ToldAtNode DEF Targets, ActiveEnds
<1> QED  BY <1>1, <1>2, MessageCases

(* Nothing that concerns e changes. *)
LEMMA SameExact ==
  ASSUME NEW e \in End, Exact(e), chan'[e] = chan[e],
         e.side = "acc" => held'[e.link] = held[e.link],
         \A s \in Subject :
           /\ Peer(e) \in tags'[At(Peer(e))][s] <=> Peer(e) \in tags[At(Peer(e))][s]
           /\ tags'[At(e)][s] \ {e} # {} <=> tags[At(e)][s] \ {e} # {}
  PROVE  Exact(e)'
BY DEF Exact, Takes, Heard

LEMMA HandleTold ==
  ASSUME LinksTyped, GoneInv, ToldInv, NEW x \in End, NEW m \in Message,
         NEW c \in Channels, NEW h,
         tags' = Tagged(x, m), chan' = Sent(c, Targets(x, m), m), held' = h,
         UNCHANGED <<life, pending>>,
         \A e \in End : e # Peer(x) =>
           c[e] = chan[e] /\ (e.side = "acc" => h[e.link] = held[e.link]),
         \A s \in Subject :
           Heard(chan, held, Peer(x), s) = IF Heard(c, h, Peer(x), s) = "none"
                                           THEN Says(m, s)
                                           ELSE Heard(c, h, Peer(x), s)
  PROVE  ToldInv'
<1>1. SUFFICES ASSUME NEW e \in End, Between(e)', NEW s \in Subject
               PROVE  Takes(chan', held', tags', e, s) <=> tags'[At(e)][s] \ {e} # {}
  BY DEF ToldInv, Exact
<1>2. /\ e \in ActiveEnds(At(e)) /\ life[Peer(e)] # "down" /\ life[e] = "up"
      /\ At(e) \notin Client /\ At(Peer(e)) \notin Client /\ Heeded(e, m)
      /\ Takes(chan, held, tags, e, s) <=> tags[At(e)][s] \ {e} # {}
  BY <1>1 DEF Between, ActiveEnds, IsPending, Heeded, ToldInv, Exact
<1>3. /\ At(x) \in Node /\ At(e) \in Node /\ At(Peer(e)) \in Node /\ Peer(e) \in End
      /\ Peer(e) = x <=> e = Peer(x)
      /\ tags \in Subscribers
  BY EndFacts DEF LinksTyped, Subscribers
<1>4. \A n \in Node, z \in End : z # x => (z \in tags'[n][s] <=> z \in tags[n][s])
  <2>1. CASE m.type = "pub"
    BY <2>1 DEF Tagged
  <2>2. CASE m.type = "sub" /\ m.subject \in Subject /\ m.on \in BOOLEAN
    BY <1>3, <2>2 DEF Tagged, Subscribers
  <2> QED  BY <2>1, <2>2, MessageCases
<1>5. /\ Says(m, s) = "none" => \A n \in Node : tags'[n][s] = tags[n][s]
      /\ \A n \in Node : n # At(x) => tags'[n][s] = tags[n][s]
      /\ Says(m, s) = "on" => tags'[At(x)][s] = tags[At(x)][s] \cup {x}
      /\ Says(m, s) = "off" => tags'[At(x)][s] = tags[At(x)][s] \ {x}
      /\ Says(m, s) \in {"on", "off", "none"}
  <2>1. CASE m.type = "pub"
    BY <2>1 DEF Tagged, Says, IsAbout
  <2>2. CASE m.type = "sub" /\ m.subject \in Subject /\ m.on \in BOOLEAN
    BY <1>3, <2>2 DEF Tagged, Subscribers, Says, IsAbout
  <2> QED  BY <2>1, <2>2, MessageCases
(* Taking m and tagging x changes nothing. *)
<1>6. Takes(c, h, tags', e, s) <=> tags[At(e)][s] \ {e} # {}
  <2>1. CASE e # Peer(x)
    <3>1. Heard(c, h, e, s) = Heard(chan, held, e, s)
      BY <2>1 DEF Heard
    <3> QED  BY <1>2, <1>3, <1>4, <2>1, <3>1 DEF Takes
  <2>2. CASE e = Peer(x)
    <3>1. Peer(e) = x
      BY <1>3, <2>2
    <3> QED  BY <1>2, <1>3, <1>5, <2>2, <3>1 DEF Takes
  <2> QED  BY <2>1, <2>2
(* Sending it does, where it goes. *)
<1>7. Takes(chan', held', tags', e, s) <=>
        IF e \in Targets(x, m) /\ Says(m, s) # "none" THEN Says(m, s) = "on"
        ELSE Takes(c, h, tags', e, s)
  <2>1. chan'[e] = IF e \in Targets(x, m) THEN Append(c[e], m) ELSE c[e]
    BY <1>2 DEF Sent
  <2>2. c[e] \in Seq(Message)
    BY DEF Channels
  <2>3. Heard(chan', held', e, s) =
          IF e \in Targets(x, m) /\ Says(m, s) # "none" THEN Says(m, s)
          ELSE Heard(c, h, e, s)
    BY <1>5, <2>1, <2>2, WordAppend DEF Heard
  <2> QED  BY <1>5, <2>3 DEF Takes
<1>8. CASE Says(m, s) = "none" \/ At(e) # At(x)
  <2>1. At(e) # At(x) => e \notin Targets(x, m)
    BY TargetsAtNode DEF GoneInv
  <2> QED  BY <1>3, <1>5, <1>6, <1>7, <1>8, <2>1
<1>9. CASE Says(m, s) # "none" /\ At(e) = At(x) /\ e = x
  <2>1. e \notin Targets(x, m)
    BY <1>9, TargetsType
  <2>2. tags'[At(e)][s] \ {e} = tags[At(e)][s] \ {e}
    BY <1>5, <1>9
  <2> QED  BY <1>6, <1>7, <2>1, <2>2
<1>10. CASE Says(m, s) = "on" /\ At(e) = At(x) /\ e # x
  <2>1. e \in Targets(x, m)
    BY <1>2, <1>10 DEF Says, IsAbout, Targets
  <2>2. tags'[At(e)][s] \ {e} # {}
    BY <1>5, <1>10
  <2> QED  BY <1>7, <1>10, <2>1, <2>2
<1>11. CASE Says(m, s) = "off" /\ At(e) = At(x) /\ e # x
  <2>1. Targets(x, m) = NoLongerWantedFrom(tags, x, s)
    BY <1>11 DEF Says, IsAbout, Targets
  <2>2. tags'[At(x)][s] = tags[At(x)][s] \ {x}
    BY <1>5, <1>11
  <2>3. e \in ActiveEnds(At(x)) /\ e # x
    BY <1>2, <1>11
  <2>4. IF e \in NoLongerWantedFrom(tags, x, s)
        THEN (tags[At(x)][s] \ {x}) \ {e} = {}
        ELSE (tags[At(x)][s] \ {x}) \ {e} # {} <=> tags[At(x)][s] \ {e} # {}
    BY <2>3, UnsubscribeRule
  <2> QED  BY <1>6, <1>7, <1>11, <2>1, <2>2, <2>4
<1> QED  BY <1>5, <1>8, <1>9, <1>10, <1>11

(* An end is gone, and its node has unsubscribed it. *)
LEMMA GoneTold ==
  ASSUME LinksTyped, MessagesTyped, GoneInv, ToldInv, NEW x \in End,
         life' = [life EXCEPT ![x] = "down"],
         pending' = pending \/ pending' = pending \ {x.link},
         \A l \in Link : l # x.link => held'[l] = held[l],
         tags' = [tags EXCEPT ![At(x)] = [s \in Subject |-> @[s] \ {x}]],
         chan' = [Untold(chan, tags, x) EXCEPT ![Peer(x)] = <<>>]
  PROVE  ToldInv'
<1> DEFINE d == Untold(chan, tags, x)
           S(y) == { s \in Subject : y \in NoLongerWantedFrom(tags, x, s)
                                     /\ Heeded(y, Sub(s, FALSE)) }
<1>1. \A y \in End : d[y] = chan[y] \o Each(S(y), FALSE)
  BY DEF Untold
<1>2. \A y \in End : S(y) \in SUBSET Subject
  OBVIOUS
<1>3. \A y \in End, s \in Subject :
        s \in S(y) <=> y \in NoLongerWantedFrom(tags, x, s) /\ Heeded(y, Sub(s, FALSE))
  OBVIOUS
<1>4. d \in Channels /\ chan \in Channels /\ tags \in Subscribers
  BY UntoldType DEF MessagesTyped, LinksTyped, Channels, Subscribers
<1> HIDE DEF d, S
<1>5. SUFFICES ASSUME NEW e \in End, Between(e)', NEW s \in Subject
               PROVE  Takes(chan', held', tags', e, s) <=> tags'[At(e)][s] \ {e} # {}
  BY DEF ToldInv, Exact
<1>6. /\ At(x) \in Node /\ At(e) \in Node /\ At(Peer(e)) \in Node
      /\ Peer(e) \in End /\ Peer(x) \in End /\ e.link \in Link /\ x.link \in Link
      /\ e.link = x.link => e = x \/ Peer(e) = x
      /\ Peer(e) # x => e # Peer(x)
  BY EndFacts
<1>7. \A y \in End : life'[y] = IF y = x THEN "down" ELSE life[y]
  BY DEF LinksTyped
<1>8. e # x /\ Peer(e) # x /\ e.link # x.link
  BY <1>5, <1>6, <1>7 DEF Between, ActiveEnds
<1>9. Between(e) /\ life[e] = "up" /\ e \in ActiveEnds(At(e))
  BY <1>5, <1>6, <1>7, <1>8 DEF Between, ActiveEnds, IsPending
<1>10. Takes(chan, held, tags, e, s) <=> tags[At(e)][s] \ {e} # {}
  BY <1>9 DEF ToldInv, Exact
<1>11. /\ chan'[e] = d[e] /\ held'[e.link] = held[e.link]
       /\ chan[e] \in Seq(Message)
  BY <1>4, <1>6, <1>8 DEF Channels, d
<1>12. s \in S(e) <=> e \in NoLongerWantedFrom(tags, x, s)
  <2>1. Heeded(e, Sub(s, FALSE))
    BY <1>9 DEF Heeded, Between
  <2> QED  BY <1>3, <2>1
<1>13. Word(chan'[e], s) = IF s \in S(e) THEN "off" ELSE Word(chan[e], s)
  <2>1. Each(S(e), FALSE) \in Seq(Message)
        /\ Word(Each(S(e), FALSE), s) = IF s \in S(e) THEN "off" ELSE "none"
    BY <1>2, EachIs, WordEach
  <2>2. Word(chan[e] \o Each(S(e), FALSE), s) =
          IF Word(Each(S(e), FALSE), s) = "none" THEN Word(chan[e], s)
          ELSE Word(Each(S(e), FALSE), s)
    BY <1>11, <2>1, WordConcat
  <2> QED  BY <1>1, <1>11, <2>1, <2>2
<1>14. Heard(chan', held', e, s) = IF s \in S(e) THEN "off" ELSE Heard(chan, held, e, s)
  BY <1>11, <1>13 DEF Heard
<1>15. /\ \A n \in Node : n # At(x) => tags'[n][s] = tags[n][s]
       /\ tags'[At(x)][s] = tags[At(x)][s] \ {x}
  BY <1>4, <1>6 DEF Subscribers
<1>16. Takes(chan', held', tags', e, s) <=>
         IF s \in S(e) THEN FALSE ELSE Takes(chan, held, tags, e, s)
  BY <1>6, <1>8, <1>14, <1>15 DEF Takes
<1>17. CASE At(e) = At(x)
  <2>0. e \in ActiveEnds(At(x)) /\ e # x
    BY <1>8, <1>9, <1>17
  <2>1. IF e \in NoLongerWantedFrom(tags, x, s)
        THEN (tags[At(x)][s] \ {x}) \ {e} = {}
        ELSE (tags[At(x)][s] \ {x}) \ {e} # {} <=> tags[At(x)][s] \ {e} # {}
    BY ONLY <2>0, UnsubscribeRule
  <2> QED  BY <1>10, <1>12, <1>15, <1>16, <1>17, <2>1
<1>18. CASE At(e) # At(x)
  <2>1. s \notin S(e)
    BY <1>12, <1>18, ToldAtNode DEF GoneInv
  <2> QED  BY <1>6, <1>10, <1>15, <1>16, <1>18, <2>1
<1> QED  BY <1>17, <1>18

NeighbourInv == NewInv /\ NoneSuspended /\ ToldInv

LEMMA NewIsKept ==
  ASSUME NewInv, \A e \in End : life'[e] = "none" => life[e] = "none",
         \A l \in Link : life[AccEnd(l)] = "none" /\ held[l] = <<>> => held'[l] = <<>>,
         \A n \in Node, s \in Subject, l \in Link :
           life[AccEnd(l)] = "none" /\ EstEnd(l) \in tags'[n][s] => EstEnd(l) \in tags[n][s]
  PROVE  NewInv'
BY LinkFacts DEF NewInv

LEMMA HandleNeighbours ==
  ASSUME TypeOK, GoneInv, NeighbourInv, MaxOverflows = 0,
         NEW x \in End, life[Peer(x)] # "none", NEW m \in Message,
         NEW c \in Channels, NEW h \in HeldLists, NEW by, Handle(x, m, c, h, by),
         \A e \in End : e # Peer(x) =>
           c[e] = chan[e] /\ (e.side = "acc" => h[e.link] = held[e.link]),
         \A l \in Link : held[l] = <<>> => h[l] = <<>>,
         \A s \in Subject :
           Heard(chan, held, Peer(x), s) = IF Heard(c, h, Peer(x), s) = "none"
                                           THEN Says(m, s)
                                           ELSE Heard(c, h, Peer(x), s)
  PROVE  NeighbourInv'
<1>1. /\ tags' = Tagged(x, m) /\ chan' = Sent(c, Targets(x, m), m) /\ held' = h
      /\ UNCHANGED <<life, pending, unsent>>
  BY DEF Handle, TypeOK, CountersTyped
<1>2. ToldInv'
  BY <1>1, HandleTold DEF TypeOK, NeighbourInv
<1>3. \A n \in Node, s \in Subject, z \in End :
        z # x /\ z \in tags'[n][s] => z \in tags[n][s]
  <2>1. CASE m.type = "pub"
    BY <1>1, <2>1 DEF Tagged
  <2>2. CASE m.type = "sub" /\ m.subject \in Subject /\ m.on \in BOOLEAN
    BY <1>1, <2>2, EndFacts DEF Tagged, TypeOK, LinksTyped
  <2> QED  BY <2>1, <2>2, MessageCases
<1>4. \A l \in Link : life[AccEnd(l)] = "none" => EstEnd(l) # x /\ EstEnd(l) \in End
  BY LinkFacts
<1>5. NewInv'
  BY <1>1, <1>3, <1>4, NewIsKept DEF NeighbourInv
<1> QED  BY <1>1, <1>2, <1>5 DEF NeighbourInv, NoneSuspended

LEMMA GoneNeighbours ==
  ASSUME TypeOK, GoneInv, NeighbourInv, NEW x \in End, life[x] = "up",
         life' = [life EXCEPT ![x] = "down"],
         pending' = pending \/ pending' = pending \ {x.link},
         held' = held \/ held' = [held EXCEPT ![x.link] = <<>>],
         tags' = [tags EXCEPT ![At(x)] = [s \in Subject |-> @[s] \ {x}]],
         chan' = [Untold(chan, tags, x) EXCEPT ![Peer(x)] = <<>>],
         unsent' = unsent \/ unsent' = [unsent EXCEPT ![x] = NoRelay]
  PROVE  NeighbourInv'
<1>0. held \in HeldLists
  BY DEF TypeOK, MessagesTyped, HeldLists
<1>1. \A l \in Link : held'[l] = held[l] \/ (l = x.link /\ held'[l] = <<>>)
  BY ONLY <1>0, held' = held \/ held' = [held EXCEPT ![x.link] = <<>>]
     DEF HeldLists
<1>2. ToldInv'
  BY <1>1, GoneTold DEF TypeOK, NeighbourInv
<1>3. \A n \in Node, s \in Subject : tags'[n][s] \subseteq tags[n][s]
  BY EndFacts DEF TypeOK, LinksTyped
<1>4. \A e \in End : life'[e] = "none" => life[e] = "none"
  BY DEF TypeOK, LinksTyped
<1>5. NewInv'
  BY <1>1, <1>3, <1>4, NewIsKept DEF NeighbourInv
<1>6. NoneSuspended'
  BY DEF NeighbourInv, NoneSuspended, TypeOK, MessagesTyped
<1> QED  BY <1>2, <1>5, <1>6 DEF NeighbourInv

LEMMA DropNeighbours ==
  ASSUME TypeOK, GoneInv, NeighbourInv, NEW x \in End, life[x] = "up", Drop(x)
  PROVE  NeighbourInv'
BY GoneNeighbours DEF Drop, DropFrom

(* A connection is there, or active, for the first time. *)
LEMMA NewTold ==
  ASSUME TypeOK, NewInv, ToldInv, NEW x \in End,
         \A s \in Subject : x \notin tags[At(x)][s] /\ Peer(x) \notin tags[At(Peer(x))][s],
         chan[x] = <<>>, x.side = "acc" => held[x.link] = <<>>,
         UNCHANGED <<held, tags>>,
         \A e \in End : e # x /\ Between(e)' => Between(e) /\ chan'[e] = chan[e],
         Between(x)' => chan'[x] = <<>> \o Each(Known(At(x)), TRUE)
  PROVE  ToldInv'
<1>1. ASSUME NEW e \in End, e # x, Between(e)'  PROVE Exact(e)'
  <2>1. Exact(e) /\ chan'[e] = chan[e]
    BY <1>1 DEF ToldInv
  <2> QED  BY <2>1, SameExact
<1>2. ASSUME Between(x)'  PROVE Exact(x)'
  <2> DEFINE S == Known(At(x))
  <2>1. /\ S \in SUBSET Subject /\ \A s \in Subject : s \in S <=> tags[At(x)][s] # {}
        /\ chan'[x] = <<>> \o Each(S, TRUE)
    BY <1>2 DEF Known
  <2> HIDE DEF S
  <2>2. Each(S, TRUE) \in Seq(Message)
        /\ \A s \in Subject : Word(Each(S, TRUE), s) = IF s \in S THEN "on" ELSE "none"
    BY <2>1, EachIs, WordEach, ZenonT(60)
  <2>3. chan'[x] = Each(S, TRUE)
    BY <2>1, <2>2, ConcatEmptySeq
  <2>4. \A s : Word(<<>>, s) = "none"
    <3>1. <<>> \in Seq(Message) /\ DOMAIN <<>> = {}
      OBVIOUS
    <3> QED  BY <3>1, WordCases
  <2>5. \A s \in Subject : Heard(chan', held', x, s) = IF s \in S THEN "on" ELSE "none"
    BY <2>2, <2>3, <2>4 DEF Heard
  <2>6. \A s \in Subject : Takes(chan', held', tags', x, s) <=> s \in S
    BY <2>5 DEF Takes
  <2> QED  BY <2>1, <2>6 DEF Exact
<1> QED  BY <1>1, <1>2 DEF ToldInv

LEMMA LinkStepNeighbours ==
  ASSUME TypeOK, CheckInv, GoneInv, NeighbourInv, NEW l \in Link, LinkStep(l)
  PROVE  NeighbourInv'
<1>0. /\ life \in [End -> {"none", "up", "down"}] /\ chan \in [End -> Seq(Message)]
      /\ EstEnd(l) \in End /\ AccEnd(l) \in End /\ EstEnd(l) # AccEnd(l)
      /\ Peer(EstEnd(l)) = AccEnd(l) /\ Peer(AccEnd(l)) = EstEnd(l)
      /\ At(EstEnd(l)) = Est[l] /\ At(AccEnd(l)) = Acc[l]
      /\ Est[l] \in Node /\ Acc[l] \in Node
      /\ EstEnd(l).side = "est" /\ AccEnd(l).side = "acc"
      /\ EstEnd(l).link = l /\ AccEnd(l).link = l
      /\ \A e \in End : /\ Peer(e) \in End /\ e.link \in Link
                        /\ e # EstEnd(l) /\ e # AccEnd(l) =>
                             e.link # l /\ Peer(e) # EstEnd(l) /\ Peer(e) # AccEnd(l)
  BY EndFacts, LinkFacts, LinkEndsAssumption DEF TypeOK, LinksTyped, MessagesTyped
<1>1. ASSUME UNCHANGED <<held, tags, unsent>>,
             \A e \in End : life'[e] = "none" => life[e] = "none", ToldInv'
      PROVE  NeighbourInv'
  BY <1>1, NewIsKept DEF NeighbourInv, NoneSuspended
<1>2. CASE Establish(l)
  <2>1. /\ UNCHANGED <<held, tags, unsent, chan>> /\ pending' = pending \cup {l}
        /\ \A e \in End : life'[e] = IF e = EstEnd(l) THEN "up" ELSE life[e]
        /\ life[EstEnd(l)] = "none" /\ life[AccEnd(l)] = "none"
    BY <1>0, <1>2 DEF Establish, CheckInv, LinksOK
  <2>2. ASSUME NEW e \in End, Between(e)'  PROVE Between(e)
    <3>1. e # EstEnd(l)
      BY <1>0, <2>1, <2>2 DEF Between, ActiveEnds, IsPending
    <3>2. e # AccEnd(l)
      BY <1>0, <2>1, <2>2 DEF Between, ActiveEnds
    <3> QED  BY <1>0, <2>1, <2>2, <3>1, <3>2 DEF Between, ActiveEnds, IsPending
  <2>3. ASSUME NEW e \in End, Between(e)'  PROVE Exact(e)'
    BY <2>1, <2>2, <2>3, SameExact DEF NeighbourInv, ToldInv
  <2>4. ToldInv'
    BY <2>3 DEF ToldInv
  <2> QED  BY <1>1, <2>1, <2>4
<1>3. CASE Connect(l)
  <2>1. /\ UNCHANGED <<held, tags, unsent, pending>> /\ Est[l] \in Client
        /\ \A e \in End : life'[e] = IF e = EstEnd(l) THEN "up" ELSE life[e]
        /\ \A e \in End : e # EstEnd(l) => chan'[e] = chan[e]
    BY <1>0, <1>3 DEF Connect
  <2>2. ASSUME NEW e \in End, Between(e)'  PROVE Between(e) /\ chan'[e] = chan[e]
    <3>1. e # EstEnd(l) /\ e # AccEnd(l)
      BY <1>0, <2>1, <2>2 DEF Between
    <3> QED  BY <1>0, <2>1, <2>2, <3>1 DEF Between, ActiveEnds, IsPending
  <2>3. ASSUME NEW e \in End, Between(e)'  PROVE Exact(e)'
    BY <2>1, <2>2, <2>3, SameExact DEF NeighbourInv, ToldInv
  <2>4. ToldInv'
    BY <2>3 DEF ToldInv
  <2> QED  BY <1>1, <2>1, <2>4
<1>4. CASE Accept(l)
  <2>1. /\ UNCHANGED <<held, tags, unsent, pending>>
        /\ \A e \in End : life'[e] = IF e = AccEnd(l) THEN "up" ELSE life[e]
        /\ \A e \in End : e # AccEnd(l) => chan'[e] = chan[e]
        /\ life[AccEnd(l)] = "none"
    BY <1>0, <1>4 DEF Accept, SubscriptionsSent
  <2>2. /\ chan[AccEnd(l)] = <<>> /\ held[l] = <<>>
        /\ \A n \in Node, s \in Subject : EstEnd(l) \notin tags[n][s] /\ AccEnd(l) \notin tags[n][s]
    BY <1>0, <2>1 DEF CheckInv, UnderWayOK, SubscribersOK, NeighbourInv, NewInv
  <2>3. ASSUME NEW e \in End, e # AccEnd(l), Between(e)'
        PROVE  Between(e) /\ chan'[e] = chan[e]
    <3>1. life[e] = life'[e] /\ life[Peer(e)] # "down"
      BY <1>0, <2>1, <2>3 DEF Between
    <3> QED  BY <2>1, <2>3, <3>1 DEF Between, ActiveEnds, IsPending
  <2>4. ASSUME Between(AccEnd(l))'
        PROVE  chan'[AccEnd(l)] = <<>> \o Each(Known(Acc[l]), TRUE)
    <3>1. Est[l] \notin Client /\ life[EstEnd(l)] # "down"
      BY <1>0, <2>1, <2>4 DEF Between
    <3>2. chan' = SubscriptionsSent(AccEnd(l))
      BY <1>4, <3>1 DEF Accept
    <3> QED  BY <1>0, <2>2, <3>2 DEF SubscriptionsSent
  <2> DEFINE x == AccEnd(l)
  <2>5. /\ \A s \in Subject : x \notin tags[At(x)][s] /\ Peer(x) \notin tags[At(Peer(x))][s]
        /\ chan[x] = <<>> /\ (x.side = "acc" => held[x.link] = <<>>)
        /\ Between(x)' => chan'[x] = <<>> \o Each(Known(At(x)), TRUE)
    BY <1>0, <2>2, <2>4
  <2>6. \A e \in End : e # x /\ Between(e)' => Between(e) /\ chan'[e] = chan[e]
    BY <2>3
  <2>7. x \in End
    BY <1>0
  <2> HIDE DEF x
  <2>8. ToldInv'
    BY <2>1, <2>5, <2>6, <2>7, NewTold DEF NeighbourInv
  <2> QED  BY <1>1, <2>1, <2>8
<1>5. CASE Activate(l)
  <2>1. /\ UNCHANGED <<life, held, tags, unsent>> /\ pending' = pending \ {l}
        /\ \A e \in End : e # EstEnd(l) => chan'[e] = chan[e]
        /\ l \in pending
    BY <1>0, <1>5 DEF Activate, SubscriptionsSent
  <2>2. /\ chan[EstEnd(l)] = <<>>
        /\ \A n \in Node, s \in Subject : EstEnd(l) \notin tags[n][s] /\ AccEnd(l) \notin tags[n][s]
    BY <1>0, <2>1 DEF CheckInv, UnderWayOK, SubscribersOK
  <2>3. ASSUME NEW e \in End, e # EstEnd(l), Between(e)'
        PROVE  Between(e) /\ chan'[e] = chan[e]
    <3>1. ~ IsPending(e)
      BY <1>0, <2>1, <2>3 DEF Between, ActiveEnds, IsPending
    <3> QED  BY <2>1, <2>3, <3>1 DEF Between, ActiveEnds
  <2>4. ASSUME Between(EstEnd(l))'
        PROVE  chan'[EstEnd(l)] = <<>> \o Each(Known(Est[l]), TRUE)
    <3>1. life[AccEnd(l)] # "down"
      BY <1>0, <2>1, <2>4 DEF Between
    <3>2. chan' = SubscriptionsSent(EstEnd(l))
      BY <1>5, <3>1 DEF Activate
    <3> QED  BY <1>0, <2>2, <3>2 DEF SubscriptionsSent
  <2> DEFINE x == EstEnd(l)
  <2>5. /\ \A s \in Subject : x \notin tags[At(x)][s] /\ Peer(x) \notin tags[At(Peer(x))][s]
        /\ chan[x] = <<>> /\ (x.side = "acc" => held[x.link] = <<>>)
        /\ Between(x)' => chan'[x] = <<>> \o Each(Known(At(x)), TRUE)
    BY <1>0, <2>2, <2>4
  <2>6. \A e \in End : e # x /\ Between(e)' => Between(e) /\ chan'[e] = chan[e]
    BY <2>3
  <2>7. x \in End
    BY <1>0
  <2> HIDE DEF x
  <2>8. ToldInv'
    BY <2>1, <2>5, <2>6, <2>7, NewTold DEF NeighbourInv
  <2> QED  BY <1>1, <2>1, <2>8
<1>6. CASE Refuse(l)
  BY <1>0, <1>6, DropNeighbours DEF Refuse, CheckInv, LinksOK
<1> QED  BY <1>2, <1>3, <1>4, <1>5, <1>6 DEF LinkStep

LEMMA ClientStepNeighbours ==
  ASSUME TypeOK, NeighbourInv, NEW c \in Client, ClientStep(c)
  PROVE  NeighbourInv'
<1>1. ASSUME NEW targets \in SUBSET End, NEW m, UNCHANGED net,
             chan' = Sent(chan, targets, m), \A x \in targets : At(x) = c
      PROVE  NeighbourInv'
  <2>1. ASSUME NEW e \in End, Between(e)'  PROVE Exact(e)'
    <3>1. Between(e) /\ e \notin targets
      BY <1>1, <2>1 DEF Between, ActiveEnds, IsPending
    <3>2. chan'[e] = chan[e]
      BY <1>1, <3>1 DEF Sent
    <3> QED  BY <1>1, <3>1, <3>2, SameExact DEF NeighbourInv, ToldInv
  <2> QED  BY <1>1, <2>1 DEF NeighbourInv, ToldInv, NewInv, NoneSuspended
<1>2. ASSUME NEW s \in Subject, Unsubscribe(c, s)  PROVE NeighbourInv'
  <2> DEFINE targets == { e \in End : e.side = "est" /\ At(e) = c }
  <2>1. UNCHANGED net /\ chan' = Sent(chan, targets, Sub(s, FALSE))
    BY <1>2 DEF Unsubscribe
  <2>2. targets \in SUBSET End /\ \A x \in targets : At(x) = c
    OBVIOUS
  <2> HIDE DEF targets
  <2> QED  BY <1>1, <2>1, <2>2
<1>3. ASSUME NEW s \in Subject, NEW l \in Link, Subscribe(c, l, s)  PROVE NeighbourInv'
  <2>1. {EstEnd(l)} \in SUBSET End /\ At(EstEnd(l)) = c
    BY <1>3, LinkFacts DEF Subscribe
  <2> QED  BY <1>1, <1>3, <2>1 DEF Subscribe
<1>4. ASSUME NEW l \in Link, NEW p \in Pub, Publish(c, l, p)  PROVE NeighbourInv'
  <2>1. {EstEnd(l)} \in SUBSET End /\ At(EstEnd(l)) = c
    BY <1>4, LinkFacts DEF Publish
  <2> QED  BY <1>1, <1>4, <2>1 DEF Publish
<1> QED  BY <1>2, <1>3, <1>4 DEF ClientStep

LEMMA ReceiveStepNeighbours ==
  ASSUME ~ Buffered, MaxOverflows = 0, TypeOK, CheckInv, GoneInv, NeighbourInv,
         NEW x \in End, ReceiveStep(x)
  PROVE  NeighbourInv'
<1> DEFINE c == [chan EXCEPT ![Peer(x)] = Tail(@)]
           m == Head(chan[Peer(x)])
<1>0. /\ x.link \in Link /\ Peer(x) \in End /\ At(x) \in Node /\ Peer(x).link = x.link
      /\ Peer(Peer(x)) = x
      /\ x.side = "est" => x = EstEnd(x.link) /\ Peer(x) = AccEnd(x.link)
      /\ x.side = "acc" => Peer(x) = EstEnd(x.link)
      /\ x.side \in {"est", "acc"}
      /\ \A e \in End : /\ e.side = "acc" /\ e.link = x.link /\ x.side = "est" => e = Peer(x)
                        /\ e.link \in Link
      /\ EstEnd(x.link).side = "est" /\ AccEnd(x.link).side = "acc"
  BY EndFacts, LinkFacts
<1>1. /\ tags \in Subscribers /\ chan \in Channels /\ held \in HeldLists
      /\ life \in [End -> {"none", "up", "down"}] /\ unsent[x] = NoRelay
  BY DEF TypeOK, LinksTyped, MessagesTyped, Channels, Subscribers, HeldLists,
         NeighbourInv, NoneSuspended
<1>2. ASSUME Arrives(x)
      PROVE  /\ c \in Channels /\ life[x] = "up" /\ m \in Message
             /\ life[Peer(x)] # "none"
             /\ \A e \in End : e # Peer(x) => c[e] = chan[e]
             /\ \A s : Word(chan[Peer(x)], s) =
                  IF Word(c[Peer(x)], s) = "none" THEN Says(m, s) ELSE Word(c[Peer(x)], s)
  <2>1. chan[Peer(x)] # <<>> /\ chan[Peer(x)] \in Seq(Message)
    BY <1>0, <1>1, <1>2 DEF Arrives, Channels
  <2>2. m \in Message /\ Tail(chan[Peer(x)]) \in Seq(Message)
    BY <2>1, HeadType
  <2>3. life[x] = "up" /\ life[Peer(x)] # "none"
    BY <1>0, <1>2, <2>1 DEF Arrives, GoneInv, SilentOK, CheckInv, LinksOK, UnderWayOK
  <2>4. c \in Channels /\ \A e \in End : c[e] = IF e = Peer(x) THEN Tail(chan[Peer(x)]) ELSE chan[e]
    BY <1>0, <1>1, <2>2 DEF Channels
  <2> HIDE DEF c
  <2> QED  BY <1>0, <2>1, <2>2, <2>3, <2>4, WordTail
<1>3. CASE ClientReceives(x)
  <2>1. /\ chan' = c /\ UNCHANGED net /\ At(x) \in Client
        /\ \A e \in End : e # Peer(x) => c[e] = chan[e]
    BY <1>2, <1>3 DEF ClientReceives
  <2>2. ASSUME NEW e \in End, Between(e)'  PROVE Exact(e)'
    <3>1. Between(e) /\ e # Peer(x)
      BY <1>0, <2>1, <2>2 DEF Between, ActiveEnds, IsPending
    <3> QED  BY <2>1, <3>1, SameExact DEF NeighbourInv, ToldInv
  <2> QED  BY <2>1, <2>2 DEF NeighbourInv, ToldInv, NewInv, NoneSuspended
<1>4. CASE Hold(x)
  <2>1. /\ chan' = c /\ UNCHANGED <<life, pending, tags, unsent>>
        /\ held' = [held EXCEPT ![x.link] = Append(@, m)] /\ x.side = "est" /\ Arrives(x)
    BY <1>4 DEF Hold, Holding
  <2> HIDE DEF c, m
  <2>2. \A l \in Link : held'[l] = IF l = x.link THEN Append(held[l], m) ELSE held[l]
    BY <1>1, <2>1 DEF HeldLists
  <2>3. /\ held[x.link] \in Seq(Message) /\ Peer(x).side = "acc"
    BY <1>0, <1>1, <2>1 DEF HeldLists
  <2>4. \A s : Word(held'[x.link], s) =
          IF Says(m, s) = "none" THEN Word(held[x.link], s) ELSE Says(m, s)
    BY <1>0, <1>2, <2>1, <2>2, <2>3, WordAppend
  <2>5. \A s : Heard(chan', held', Peer(x), s) = Heard(chan, held, Peer(x), s)
    BY <1>0, <1>2, <2>1, <2>3, <2>4 DEF Heard
  <2>6. ASSUME NEW e \in End, Between(e)'  PROVE Exact(e)'
    <3>1. Between(e)
      BY <2>1, <2>6 DEF Between, ActiveEnds, IsPending
    <3>2. Exact(e)
      BY <3>1 DEF NeighbourInv, ToldInv
    <3>3. CASE e = Peer(x)
      BY <2>1, <2>5, <3>2, <3>3 DEF Exact, Takes
    <3>4. CASE e # Peer(x)
      <4>1. chan'[e] = chan[e] /\ (e.side = "acc" => held'[e.link] = held[e.link])
        BY <1>0, <1>2, <2>1, <2>2, <3>4
      <4> QED  BY <2>1, <3>2, <4>1, SameExact
    <3> QED  BY <3>3, <3>4
  <2>7. NewInv'
    <3>1. \A l \in Link : life[AccEnd(l)] = "none" => held'[l] = held[l]
      BY <1>0, <1>2, <2>1, <2>2
    <3> QED  BY <2>1, <3>1 DEF NeighbourInv, NewInv
  <2> QED  BY <2>1, <2>6, <2>7 DEF NeighbourInv, ToldInv, NoneSuspended
<1>5. CASE OverLimit(x)
  <2> DEFINE rest == Tail(chan[Peer(x)])
  <2>1. /\ life[x] = "up" /\ life' = [life EXCEPT ![x] = "down"]
        /\ pending' = pending \ {x.link} /\ held' = [held EXCEPT ![x.link] = <<>>]
        /\ tags' = [tags EXCEPT ![At(x)] = [s \in Subject |-> @[s] \ {x}]]
        /\ unsent' = unsent
        /\ chan' = [Untold(chan, tags, x) EXCEPT ![Peer(x)] = SubSeq(rest, 1, 0)]
    BY <1>5 DEF OverLimit, Holding
  <2> HIDE DEF rest
  <2>2. SubSeq(rest, 1, 0) = <<>>
    BY SubSeqEmpty
  <2> QED  BY <2>1, <2>2, GoneNeighbours
<1>6. CASE NodeReceives(x)
  <2>1. Arrives(x) /\ Handle(x, m, c, held, "loop") /\ At(x) \notin Client /\ ~ Holding(x)
    BY <1>6 DEF NodeReceives
  <2>2. x.side = "est" => held[x.link] = <<>>
    BY <1>2, <2>1 DEF Holding
  <2> HIDE DEF c, m
  <2>3. \A s : Peer(x).side = "acc" => Word(held[x.link], s) = "none"
    <3>1. <<>> \in Seq(Message) /\ DOMAIN <<>> = {}
      OBVIOUS
    <3>2. \A s : Word(<<>>, s) = "none"
      BY <3>1, WordCases
    <3> QED  BY <1>0, <2>2, <3>2
  <2>4. \A s \in Subject :
          Heard(chan, held, Peer(x), s) = IF Heard(c, held, Peer(x), s) = "none"
                                          THEN Says(m, s)
                                          ELSE Heard(c, held, Peer(x), s)
    BY <1>0, <1>2, <2>1, <2>3 DEF Heard
  <2> QED  BY <1>1, <1>2, <2>1, <2>4, HandleNeighbours
<1>7. CASE ResumeRelay(x)
  BY <1>1, <1>7 DEF ResumeRelay, NoRelay
<1> QED  BY <1>3, <1>4, <1>5, <1>6, <1>7 DEF ReceiveStep

LEMMA DrainNeighbours ==
  ASSUME MaxOverflows = 0, TypeOK, GoneInv, NeighbourInv, NEW l \in Link, DrainHeld(l)
  PROVE  NeighbourInv'
<1> DEFINE h == [held EXCEPT ![l] = Tail(@)]
           m == Head(held[l])
<1>1. held[l] # <<>> /\ Handle(EstEnd(l), m, chan, h, "drain")
  BY DEF DrainHeld
<1>2. held[l] \in Seq(Message) /\ Len(held[l]) <= HeldLimit
  BY DEF TypeOK, MessagesTyped
<1>3. /\ m \in Message /\ Tail(held[l]) \in Seq(Message)
      /\ Len(Tail(held[l])) <= HeldLimit
  BY <1>1, <1>2, HeadType, LenProperties, RoutingBoundsAssumption
<1>4. h \in HeldLists /\ chan \in Channels
      /\ \A k \in Link : h[k] = IF k = l THEN Tail(held[l]) ELSE held[k]
  BY <1>3 DEF TypeOK, MessagesTyped, HeldLists, Channels
<1>5. \A s : Word(held[l], s) = IF Word(h[l], s) = "none" THEN Says(m, s) ELSE Word(h[l], s)
  BY <1>1, <1>2, <1>4, WordTail
<1> HIDE DEF h, m
<1>6. \A s \in Subject :
        Heard(chan, held, AccEnd(l), s) = IF Heard(chan, h, AccEnd(l), s) = "none"
                                          THEN Says(m, s)
                                          ELSE Heard(chan, h, AccEnd(l), s)
  BY <1>5, LinkFacts DEF Heard
<1>7. \A e \in End : e # AccEnd(l) => (e.side = "acc" => h[e.link] = held[e.link])
  BY <1>4, EndFacts
<1>8. life[AccEnd(l)] # "none"
  BY <1>1 DEF NeighbourInv, NewInv
<1>9. \A k \in Link : held[k] = <<>> => h[k] = <<>>
  BY <1>1, <1>4
<1> QED  BY <1>1, <1>3, <1>4, <1>6, <1>7, <1>8, <1>9, LinkFacts, HandleNeighbours

LEMMA NeighbourStep ==
  ASSUME ~ Buffered, MaxOverflows = 0, TypeOK, CheckInv, GoneInv, NeighbourInv,
         [Next]_vars
  PROVE  NeighbourInv'
<1>1. CASE UNCHANGED vars
  BY <1>1
     DEF vars, NeighbourInv, NewInv, NoneSuspended, ToldInv, Between, ActiveEnds, IsPending,
         Exact, Takes, Heard
<1>2. ASSUME NEW e \in End, Lose(e) \/ NoticeLoss(e)  PROVE NeighbourInv'
  BY <1>2, DropNeighbours DEF Lose, NoticeLoss
<1> QED
  BY <1>1, <1>2, LinkStepNeighbours, DrainNeighbours, ClientStepNeighbours,
     ReceiveStepNeighbours DEF Next

LEMMA NeighbourInit == Init => NeighbourInv
<1> SUFFICES ASSUME Init PROVE NeighbourInv
  OBVIOUS
<1>1. \A s : Word(<<>>, s) = "none"
  <2>1. <<>> \in Seq(Message) /\ DOMAIN <<>> = {}
    OBVIOUS
  <2> QED  BY <2>1, WordCases
<1>2. /\ \A e \in End : chan[e] = <<>> /\ unsent[e] = NoRelay
      /\ \A l \in Link : held[l] = <<>>
      /\ \A n \in Node, s \in Subject : tags[n][s] = {}
  BY DEF Init
<1>3. ASSUME NEW e \in End  PROVE Exact(e)
  BY <1>1, <1>2, EndFacts DEF Exact, Takes, Heard
<1> QED  BY <1>2, <1>3 DEF NeighbourInv, NewInv, NoneSuspended, ToldInv

(* On any bus, however its clients subscribe, its links are made, accepted,
   refused and lost, and its messages and losses cross: every node has told
   each neighbour exactly whether anyone else there subscribes to a subject.
   Provided that no frame is buffered when a relay loop drops its own
   connection, and that no send queue is full when a message is relayed: the
   handler is suspended then, and some have not been told. *)
THEOREM NeighboursAreTold ==
  ASSUME ~ Buffered, MaxOverflows = 0
  PROVE  Spec => []NeighboursToldExactly
<1>1. Init => TypeOK /\ CheckInv /\ GoneInv /\ NeighbourInv
  BY CheckInit, GoneInit, NeighbourInit, RoutingBoundsAssumption
     DEF Init, TypeOK, LinksTyped, MessagesTyped, ClientsTyped, CountersTyped, Relay
<1>2. TypeOK /\ CheckInv /\ GoneInv /\ NeighbourInv /\ [Next]_vars
        => TypeOK' /\ CheckInv' /\ GoneInv' /\ NeighbourInv'
  BY TypeStep, CheckStep, GoneStep, NeighbourStep
<1>3. NeighbourInv => NeighboursToldExactly
  BY ToldIs DEF NeighbourInv
<1> QED  BY <1>1, <1>2, <1>3, PTL DEF Spec

-----------------------------------------------------------------------------
(* Where publishes on a subject go. *)

(* A client has one link at a time. *)
Leaves(L) ==
  \A y, z \in End :
    y.link \in L /\ z.link \in L /\ At(y) = At(z) /\ At(y) \in Client => y = z

(* W are the ends, of links in L, that nodes send publishes on: to the clients V
   that want them, and to neighbours that send them on elsewhere. *)
Directions(L, W, V) ==
  /\ W \in SUBSET { y \in End : y.link \in L /\ At(y) \notin Client }
  /\ V \in SUBSET Client
  /\ \A y \in End : y.link \in L /\ At(y) \notin Client =>
       (y \in W <=>
          IF At(Peer(y)) \in Client THEN At(Peer(y)) \in V
          ELSE \E z \in W : At(z) = At(Peer(y)) /\ z # Peer(y))

(* Nobody else is behind a client. *)
LEMMA BeyondLeaf ==
  ASSUME NEW L \in SUBSET Link, Leaves(L),
         NEW x \in End, x.link \in L, At(Peer(x)) \in Client
  PROVE  Beyond(x, L) \subseteq {At(Peer(x))}
<1> DEFINE S == {At(Peer(x))}
<1>1. S \in SUBSET Node /\ Peer(x) \in End /\ Peer(x).link = x.link
  BY EndFacts
<1>2. \A y \in End : ~ (y.link \in L /\ y.link # x.link /\ At(y) \in S)
  BY <1>1 DEF Leaves
<1>3. At(Peer(x)) \in S
  OBVIOUS
<1> HIDE DEF S
<1>4. Beyond(x, L) \subseteq S
  BY <1>1, <1>2, <1>3, BeyondFacts
<1> QED  BY <1>4 DEF S

(* In a forest, whoever wants a publish gets it: were x not sent on, nothing
   beyond it would be sent away from it, up to the client that wants it. *)
LEMMA WantedIsSent ==
  ASSUME NEW L \in SUBSET Link, IsForest(L), Leaves(L), NEW W, NEW V, Directions(L, W, V),
         NEW x \in End, x.link \in L, At(x) \notin Client,
         NEW c \in V, c \in Beyond(x, L)
  PROVE  x \in W
<1> SUFFICES ASSUME x \notin W PROVE FALSE
  OBVIOUS
<1> DEFINE m == At(Peer(x))
           Out(z) == z \in W /\ z.link # x.link /\ m \in Beyond(Peer(z), L)
           S == { n \in Beyond(x, L) : \A z \in End : Out(z) => n \notin Beyond(z, L) }
<1>1. /\ c \in Client /\ Beyond(x, L) \in SUBSET Node /\ m \in Beyond(x, L)
      /\ Peer(x).link = x.link
  BY BeyondFacts, EndFacts DEF Directions
<1>2. m \notin Client
  <2>1. SUFFICES ASSUME m \in Client PROVE FALSE
    OBVIOUS
  <2>2. c = m
    BY <2>1, BeyondLeaf
  <2> QED  BY <2>1, <2>2 DEF Directions
<1>3. \A z \in W : At(z) = m => z = Peer(x)
  BY <1>2 DEF Directions
<1>4. \A z \in W : z \in End /\ z.link \in L /\ At(z) \notin Client
  BY DEF Directions
<1>5. \A v \in End : v.link \in L /\ m \in Beyond(v, L) => At(Peer(v)) \notin Client
  BY <1>2, BeyondLeaf
<1> HIDE DEF m
<1>6. ASSUME NEW n \in S, n # m
      PROVE  \E w \in End : /\ w.link \in L /\ w.link # x.link /\ At(Peer(w)) = n
                            /\ m \in Beyond(Peer(w), L) /\ At(w) \notin Client /\ w \notin W
  <2>1. PICK v \in End : v.link \in L /\ v.link # x.link /\ At(v) = n /\ m \in Beyond(v, L)
    BY <1>6, LeadsBack DEF m
  <2>2. Peer(v) \in End /\ Peer(Peer(v)) = v /\ Peer(v).link = v.link
    BY EndFacts
  <2>3. n \in Beyond(Peer(v), L)
    BY <2>1, <2>2, BeyondFacts
  <2>4. ~ Out(Peer(v))
    BY <1>6, <2>2, <2>3
  <2>5. At(Peer(v)) \notin Client
    BY <1>5, <2>1
  <2> QED  BY <2>1, <2>2, <2>4, <2>5
<1>7. m \in S
  BY <1>1, <1>4, SidesDisjoint
<1>8. ASSUME NEW y \in End, y.link \in L, y.link # x.link, At(y) \in S
      PROVE  At(Peer(y)) \in S
  <2>1. At(Peer(y)) \in Beyond(x, L)
    BY <1>8, BeyondFacts
  <2>2. ASSUME NEW z \in End, Out(z), At(Peer(y)) \in Beyond(z, L)  PROVE FALSE
    <3>1. At(y) \notin Beyond(z, L) /\ z.link \in L
      BY <1>4, <1>8, <2>2
    <3>2. y.link = z.link
      BY <1>8, <2>2, <3>1, BeyondFacts
    <3>3. y = z
      <4>1. y = z \/ y = Peer(z)
        BY <3>2, EndFacts
      <4> QED  BY <3>1, <4>1, BeyondFacts
    <3>4. At(y) # m
      BY <1>1, <1>3, <1>8, <2>2, <3>3
    <3>5. PICK w \in End : /\ w.link \in L /\ At(Peer(w)) = At(y) /\ m \in Beyond(Peer(w), L)
                           /\ At(w) \notin Client /\ w \notin W
      BY <1>6, <1>8, <3>4
    <3>6. At(Peer(w)) \notin Client
      BY <1>4, <2>2, <3>3, <3>5
    <3>7. z = Peer(w)
      BY <2>2, <3>3, <3>5, <3>6 DEF Directions
    <3> QED  BY <2>2, <3>1, <3>5, <3>7, SidesDisjoint
  <2> HIDE DEF Out
  <2> QED  BY <2>1, <2>2
<1>9. S \in SUBSET Node
  BY <1>1
<1>10. c \in S
  <2> HIDE DEF S
  <2>1. Beyond(x, L) \subseteq S
    BY <1>7, <1>8, <1>9, BeyondFacts DEF m
  <2> QED  BY <2>1
<1>11. PICK w \in End : /\ w.link \in L /\ At(Peer(w)) = c /\ At(w) \notin Client /\ w \notin W
  BY <1>1, <1>2, <1>6, <1>10
<1> QED  BY <1>1, <1>11 DEF Directions

(* In a finite forest, what is sent is wanted: the last end that it is sent on
   is that of a client. *)
LEMMA SentIsWanted ==
  ASSUME NEW L \in SUBSET Link, IsForest(L), IsFiniteSet(Node), NEW W, NEW V,
         Directions(L, W, V), NEW x \in W
  PROVE  \E c \in V : c \in Beyond(x, L)
<1> DEFINE Vain == { z \in W : \A c \in V : c \notin Beyond(z, L) }
           Size(z) == Cardinality(Beyond(z, L))
           sizes == { Size(z) : z \in Vain }
<1> SUFFICES ASSUME x \in Vain PROVE FALSE
  OBVIOUS
<1>1. \A z \in W : z \in End /\ z.link \in L /\ At(z) \notin Client
  BY DEF Directions
<1>2. \A z \in W : /\ Beyond(z, L) \in SUBSET Node /\ IsFiniteSet(Beyond(z, L))
                   /\ Size(z) \in Nat
  BY <1>1, BeyondFacts, FS_Subset, FS_CardinalityType
<1>3. sizes \in SUBSET Nat /\ sizes # {}
  BY <1>2
<1>4. PICK k \in sizes : \A j \in sizes : k <= j
  <2> HIDE DEF sizes
  <2>1. IsWellFoundedOn(OpToRel(<, Nat), Nat)
    BY NatLessThanWellFounded
  <2>2. PICK k \in sizes : \A j \in sizes : <<j, k>> \notin OpToRel(<, Nat)
    BY <1>3, <2>1, WFMin
  <2>3. \A j \in sizes : ~ (j < k)
    BY <1>3, <2>2 DEF OpToRel
  <2>4. \A j \in sizes : k <= j
    BY <1>3, <2>3
  <2> QED  BY <2>4
<1>5. PICK z \in Vain : k = Size(z)
  OBVIOUS
<1>6. At(Peer(z)) \in Beyond(z, L)
  BY <1>1, <1>5, BeyondFacts
<1>7. PICK y \in W : At(y) = At(Peer(z)) /\ y # Peer(z)
  BY <1>1, <1>5, <1>6 DEF Directions
<1>8. /\ Beyond(y, L) \subseteq Beyond(z, L) /\ At(y) \in Beyond(z, L)
      /\ At(y) \notin Beyond(y, L)
  BY <1>1, <1>5, <1>7, BeyondNext
<1>9. y \in Vain
  BY <1>5, <1>8
<1>10. Size(y) < Size(z)
  BY <1>2, <1>5, <1>8, FS_Subset
<1>11. Size(z) <= Size(y)
  BY <1>4, <1>5, <1>9
<1> QED  BY <1>2, <1>5, <1>7, <1>10, <1>11

-----------------------------------------------------------------------------
(* The links that nodes send over in both directions are a forest, and a client
   has one of them at most. *)
OneLinkEach ==
  \A k, l \in Link :
    /\ Est[k] = Est[l] /\ Est[k] \in Client
    /\ life[EstEnd(k)] = "up" /\ life[EstEnd(l)] = "up"
    => k = l

HeldAtNodes == \A l \in Link : Est[l] \in Client => held[l] = <<>>

(* What is not accepted yet has not been activated. *)
ActiveOnceAccepted ==
  \A l \in Link :
    Est[l] \notin Client /\ life[EstEnd(l)] = "up" /\ life[AccEnd(l)] = "none" => l \in pending

TreeInv == IsForest(Joined) /\ OneLinkEach /\ HeldAtNodes /\ ActiveOnceAccepted

LEMMA FewerJoined ==
  ASSUME TreeInv, \A e \in End : life'[e] = "up" => life[e] = "up",
         \A e \in End : life'[e] = "none" => life[e] = "none",
         \A l \in pending : l \in pending' \/ life'[EstEnd(l)] # "up",
         \A l \in Link : Est[l] \in Client /\ held[l] = <<>> => held'[l] = <<>>
  PROVE  TreeInv'
<1>1. Joined \in SUBSET Link /\ Joined' \in SUBSET Joined
  BY LinkFacts DEF Joined
<1>2. IsForest(Joined')
  BY <1>1, SubsetKeepsForest DEF TreeInv
<1>3. OneLinkEach'
  BY LinkFacts DEF TreeInv, OneLinkEach
<1>4. HeldAtNodes'
  BY DEF TreeInv, HeldAtNodes
<1>5. ActiveOnceAccepted'
  BY LinkFacts DEF TreeInv, ActiveOnceAccepted
<1> QED  BY <1>2, <1>3, <1>4, <1>5 DEF TreeInv

LEMMA DropTree ==
  ASSUME TreeInv, LinksTyped, NEW x \in End, NEW c, NEW T, NEW h \in HeldLists, NEW u,
         \A l \in Link : Est[l] \in Client => h[l] = <<>>, DropFrom(x, c, T, h, u)
  PROVE  TreeInv'
<1>1. \A e \in End : life'[e] = IF e = x THEN "down" ELSE life[e]
  BY DEF DropFrom, LinksTyped
<1>2. ASSUME NEW l \in pending  PROVE l \in pending' \/ life'[EstEnd(l)] # "up"
  BY <1>1, EndFacts DEF DropFrom, LinksTyped
<1>3. ASSUME NEW l \in Link, Est[l] \in Client  PROVE held'[l] = <<>>
  BY <1>3 DEF DropFrom, HeldLists
<1> QED  BY <1>1, <1>2, <1>3, FewerJoined

LEMMA HandleTree ==
  ASSUME TreeInv, LinksTyped, NEW x \in End, NEW m \in Message,
         NEW c, NEW h \in HeldLists, NEW by, Handle(x, m, c, h, by),
         \A l \in Link : Est[l] \in Client => h[l] = <<>>
  PROVE  TreeInv'
<1>1. CASE UNCHANGED <<life, pending>> /\ held' = h
  BY <1>1, FewerJoined
<1>2. ASSUME NEW full \in Targets(x, m), NEW d, NEW u,
             DropFrom(full, d, Tagged(x, m), h, u)
      PROVE  TreeInv'
  BY <1>2, TargetsType, DropTree
<1> QED  BY <1>1, <1>2 DEF Handle

(* A link becomes one of both directions when it is accepted, if it is that of
   a client, and else when it is activated. *)
LEMMA LinkStepTree ==
  ASSUME TypeOK, CheckInv, TreeInv, NEW l \in Link, LinkStep(l)
  PROVE  TreeInv'
<1>0. /\ \A k \in Link : EstEnd(k) \in End /\ AccEnd(k) \in End
      /\ \A k \in Link : k # l => /\ EstEnd(k) # EstEnd(l) /\ EstEnd(k) # AccEnd(l)
                                  /\ AccEnd(k) # EstEnd(l) /\ AccEnd(k) # AccEnd(l)
      /\ EstEnd(l) # AccEnd(l)
      /\ \A k \in Link : Est[k] \in Node /\ Acc[k] \in Node
  <2>1. ASSUME NEW k \in Link, k # l
        PROVE  /\ EstEnd(k) # EstEnd(l) /\ EstEnd(k) # AccEnd(l)
               /\ AccEnd(k) # EstEnd(l) /\ AccEnd(k) # AccEnd(l)
    BY <2>1, LinkFacts
  <2> QED  BY <2>1, LinkFacts, LinkEndsAssumption
<1>1. /\ life \in [End -> {"none", "up", "down"}] /\ pending \in SUBSET Link
      /\ held \in HeldLists /\ LinksTyped
      /\ \A k \in Link : Est[k] \in Client => held[k] = <<>>
      /\ \A k \in pending : life[EstEnd(k)] = "up" /\ Est[k] \notin Client
      /\ \A k \in Link : life[AccEnd(k)] # "none" => life[EstEnd(k)] # "none"
  BY DEF TypeOK, LinksTyped, MessagesTyped, HeldLists, CheckInv, LinksOK, TreeInv,
         HeldAtNodes
<1>2. Joined \in SUBSET Link
  BY DEF Joined
<1>3. ASSUME Joined' \in SUBSET Joined
      PROVE  IsForest(Joined')
  BY <1>2, <1>3, SubsetKeepsForest DEF TreeInv
<1>4. ASSUME l \notin Joined, Joined' \in SUBSET (Joined \cup {l}), Separated(l, Joined)
      PROVE  IsForest(Joined')
  <2>1. IsForest(Joined \cup {l}) /\ Joined \cup {l} \in SUBSET Link
    BY <1>2, <1>4, AddKeepsForest DEF TreeInv
  <2> QED  BY <1>4, <2>1, SubsetKeepsForest
<1>5. CASE Establish(l)
  <2>1. /\ Est[l] \notin Client /\ life[AccEnd(l)] = "none" /\ UNCHANGED held
        /\ \A e \in End : life'[e] = IF e = EstEnd(l) THEN "up" ELSE life[e]
        /\ pending' = pending \cup {l}
    BY <1>0, <1>1, <1>5 DEF Establish
  <2>2. Joined' \in SUBSET Joined
    BY <1>0, <1>1, <2>1 DEF Joined
  <2>3. OneLinkEach' /\ ActiveOnceAccepted'
    BY <1>0, <1>1, <2>1 DEF OneLinkEach, ActiveOnceAccepted, TreeInv
  <2> QED  BY <1>3, <2>1, <2>2, <2>3 DEF TreeInv, HeldAtNodes
<1>6. CASE Connect(l)
  <2>1. /\ life[AccEnd(l)] = "none" /\ UNCHANGED <<held, pending>> /\ Est[l] \in Client
        /\ \A e \in End : life'[e] = IF e = EstEnd(l) THEN "up" ELSE life[e]
        /\ \A k \in Link : Est[k] = Est[l] => life[EstEnd(k)] # "up"
    BY <1>0, <1>1, <1>6 DEF Connect
  <2>2. Joined' \in SUBSET Joined
    BY <1>0, <1>1, <2>1 DEF Joined
  <2>3. OneLinkEach' /\ ActiveOnceAccepted'
    BY <1>0, <1>1, <2>1 DEF OneLinkEach, ActiveOnceAccepted, TreeInv
  <2> QED  BY <1>3, <2>1, <2>2, <2>3 DEF TreeInv, HeldAtNodes
<1>7. CASE Accept(l)
  <2>1. /\ life[EstEnd(l)] # "none" /\ life[AccEnd(l)] = "none"
        /\ UNCHANGED <<held, pending>>
        /\ \A e \in End : life'[e] = IF e = AccEnd(l) THEN "up" ELSE life[e]
    BY <1>0, <1>1, <1>7 DEF Accept
  <2>2. Joined' \in SUBSET (Joined \cup {l}) /\ l \notin Joined
    BY <1>0, <1>1, <2>1 DEF Joined
  <2>3. OneLinkEach' /\ ActiveOnceAccepted'
    BY <1>0, <1>1, <2>1 DEF OneLinkEach, ActiveOnceAccepted, TreeInv
  <2>4. CASE l \in Joined'
    <3>1. life[EstEnd(l)] = "up" /\ l \notin pending
      BY <1>0, <1>1, <2>1, <2>4 DEF Joined
    <3>2. Est[l] \in Client
      BY <2>1, <3>1 DEF ActiveOnceAccepted, TreeInv
    <3> DEFINE S == {Est[l]}
    <3>3. S \in SUBSET Node
      BY <1>0
    <3>4. Crosses(l, S)
      BY <3>2, ClientAssumption DEF Crosses
    <3>5. ASSUME NEW k \in Joined  PROVE ~ Crosses(k, S)
      <4>1. k \in Link /\ life[EstEnd(k)] = "up" /\ k # l
        BY <2>2 DEF Joined
      <4>2. Est[k] # Est[l]
        BY <3>1, <3>2, <4>1 DEF OneLinkEach, TreeInv
      <4> QED  BY <3>2, <4>1, <4>2, ClientAssumption DEF Crosses
    <3> HIDE DEF S
    <3>6. Separated(l, Joined)
      BY <3>3, <3>4, <3>5 DEF Separated, Closed
    <3>7. IsForest(Joined')
      BY <1>4, <2>2, <3>6
    <3> QED  BY <2>1, <2>3, <3>7 DEF TreeInv, HeldAtNodes
  <2>5. CASE l \notin Joined'
    <3>1. IsForest(Joined')
      BY <1>3, <2>2, <2>5
    <3> QED  BY <2>1, <2>3, <3>1 DEF TreeInv, HeldAtNodes
  <2> QED  BY <2>4, <2>5
<1>8. CASE Activate(l)
  <2>1. /\ UNCHANGED <<life, held>> /\ pending' = pending \ {l} /\ l \in pending
        /\ life[AccEnd(l)] # "none"
        /\ life[AccEnd(l)] = "up" => Separated(l, Joined)
    BY <1>8 DEF Activate
  <2>2. Joined' \in SUBSET (Joined \cup {l}) /\ l \notin Joined
    BY <2>1 DEF Joined
  <2>3. IsForest(Joined')
    <3>1. CASE life[AccEnd(l)] = "up"
      BY <1>4, <2>1, <2>2, <3>1
    <3>2. CASE life[AccEnd(l)] # "up"
      <4>1. l \notin Joined'
        BY <2>1, <3>2 DEF Joined
      <4> QED  BY <1>3, <2>2, <4>1
    <3> QED  BY <3>1, <3>2
  <2>4. ActiveOnceAccepted'
    BY <1>0, <2>1 DEF TreeInv, ActiveOnceAccepted
  <2> QED  BY <2>1, <2>3, <2>4 DEF TreeInv, HeldAtNodes, OneLinkEach
<1>9. CASE Refuse(l)
  BY <1>0, <1>1, <1>9, DropTree DEF Refuse, Drop
<1> QED  BY <1>5, <1>6, <1>7, <1>8, <1>9 DEF LinkStep

LEMMA ReceiveStepTree ==
  ASSUME TypeOK, TreeInv, NEW x \in End, ReceiveStep(x)
  PROVE  TreeInv'
<1>0. /\ x.link \in Link /\ Peer(x) \in End /\ chan \in [End -> Seq(Message)]
      /\ held \in HeldLists /\ LinksTyped
      /\ life \in [End -> {"none", "up", "down"}]
      /\ x.side = "est" => At(x) = Est[x.link] /\ EstEnd(x.link) = x
      /\ \A l \in Link : Est[l] \in Client => held[l] = <<>>
  BY EndFacts
     DEF TypeOK, LinksTyped, MessagesTyped, HeldLists, TreeInv, HeldAtNodes
<1>1. CASE ClientReceives(x)
  BY <1>1, FewerJoined DEF ClientReceives, net
<1>2. CASE Hold(x)
  <2>1. /\ UNCHANGED <<life, pending>> /\ x.side = "est" /\ At(x) \notin Client
        /\ \E m : held' = [held EXCEPT ![x.link] = Append(@, m)]
    BY <1>2 DEF Hold, Holding
  <2>2. \A l \in Link : l # x.link => held'[l] = held[l]
    BY <1>0, <2>1 DEF HeldLists
  <2>3. \A l \in Link : Est[l] \in Client => l # x.link
    BY <1>0, <2>1
  <2> QED  BY <2>1, <2>2, <2>3, FewerJoined
<1>3. CASE OverLimit(x)
  <2>1. /\ x.side = "est" /\ pending' = pending \ {x.link}
        /\ \A e \in End : life'[e] = IF e = x THEN "down" ELSE life[e]
        /\ held' = [held EXCEPT ![x.link] = <<>>]
    BY <1>0, <1>3 DEF OverLimit, Holding
  <2>2. \A l \in Link : Est[l] \in Client => held'[l] = <<>>
    BY <1>0, <2>1 DEF HeldLists
  <2>3. \A l \in pending : l \in pending' \/ life'[EstEnd(l)] # "up"
    BY <1>0, <2>1
  <2> QED  BY <2>1, <2>2, <2>3, FewerJoined
<1>4. CASE NodeReceives(x)
  <2>1. chan[Peer(x)] # <<>> /\ chan[Peer(x)] \in Seq(Message)
    BY <1>0, <1>4 DEF NodeReceives, Arrives
  <2>2. Head(chan[Peer(x)]) \in Message
    BY <2>1, HeadType
  <2> QED  BY <1>0, <1>4, <2>2, HandleTree DEF NodeReceives
<1>5. CASE ResumeRelay(x)
  BY <1>5, FewerJoined DEF ResumeRelay
<1> QED  BY <1>1, <1>2, <1>3, <1>4, <1>5 DEF ReceiveStep

LEMMA DrainTree ==
  ASSUME TypeOK, TreeInv, NEW l \in Link, DrainHeld(l)
  PROVE  TreeInv'
<1> DEFINE h == [held EXCEPT ![l] = Tail(@)]
<1>1. /\ held[l] # <<>> /\ held[l] \in Seq(Message) /\ Len(held[l]) <= HeldLimit
      /\ held \in HeldLists
  BY DEF DrainHeld, TypeOK, MessagesTyped, HeldLists
<1>2. /\ Head(held[l]) \in Message /\ Tail(held[l]) \in Seq(Message)
      /\ Len(Tail(held[l])) <= HeldLimit
  BY <1>1, HeadType, LenProperties, RoutingBoundsAssumption
<1>3. h \in HeldLists
  BY <1>1, <1>2 DEF HeldLists
<1>4. \A k \in Link : Est[k] \in Client => h[k] = <<>>
  BY <1>1 DEF TreeInv, HeldAtNodes, HeldLists
<1>5. Handle(EstEnd(l), Head(held[l]), chan, h, "drain")
  BY DEF DrainHeld
<1> HIDE DEF h
<1> QED  BY <1>2, <1>3, <1>4, <1>5, LinkFacts, HandleTree DEF TypeOK

LEMMA TreeStep ==
  ASSUME TypeOK, CheckInv, TreeInv, [Next]_vars
  PROVE  TreeInv'
<1>0. /\ LinksTyped /\ held \in HeldLists
      /\ \A l \in Link : Est[l] \in Client => held[l] = <<>>
  BY DEF TypeOK, MessagesTyped, HeldLists, TreeInv, HeldAtNodes
<1>1. CASE UNCHANGED vars
  BY <1>1, FewerJoined DEF vars
<1>2. ASSUME NEW e \in End, Lose(e) \/ NoticeLoss(e)  PROVE TreeInv'
  BY <1>0, <1>2, DropTree DEF Lose, NoticeLoss, Drop
<1>3. ASSUME NEW c \in Client, ClientStep(c)  PROVE TreeInv'
  BY <1>3, FewerJoined DEF ClientStep, Subscribe, Unsubscribe, Publish, net
<1>4. ASSUME NEW l \in Link, LinkStep(l) \/ DrainHeld(l)  PROVE TreeInv'
  BY <1>4, LinkStepTree, DrainTree
<1>5. ASSUME NEW e \in End, ReceiveStep(e)  PROVE TreeInv'
  BY <1>5, ReceiveStepTree
<1> QED  BY <1>1, <1>2, <1>3, <1>4, <1>5 DEF Next

LEMMA TreeInit == Init => TreeInv
<1> SUFFICES ASSUME Init PROVE TreeInv
  OBVIOUS
<1>1. \A l \in Link : life[EstEnd(l)] = (IF l \in Initial THEN "up" ELSE "none")
                     /\ life[AccEnd(l)] = (IF l \in Initial THEN "up" ELSE "none")
  BY LinkFacts DEF Init
<1>2. /\ pending = {} /\ Initial \in SUBSET Link
      /\ \A l \in Link : held[l] = <<>>
  BY RoutingInitialAssumption DEF Init
<1>3. Joined \in SUBSET Link /\ \A l \in Link : l \in Joined <=> l \in Initial
  BY ONLY <1>1, <1>2 DEF Joined
<1>4. Joined = Initial
  BY ONLY <1>2, <1>3
<1>5. OneLinkEach /\ ActiveOnceAccepted
  BY <1>1, RoutingInitialAssumption DEF OneLinkEach, ActiveOnceAccepted
<1> QED  BY <1>2, <1>4, <1>5, RoutingInitialAssumption DEF TreeInv, HeldAtNodes

-----------------------------------------------------------------------------
(* What the node of a client takes it to want, once everything under way has
   arrived, is what it wants. *)
Served(l) ==
  Est[l] \in Client /\ life[EstEnd(l)] = "up" /\ life[AccEnd(l)] # "down"

KnowsWants(l) ==
  \A s \in Subject : Takes(chan, held, tags, EstEnd(l), s) <=> s \in wants[Est[l]]

ClientInv == \A l \in Link : Served(l) => KnowsWants(l)

LEMMA SameWants ==
  ASSUME NEW l \in Link, KnowsWants(l), chan'[EstEnd(l)] = chan[EstEnd(l)],
         \A s \in Subject : AccEnd(l) \in tags'[Acc[l]][s] <=> AccEnd(l) \in tags[Acc[l]][s],
         wants'[Est[l]] = wants[Est[l]]
  PROVE  KnowsWants(l)'
BY LinkFacts DEF KnowsWants, Takes, Heard

(* A client says what it wants now. *)
LEMMA SaidWants ==
  ASSUME NEW l \in Link, KnowsWants(l), chan \in Channels, NEW m \in Message,
         chan'[EstEnd(l)] = Append(chan[EstEnd(l)], m), UNCHANGED tags,
         \A s \in Subject : s \in wants'[Est[l]] <=>
           IF Says(m, s) = "none" THEN s \in wants[Est[l]] ELSE Says(m, s) = "on"
  PROVE  KnowsWants(l)'
<1>1. SUFFICES ASSUME NEW s \in Subject
               PROVE  Takes(chan', held', tags', EstEnd(l), s) <=> s \in wants'[Est[l]]
  BY DEF KnowsWants
<1>2. chan[EstEnd(l)] \in Seq(Message)
  BY LinkFacts DEF Channels
<1>3. Word(chan'[EstEnd(l)], s) =
        IF Says(m, s) = "none" THEN Word(chan[EstEnd(l)], s) ELSE Says(m, s)
  BY <1>2, WordAppend
<1>4. Takes(chan, held, tags, EstEnd(l), s) <=> s \in wants[Est[l]]
  BY DEF KnowsWants
<1> QED  BY <1>3, <1>4, LinkFacts DEF Takes, Heard

(* The node of x handles a message, which tells no client anything. *)
LEMMA HandleClients ==
  ASSUME LinksTyped, GoneInv, ClientInv, NEW x \in End, At(x) \notin Client,
         NEW m \in Message, NEW c \in Channels,
         tags' = Tagged(x, m), chan' = Sent(c, Targets(x, m), m),
         UNCHANGED <<life, wants>>,
         \A e \in End : e # Peer(x) => c[e] = chan[e],
         x.side = "acc" => \A s \in Subject :
           Word(chan[Peer(x)], s) = IF Word(c[Peer(x)], s) = "none" THEN Says(m, s)
                                    ELSE Word(c[Peer(x)], s)
  PROVE  ClientInv'
<1>1. SUFFICES ASSUME NEW l \in Link, Served(l)'
               PROVE  KnowsWants(l)'
  BY DEF ClientInv
<1>2. Served(l) /\ KnowsWants(l) /\ Est[l] \in Client
  BY <1>1 DEF Served, ClientInv
<1>3. /\ EstEnd(l) \in End /\ AccEnd(l) \in End /\ At(EstEnd(l)) = Est[l]
      /\ Peer(EstEnd(l)) = AccEnd(l) /\ At(AccEnd(l)) = Acc[l] /\ EstEnd(l).side = "est"
      /\ AccEnd(l).side = "acc" /\ Peer(AccEnd(l)) = EstEnd(l)
      /\ Acc[l] \in Node
      /\ At(x) \in Node /\ Peer(Peer(x)) = x
      /\ tags \in Subscribers
  BY EndFacts, LinkFacts, LinkEndsAssumption DEF LinksTyped, Subscribers
<1>4. EstEnd(l) \notin Targets(x, m)
  BY <1>2, <1>3, TargetsAtNode DEF GoneInv
<1>5. chan'[EstEnd(l)] = c[EstEnd(l)]
  BY <1>3, <1>4 DEF Sent
<1>6. \A n \in Node, s \in Subject, z \in End :
        z \in tags'[n][s] <=> IF z = x /\ n = At(x) /\ Says(m, s) # "none"
                              THEN Says(m, s) = "on" ELSE z \in tags[n][s]
  <2>1. CASE m.type = "pub"
    BY <2>1 DEF Tagged, Says, IsAbout
  <2>2. CASE m.type = "sub" /\ m.subject \in Subject /\ m.on \in BOOLEAN
    BY <1>3, <2>2 DEF Tagged, Subscribers, Says, IsAbout
  <2> QED  BY <2>1, <2>2, MessageCases
<1>7. CASE AccEnd(l) # x
  <2>1. c[EstEnd(l)] = chan[EstEnd(l)]
    BY <1>3, <1>7
  <2> QED  BY <1>2, <1>3, <1>5, <1>6, <1>7, <2>1, SameWants
<1>8. CASE AccEnd(l) = x
  <2>1. ASSUME NEW s \in Subject
        PROVE  Takes(chan', held', tags', EstEnd(l), s) <=> s \in wants'[Est[l]]
    <3>1. Takes(chan, held, tags, EstEnd(l), s) <=> s \in wants[Est[l]]
      BY <1>2 DEF KnowsWants
    <3>2. Word(chan[EstEnd(l)], s) = IF Word(chan'[EstEnd(l)], s) = "none" THEN Says(m, s)
                                     ELSE Word(chan'[EstEnd(l)], s)
      BY <1>3, <1>5, <1>8
    <3>3. x \in tags'[Acc[l]][s] <=> IF Says(m, s) # "none" THEN Says(m, s) = "on"
                                     ELSE x \in tags[Acc[l]][s]
      BY <1>3, <1>6, <1>8
    <3> QED  BY <1>3, <1>8, <3>1, <3>2, <3>3 DEF Takes, Heard
  <2> QED  BY <2>1 DEF KnowsWants
<1> QED  BY <1>7, <1>8

(* An end is gone: a client has told its node nothing, having one link. *)
LEMMA GoneClients ==
  ASSUME LinksTyped, MessagesTyped, GoneInv, OneLinkEach, ClientInv,
         NEW x \in End, life[x] = "up",
         life' = [life EXCEPT ![x] = "down"],
         tags' = [tags EXCEPT ![At(x)] = [s \in Subject |-> @[s] \ {x}]],
         chan' = [Untold(chan, tags, x) EXCEPT ![Peer(x)] = <<>>],
         UNCHANGED wants
  PROVE  ClientInv'
<1> DEFINE d == Untold(chan, tags, x)
<1>1. SUFFICES ASSUME NEW l \in Link, Served(l)'
               PROVE  KnowsWants(l)'
  BY DEF ClientInv
<1>2. /\ EstEnd(l) \in End /\ AccEnd(l) \in End /\ At(EstEnd(l)) = Est[l]
      /\ Peer(EstEnd(l)) = AccEnd(l) /\ Peer(AccEnd(l)) = EstEnd(l)
      /\ EstEnd(l).side = "est" /\ EstEnd(l).link = l
      /\ Peer(x) \in End /\ At(x) \in Node /\ Acc[l] \in Node /\ Peer(Peer(x)) = x
  BY EndFacts, LinkFacts, LinkEndsAssumption
<1>3. \A y \in End : life'[y] = IF y = x THEN "down" ELSE life[y]
  BY DEF LinksTyped
<1>4. EstEnd(l) # x /\ AccEnd(l) # x /\ Served(l) /\ KnowsWants(l)
  BY <1>1, <1>2, <1>3 DEF Served, ClientInv
<1>5. \A s \in Subject : EstEnd(l) \notin NoLongerWantedFrom(tags, x, s)
  <2>1. SUFFICES ASSUME At(EstEnd(l)) = At(x) PROVE FALSE
    BY ToldAtNode DEF GoneInv
  <2>2. x.side = "est" /\ x = EstEnd(x.link) /\ At(x) = Est[x.link] /\ x.link \in Link
    BY <1>2, <1>4, <2>1, EndFacts, ClientAssumption DEF Served
  <2> QED  BY <1>2, <1>4, <2>1, <2>2 DEF Served, OneLinkEach
<1>6. d[EstEnd(l)] = chan[EstEnd(l)]
  <2> DEFINE S == { s \in Subject : EstEnd(l) \in NoLongerWantedFrom(tags, x, s)
                                    /\ Heeded(EstEnd(l), Sub(s, FALSE)) }
  <2>1. d[EstEnd(l)] = chan[EstEnd(l)] \o Each(S, FALSE)
    BY <1>2 DEF Untold
  <2>2. S = {}
    BY <1>5
  <2>3. chan[EstEnd(l)] \in Seq(Message)
    BY <1>2 DEF MessagesTyped
  <2> HIDE DEF S
  <2> QED  BY <2>1, <2>2, <2>3, EachOfNone, ConcatEmptySeq
<1>7. d \in Channels
  BY UntoldType DEF MessagesTyped, Channels
<1>8. chan'[EstEnd(l)] = chan[EstEnd(l)]
  <2> HIDE DEF d
  <2>1. chan' = [d EXCEPT ![Peer(x)] = <<>>] /\ EstEnd(l) # Peer(x)
    BY <1>2, <1>4 DEF d
  <2> QED  BY <1>2, <1>6, <1>7, <2>1 DEF Channels
<1>9. \A n \in Node, s \in Subject, z \in End : z # x => (z \in tags'[n][s] <=> z \in tags[n][s])
  BY <1>2 DEF LinksTyped
<1> QED  BY <1>2, <1>4, <1>8, <1>9, SameWants

LEMMA LinkStepClients ==
  ASSUME TypeOK, CheckInv, GoneInv, OneLinkEach, ClientInv, NEW l \in Link, LinkStep(l)
  PROVE  ClientInv'
<1>0. /\ \A k \in Link : EstEnd(k) \in End /\ AccEnd(k) \in End
      /\ \A k \in Link : k # l => /\ EstEnd(k) # EstEnd(l) /\ EstEnd(k) # AccEnd(l)
                                  /\ AccEnd(k) # EstEnd(l) /\ AccEnd(k) # AccEnd(l)
      /\ EstEnd(l) # AccEnd(l)
      /\ \A k \in Link : Est[k] \in Node /\ Acc[k] \in Node
  <2>1. ASSUME NEW k \in Link, k # l
        PROVE  /\ EstEnd(k) # EstEnd(l) /\ EstEnd(k) # AccEnd(l)
               /\ AccEnd(k) # EstEnd(l) /\ AccEnd(k) # AccEnd(l)
    BY <2>1, LinkFacts
  <2> QED  BY <2>1, LinkFacts, LinkEndsAssumption
<1>1. /\ life \in [End -> {"none", "up", "down"}] /\ chan \in [End -> Seq(Message)]
      /\ \A k \in pending : life[EstEnd(k)] = "up" /\ Est[k] \notin Client
      /\ \A k \in Link : life[AccEnd(k)] # "none" => life[EstEnd(k)] # "none"
  BY DEF TypeOK, LinksTyped, MessagesTyped, CheckInv, LinksOK
<1>2. ASSUME UNCHANGED <<tags, wants>>,
             \A k \in Link : Served(k)' => Served(k) /\ chan'[EstEnd(k)] = chan[EstEnd(k)]
      PROVE  ClientInv'
  <2>1. ASSUME NEW k \in Link, Served(k)'  PROVE KnowsWants(k)'
    <3>1. KnowsWants(k) /\ chan'[EstEnd(k)] = chan[EstEnd(k)]
      BY <1>2, <2>1 DEF ClientInv
    <3> QED  BY <1>2, <3>1, SameWants
  <2> QED  BY <2>1 DEF ClientInv
<1>3. CASE Establish(l)
  <2>1. /\ UNCHANGED <<tags, wants, chan>> /\ Est[l] \notin Client
        /\ \A e \in End : life'[e] = IF e = EstEnd(l) THEN "up" ELSE life[e]
    BY <1>0, <1>1, <1>3 DEF Establish, clients
  <2> QED  BY <1>0, <1>2, <2>1 DEF Served
<1>4. CASE Connect(l)
  <2>1. /\ UNCHANGED <<tags, wants, held>> /\ Est[l] \in Client
        /\ \A e \in End : life'[e] = IF e = EstEnd(l) THEN "up" ELSE life[e]
        /\ \A e \in End : chan'[e] = IF e = EstEnd(l) THEN Each(wants[Est[l]], TRUE) ELSE chan[e]
        /\ life[EstEnd(l)] = "none"
    BY <1>0, <1>1, <1>4 DEF Connect, clients
  <2>2. ASSUME NEW k \in Link, k # l, Served(k)'  PROVE KnowsWants(k)'
    <3>1. Served(k) /\ chan'[EstEnd(k)] = chan[EstEnd(k)]
      BY <1>0, <2>1, <2>2 DEF Served
    <3>2. KnowsWants(k)
      BY <3>1 DEF ClientInv
    <3> QED  BY <2>1, <3>1, <3>2, SameWants
  <2>3. ASSUME NEW s \in Subject
        PROVE  Takes(chan', held', tags', EstEnd(l), s) <=> s \in wants'[Est[l]]
    <3>1. life[AccEnd(l)] # "up"
      BY <1>1, <2>1
    <3>2. AccEnd(l) \notin tags[Acc[l]][s]
      BY <1>0, <3>1 DEF GoneInv, ListedOK
    <3>3. wants[Est[l]] \in SUBSET Subject
      BY <2>1 DEF TypeOK, ClientsTyped
    <3>4. Word(chan'[EstEnd(l)], s) = IF s \in wants[Est[l]] THEN "on" ELSE "none"
      <4>1. chan'[EstEnd(l)] = Each(wants[Est[l]], TRUE)
        BY <1>0, <2>1
      <4>2. Word(Each(wants[Est[l]], TRUE), s) = IF s \in wants[Est[l]] THEN "on" ELSE "none"
        BY <3>3, WordEach
      <4> QED  BY ONLY <4>1, <4>2
    <3>5. /\ EstEnd(l).side = "est" /\ Peer(EstEnd(l)) = AccEnd(l) /\ At(AccEnd(l)) = Acc[l]
          /\ UNCHANGED <<tags, wants>>
      BY <2>1, LinkFacts
    <3> QED  BY ONLY <3>2, <3>4, <3>5 DEF Takes, Heard
  <2> QED  BY <2>2, <2>3 DEF ClientInv, KnowsWants
<1>5. CASE Accept(l)
  <2>1. /\ UNCHANGED <<tags, wants>> /\ life[AccEnd(l)] = "none"
        /\ \A e \in End : life'[e] = IF e = AccEnd(l) THEN "up" ELSE life[e]
        /\ \A e \in End : e # AccEnd(l) => chan'[e] = chan[e]
    BY <1>0, <1>1, <1>5 DEF Accept, SubscriptionsSent, clients
  <2> QED  BY <1>0, <1>2, <2>1 DEF Served
<1>6. CASE Activate(l)
  <2>1. /\ UNCHANGED <<tags, wants, life>> /\ Est[l] \notin Client
        /\ \A e \in End : e # EstEnd(l) => chan'[e] = chan[e]
    BY <1>0, <1>1, <1>6 DEF Activate, SubscriptionsSent, clients
  <2> QED  BY <1>0, <1>2, <2>1 DEF Served
<1>7. CASE Refuse(l)
  BY <1>0, <1>1, <1>7, GoneClients DEF Refuse, Drop, DropFrom, TypeOK, clients
<1> QED  BY <1>3, <1>4, <1>5, <1>6, <1>7 DEF LinkStep

LEMMA ClientStepClients ==
  ASSUME TypeOK, OneLinkEach, ClientInv, NEW c \in Client, ClientStep(c)
  PROVE  ClientInv'
<1>0. /\ chan \in Channels /\ wants \in [Client -> SUBSET Subject]
      /\ c \in Node
  BY ClientAssumption DEF TypeOK, MessagesTyped, ClientsTyped, Channels
<1>1. ASSUME NEW targets \in SUBSET End, NEW m \in Message, UNCHANGED <<life, tags>>,
             chan' = Sent(chan, targets, m),
             \A l \in Link : EstEnd(l) \in targets => Est[l] = c,
             \A l \in Link : Served(l) /\ Est[l] = c /\ EstEnd(l) \notin targets =>
               wants'[c] = wants[c],
             \A k \in Client \ {c} : wants'[k] = wants[k],
             \A s \in Subject : s \in wants'[c] <=>
               IF Says(m, s) = "none" THEN s \in wants[c] ELSE Says(m, s) = "on"
      PROVE  ClientInv'
  <2>1. SUFFICES ASSUME NEW l \in Link, Served(l)'
                 PROVE  KnowsWants(l)'
    BY DEF ClientInv
  <2>2. Served(l) /\ KnowsWants(l) /\ Est[l] \in Client /\ EstEnd(l) \in End
    BY <1>1, <2>1, LinkFacts DEF Served, ClientInv
  <2>3. Heeded(EstEnd(l), m)
    BY <2>2, LinkFacts, ClientAssumption DEF Served, Heeded
  <2>4. CASE EstEnd(l) \in targets
    <3>1. chan'[EstEnd(l)] = Append(chan[EstEnd(l)], m) /\ Est[l] = c
      BY <1>1, <2>2, <2>3, <2>4 DEF Sent
    <3> QED  BY <1>0, <1>1, <2>2, <3>1, SaidWants
  <2>5. CASE EstEnd(l) \notin targets
    <3>1. chan'[EstEnd(l)] = chan[EstEnd(l)]
      BY <1>1, <2>2, <2>5 DEF Sent
    <3>2. wants'[Est[l]] = wants[Est[l]]
      BY <1>1, <2>2, <2>5
    <3> QED  BY <1>1, <2>2, <3>1, <3>2, SameWants
  <2> QED  BY <2>4, <2>5
<1>2. ASSUME NEW s \in Subject, Unsubscribe(c, s)  PROVE ClientInv'
  <2> DEFINE targets == { e \in End : e.side = "est" /\ At(e) = c }
  <2>1. /\ UNCHANGED <<life, tags>> /\ chan' = Sent(chan, targets, Sub(s, FALSE))
        /\ wants' = [wants EXCEPT ![c] = @ \ {s}]
    BY <1>2 DEF Unsubscribe, net
  <2>2. targets \in SUBSET End /\ \A l \in Link : EstEnd(l) \in targets <=> Est[l] = c
    BY LinkFacts
  <2> HIDE DEF targets
  <2>3. /\ \A k \in Client \ {c} : wants'[k] = wants[k]
        /\ wants'[c] = wants[c] \ {s}
    BY <1>0, <2>1
  <2>4. /\ Sub(s, FALSE) \in Message
        /\ \A t \in Subject : Says(Sub(s, FALSE), t) = IF t = s THEN "off" ELSE "none"
    BY SubType DEF Says, IsAbout
  <2>5. \A t \in Subject : t \in wants'[c] <=>
          IF Says(Sub(s, FALSE), t) = "none" THEN t \in wants[c]
          ELSE Says(Sub(s, FALSE), t) = "on"
    BY <2>3, <2>4
  <2> QED  BY <1>1, <2>1, <2>2, <2>3, <2>4, <2>5
<1>3. ASSUME NEW s \in Subject, NEW l \in Link, Subscribe(c, l, s)  PROVE ClientInv'
  <2>1. /\ UNCHANGED <<life, tags>> /\ chan' = Sent(chan, {EstEnd(l)}, Sub(s, TRUE))
        /\ wants' = [wants EXCEPT ![c] = @ \cup {s}] /\ Est[l] = c
        /\ life[EstEnd(l)] = "up"
    BY <1>3 DEF Subscribe, net
  <2>2. /\ {EstEnd(l)} \in SUBSET End
        /\ \A k \in Link : EstEnd(k) \in {EstEnd(l)} <=> k = l
    BY LinkFacts
  <2>3. /\ \A k \in Client \ {c} : wants'[k] = wants[k]
        /\ wants'[c] = wants[c] \cup {s}
    BY <1>0, <2>1
  <2>4. /\ Sub(s, TRUE) \in Message
        /\ \A t \in Subject : Says(Sub(s, TRUE), t) = IF t = s THEN "on" ELSE "none"
    BY SubType DEF Says, IsAbout
  <2>5. \A t \in Subject : t \in wants'[c] <=>
          IF Says(Sub(s, TRUE), t) = "none" THEN t \in wants[c]
          ELSE Says(Sub(s, TRUE), t) = "on"
    BY <2>3, <2>4
  <2>6. \A k \in Link : Served(k) /\ Est[k] = c => k = l
    BY <2>1 DEF Served, OneLinkEach
  <2> QED  BY <1>1, <2>1, <2>2, <2>3, <2>4, <2>5, <2>6
<1>4. ASSUME NEW l \in Link, NEW p \in Pub, Publish(c, l, p)  PROVE ClientInv'
  <2> DEFINE m == [type |-> "pub", pub |-> p]
  <2>1. /\ UNCHANGED <<life, tags, wants>> /\ chan' = Sent(chan, {EstEnd(l)}, m)
        /\ Est[l] = c
    BY <1>4 DEF Publish, net
  <2>2. /\ {EstEnd(l)} \in SUBSET End
        /\ \A k \in Link : EstEnd(k) \in {EstEnd(l)} <=> k = l
    BY LinkFacts
  <2>3. m \in Message /\ \A t \in Subject : Says(m, t) = "none"
    BY PubType DEF Says, IsAbout
  <2> HIDE DEF m
  <2> QED  BY <1>1, <2>1, <2>2, <2>3
<1> QED  BY <1>2, <1>3, <1>4 DEF ClientStep

LEMMA ReceiveStepClients ==
  ASSUME ~ Buffered, MaxOverflows = 0, TypeOK, CheckInv, GoneInv, NoneSuspended,
         OneLinkEach, ClientInv, NEW x \in End, ReceiveStep(x)
  PROVE  ClientInv'
<1> DEFINE c == [chan EXCEPT ![Peer(x)] = Tail(@)]
           m == Head(chan[Peer(x)])
<1>0. /\ x.link \in Link /\ Peer(x) \in End
      /\ x.side = "est" => Peer(x) = AccEnd(x.link)
      /\ At(x) \in Client => x.side = "est"
      /\ \A l \in Link : EstEnd(l) # AccEnd(x.link) /\ EstEnd(l) \in End
  BY EndFacts, LinkFacts, ClientAssumption
<1>1. /\ tags \in Subscribers /\ chan \in Channels
      /\ life \in [End -> {"none", "up", "down"}] /\ unsent[x] = NoRelay
      /\ LinksTyped
  BY DEF TypeOK, LinksTyped, MessagesTyped, Channels, Subscribers, NoneSuspended
<1>2. ASSUME Arrives(x)
      PROVE  /\ c \in Channels /\ m \in Message
             /\ \A e \in End : e # Peer(x) => c[e] = chan[e]
             /\ \A s : Word(chan[Peer(x)], s) =
                  IF Word(c[Peer(x)], s) = "none" THEN Says(m, s) ELSE Word(c[Peer(x)], s)
  <2>1. chan[Peer(x)] # <<>> /\ chan[Peer(x)] \in Seq(Message)
    BY <1>0, <1>1, <1>2 DEF Arrives, Channels
  <2>2. m \in Message /\ Tail(chan[Peer(x)]) \in Seq(Message)
    BY <2>1, HeadType
  <2>3. c \in Channels /\ \A e \in End : c[e] = IF e = Peer(x) THEN Tail(chan[Peer(x)]) ELSE chan[e]
    BY <1>0, <1>1, <2>2 DEF Channels
  <2> HIDE DEF c
  <2> QED  BY <1>0, <2>1, <2>2, <2>3, WordTail
<1>3. ASSUME UNCHANGED <<life, tags, wants>>, \A l \in Link : chan'[EstEnd(l)] = chan[EstEnd(l)]
      PROVE  ClientInv'
  <2>1. ASSUME NEW l \in Link, Served(l)'  PROVE KnowsWants(l)'
    <3>1. KnowsWants(l)
      BY <1>3, <2>1 DEF Served, ClientInv
    <3> QED  BY <1>3, <3>1, SameWants
  <2> QED  BY <2>1 DEF ClientInv
<1>4. CASE ClientReceives(x)
  <2>1. Arrives(x) /\ chan' = c /\ UNCHANGED <<life, tags, wants>> /\ At(x) \in Client
    BY <1>4 DEF ClientReceives, net
  <2> HIDE DEF c
  <2> QED  BY <1>0, <1>2, <1>3, <2>1
<1>5. CASE Hold(x)
  <2>1. Arrives(x) /\ chan' = c /\ UNCHANGED <<life, tags, wants>> /\ x.side = "est"
    BY <1>5 DEF Hold, Holding, clients
  <2> HIDE DEF c
  <2> QED  BY <1>0, <1>2, <1>3, <2>1
<1>6. CASE OverLimit(x)
  <2> DEFINE rest == Tail(chan[Peer(x)])
  <2>1. /\ life[x] = "up" /\ life' = [life EXCEPT ![x] = "down"]
        /\ tags' = [tags EXCEPT ![At(x)] = [s \in Subject |-> @[s] \ {x}]]
        /\ chan' = [Untold(chan, tags, x) EXCEPT ![Peer(x)] = SubSeq(rest, 1, 0)]
        /\ UNCHANGED wants
    BY <1>6 DEF OverLimit, Holding, clients
  <2> HIDE DEF rest
  <2>2. SubSeq(rest, 1, 0) = <<>>
    BY SubSeqEmpty
  <2> QED  BY <2>1, <2>2, GoneClients DEF TypeOK
<1>7. CASE NodeReceives(x)
  <2>1. /\ Arrives(x) /\ Handle(x, m, c, held, "loop") /\ At(x) \notin Client
        /\ UNCHANGED wants
    BY <1>7 DEF NodeReceives, clients
  <2> HIDE DEF c, m
  <2>2. /\ tags' = Tagged(x, m) /\ chan' = Sent(c, Targets(x, m), m) /\ UNCHANGED life
    BY <2>1 DEF Handle, TypeOK, CountersTyped
  <2> QED  BY <1>1, <1>2, <2>1, <2>2, HandleClients
<1>8. CASE ResumeRelay(x)
  BY <1>1, <1>8 DEF ResumeRelay, NoRelay
<1> QED  BY <1>4, <1>5, <1>6, <1>7, <1>8 DEF ReceiveStep

LEMMA DrainClients ==
  ASSUME MaxOverflows = 0, TypeOK, GoneInv, HeldAtNodes, ClientInv, NEW l \in Link, DrainHeld(l)
  PROVE  ClientInv'
<1> DEFINE h == [held EXCEPT ![l] = Tail(@)]
           m == Head(held[l])
<1>1. /\ held[l] # <<>> /\ Handle(EstEnd(l), m, chan, h, "drain") /\ UNCHANGED wants
  BY DEF DrainHeld, clients
<1>2. held[l] \in Seq(Message)
  BY DEF TypeOK, MessagesTyped
<1>3. m \in Message
  BY <1>1, <1>2, HeadType
<1> HIDE DEF h, m
<1>4. /\ tags' = Tagged(EstEnd(l), m) /\ chan' = Sent(chan, Targets(EstEnd(l), m), m)
      /\ UNCHANGED life
  BY <1>1 DEF Handle, TypeOK, CountersTyped
<1>5. At(EstEnd(l)) \notin Client /\ EstEnd(l) \in End /\ EstEnd(l).side # "acc"
  BY <1>1, LinkFacts DEF HeldAtNodes
<1>6. chan \in Channels /\ LinksTyped
  BY DEF TypeOK, MessagesTyped, Channels
<1> QED  BY <1>1, <1>3, <1>4, <1>5, <1>6, HandleClients

LEMMA ClientsStep ==
  ASSUME ~ Buffered, MaxOverflows = 0, TypeOK, CheckInv, GoneInv, NoneSuspended, TreeInv,
         ClientInv, [Next]_vars
  PROVE  ClientInv'
<1>0. OneLinkEach /\ HeldAtNodes
  BY DEF TreeInv
<1>1. CASE UNCHANGED vars
  BY <1>1 DEF vars, ClientInv, Served, KnowsWants, Takes, Heard
<1>2. ASSUME NEW e \in End, Lose(e) \/ NoticeLoss(e)  PROVE ClientInv'
  <2>1. Drop(e) /\ life[e] = "up" /\ UNCHANGED wants
    BY <1>2 DEF Lose, NoticeLoss, clients
  <2> QED  BY <1>0, <2>1, GoneClients DEF Drop, DropFrom, TypeOK
<1>3. ASSUME NEW l \in Link, LinkStep(l) \/ DrainHeld(l)  PROVE ClientInv'
  BY <1>0, <1>3, LinkStepClients, DrainClients
<1>4. ASSUME NEW c \in Client, ClientStep(c)  PROVE ClientInv'
  BY <1>0, <1>4, ClientStepClients
<1>5. ASSUME NEW e \in End, ReceiveStep(e)  PROVE ClientInv'
  BY <1>0, <1>5, ReceiveStepClients
<1> QED  BY <1>1, <1>2, <1>3, <1>4, <1>5 DEF Next

LEMMA ClientsInit == Init => ClientInv
<1> SUFFICES ASSUME Init PROVE ClientInv
  OBVIOUS
<1>1. \A s : Word(<<>>, s) = "none"
  <2>1. <<>> \in Seq(Message) /\ DOMAIN <<>> = {}
    OBVIOUS
  <2> QED  BY <2>1, WordCases
<1>2. /\ \A e \in End : chan[e] = <<>>
      /\ \A n \in Node, s \in Subject : tags[n][s] = {}
      /\ \A c \in Client : wants[c] = {}
  BY DEF Init
<1>3. \A l \in Link : EstEnd(l) \in End /\ Peer(EstEnd(l)) = AccEnd(l) /\ Acc[l] \in Node
                      /\ At(AccEnd(l)) = Acc[l] /\ EstEnd(l).side = "est"
  BY LinkFacts, LinkEndsAssumption
<1> QED  BY <1>1, <1>2, <1>3 DEF ClientInv, Served, KnowsWants, Takes, Heard

-----------------------------------------------------------------------------
(* The ends that publishes on s are sent on, and who wants them. *)
SentOn(s) == { y \in End : At(y) \notin Client /\ y \in tags[At(y)][s] }
Wanting(s) == { c \in Client : s \in wants[c] }

LEMMA QuietDirections ==
  ASSUME Quiet, TypeOK, GoneInv, ToldInv, OneLinkEach, ClientInv, NEW s \in Subject
  PROVE  Leaves(Joined) /\ Directions(Joined, SentOn(s), Wanting(s))
<1>0. \A s_1 : Word(<<>>, s_1) = "none"
  <2>1. <<>> \in Seq(Message) /\ DOMAIN <<>> = {}
    OBVIOUS
  <2> QED  BY <2>1, WordCases
<1>1. /\ \A e \in End : chan[e] = <<>>
      /\ \A l \in Link : held[l] = <<>> /\ l \notin pending
      /\ \A l \in Link : life[EstEnd(l)] = life[AccEnd(l)]
  BY DEF Quiet
<1>2. \A y \in End : y.link \in Joined <=> life[y] = "up"
  BY <1>1, EndFacts DEF Joined
<1>3. \A e \in End : Takes(chan, held, tags, e, s) <=> Peer(e) \in tags[At(Peer(e))][s]
  BY <1>0, <1>1, EndFacts DEF Takes, Heard
<1>4. \A y \in End : At(y) \in Client => y.side = "est"
  BY EndFacts, ClientAssumption
<1>5. Leaves(Joined)
  <2> SUFFICES ASSUME NEW y \in End, NEW z \in End, y.link \in Joined, z.link \in Joined,
                      At(y) = At(z), At(y) \in Client
               PROVE  y = z
    BY DEF Leaves
  <2>1. /\ y = EstEnd(y.link) /\ z = EstEnd(z.link) /\ y.link \in Link /\ z.link \in Link
        /\ At(y) = Est[y.link] /\ At(z) = Est[z.link]
    BY <1>4, EndFacts
  <2> QED  BY <1>2, <2>1 DEF OneLinkEach
<1>6. SentOn(s) \in SUBSET { y \in End : y.link \in Joined /\ At(y) \notin Client }
  BY <1>2, EndFacts DEF SentOn, GoneInv, ListedOK
<1>7. ASSUME NEW y \in End, y.link \in Joined, At(y) \notin Client
      PROVE  y \in SentOn(s) <=>
               IF At(Peer(y)) \in Client THEN At(Peer(y)) \in Wanting(s)
               ELSE \E z \in SentOn(s) : At(z) = At(Peer(y)) /\ z # Peer(y)
  <2>1. /\ Peer(y) \in End /\ Peer(Peer(y)) = y /\ Peer(y).link = y.link /\ y.link \in Link
        /\ At(Peer(y)) \in Node
    BY EndFacts
  <2>2. life[y] = "up" /\ life[Peer(y)] = "up" /\ ~ IsPending(Peer(y))
    BY <1>1, <1>2, <1>7, <2>1 DEF IsPending
  <2>3. CASE At(Peer(y)) \in Client
    <3>1. Peer(y).side = "est"
      BY <1>4, <2>1, <2>3
    <3>2. Peer(y) = EstEnd(y.link) /\ y = AccEnd(y.link) /\ At(Peer(y)) = Est[y.link]
      BY <2>1, <3>1, EndFacts
    <3>3. KnowsWants(y.link)
      BY <2>1, <2>2, <2>3, <3>2 DEF ClientInv, Served
    <3> QED  BY <1>3, <1>7, <2>1, <2>3, <3>2, <3>3 DEF KnowsWants, SentOn, Wanting
  <2>4. CASE At(Peer(y)) \notin Client
    <3>1. Between(Peer(y))
      BY <1>7, <2>1, <2>2, <2>4 DEF Between, ActiveEnds
    <3>2. y \in tags[At(y)][s] <=> tags[At(Peer(y))][s] \ {Peer(y)} # {}
      BY <1>3, <2>1, <3>1 DEF ToldInv, Exact
    <3>3. \A z : z \in tags[At(Peer(y))][s] <=> z \in SentOn(s) /\ At(z) = At(Peer(y))
      BY <2>1, <2>4 DEF SentOn, GoneInv, ListedOK, TypeOK, LinksTyped
    <3> QED  BY <1>7, <2>4, <3>2, <3>3 DEF SentOn
  <2> QED  BY <2>3, <2>4
<1> QED  BY <1>5, <1>6, <1>7 DEF Directions, Wanting

LEMMA QuietRouting ==
  ASSUME IsFiniteSet(Node), TypeOK, GoneInv, ToldInv, TreeInv, ClientInv
  PROVE  RoutingExact
<1> SUFFICES ASSUME Quiet, NEW l \in Joined, NEW e \in {EstEnd(l), AccEnd(l)},
                    At(e) \notin Client, NEW s \in Subject
             PROVE  e \in tags[At(e)][s] <=>
                      \E c \in Client \cap Behind(At(Peer(e)), l) : s \in wants[c]
  BY DEF RoutingExact
<1>1. Joined \in SUBSET Link /\ IsForest(Joined) /\ l \in Link
  BY DEF Joined, TreeInv
<1>2. e \in End /\ e.link = l
  BY <1>1, LinkFacts
<1>3. Leaves(Joined) /\ Directions(Joined, SentOn(s), Wanting(s))
  BY QuietDirections DEF TreeInv
<1>4. Behind(At(Peer(e)), l) = Beyond(e, Joined)
  BY <1>2 DEF Behind, Beyond, Reached
<1>5. e \in SentOn(s) <=> e \in tags[At(e)][s]
  BY <1>2 DEF SentOn
<1>6. e \in SentOn(s) <=> \E c \in Wanting(s) : c \in Beyond(e, Joined)
  BY <1>1, <1>2, <1>3, WantedIsSent, SentIsWanted
<1> QED  BY <1>4, <1>5, <1>6 DEF Wanting

(* On a bus of any size and shape, whenever it is at rest: a publish is sent in
   exactly the directions where a client wants it, whatever was subscribed,
   unsubscribed, connected and lost before.  In the directions of the theorem
   before, a want is passed on from end to end back to the client that has it;
   the bus being a forest, the way back ends there. *)
THEOREM RoutingStaysExact ==
  ASSUME ~ Buffered, MaxOverflows = 0, IsFiniteSet(Node)
  PROVE  Spec => []RoutingExact
<1> DEFINE I == TypeOK /\ CheckInv /\ GoneInv /\ NeighbourInv /\ TreeInv /\ ClientInv
<1>1. Init => I
  BY CheckInit, GoneInit, NeighbourInit, TreeInit, ClientsInit, RoutingBoundsAssumption
     DEF Init, TypeOK, LinksTyped, MessagesTyped, ClientsTyped, CountersTyped, Relay
<1>2. I /\ [Next]_vars => I'
  BY TypeStep, CheckStep, GoneStep, NeighbourStep, TreeStep, ClientsStep DEF NeighbourInv
<1>3. I => RoutingExact
  BY QuietRouting DEF NeighbourInv
<1> QED  BY <1>1, <1>2, <1>3, PTL DEF Spec

-----------------------------------------------------------------------------
(* Copies of a publish in a channel or in what is held. *)

PubOf(p) == [type |-> "pub", pub |-> p]

Has(q, p) == \E i \in DOMAIN q : q[i] = PubOf(p)

AtMostOne(q, p) == \A i, j \in DOMAIN q : q[i] = PubOf(p) /\ q[j] = PubOf(p) => i = j

(* r has no copy of p that q does not have. *)
Thinner(q, r, p) ==
  /\ r \in Seq(Message)
  /\ Has(r, p) => Has(q, p)
  /\ AtMostOne(q, p) => AtMostOne(r, p)

LEMMA ThinnerFacts ==
  ASSUME NEW p \in Pub, NEW q \in Seq(Message)
  PROVE  /\ Thinner(q, q, p) /\ Thinner(q, <<>>, p) /\ ~ Has(<<>>, p)
         /\ \A r, s \in Seq(Message) : Thinner(q, r, p) /\ Thinner(r, s, p) => Thinner(q, s, p)
<1>1. <<>> \in Seq(Message) /\ DOMAIN <<>> = {}
  BY EmptySeq, LenProperties
<1> QED  BY <1>1 DEF Thinner, Has, AtMostOne

(* What is taken from a channel leaves no copy there if it was one. *)
LEMMA TailThinner ==
  ASSUME NEW p \in Pub, NEW q \in Seq(Message), q # <<>>
  PROVE  /\ Thinner(q, Tail(q), p)
         /\ Head(q) = PubOf(p) => Has(q, p) /\ (AtMostOne(q, p) => ~ Has(Tail(q), p))
<1> DEFINE r == Tail(q)
           n == Len(q)
<1>1. n \in Nat \ {0} /\ DOMAIN q = 1 .. n
  BY LenProperties, EmptySeq
<1>2. /\ r \in Seq(Message) /\ DOMAIN r = 1 .. n - 1
      /\ \A i \in 1 .. n - 1 : r[i] = q[i + 1] /\ i + 1 \in 1 .. n
  BY <1>1, HeadTailProperties, LenProperties
<1>3. Head(q) = q[1] /\ 1 \in 1 .. n
  BY <1>1
<1> HIDE DEF r, n
<1>4. Has(r, p) => \E i \in 1 .. n - 1 : q[i + 1] = PubOf(p) /\ i + 1 \in 1 .. n /\ i + 1 # 1
  BY <1>1, <1>2 DEF Has
<1>5. AtMostOne(q, p) => AtMostOne(r, p)
  <2> SUFFICES ASSUME AtMostOne(q, p), NEW i \in 1 .. n - 1, NEW j \in 1 .. n - 1,
                      r[i] = PubOf(p), r[j] = PubOf(p)
               PROVE  i = j
    BY <1>2 DEF AtMostOne
  <2>1. i + 1 = j + 1
    BY <1>1, <1>2 DEF AtMostOne
  <2> QED  BY <1>1, <2>1
<1>6. Head(q) = PubOf(p) /\ AtMostOne(q, p) => ~ Has(r, p)
  BY <1>1, <1>3, <1>4 DEF AtMostOne
<1>7. Thinner(q, r, p)
  BY <1>1, <1>2, <1>4, <1>5 DEF Thinner, Has
<1>8. Head(q) = PubOf(p) => Has(q, p)
  BY <1>1, <1>3 DEF Has
<1> QED  BY <1>6, <1>7, <1>8 DEF r

(* Nor does a subsequence from the front have more. *)
LEMMA FrontThinner ==
  ASSUME NEW p \in Pub, NEW q \in Seq(Message), NEW k \in 0 .. Len(q)
  PROVE  Thinner(q, SubSeq(q, 1, k), p)
<1> DEFINE r == SubSeq(q, 1, k)
           n == Len(q)
<1>1. n \in Nat /\ DOMAIN q = 1 .. n /\ k \in 0 .. n
  BY LenProperties
<1>2. r \in Seq(Message) /\ DOMAIN r = 1 .. k /\ \A i \in 1 .. k : r[i] = q[i]
  <2>1. \A i \in 1 .. k : q[i] \in Message
    BY <1>1, ElementOfSeq
  <2>2. r = [i \in 1 .. k |-> q[i]]
    BY <1>1
  <2>3. [i \in 1 .. k |-> q[i]] \in Seq(Message)
    BY <1>1, <2>1, IsASeq
  <2> QED  BY <2>2, <2>3
<1> HIDE DEF r, n
<1>3. \A i \in 1 .. k : i \in 1 .. n
  BY <1>1
<1>4. (Has(r, p) => Has(q, p)) /\ (AtMostOne(q, p) => AtMostOne(r, p))
  BY <1>1, <1>2, <1>3 DEF Has, AtMostOne
<1> QED  BY <1>2, <1>4 DEF Thinner, r

(* What is appended is a copy only if it is one. *)
LEMMA AppendThinner ==
  ASSUME NEW p \in Pub, NEW q \in Seq(Message), NEW m \in Message
  PROVE  /\ m # PubOf(p) => Thinner(q, Append(q, m), p)
         /\ Append(q, m) \in Seq(Message)
         /\ ~ Has(q, p) => AtMostOne(Append(q, m), p)
         /\ Has(Append(q, m), p) <=> Has(q, p) \/ m = PubOf(p)
<1> DEFINE r == Append(q, m)
           n == Len(q)
<1>1. n \in Nat /\ DOMAIN q = 1 .. n
  BY LenProperties
<1>2. /\ r \in Seq(Message) /\ DOMAIN r = 1 .. n + 1
      /\ \A i \in 1 .. n : r[i] = q[i] /\ i \in 1 .. n + 1
      /\ r[n + 1] = m /\ n + 1 \in 1 .. n + 1
  BY <1>1, AppendProperties, LenProperties
<1>3. \A i \in 1 .. n + 1 : i \in 1 .. n \/ i = n + 1
  BY <1>1
<1> HIDE DEF r, n
<1>4. Has(r, p) <=> Has(q, p) \/ m = PubOf(p)
  BY <1>1, <1>2, <1>3 DEF Has
<1>5. ~ Has(q, p) => AtMostOne(r, p)
  BY <1>1, <1>2, <1>3 DEF Has, AtMostOne
<1>6. m # PubOf(p) /\ AtMostOne(q, p) => AtMostOne(r, p)
  BY <1>1, <1>2, <1>3 DEF AtMostOne
<1> QED  BY <1>2, <1>4, <1>5, <1>6 DEF Thinner, r

(* Subscriptions that are appended are none. *)
LEMMA EachThinner ==
  ASSUME NEW p \in Pub, NEW q \in Seq(Message), NEW S \in SUBSET Subject,
         NEW on \in BOOLEAN
  PROVE  Thinner(q, q \o Each(S, on), p)
<1> DEFINE d == Each(S, on)
           r == q \o d
           n == Len(q)
           k == Len(d)
<1>1. \A s \in Subject : Sub(s, on) # PubOf(p)
  BY SubType, PubType DEF PubOf
<1>2. d \in Seq(Message) /\ \A i \in DOMAIN d : \E s \in S : d[i] = Sub(s, on)
  BY EachIs
<1> HIDE DEF d
<1>3. d \in Seq(Message) /\ \A i \in DOMAIN d : d[i] # PubOf(p)
  BY <1>1, <1>2
<1>4. n \in Nat /\ DOMAIN q = 1 .. n /\ k \in Nat /\ DOMAIN d = 1 .. k
  BY <1>2, LenProperties
<1>5. /\ r \in Seq(Message) /\ DOMAIN r = 1 .. n + k
      /\ \A i \in 1 .. n + k : r[i] = IF i <= n THEN q[i] ELSE d[i - n]
  BY <1>2, <1>4, ConcatProperties, LenProperties
<1>6. \A i \in 1 .. n + k : \/ i \in 1 .. n /\ i <= n
                            \/ ~ (i <= n) /\ i - n \in 1 .. k
  BY <1>4
<1> HIDE DEF r, n, k
<1>7. ASSUME NEW i \in 1 .. n + k, r[i] = PubOf(p)
      PROVE  i \in 1 .. n /\ r[i] = q[i]
  <2>1. CASE i - n \in 1 .. k /\ ~ (i <= n)
    <3>1. r[i] = d[i - n] /\ i - n \in DOMAIN d
      BY <1>4, <1>5, <2>1
    <3> QED  BY <1>3, <1>7, <3>1
  <2> QED  BY <1>5, <1>6, <2>1
<1>8. (Has(r, p) => Has(q, p)) /\ (AtMostOne(q, p) => AtMostOne(r, p))
  BY <1>4, <1>5, <1>7 DEF Has, AtMostOne
<1> QED  BY <1>5, <1>8 DEF Thinner, r, d

-----------------------------------------------------------------------------
(* The links that are in use: those over which a publish can be under way. *)
Used ==
  { l \in Link : l \notin pending /\ life[EstEnd(l)] = "up" /\ life[AccEnd(l)] # "down" }

(* A link that is used and not yet accepted is the only one of its client. *)
LEMMA NotYetAccepted ==
  ASSUME TypeOK, TreeInv
  PROVE  /\ Joined \subseteq Used /\ Used \in SUBSET Link
         /\ \A k \in Used \ Joined : Est[k] \in Client
         /\ \A k, l \in Used : Est[k] = Est[l] /\ Est[k] \in Client => k = l
         /\ \A l \in Link : Est[l] \in Node /\ Acc[l] \in Node /\ Acc[l] \notin Client
<1>1. \A l \in Link : life[EstEnd(l)] \in {"none", "up", "down"}
                      /\ life[AccEnd(l)] \in {"none", "up", "down"}
  BY LinkFacts DEF TypeOK, LinksTyped
<1>2. \A k \in Used \ Joined : Est[k] \in Client
  BY <1>1 DEF Used, Joined, TreeInv, ActiveOnceAccepted
<1>3. \A k, l \in Used : Est[k] = Est[l] /\ Est[k] \in Client => k = l
  BY DEF Used, TreeInv, OneLinkEach
<1>4. Joined \subseteq Used
  BY DEF Used, Joined
<1> QED
  BY <1>2, <1>3, <1>4, LinkEndsAssumption, ClientAssumption DEF Used

(* A cut of the joined links is one of the used links, with the clients whose
   link is not yet accepted on the side of their nodes. *)
LEMMA CutOfUsed ==
  ASSUME TypeOK, TreeInv, NEW K \in SUBSET Used, NEW S \in SUBSET Node,
         \A k \in K \cap Joined : ~ Crosses(k, S)
  PROVE  \E T \in SUBSET Node :
           /\ Closed(T, K)
           /\ \A n \in Node : (\A k \in Used \ Joined : Est[k] # n) => (n \in T <=> n \in S)
<1> DEFINE Lonely(n) == \E k \in Used \ Joined : Est[k] = n
           T == { n \in Node : IF Lonely(n)
                               THEN \E k \in Used \ Joined : Est[k] = n /\ Acc[k] \in S
                               ELSE n \in S }
<1>0. /\ Joined \subseteq Used /\ Used \in SUBSET Link
      /\ \A k \in Used \ Joined : Est[k] \in Client
      /\ \A k, l \in Used : Est[k] = Est[l] /\ Est[k] \in Client => k = l
      /\ \A l \in Link : Est[l] \in Node /\ Acc[l] \in Node /\ Acc[l] \notin Client
  BY NotYetAccepted
<1>1. \A k \in K : Acc[k] \in Node /\ Est[k] \in Node /\ ~ Lonely(Acc[k])
  BY <1>0
<1>2. ASSUME NEW k \in K  PROVE ~ Crosses(k, T)
  <2>1. CASE k \in Joined
    <3>1. ~ Lonely(Est[k])
      BY <1>0, <2>1
    <3> QED  BY <1>1, <2>1, <3>1 DEF Crosses
  <2>2. CASE k \notin Joined
    <3>1. Lonely(Est[k]) /\ \A l \in Used \ Joined : Est[l] = Est[k] => l = k
      BY <1>0, <2>2
    <3>2. Est[k] \in T <=> Acc[k] \in S
      BY <1>1, <2>2, <3>1
    <3>3. Acc[k] \in T <=> Acc[k] \in S
      BY <1>1
    <3> QED  BY <3>2, <3>3 DEF Crosses
  <2> QED  BY <2>1, <2>2
<1>3. \A n \in Node : (\A k \in Used \ Joined : Est[k] # n) => (n \in T <=> n \in S)
  OBVIOUS
<1>4. T \in SUBSET Node
  OBVIOUS
<1> HIDE DEF T
<1> QED  BY <1>2, <1>3, <1>4 DEF Closed

(* The links in use are a forest. *)
LEMMA UsedForest ==
  ASSUME TypeOK, TreeInv
  PROVE  IsForest(Used)
<1>0. /\ Joined \subseteq Used /\ Used \in SUBSET Link
      /\ \A k \in Used \ Joined : Est[k] \in Client
      /\ \A k, l \in Used : Est[k] = Est[l] /\ Est[k] \in Client => k = l
      /\ \A l \in Link : Est[l] \in Node /\ Acc[l] \in Node /\ Acc[l] \notin Client
  BY NotYetAccepted
<1> SUFFICES ASSUME NEW l \in Used  PROVE Separated(l, Used \ {l})
  BY DEF IsForest
<1>1. CASE l \in Joined
  <2>1. PICK S \in SUBSET Node : Closed(S, Joined \ {l}) /\ Crosses(l, S)
    BY <1>1 DEF TreeInv, IsForest, Separated
  <2>2. PICK T \in SUBSET Node :
          /\ Closed(T, Used \ {l})
          /\ \A n \in Node : (\A k \in Used \ Joined : Est[k] # n) => (n \in T <=> n \in S)
    <3>1. \A k \in (Used \ {l}) \cap Joined : ~ Crosses(k, S)
      BY <2>1 DEF Closed
    <3>2. Used \ {l} \in SUBSET Used
      OBVIOUS
    <3> QED  BY <3>1, <3>2, CutOfUsed
  <2>3. \A k \in Used \ Joined : Est[k] # Est[l] /\ Est[k] # Acc[l]
    BY <1>0, <1>1
  <2>4. Crosses(l, T)
    BY <1>0, <2>1, <2>2, <2>3 DEF Crosses
  <2> QED  BY <2>2, <2>4 DEF Separated
<1>2. CASE l \notin Joined
  <2> DEFINE S == {Est[l]}
  <2>1. S \in SUBSET Node /\ Crosses(l, S)
    BY <1>0, <1>2 DEF Crosses
  <2>2. \A k \in Used \ {l} : ~ Crosses(k, S)
    BY <1>0, <1>2 DEF Crosses
  <2> HIDE DEF S
  <2> QED  BY <2>1, <2>2 DEF Separated, Closed
<1> QED  BY <1>1, <1>2

(* So they are with a link that is activated. *)
LEMMA ActivatedSeparates ==
  ASSUME TypeOK, CheckInv, TreeInv, NEW l \in pending, Separated(l, Joined)
  PROVE  Separated(l, Used)
<1>0. /\ Joined \subseteq Used /\ Used \in SUBSET Link
      /\ \A k \in Used \ Joined : Est[k] \in Client
      /\ \A k \in Link : Est[k] \in Node /\ Acc[k] \in Node /\ Acc[k] \notin Client
  BY NotYetAccepted
<1>1. l \in Link /\ Est[l] \notin Client
  BY DEF TypeOK, LinksTyped, CheckInv, LinksOK
<1>2. PICK S \in SUBSET Node : Closed(S, Joined) /\ Crosses(l, S)
  BY DEF Separated
<1>3. PICK T \in SUBSET Node :
        /\ Closed(T, Used)
        /\ \A n \in Node : (\A k \in Used \ Joined : Est[k] # n) => (n \in T <=> n \in S)
  <2>1. \A k \in Used \cap Joined : ~ Crosses(k, S)
    BY <1>2 DEF Closed
  <2>2. Used \in SUBSET Used
    OBVIOUS
  <2> QED  BY <2>1, <2>2, CutOfUsed
<1>4. \A k \in Used \ Joined : Est[k] # Est[l] /\ Est[k] # Acc[l]
  BY <1>0, <1>1
<1>5. Crosses(l, T)
  BY <1>0, <1>1, <1>2, <1>3, <1>4 DEF Crosses
<1> QED  BY <1>3, <1>5 DEF Separated

-----------------------------------------------------------------------------
(* Where the copies of a publish are. *)

(* A copy of p that was sent from e, and is on its way, is held at the other
   end, or is what a suspended relay has yet to send. *)
HeldFrom(e, p) == e.side = "acc" /\ Has(held[e.link], p)

LeftBy(x, e, p) == e \in unsent[x].to /\ unsent[x].what = PubOf(p) /\ e.link \in Used

Carries(e, p) == Has(chan[e], p) \/ HeldFrom(e, p) \/ \E x \in End : LeftBy(x, e, p)

(* There is one copy at most on each end. *)
OneCopy(p) ==
  /\ \A e \in End : AtMostOne(chan[e], p)
  /\ \A l \in Link : AtMostOne(held[l], p)
  /\ \A e \in End : Has(chan[e], p) => ~ HeldFrom(e, p)
  /\ \A x, e \in End : LeftBy(x, e, p) =>
       /\ ~ Has(chan[e], p) /\ ~ HeldFrom(e, p)
       /\ \A y \in End : LeftBy(y, e, p) => y = x

(* p has spread to the nodes and clients V, which are on one bus: its copies lead
   away from them, and no client has been given p twice. *)
Spread(p, V) ==
  /\ V \in SUBSET Node
  /\ \A c \in Client : got[c][p] < 2 /\ (got[c][p] # 0 => c \in V)
  /\ \A x, y \in V : y \in Reached(x, Used)
  /\ \A e \in End : Carries(e, p) =>
       e.link \in Used /\ At(e) \in V /\ \A n \in V : n \notin Beyond(e, Used)
  /\ OneCopy(p)

(* Being reached is transitive. *)
LEMMA ReachedOn ==
  ASSUME NEW n \in Node, NEW L \in SUBSET Link, NEW m \in Reached(n, L)
  PROVE  Reached(m, L) \subseteq Reached(n, L)
<1>1. m \in Node
  BY ReachedFacts
<1> DEFINE S == Reached(n, L)
<1>2. S \in SUBSET Node /\ m \in S /\ \A l \in L : ~ Crosses(l, S)
  BY ReachedFacts DEF Closed
<1> HIDE DEF S
<1>3. Reached(m, L) \subseteq S
  BY <1>1, <1>2, ReachedWithin
<1> QED  BY <1>3 DEF S

(* A link that is used leads to what is reached. *)
LEMMA ReachedOver ==
  ASSUME NEW L \in SUBSET Link, NEW e \in End, e.link \in L
  PROVE  At(Peer(e)) \in Reached(At(e), L)
<1>1. At(e) \in Node
  BY EndFacts
<1> DEFINE S == Reached(At(e), L)
<1>2. At(e) \in S /\ Closed(S, L)
  BY <1>1, ReachedFacts
<1> HIDE DEF S
<1>3. At(Peer(e)) \in S
  BY <1>2, ClosedByEnds
<1> QED  BY <1>3 DEF S

(* p comes to a node over e0, which sends it on. *)
LEMMA Passed ==
  ASSUME TypeOK, TreeInv, NEW p \in Pub, NEW V, Spread(p, V), NEW e0 \in End,
         Carries(e0, p), Used' = Used, OneCopy(p)',
         \A e \in End : Carries(e, p)' =>
           \/ Carries(e, p) /\ e # e0
           \/ At(e) = At(Peer(e0)) /\ e # Peer(e0) /\ e.link \in Used,
         \A c \in Client : \/ got'[c][p] = got[c][p]
                           \/ c = At(Peer(e0)) /\ (got[c][p] = 0 => got'[c][p] = 1)
  PROVE  Spread(p, V \cup {At(Peer(e0))})'
<1> DEFINE n == At(Peer(e0))
<1>1. IsForest(Used) /\ Used \in SUBSET Link
  BY UsedForest DEF Used
<1>2. n \in Node /\ At(e0) \in V /\ e0.link \in Used /\ n \notin V /\ V \in SUBSET Node
  BY EndFacts, BeyondFacts, <1>1 DEF Spread
<1>3. ASSUME NEW e \in End, Carries(e, p)'
      PROVE  /\ e.link \in Used /\ At(e) \in V \cup {n}
             /\ \A v \in V \cup {n} : v \notin Beyond(e, Used)
  <2>1. CASE Carries(e, p) /\ e # e0
    <3>1. /\ e.link \in Used /\ At(e) \in V /\ \A v \in V : v \notin Beyond(e, Used)
          /\ At(e) \notin Beyond(e0, Used)
      BY <2>1 DEF Spread
    <3>2. n \notin Beyond(e, Used)
      <4>1. CASE e.link # e0.link
        BY <1>1, <1>2, <3>1, <4>1, BeyondFacts
      <4>2. CASE e.link = e0.link
        <5>1. e = Peer(e0)
          BY <2>1, <4>2, EndFacts
        <5> QED  BY <1>1, <3>1, <5>1, BeyondFacts
      <4> QED  BY <4>1, <4>2
    <3> QED  BY <3>1, <3>2
  <2>2. CASE At(e) = n /\ e # Peer(e0) /\ e.link \in Used
    <3>1. Beyond(e, Used) \subseteq Beyond(e0, Used) /\ n \notin Beyond(e, Used)
      BY <1>1, <1>2, <2>2, BeyondNext
    <3>2. \A v \in V : v \notin Beyond(e0, Used)
      BY DEF Spread
    <3> QED  BY <2>2, <3>1, <3>2
  <2> QED  BY <1>3, <2>1, <2>2
<1>4. ASSUME NEW x \in V \cup {n}, NEW y \in V \cup {n}  PROVE y \in Reached(x, Used)
  <2>1. n \in Reached(At(e0), Used) /\ At(e0) \in Reached(n, Used)
    BY <1>1, <1>2, ReachedOver, ReachedBack
  <2>2. \A v \in V : At(e0) \in Reached(v, Used) /\ v \in Reached(At(e0), Used)
    BY <1>2 DEF Spread
  <2>3. At(e0) \in Reached(x, Used) /\ y \in Reached(At(e0), Used)
    BY <2>1, <2>2
  <2> QED  BY <1>1, <1>2, <2>3, ReachedOn
<1>5. ASSUME NEW c \in Client
      PROVE  got'[c][p] < 2 /\ (got'[c][p] # 0 => c \in V \cup {n})
  <2>1. got[c][p] < 2 /\ (got[c][p] # 0 => c \in V)
    BY DEF Spread
  <2>2. CASE got'[c][p] = got[c][p]
    BY <2>1, <2>2
  <2>3. CASE c = n /\ (got[c][p] = 0 => got'[c][p] = 1)
    BY <1>2, <2>1, <2>3
  <2> QED  BY <2>2, <2>3
<1> HIDE DEF n
<1>6. V \cup {n} \in SUBSET Node
  BY <1>2
<1>7. Spread(p, V \cup {n})'
  BY <1>3, <1>4, <1>5, <1>6 DEF Spread
<1> QED  BY <1>7 DEF n

(* Nothing is new about p: what is under way has been so before. *)
NoMore(p) ==
  /\ \A e \in End : Thinner(chan[e], chan'[e], p)
  /\ \A l \in Link : Thinner(held[l], held'[l], p)
  /\ \A x \in End : \/ unsent'[x] = unsent[x] \/ unsent'[x].to = {}
                    \/ unsent'[x].what # PubOf(p)

SameGot(p) == \A c \in Client : got'[c][p] = got[c][p]

LEMMA NoMoreCopies ==
  ASSUME NEW p \in Pub, NoMore(p), OneCopy(p),
         \A x \in End : unsent[x].what = PubOf(p) =>
           \A e \in unsent[x].to : e.link \in Used' => e.link \in Used
  PROVE  OneCopy(p)' /\ \A e \in End : Carries(e, p)' => Carries(e, p)
<1>1. \A e \in End : /\ Has(chan'[e], p) => Has(chan[e], p)
                     /\ HeldFrom(e, p)' => HeldFrom(e, p)
                     /\ AtMostOne(chan[e], p) => AtMostOne(chan'[e], p)
  BY EndFacts DEF NoMore, Thinner, HeldFrom
<1>2. \A l \in Link : AtMostOne(held[l], p) => AtMostOne(held'[l], p)
  BY DEF NoMore, Thinner
<1>3. \A x, e \in End : LeftBy(x, e, p)' => LeftBy(x, e, p)
  BY DEF NoMore, LeftBy
<1>4. \A e \in End : Carries(e, p)' => Carries(e, p)
  BY <1>1, <1>3 DEF Carries
<1>5. OneCopy(p)'
  BY <1>1, <1>2, <1>3 DEF OneCopy
<1> QED  BY <1>4, <1>5

(* Copies may move on between channels, what is held and what is left. *)
LEMMA SpreadKept ==
  ASSUME NEW p \in Pub, NEW V, Spread(p, V), Used' = Used, SameGot(p), OneCopy(p)',
         \A e \in End : Carries(e, p)' => Carries(e, p)
  PROVE  Spread(p, V)'
BY DEF Spread, SameGot

(* A link comes into use that leads to a part of the bus p has not come to, or
   from there: it is neither between two places that p has come to nor between
   such a place and one that p is on its way to. *)
LEMMA SpreadGrows ==
  ASSUME TypeOK, TreeInv, NEW p \in Pub, NEW V, Spread(p, V), SameGot(p), OneCopy(p)',
         NEW l \in Link, l \notin Used, Used' = Used \cup {l}, Separated(l, Used),
         \A e \in End : Carries(e, p)' => Carries(e, p)
  PROVE  Spread(p, V)'
<1>1. Used \in SUBSET Link /\ Used' \in SUBSET Link /\ Used \in SUBSET Used'
  BY DEF Used
<1>2. V \in SUBSET Node
  BY DEF Spread
<1>3. \A x, y \in V : y \in Reached(x, Used')
  <2>1. \A x, y \in V : y \in Reached(x, Used)
    BY DEF Spread
  <2>2. \A x \in V : Reached(x, Used) \subseteq Reached(x, Used')
    BY <1>1, <1>2, ReachedLess
  <2> QED  BY <2>1, <2>2
<1>4. ASSUME NEW e \in End, Carries(e, p)
      PROVE  \A n \in V : n \notin Beyond(e, Used')
  <2> DEFINE K == Used \ {e.link}
             B == Beyond(e, Used)
             C == Reached(At(e), Used)
             D == B \cup (Node \ C)
  <2>1. e.link \in Used /\ At(e) \in V /\ At(e) \in Node /\ (\A n \in V : n \notin B)
    BY <1>4, EndFacts DEF Spread
  <2>2. V \subseteq C /\ C \in SUBSET Node /\ Closed(C, Used)
    BY <1>1, <2>1, ReachedFacts DEF Spread
  <2>3. At(Peer(e)) \in Node /\ B \in SUBSET Node /\ At(Peer(e)) \in B /\ Closed(B, K)
    BY <1>1, EndFacts, ReachedFacts DEF Beyond
  <2>4. ~ (Est[l] \in C /\ Acc[l] \in C)
    <3>1. PICK S \in SUBSET Node : Closed(S, Used) /\ Crosses(l, S)
      BY DEF Separated
    <3>2. CASE At(e) \in S
      <4>1. C \subseteq S
        BY <1>1, <2>1, <3>1, <3>2, ReachedFacts
      <4> QED  BY <3>1, <4>1 DEF Crosses
    <3>3. CASE At(e) \notin S
      <4>1. Node \ S \in SUBSET Node /\ Closed(Node \ S, Used)
        BY <1>1, <3>1, LinkEndsAssumption DEF Closed, Crosses
      <4>2. C \subseteq Node \ S
        BY <1>1, <2>1, <3>3, <4>1, ReachedFacts
      <4> QED  BY <3>1, <4>2 DEF Crosses
    <3> QED  BY <3>2, <3>3
  <2>5. Est[l] \in Node /\ Acc[l] \in Node
    BY LinkEndsAssumption
  <2>6. Beyond(e, Used') = Reached(At(Peer(e)), K \cup {l})
    <3>1. Used' \ {e.link} = K \cup {l}
      BY <2>1
    <3> QED  BY <3>1 DEF Beyond
  <2>7. K \cup {l} \in SUBSET Link /\ K \subseteq Used
    BY <1>1
  <2> HIDE DEF B, C, K
  <2>8. CASE Est[l] \in B \/ Acc[l] \in B
    <3>0. B \subseteq C
      <4>1. At(Peer(e)) \in C
        BY <1>1, <2>1, ReachedOver DEF C
      <4>2. \A k \in K : ~ Crosses(k, C)
        BY <2>2, <2>7 DEF Closed
      <4>3. Reached(At(Peer(e)), K) \subseteq C
        BY <2>2, <2>3, <2>7, <4>1, <4>2, ReachedWithin
      <4> QED  BY <4>3 DEF B, K, Beyond
    <3>1. ~ Crosses(l, D)
      BY <2>4, <2>5, <2>8, <3>0 DEF Crosses
    <3>2. \A k \in K : ~ Crosses(k, D)
      <4>1. \A k \in K : ~ Crosses(k, B) /\ ~ Crosses(k, C) /\ Est[k] \in Node /\ Acc[k] \in Node
        BY <2>2, <2>3, <2>7, LinkEndsAssumption DEF Closed
      <4> QED  BY <4>1 DEF Crosses
    <3>3. D \in SUBSET Node /\ At(Peer(e)) \in D
      BY <2>3
    <3>4. \A n \in V : n \notin D
      BY <2>1, <2>2
    <3> HIDE DEF D
    <3>5. Reached(At(Peer(e)), K \cup {l}) \subseteq D
      BY <2>3, <2>7, <3>1, <3>2, <3>3, ReachedWithin
    <3> QED  BY <2>6, <3>4, <3>5
  <2>9. CASE ~ (Est[l] \in B \/ Acc[l] \in B)
    <3>1. \A k \in K \cup {l} : ~ Crosses(k, B)
      BY <2>3, <2>9 DEF Closed, Crosses
    <3>2. Reached(At(Peer(e)), K \cup {l}) \subseteq B
      BY <2>3, <2>7, <3>1, ReachedWithin
    <3> QED  BY <2>1, <2>6, <3>2
  <2> QED  BY <2>8, <2>9
<1>5. \A e \in End : Carries(e, p)' => e.link \in Used' /\ At(e) \in V
  BY DEF Spread
<1> QED  BY <1>2, <1>3, <1>4, <1>5 DEF Spread, SameGot

(* The node of x sends p to the ends of G, and leaves K for later. *)
LEMMA Distributed ==
  ASSUME NEW p \in Pub, NEW V, Spread(p, V), Used' = Used, NEW x \in End,
         At(x) \notin V,
         Has(chan[Peer(x)], p) \/ HeldFrom(Peer(x), p),
         NEW G \in SUBSET End, NEW K \in SUBSET End, G \cap K = {},
         \A t \in G \cup K : At(t) = At(x) /\ t # x /\ t.link \in Used,
         \A e \in End : /\ Has(chan'[e], p) => (Has(chan[e], p) /\ e # Peer(x)) \/ e \in G
                        /\ HeldFrom(e, p)' => HeldFrom(e, p) /\ e # Peer(x)
                        /\ AtMostOne(chan'[e], p),
         \A l \in Link : AtMostOne(held'[l], p),
         \A y, e \in End : LeftBy(y, e, p)' => LeftBy(y, e, p) \/ (y = x /\ e \in K)
  PROVE  /\ OneCopy(p)'
         /\ \A e \in End : Carries(e, p)' =>
              \/ Carries(e, p) /\ e # Peer(x)
              \/ At(e) = At(x) /\ e # x /\ e.link \in Used
<1>1. \A t \in G \cup K : /\ ~ Has(chan[t], p) /\ ~ HeldFrom(t, p)
                          /\ \A y \in End : ~ LeftBy(y, t, p)
  BY DEF Spread, Carries
<1>2. \A y \in End : ~ LeftBy(y, Peer(x), p)
  BY EndFacts DEF Spread, OneCopy
<1>3. ASSUME NEW e \in End, Carries(e, p)'
      PROVE  \/ Carries(e, p) /\ e # Peer(x)
             \/ At(e) = At(x) /\ e # x /\ e.link \in Used
  <2>1. CASE Has(chan'[e], p)
    BY <2>1 DEF Carries
  <2>2. CASE HeldFrom(e, p)'
    BY <2>2 DEF Carries
  <2>3. ASSUME NEW y \in End, LeftBy(y, e, p)'
        PROVE  \/ Carries(e, p) /\ e # Peer(x)
               \/ At(e) = At(x) /\ e # x /\ e.link \in Used
    BY <1>2, <2>3 DEF Carries
  <2> QED  BY <1>3, <2>1, <2>2, <2>3 DEF Carries
<1>4. \A e \in End : Has(chan'[e], p) => ~ HeldFrom(e, p)'
  BY <1>1 DEF Spread, OneCopy
<1>5. \A y, e \in End : LeftBy(y, e, p)' =>
         /\ ~ Has(chan'[e], p) /\ ~ HeldFrom(e, p)'
         /\ \A z \in End : LeftBy(z, e, p)' => z = y
  BY <1>1 DEF Spread, OneCopy
<1> QED  BY <1>3, <1>4, <1>5 DEF OneCopy

-----------------------------------------------------------------------------
(* A node's subscribers are ends of its own. *)
TagsHere == \A n \in Node, s \in Subject : \A e \in tags[n][s] : At(e) = n

LEMMA TaggedHere ==
  ASSUME TagsHere, LinksTyped, NEW e \in End, NEW m \in Message, NEW n \in Node,
         NEW s \in Subject, NEW x \in Tagged(e, m)[n][s]
  PROVE  At(x) = n
<1>1. CASE m.type = "pub"
  BY <1>1 DEF Tagged, TagsHere
<1>2. CASE m.type = "sub" /\ m.subject \in Subject /\ m.on \in BOOLEAN
  BY <1>2, EndFacts DEF Tagged, TagsHere, LinksTyped
<1> QED  BY <1>1, <1>2, MessageCases

LEMMA HandleHere ==
  ASSUME TagsHere, LinksTyped, NEW e \in End, NEW m \in Message, NEW c, NEW h, NEW by,
         Handle(e, m, c, h, by)
  PROVE  TagsHere'
<1>1. Tagged(e, m) \in Subscribers /\ Targets(e, m) \subseteq End
  BY TargetsType
<1>2. CASE tags' = Tagged(e, m)
  BY <1>2, TaggedHere DEF TagsHere
<1>3. ASSUME NEW full \in Targets(e, m), NEW d, NEW u,
             DropFrom(full, d, Tagged(e, m), h, u)
      PROVE  TagsHere'
  <2>1. \A n \in Node, s \in Subject : tags'[n][s] \subseteq Tagged(e, m)[n][s]
    BY <1>1, <1>3, EndFacts DEF DropFrom, Subscribers
  <2> QED  BY <2>1, TaggedHere DEF TagsHere
<1> QED  BY <1>2, <1>3 DEF Handle

LEMMA HereStep ==
  ASSUME TypeOK, TagsHere, [Next]_vars
  PROVE  TagsHere'
<1>0. LinksTyped /\ tags \in Subscribers
  BY DEF TypeOK, LinksTyped, Subscribers
<1>1. CASE UNCHANGED tags
  BY <1>1 DEF TagsHere
<1>2. ASSUME NEW e \in End,
             tags' = [tags EXCEPT ![At(e)] = [s \in Subject |-> @[s] \ {e}]]
      PROVE  TagsHere'
  <2>1. \A n \in Node, s \in Subject : tags'[n][s] \subseteq tags[n][s]
    BY <1>0, <1>2, EndFacts DEF Subscribers
  <2> QED  BY <2>1 DEF TagsHere
<1>3. ASSUME NEW e \in End, Drop(e)  PROVE TagsHere'
  BY <1>2, <1>3 DEF Drop, DropFrom
<1>4. ASSUME NEW e \in End, Lose(e) \/ NoticeLoss(e)  PROVE TagsHere'
  BY <1>3, <1>4 DEF Lose, NoticeLoss
<1>5. ASSUME NEW l \in Link, LinkStep(l)  PROVE TagsHere'
  BY <1>1, <1>3, <1>5, LinkFacts
     DEF LinkStep, Establish, Connect, Accept, Activate, Refuse
<1>6. ASSUME NEW c \in Client, ClientStep(c)  PROVE TagsHere'
  BY <1>1, <1>6 DEF ClientStep, Subscribe, Unsubscribe, Publish
<1>7. ASSUME NEW e \in End, ReceiveStep(e)  PROVE TagsHere'
  <2>1. CASE NodeReceives(e)
    <3>1. chan[Peer(e)] # <<>> /\ chan[Peer(e)] \in Seq(Message)
      BY <2>1, EndFacts DEF NodeReceives, Arrives, TypeOK, MessagesTyped
    <3>2. Head(chan[Peer(e)]) \in Message
      BY <3>1, HeadType
    <3> QED  BY <1>0, <2>1, <3>2, HandleHere DEF NodeReceives
  <2>2. CASE OverLimit(e)
    BY <1>2, <2>2 DEF OverLimit
  <2> QED  BY <1>1, <1>7, <2>1, <2>2 DEF ReceiveStep, ClientReceives, Hold, ResumeRelay
<1>8. ASSUME NEW l \in Link, DrainHeld(l)  PROVE TagsHere'
  <2>1. held[l] # <<>> /\ held[l] \in Seq(Message)
    BY <1>8 DEF DrainHeld, TypeOK, MessagesTyped
  <2>2. Head(held[l]) \in Message
    BY <2>1, HeadType
  <2> QED  BY <1>0, <1>8, <2>2, LinkFacts, HandleHere DEF DrainHeld
<1>9. CASE UNCHANGED vars
  BY <1>1, <1>9 DEF vars
<1> QED  BY <1>4, <1>5, <1>6, <1>7, <1>8, <1>9 DEF Next

-----------------------------------------------------------------------------
(* A step that does not take a copy of p makes none. *)
LEMMA SentThinner ==
  ASSUME NEW p \in Pub, NEW c \in Channels, NEW targets, NEW m \in Message, NEW e \in End
  PROVE  /\ m # PubOf(p) => Thinner(c[e], Sent(c, targets, m)[e], p)
         /\ ~ (e \in targets /\ Heeded(e, m)) => Sent(c, targets, m)[e] = c[e]
         /\ ~ Has(c[e], p) => AtMostOne(Sent(c, targets, m)[e], p)
         /\ Sent(c, targets, m)[e] \in Seq(Message)
<1>1. c[e] \in Seq(Message)
  BY DEF Channels
<1>2. Sent(c, targets, m)[e] \in {c[e], Append(c[e], m)}
      /\ (~ (e \in targets /\ Heeded(e, m)) => Sent(c, targets, m)[e] = c[e])
  BY DEF Sent
<1>3. ~ Has(c[e], p) => AtMostOne(c[e], p)
  BY DEF Has, AtMostOne
<1> DEFINE q == c[e]
           r == Sent(c, targets, m)[e]
<1>4. q \in Seq(Message) /\ r \in {q, Append(q, m)} /\ (~ Has(q, p) => AtMostOne(q, p))
  BY <1>1, <1>2, <1>3
<1> HIDE DEF q, r
<1>5. /\ m # PubOf(p) => Thinner(q, r, p)
      /\ ~ Has(q, p) => AtMostOne(r, p)
      /\ r \in Seq(Message)
  <2>1. CASE r = q
    BY <1>4, <2>1, ThinnerFacts
  <2>2. CASE r = Append(q, m)
    BY <1>4, <2>2, AppendThinner
  <2> QED  BY <1>4, <2>1, <2>2
<1> QED  BY <1>2, <1>5 DEF q, r

LEMMA DropThinner ==
  ASSUME NEW p \in Pub, NEW e \in End, NEW c \in Channels, NEW T,
         NEW h \in HeldLists, NEW u \in Relays, DropFrom(e, c, T, h, u)
  PROVE  /\ \A x \in End : Thinner(c[x], chan'[x], p)
         /\ \A l \in Link : Thinner(h[l], held'[l], p)
         /\ \A x \in End : unsent'[x] = u[x] \/ unsent'[x].to = {}
<1> DEFINE d == Untold(c, T, e)
<1>1. ASSUME NEW x \in End  PROVE Thinner(c[x], d[x], p)
  <2> DEFINE S == { s \in Subject : x \in NoLongerWantedFrom(T, e, s)
                                    /\ Heeded(x, Sub(s, FALSE)) }
  <2>1. d[x] = c[x] \o Each(S, FALSE) /\ S \in SUBSET Subject
    BY DEF Untold
  <2>2. c[x] \in Seq(Message)
    BY DEF Channels
  <2> HIDE DEF S
  <2> QED  BY <2>1, <2>2, EachThinner
<1>2. d \in Channels /\ chan' = [d EXCEPT ![Peer(e)] = <<>>]
  BY UntoldType DEF DropFrom
<1> HIDE DEF d
<1>3. ASSUME NEW x \in End  PROVE Thinner(c[x], chan'[x], p)
  <2>1. chan'[x] \in {d[x], <<>>} /\ c[x] \in Seq(Message)
    BY <1>2 DEF Channels
  <2> QED  BY <1>1, <2>1, ThinnerFacts
<1>4. ASSUME NEW l \in Link  PROVE Thinner(h[l], held'[l], p)
  <2>1. held'[l] \in {h[l], <<>>} /\ h[l] \in Seq(Message)
    BY DEF DropFrom, HeldLists
  <2> QED  BY <2>1, ThinnerFacts
<1>5. \A x \in End : unsent'[x] = u[x] \/ unsent'[x].to = {}
  BY DEF DropFrom, Relays, NoRelay
<1> QED  BY <1>3, <1>4, <1>5

(* A link is lost when one of its ends is dropped, and no other. *)
LEMMA DropUsed ==
  ASSUME LinksTyped, NEW e \in End, life' = [life EXCEPT ![e] = "down"],
         pending' = pending \/ (e.side = "est" /\ pending' = pending \ {e.link})
  PROVE  Used' = Used \ {e.link}
<1>1. \A x \in End : life'[x] = IF x = e THEN "down" ELSE life[x]
  BY DEF LinksTyped
<1>2. e \in {EstEnd(e.link), AccEnd(e.link)} /\ e.link \in Link
  BY EndFacts
<1>3. \A l \in Link : l # e.link => EstEnd(l) # e /\ AccEnd(l) # e
  BY LinkFacts
<1>4. \A l \in Link : l # e.link =>
        /\ l \in pending' <=> l \in pending
        /\ life'[EstEnd(l)] = life[EstEnd(l)] /\ life'[AccEnd(l)] = life[AccEnd(l)]
  BY <1>1, <1>3, LinkFacts
<1>5. e.link \notin Used'
  BY <1>1, <1>2 DEF Used
<1>6. \A l \in Link : l \in Used' <=> l \in Used \ {e.link}
  BY <1>4, <1>5 DEF Used
<1>7. Used' \in SUBSET Link /\ Used \in SUBSET Link
  BY DEF Used
<1> HIDE DEF Used
<1> QED  BY ONLY <1>6, <1>7

LEMMA HandleUsed ==
  ASSUME LinksTyped, NEW e \in End, NEW m \in Message, NEW c, NEW h, NEW by,
         Handle(e, m, c, h, by)
  PROVE  Used' \subseteq Used
<1>1. CASE UNCHANGED <<life, pending>>
  BY <1>1 DEF Used
<1>2. ASSUME NEW full \in Targets(e, m), NEW d, NEW u,
             DropFrom(full, d, Tagged(e, m), h, u)
      PROVE  Used' \subseteq Used
  <2>1. full \in End
    BY TargetsType
  <2>2. Used' = Used \ {full.link}
    BY <1>2, <2>1, DropUsed DEF DropFrom
  <2> QED  BY <2>2
<1> QED  BY <1>1, <1>2 DEF Handle

(* The handling of a message that is not p. *)
LEMMA HandleThinner ==
  ASSUME TypeOK, NEW p \in Pub, NEW e \in End, NEW m \in Message, m # PubOf(p),
         NEW c \in Channels, NEW h \in HeldLists, NEW by \in {"loop", "drain"},
         \A x \in End : Thinner(chan[x], c[x], p),
         \A l \in Link : Thinner(held[l], h[l], p),
         Handle(e, m, c, h, by)
  PROVE  NoMore(p)
<1>0. chan \in Channels /\ held \in HeldLists /\ unsent \in Relays /\ LinksTyped
  BY DEF TypeOK, MessagesTyped, Channels, HeldLists, Relays
<1>1. ASSUME NEW q \in Seq(Message), NEW r, NEW s, Thinner(q, r, p), Thinner(r, s, p)
      PROVE  Thinner(q, s, p)
  BY <1>1, ThinnerFacts DEF Thinner
<1>2. \A targets : \A x \in End : Thinner(chan[x], Sent(c, targets, m)[x], p)
  <2> TAKE targets
  <2> TAKE x \in End
  <2>1. Thinner(c[x], Sent(c, targets, m)[x], p) /\ chan[x] \in Seq(Message)
    BY <1>0, SentThinner DEF Channels
  <2> QED  BY <1>1, <2>1
<1>3. CASE /\ tags' = Tagged(e, m) /\ chan' = Sent(c, Targets(e, m), m) /\ held' = h
           /\ UNCHANGED <<life, pending, unsent, due, overflows>>
  <2>1. \A x \in End : Thinner(chan[x], chan'[x], p)
    BY <1>2, <1>3
  <2> QED  BY <1>3, <2>1 DEF NoMore
<1>4. ASSUME NEW full \in Targets(e, m), NEW later \in SUBSET (Targets(e, m) \ {full}),
             DropFrom(full, Sent(c, Targets(e, m) \ (later \cup {full}), m),
                      Tagged(e, m), h,
                      IF later = {} THEN unsent
                      ELSE [unsent EXCEPT ![e] = [to |-> later, what |-> m, by |-> by]])
      PROVE  NoMore(p)
  <2> DEFINE sent == Sent(c, Targets(e, m) \ (later \cup {full}), m)
             suspended == IF later = {} THEN unsent
                ELSE [unsent EXCEPT ![e] = [to |-> later, what |-> m, by |-> by]]
  <2>1. sent \in Channels /\ full \in End /\ later \in SUBSET End
    BY SentType, TargetsType, <1>0
  <2>2. suspended \in Relays
    <3>1. [to |-> later, what |-> m, by |-> by] \in Relay
      BY <2>1 DEF Relay
    <3> QED  BY <1>0, <3>1 DEF Relays
  <2>3. ASSUME NEW x \in End
        PROVE  suspended[x] = unsent[x] \/ suspended[x].what # PubOf(p)
    <3>1. x # e \/ later = {} => suspended[x] = unsent[x]
      BY <1>0 DEF Relays
    <3>2. x = e /\ later # {} => suspended[x] = [to |-> later, what |-> m, by |-> by]
      BY <1>0 DEF Relays
    <3>3. [to |-> later, what |-> m, by |-> by].what = m
      OBVIOUS
    <3> HIDE DEF suspended
    <3> QED  BY <3>1, <3>2, <3>3
  <2>4. \A x \in End : Thinner(chan[x], sent[x], p) /\ chan[x] \in Seq(Message)
    BY <1>0, <1>2 DEF Channels
  <2>5. DropFrom(full, sent, Tagged(e, m), h, suspended)
    BY <1>4
  <2> HIDE DEF sent, suspended
  <2>6. /\ \A x \in End : Thinner(sent[x], chan'[x], p)
        /\ \A l \in Link : Thinner(h[l], held'[l], p)
        /\ \A x \in End : unsent'[x] = suspended[x] \/ unsent'[x].to = {}
    <3>1. \A f \in End, d \in Channels, u \in Relays :
            DropFrom(f, d, Tagged(e, m), h, u) =>
              /\ \A x \in End : Thinner(d[x], chan'[x], p)
              /\ \A l \in Link : Thinner(h[l], held'[l], p)
              /\ \A x \in End : unsent'[x] = u[x] \/ unsent'[x].to = {}
      BY DropThinner
    <3> QED  BY <2>1, <2>2, <2>5, <3>1
  <2>7. \A l \in Link : held[l] \in Seq(Message)
    BY <1>0 DEF HeldLists
  <2>8. \A x \in End : Thinner(chan[x], chan'[x], p)
    BY <1>1, <2>4, <2>6
  <2>9. \A l \in Link : Thinner(held[l], held'[l], p)
    BY <1>1, <2>6, <2>7
  <2>10. \A x \in End : \/ unsent'[x] = unsent[x] \/ unsent'[x].to = {}
                        \/ unsent'[x].what # PubOf(p)
    BY <2>3, <2>6
  <2> QED  BY <2>8, <2>9, <2>10 DEF NoMore
<1> QED  BY <1>3, <1>4 DEF Handle

-----------------------------------------------------------------------------
(* What a node may send a publish on is in use, if it has any effect. *)
LEMMA HeededUsed ==
  ASSUME TypeOK, CheckInv, NEW p \in Pub, NEW t \in End, MayGet(t, PubOf(p)),
         Heeded(t, PubOf(p))
  PROVE  t.link \in Used
<1>1. /\ life[t] = "up" /\ life[Peer(t)] # "down" /\ t.link \notin pending
  BY PubType DEF Heeded, MayGet, PubOf
<1>2. /\ life \in [End -> {"none", "up", "down"}]
      /\ \A l \in Link : life[AccEnd(l)] # "none" => life[EstEnd(l)] # "none"
  BY DEF TypeOK, LinksTyped, CheckInv, LinksOK
<1>3. CASE t.side = "est"
  BY <1>1, <1>3, EndFacts DEF Used
<1>4. CASE t.side = "acc"
  <2>1. t = AccEnd(t.link) /\ Peer(t) = EstEnd(t.link) /\ t.link \in Link
    BY <1>4, EndFacts
  <2>2. life[EstEnd(t.link)] \in {"none", "up", "down"}
    BY <1>2, <2>1, LinkFacts
  <2>3. life[EstEnd(t.link)] = "up"
    BY <1>1, <1>2, <2>1, <2>2
  <2> QED  BY <1>1, <2>1, <2>3 DEF Used
<1> QED  BY <1>3, <1>4, EndFacts

(* Where a copy of p that is taken from x's channel, or from what is held for x,
   goes: to ends of x's node, which p has not come to yet. *)
LEMMA PassedTo ==
  ASSUME TypeOK, CheckInv, TreeInv, TagsHere, NEW p \in Pub, NEW V, Spread(p, V),
         NEW x \in End, Carries(Peer(x), p)
  PROVE  /\ At(x) \notin V /\ At(Peer(Peer(x))) = At(x) /\ Peer(x) \in End
         /\ \A t \in Targets(x, PubOf(p)) :
              t \in End /\ t # x /\ At(t) = At(x) /\ MayGet(t, PubOf(p)) /\ ~ Carries(t, p)
<1>1. /\ Peer(x) \in End /\ Peer(Peer(x)) = x /\ At(x) \in Node
      /\ Used \in SUBSET Link /\ PubOf(p) \in Message /\ PubOf(p).type = "pub"
      /\ PubOf(p).pub = p
  BY EndFacts, PubType DEF Used, PubOf
<1>2. At(x) \in Beyond(Peer(x), Used)
  BY <1>1, BeyondFacts
<1>3. At(x) \notin V
  BY <1>1, <1>2 DEF Spread
<1>4. ASSUME NEW t \in Targets(x, PubOf(p))
      PROVE  t \in End /\ t # x /\ At(t) = At(x) /\ MayGet(t, PubOf(p)) /\ ~ Carries(t, p)
  <2>1. t \in End /\ t # x /\ MayGet(t, PubOf(p))
    BY <1>1, TargetsType, TargetsOK DEF TypeOK, CheckInv
  <2> DEFINE lists == { tags[At(x)][s] : s \in MatchedBy[p] }
  <2>2. t \in UNION lists
    BY <1>1 DEF Targets
  <2>3. PICK s \in MatchedBy[p] : t \in tags[At(x)][s]
    BY <2>2
  <2>4. At(t) = At(x)
    BY <1>1, <2>3, SubjectAssumption DEF TagsHere
  <2>5. ~ Carries(t, p)
    BY <1>3, <2>1, <2>4 DEF Spread
  <2> QED  BY <2>1, <2>4, <2>5
<1> QED  BY <1>1, <1>3, <1>4

(* A node handles p: it passes it on, or keeps it for the connections that come
   after a full queue. *)
LEMMA HandlePass ==
  ASSUME TypeOK, CheckInv, TreeInv, TagsHere, NEW p \in Pub, NEW V, Spread(p, V),
         NEW x \in End, Has(chan[Peer(x)], p) \/ HeldFrom(Peer(x), p),
         NEW c \in Channels, NEW h \in HeldLists, NEW by \in {"loop", "drain"},
         \A e \in End : Thinner(chan[e], c[e], p),
         \A l \in Link : Thinner(held[l], h[l], p),
         ~ Has(c[Peer(x)], p), x.side = "est" => ~ Has(h[x.link], p),
         Handle(x, PubOf(p), c, h, by), Used \subseteq Used', SameGot(p)
  PROVE  Spread(p, V \cup {At(x)})'
<1> DEFINE m == PubOf(p)
           tg == Targets(x, m)
<1>0. /\ chan \in Channels /\ held \in HeldLists /\ unsent \in Relays /\ LinksTyped
      /\ PubOf(p) \in Message /\ OneCopy(p)
  BY PubType DEF TypeOK, MessagesTyped, Channels, HeldLists, Relays, Spread, PubOf
<1>1. Used' = Used
  BY <1>0, HandleUsed
<1>2. Carries(Peer(x), p)
  BY DEF Carries
<1>3. /\ At(x) \notin V /\ At(Peer(Peer(x))) = At(x) /\ Peer(x) \in End
      /\ \A t \in tg : t \in End /\ t # x /\ At(t) = At(x) /\ MayGet(t, m) /\ ~ Carries(t, p)
  BY <1>2, PassedTo
<1>4. \A t \in tg : Heeded(t, m) => t.link \in Used
  BY <1>3, HeededUsed
<1>5. Peer(Peer(x)) = x /\ Peer(x).link = x.link
      /\ (Peer(x).side = "acc" <=> x.side = "est")
  BY EndFacts, LinkFacts
<1> HIDE DEF m, tg
<1>6. ASSUME NEW G \in SUBSET tg, NEW K \in SUBSET tg, G \cap K = {},
             \A t \in G \cup K : t.link \in Used,
             \A e \in End : Has(chan'[e], p) => Has(c[e], p) \/ e \in G,
             \A e \in End : AtMostOne(chan'[e], p),
             \A l \in Link : Thinner(h[l], held'[l], p),
             \A y, e \in End : LeftBy(y, e, p)' => LeftBy(y, e, p) \/ (y = x /\ e \in K)
      PROVE  Spread(p, V \cup {At(x)})'
  <2>1. G \in SUBSET End /\ K \in SUBSET End
        /\ \A t \in G \cup K : At(t) = At(x) /\ t # x /\ t.link \in Used
    BY <1>3, <1>6
  <2>2. \A e \in End : Has(chan'[e], p) => (Has(chan[e], p) /\ e # Peer(x)) \/ e \in G
    BY <1>6 DEF Thinner
  <2>3. ASSUME NEW e \in End, HeldFrom(e, p)'  PROVE HeldFrom(e, p) /\ e # Peer(x)
    <3>1. e.link \in Link /\ e.side = "acc" /\ Has(held'[e.link], p)
      BY <2>3, EndFacts DEF HeldFrom
    <3>2. Has(h[e.link], p) /\ Has(held[e.link], p)
      BY <1>6, <3>1 DEF Thinner
    <3> QED  BY <1>5, <3>1, <3>2 DEF HeldFrom
  <2>4. \A l \in Link : AtMostOne(held'[l], p)
    BY <1>0, <1>6 DEF Thinner, OneCopy
  <2>5. /\ OneCopy(p)'
        /\ \A e \in End : Carries(e, p)' =>
             \/ Carries(e, p) /\ e # Peer(x)
             \/ At(e) = At(x) /\ e # x /\ e.link \in Used
    <3>1. \A e \in End : /\ Has(chan'[e], p) => (Has(chan[e], p) /\ e # Peer(x)) \/ e \in G
                         /\ HeldFrom(e, p)' => HeldFrom(e, p) /\ e # Peer(x)
                         /\ AtMostOne(chan'[e], p)
      BY <1>6, <2>2, <2>3
    <3> QED  BY ONLY <1>1, <1>3, <1>6, <2>1, <2>4, <3>1, Distributed,
                     p \in Pub, Spread(p, V), x \in End,
                     Has(chan[Peer(x)], p) \/ HeldFrom(Peer(x), p)
  <2> DEFINE e0 == Peer(x)
  <2>6. At(Peer(e0)) = At(x) /\ Peer(e0) = x /\ e0 \in End /\ Carries(e0, p)
    BY <1>2, <1>3, <1>5
  <2> HIDE DEF e0
  <2>7. \A e \in End : Carries(e, p)' =>
             \/ Carries(e, p) /\ e # e0
             \/ At(e) = At(Peer(e0)) /\ e # Peer(e0) /\ e.link \in Used
    BY <2>5, <2>6 DEF e0
  <2>8. \A d \in Client : got'[d][p] = got[d][p]
    BY DEF SameGot
  <2>9. Spread(p, V \cup {At(Peer(e0))})'
    BY <1>1, <2>5, <2>6, <2>7, <2>8, Passed
  <2> QED  BY <2>6, <2>9
<1>7. ASSUME NEW sentTo \in SUBSET tg, NEW e \in End
      PROVE  /\ Has(Sent(c, sentTo, m)[e], p) =>
                  Has(c[e], p) \/ (e \in sentTo /\ Heeded(e, m))
             /\ AtMostOne(Sent(c, sentTo, m)[e], p)
  <2>1. e \in tg => ~ Has(c[e], p)
    BY <1>3 DEF Carries, Thinner
  <2>2. AtMostOne(c[e], p)
    BY <1>0 DEF Thinner, OneCopy
  <2>3. m \in Message
    BY <1>0 DEF m
  <2>4. /\ ~ (e \in sentTo /\ Heeded(e, m)) => Sent(c, sentTo, m)[e] = c[e]
        /\ ~ Has(c[e], p) => AtMostOne(Sent(c, sentTo, m)[e], p)
    BY <2>3, SentThinner
  <2> QED  BY <2>1, <2>2, <2>4
<1>8. CASE /\ tags' = Tagged(x, m) /\ chan' = Sent(c, tg, m) /\ held' = h
           /\ UNCHANGED <<life, pending, unsent, due, overflows>>
  <2> DEFINE G == { t \in tg : Heeded(t, m) }
             none == {}
  <2>1. G \in SUBSET tg /\ none \in SUBSET tg /\ G \cap none = {}
        /\ \A t \in G \cup none : t.link \in Used
    BY <1>4
  <2>2. \A e \in End : /\ Has(chan'[e], p) => Has(c[e], p) \/ e \in G
                       /\ AtMostOne(chan'[e], p)
    BY <1>7, <1>8
  <2>3. \A l \in Link : Thinner(h[l], held'[l], p)
    BY <1>8, ThinnerFacts DEF HeldLists
  <2>4. \A y, e \in End : LeftBy(y, e, p)' => LeftBy(y, e, p)
    BY <1>1, <1>8 DEF LeftBy
  <2> HIDE DEF G, none
  <2> QED  BY <1>6, <2>1, <2>2, <2>3, <2>4
<1>9. ASSUME NEW full \in tg, NEW later \in SUBSET (tg \ {full}),
             DropFrom(full, Sent(c, tg \ (later \cup {full}), m), Tagged(x, m), h,
                      IF later = {} THEN unsent
                      ELSE [unsent EXCEPT ![x] = [to |-> later, what |-> m, by |-> by]])
      PROVE  Spread(p, V \cup {At(x)})'
  <2> DEFINE sentTo == tg \ (later \cup {full})
             sent == Sent(c, sentTo, m)
             suspended == IF later = {} THEN unsent
                ELSE [unsent EXCEPT ![x] = [to |-> later, what |-> m, by |-> by]]
             G == { t \in sentTo : Heeded(t, m) }
             K == { t \in later : t.link \in Used }
  <2>1. sent \in Channels /\ full \in End /\ later \in SUBSET End
    <3>1. m \in Message
      BY <1>0 DEF m
    <3> QED  BY <1>3, <3>1, SentType
  <2>2. suspended \in Relays
    <3>1. [to |-> later, what |-> m, by |-> by] \in Relay
      BY <1>0, <2>1 DEF Relay, m
    <3> QED  BY <1>0, <3>1 DEF Relays
  <2>3. \A y \in End : suspended[y] = unsent[y] \/ (y = x /\ suspended[y].to = later)
    BY <1>0 DEF Relays
  <2>4. /\ G \in SUBSET tg /\ K \in SUBSET tg /\ G \cap K = {}
        /\ (\A t \in G \cup K : t.link \in Used) /\ sentTo \in SUBSET tg
    BY <1>4
  <2>5. \A e \in End : /\ Has(sent[e], p) => Has(c[e], p) \/ e \in G
                       /\ AtMostOne(sent[e], p)
    BY <1>7, <2>4
  <2>6. DropFrom(full, sent, Tagged(x, m), h, suspended)
    BY <1>9
  <2>7. \A e : e \in K <=> e \in later /\ e.link \in Used
    OBVIOUS
  <2> HIDE DEF sent, suspended, sentTo, G, K
  <2>8. /\ \A e \in End : Thinner(sent[e], chan'[e], p)
        /\ \A l \in Link : Thinner(h[l], held'[l], p)
        /\ \A y \in End : unsent'[y] = suspended[y] \/ unsent'[y].to = {}
    BY <2>1, <2>2, <2>6, DropThinner
  <2>9. \A e \in End : /\ Has(chan'[e], p) => Has(c[e], p) \/ e \in G
                       /\ AtMostOne(chan'[e], p)
    BY <2>5, <2>8 DEF Thinner
  <2>10. \A y, e \in End : LeftBy(y, e, p)' => LeftBy(y, e, p) \/ (y = x /\ e \in K)
    BY <1>1, <2>3, <2>7, <2>8 DEF LeftBy
  <2> QED  BY <1>6, <2>4, <2>8, <2>9, <2>10
<1>10. Handle(x, m, c, h, by)
  BY DEF m
<1> QED  BY <1>8, <1>9, <1>10 DEF Handle, tg

-----------------------------------------------------------------------------
(* Clients are sent publishes, and nothing else. *)
OnlyPubs(q) == \A i \in DOMAIN q : q[i].type = "pub"

ToClients(c) == \A e \in End : At(Peer(e)) \in Client => OnlyPubs(c[e])

ClientsGet == ToClients(chan)

LEMMA OnlyPubsFacts ==
  ASSUME NEW q \in Seq(Message), OnlyPubs(q)
  PROVE  /\ OnlyPubs(<<>>)
         /\ q # <<>> => Head(q).type = "pub" /\ OnlyPubs(Tail(q)) /\ Tail(q) \in Seq(Message)
         /\ \A k \in 0 .. Len(q) : OnlyPubs(SubSeq(q, 1, k))
         /\ \A m \in Message : m.type = "pub" => OnlyPubs(Append(q, m))
<1>1. DOMAIN q = 1 .. Len(q) /\ Len(q) \in Nat
  BY LenProperties
<1>2. ASSUME q # <<>>
      PROVE  Head(q).type = "pub" /\ OnlyPubs(Tail(q)) /\ Tail(q) \in Seq(Message)
  <2>1. /\ Tail(q) \in Seq(Message) /\ Len(q) # 0 /\ Head(q) = q[1]
        /\ DOMAIN Tail(q) = 1 .. Len(q) - 1
        /\ \A i \in 1 .. Len(q) - 1 : Tail(q)[i] = q[i + 1]
    BY <1>1, <1>2, HeadTailProperties, LenProperties, EmptySeq
  <2>2. 1 \in DOMAIN q /\ \A i \in 1 .. Len(q) - 1 : i + 1 \in DOMAIN q
    BY <1>1, <2>1
  <2> QED  BY <2>1, <2>2 DEF OnlyPubs
<1>3. ASSUME NEW k \in 0 .. Len(q)  PROVE OnlyPubs(SubSeq(q, 1, k))
  <2>1. SubSeq(q, 1, k) = [i \in 1 .. k |-> q[i]]
    BY <1>1
  <2> QED  BY <1>1, <2>1 DEF OnlyPubs
<1>4. ASSUME NEW m \in Message, m.type = "pub"  PROVE OnlyPubs(Append(q, m))
  <2> DEFINE r == Append(q, m)
  <2>1. /\ DOMAIN r = 1 .. Len(q) + 1 /\ r[Len(q) + 1] = m
        /\ \A i \in 1 .. Len(q) : r[i] = q[i]
    BY <1>1, AppendProperties, LenProperties
  <2>2. \A i \in 1 .. Len(q) + 1 : i = Len(q) + 1 \/ i \in 1 .. Len(q)
    BY <1>1
  <2> HIDE DEF r
  <2>3. OnlyPubs(r)
    BY <1>1, <1>4, <2>1, <2>2 DEF OnlyPubs
  <2> QED  BY <2>3 DEF r
<1>5. OnlyPubs(<<>>)
  BY DEF OnlyPubs
<1> QED  BY <1>2, <1>3, <1>4, <1>5

LEMMA SentToClients ==
  ASSUME NEW c \in Channels, ToClients(c), NEW targets, NEW m \in Message
  PROVE  ToClients(Sent(c, targets, m))
<1> SUFFICES ASSUME NEW e \in End, At(Peer(e)) \in Client
             PROVE  OnlyPubs(Sent(c, targets, m)[e])
  BY DEF ToClients
<1>1. c[e] \in Seq(Message) /\ OnlyPubs(c[e])
  BY DEF ToClients, Channels
<1>2. CASE e \in targets /\ Heeded(e, m)
  <2>1. m.type = "pub"
    BY <1>2, MessageCases DEF Heeded
  <2>2. Sent(c, targets, m)[e] = Append(c[e], m)
    BY <1>2 DEF Sent
  <2> QED  BY <1>1, <2>1, <2>2, OnlyPubsFacts
<1>3. CASE ~ (e \in targets /\ Heeded(e, m))
  BY <1>1, <1>3 DEF Sent
<1> QED  BY <1>2, <1>3

LEMMA UntoldToClients ==
  ASSUME NEW c \in Channels, ToClients(c), NEW T, NEW e
  PROVE  ToClients(Untold(c, T, e))
<1> SUFFICES ASSUME NEW x \in End, At(Peer(x)) \in Client
             PROVE  OnlyPubs(Untold(c, T, e)[x])
  BY DEF ToClients
<1> DEFINE S == { s \in Subject : x \in NoLongerWantedFrom(T, e, s)
                                  /\ Heeded(x, Sub(s, FALSE)) }
<1>1. S = {}
  BY SubType DEF Heeded
<1>2. Untold(c, T, e)[x] = c[x] \o Each(S, FALSE)
  BY DEF Untold
<1>3. c[x] \in Seq(Message) /\ OnlyPubs(c[x])
  BY DEF ToClients, Channels
<1> HIDE DEF S
<1>4. Untold(c, T, e)[x] = c[x] \o <<>>
  BY <1>1, <1>2, EachOfNone
<1>5. Untold(c, T, e)[x] = c[x]
  BY <1>3, <1>4
<1> QED  BY <1>3, <1>5

LEMMA DropToClients ==
  ASSUME NEW c \in Channels, ToClients(c), NEW T, NEW e \in End, NEW h, NEW u,
         DropFrom(e, c, T, h, u)
  PROVE  ClientsGet'
<1> DEFINE d == Untold(c, T, e)
<1>1. d \in Channels /\ ToClients(d) /\ chan' = [d EXCEPT ![Peer(e)] = <<>>]
  BY UntoldType, UntoldToClients DEF DropFrom
<1> HIDE DEF d
<1>2. \A x \in End : chan'[x] \in {d[x], <<>>}
  BY <1>1 DEF Channels
<1>3. OnlyPubs(<<>>)
  BY DEF OnlyPubs
<1> QED  BY <1>1, <1>2, <1>3 DEF ToClients, ClientsGet

LEMMA HandleToClients ==
  ASSUME NEW c \in Channels, ToClients(c), NEW e \in End, NEW m \in Message,
         NEW h, NEW by, Handle(e, m, c, h, by), LinksTyped
  PROVE  ClientsGet'
<1>1. \A targets : ToClients(Sent(c, targets, m)) /\ Sent(c, targets, m) \in Channels
  BY SentToClients, SentType
<1>2. CASE chan' = Sent(c, Targets(e, m), m)
  BY <1>1, <1>2 DEF ClientsGet
<1>3. ASSUME NEW full \in Targets(e, m), NEW targets, NEW u,
             DropFrom(full, Sent(c, targets, m), Tagged(e, m), h, u)
      PROVE  ClientsGet'
  BY <1>1, <1>3, TargetsType, DropToClients
<1> QED  BY <1>2, <1>3 DEF Handle

LEMMA ClientsGetStep ==
  ASSUME TypeOK, ClientsGet, [Next]_vars
  PROVE  ClientsGet'
<1>0. /\ chan \in Channels /\ ToClients(chan) /\ LinksTyped
      /\ \A e \in End, S \in SUBSET Subject : Each(S, TRUE) \in Seq(Message)
      /\ \A l \in Link : At(Peer(EstEnd(l))) \notin Client /\ EstEnd(l) \in End
      /\ \A l \in Link : At(Peer(AccEnd(l))) = Est[l] /\ AccEnd(l) \in End
  <2>1. \A l \in Link : /\ At(Peer(EstEnd(l))) \notin Client /\ EstEnd(l) \in End
                       /\ At(Peer(AccEnd(l))) = Est[l] /\ AccEnd(l) \in End
    BY LinkFacts, ClientAssumption
  <2>2. \A S \in SUBSET Subject : Each(S, TRUE) \in Seq(Message)
    BY EachIs
  <2> QED  BY <2>1, <2>2 DEF TypeOK, MessagesTyped, Channels, ClientsGet
<1>1. CASE UNCHANGED chan
  BY <1>1 DEF ClientsGet, ToClients, OnlyPubs
<1>2. ASSUME NEW x \in End, NEW q, At(Peer(x)) \in Client => OnlyPubs(q),
             chan' = [chan EXCEPT ![x] = q]
      PROVE  ClientsGet'
  <2>1. \A e \in End : chan'[e] = IF e = x THEN q ELSE chan[e]
    BY <1>0, <1>2 DEF Channels
  <2>2. \A e \in End : At(Peer(e)) \in Client => OnlyPubs(chan'[e])
    BY <1>0, <1>2, <2>1 DEF ToClients
  <2> QED  BY <2>2 DEF ClientsGet, ToClients, OnlyPubs
<1>3. ASSUME NEW e \in End, Drop(e)  PROVE ClientsGet'
  BY <1>0, <1>3, DropToClients DEF Drop
<1>4. ASSUME NEW e \in End, Lose(e) \/ NoticeLoss(e)  PROVE ClientsGet'
  BY <1>3, <1>4 DEF Lose, NoticeLoss
<1>5. ASSUME NEW l \in Link, LinkStep(l)  PROVE ClientsGet'
  <2>1. CASE Connect(l)
    BY <1>0, <1>2, <2>1 DEF Connect
  <2>2. CASE Accept(l)
    BY <1>0, <1>1, <1>2, <2>2 DEF Accept, SubscriptionsSent
  <2>3. CASE Activate(l)
    BY <1>0, <1>1, <1>2, <2>3 DEF Activate, SubscriptionsSent
  <2> QED  BY <1>0, <1>1, <1>3, <1>5, <2>1, <2>2, <2>3 DEF LinkStep, Establish, Refuse
<1>6. ASSUME NEW targets, NEW m \in Message, chan' = Sent(chan, targets, m)
      PROVE  ClientsGet'
  <2> DEFINE d == Sent(chan, targets, m)
  <2>1. ToClients(d) /\ chan' = d
    BY <1>0, <1>6, SentToClients
  <2> HIDE DEF d
  <2>2. ToClients(chan')
    BY <2>1
  <2> QED  BY <2>2 DEF ClientsGet, ToClients, OnlyPubs
<1>7. ASSUME NEW c \in Client, ClientStep(c)  PROVE ClientsGet'
  <2>1. ASSUME NEW s \in Subject, Unsubscribe(c, s)  PROVE ClientsGet'
    <3> DEFINE targets == { e \in End : e.side = "est" /\ At(e) = c }
    <3>1. chan' = Sent(chan, targets, Sub(s, FALSE)) /\ Sub(s, FALSE) \in Message
      BY <2>1, SubType DEF Unsubscribe
    <3> HIDE DEF targets
    <3> QED  BY <1>6, <3>1
  <2>2. ASSUME NEW s \in Subject, NEW l \in Link, Subscribe(c, l, s)  PROVE ClientsGet'
    BY <1>6, <2>2, SubType DEF Subscribe
  <2>3. ASSUME NEW l \in Link, NEW p \in Pub, Publish(c, l, p)  PROVE ClientsGet'
    BY <1>6, <2>3, PubType DEF Publish
  <2> QED  BY <1>7, <2>1, <2>2, <2>3 DEF ClientStep
<1>8. ASSUME NEW x \in End, Arrives(x)
      PROVE  /\ At(Peer(Peer(x))) \in Client => OnlyPubs(Tail(chan[Peer(x)]))
             /\ Head(chan[Peer(x)]) \in Message /\ Tail(chan[Peer(x)]) \in Seq(Message)
             /\ [chan EXCEPT ![Peer(x)] = Tail(@)] \in Channels
             /\ ToClients([chan EXCEPT ![Peer(x)] = Tail(@)])
             /\ Peer(x) \in End
  <2> DEFINE c == [chan EXCEPT ![Peer(x)] = Tail(@)]
  <2>1. Peer(x) \in End /\ chan[Peer(x)] # <<>> /\ chan[Peer(x)] \in Seq(Message)
    BY <1>0, <1>8, EndFacts DEF Arrives, Channels
  <2>2. Head(chan[Peer(x)]) \in Message /\ Tail(chan[Peer(x)]) \in Seq(Message)
    BY <2>1, HeadType
  <2>3. At(Peer(Peer(x))) \in Client => OnlyPubs(Tail(chan[Peer(x)]))
    BY <1>0, <2>1, OnlyPubsFacts DEF ToClients
  <2>4. \A e \in End : c[e] = IF e = Peer(x) THEN Tail(chan[Peer(x)]) ELSE chan[e]
    BY <1>0 DEF Channels
  <2>5. c \in Channels
    BY <1>0, <2>1, <2>2 DEF Channels
  <2> HIDE DEF c
  <2>6. ToClients(c)
    BY <1>0, <2>3, <2>4 DEF ToClients
  <2> QED  BY <2>1, <2>2, <2>3, <2>5, <2>6 DEF c
<1>9. ASSUME NEW x \in End, ReceiveStep(x)  PROVE ClientsGet'
  <2>1. CASE ClientReceives(x) \/ Hold(x)
    <3>1. Arrives(x) /\ chan' = [chan EXCEPT ![Peer(x)] = Tail(chan[Peer(x)])]
      BY <2>1 DEF ClientReceives, Hold
    <3> QED  BY <1>2, <1>8, <3>1
  <2>2. CASE OverLimit(x)
    <3> DEFINE d == Untold(chan, tags, x)
               rest == Tail(chan[Peer(x)])
    <3>1. Arrives(x) /\ At(x) \notin Client /\ Peer(Peer(x)) = x /\ Peer(x) \in End
      BY <2>2, EndFacts DEF OverLimit, Holding
    <3>2. \E q : chan' = [d EXCEPT ![Peer(x)] = q]
      BY <2>2 DEF OverLimit
    <3>3. d \in Channels /\ ToClients(d)
      BY <1>0, UntoldType, UntoldToClients
    <3> HIDE DEF d
    <3>4. \A e \in End : e # Peer(x) => chan'[e] = d[e]
      BY <3>2, <3>3 DEF Channels
    <3>5. \A e \in End : At(Peer(e)) \in Client => OnlyPubs(chan'[e])
      BY <3>1, <3>3, <3>4 DEF ToClients
    <3> QED  BY <3>5 DEF ClientsGet, ToClients, OnlyPubs
  <2>3. CASE NodeReceives(x)
    BY <1>0, <1>8, <2>3, HandleToClients DEF NodeReceives
  <2>4. CASE ResumeRelay(x)
    <3>1. unsent[x].what \in Message
      BY <2>4 DEF ResumeRelay, TypeOK, MessagesTyped, Relay, NoRelay
    <3> QED  BY <1>6, <2>4, <3>1 DEF ResumeRelay
  <2> QED  BY <1>9, <2>1, <2>2, <2>3, <2>4 DEF ReceiveStep
<1>10. ASSUME NEW l \in Link, DrainHeld(l)  PROVE ClientsGet'
  <2>1. held[l] # <<>> /\ held[l] \in Seq(Message)
    BY <1>10 DEF DrainHeld, TypeOK, MessagesTyped
  <2>2. Head(held[l]) \in Message
    BY <2>1, HeadType
  <2> QED  BY <1>0, <1>10, <2>2, HandleToClients DEF DrainHeld
<1>11. CASE UNCHANGED vars
  BY <1>1, <1>11 DEF vars
<1> QED  BY <1>4, <1>5, <1>7, <1>9, <1>10, <1>11 DEF Next

-----------------------------------------------------------------------------
(* What is taken from a channel, if it is a copy of p, is the only one on its end. *)
LEMMA Taken ==
  ASSUME TypeOK, NEW p \in Pub, NEW x \in End, chan[Peer(x)] # <<>>,
         NEW c, c = [chan EXCEPT ![Peer(x)] = Tail(@)]
  PROVE  /\ c \in Channels /\ Head(chan[Peer(x)]) \in Message
         /\ \A e \in End : Thinner(chan[e], c[e], p)
         /\ \A e \in End : e # Peer(x) => c[e] = chan[e]
         /\ OneCopy(p) /\ Head(chan[Peer(x)]) = PubOf(p) =>
              Has(chan[Peer(x)], p) /\ ~ Has(c[Peer(x)], p)
<1>1. Peer(x) \in End /\ chan \in [End -> Seq(Message)]
  BY EndFacts DEF TypeOK, MessagesTyped
<1>2. \A e \in End : c[e] = IF e = Peer(x) THEN Tail(chan[e]) ELSE chan[e]
  BY <1>1
<1>3. Head(chan[Peer(x)]) \in Message /\ Tail(chan[Peer(x)]) \in Seq(Message)
  BY <1>1, HeadType
<1>4. c \in Channels
  BY <1>1, <1>3 DEF Channels
<1>5. /\ Thinner(chan[Peer(x)], Tail(chan[Peer(x)]), p)
      /\ Head(chan[Peer(x)]) = PubOf(p) =>
           /\ Has(chan[Peer(x)], p)
           /\ AtMostOne(chan[Peer(x)], p) => ~ Has(Tail(chan[Peer(x)]), p)
  BY <1>1, TailThinner
<1>6. \A e \in End : Thinner(chan[e], chan[e], p)
  BY <1>1, ThinnerFacts
<1> QED  BY <1>1, <1>2, <1>3, <1>4, <1>5, <1>6 DEF OneCopy

LEMMA SameThinner ==
  ASSUME TypeOK, NEW p \in Pub
  PROVE  /\ \A e \in End : Thinner(chan[e], chan[e], p)
         /\ \A l \in Link : Thinner(held[l], held[l], p)
BY ThinnerFacts DEF TypeOK, MessagesTyped

-----------------------------------------------------------------------------
(* What a step does to p: nothing, or p is published, taken or sent on. *)
Moves(p) ==
  \/ \E c \in Client, l \in Link : Publish(c, l, p)
  \/ \E e \in End : /\ Hold(e) \/ ClientReceives(e) \/ NodeReceives(e)
                    /\ Arrives(e) /\ Head(chan[Peer(e)]) = PubOf(p)
  \/ \E l \in Link : DrainHeld(l) /\ Head(held[l]) = PubOf(p)
  \/ \E e \in End : ResumeRelay(e) /\ unsent[e].what = PubOf(p)

LEMMA LinkStepThinner ==
  ASSUME TypeOK, NEW p \in Pub, NEW l \in Link, LinkStep(l)
  PROVE  NoMore(p)
<1>0. chan \in Channels /\ held \in HeldLists /\ unsent \in Relays
  BY DEF TypeOK, MessagesTyped, Channels, HeldLists, Relays
<1>1. ASSUME UNCHANGED <<held, unsent>>, NEW x \in End, NEW d \in Seq(Message),
             chan' = [chan EXCEPT ![x] = d], Thinner(chan[x], d, p)
      PROVE  NoMore(p)
  <2>1. \A e \in End : chan'[e] = IF e = x THEN d ELSE chan[e]
    BY <1>0, <1>1 DEF Channels
  <2>2. \A e \in End : Thinner(chan[e], chan'[e], p)
    BY <1>1, <2>1, SameThinner
  <2> QED  BY <1>1, <2>2, SameThinner DEF NoMore
<1>2. ASSUME NEW x \in End, NEW S \in SUBSET Subject
      PROVE  /\ Thinner(chan[x], chan[x] \o Each(S, TRUE), p)
             /\ Thinner(chan[x], Each(S, TRUE), p)
  <2>1. chan[x] \in Seq(Message) /\ <<>> \in Seq(Message)
    BY <1>0 DEF Channels
  <2> DEFINE d == Each(S, TRUE)
  <2>2. d \in Seq(Message) /\ Thinner(<<>>, <<>> \o d, p) /\ Thinner(chan[x], <<>>, p)
    BY <2>1, EachIs, EachThinner, ThinnerFacts
  <2>3. Thinner(chan[x], chan[x] \o d, p)
    BY <2>1, EachThinner
  <2> HIDE DEF d
  <2>4. <<>> \o d = d
    BY <2>2
  <2>5. Thinner(chan[x], d, p)
    BY <2>1, <2>2, <2>4, ThinnerFacts
  <2> QED  BY <2>3, <2>5 DEF d
<1>3. CASE UNCHANGED <<chan, held, unsent>>
  BY <1>3, SameThinner DEF NoMore
<1>4. ASSUME NEW x \in End, UNCHANGED <<held, unsent>>, chan' = SubscriptionsSent(x)
      PROVE  NoMore(p)
  <2> DEFINE S == Known(At(x))
             d == chan[x] \o Each(S, TRUE)
  <2>1. S \in SUBSET Subject
    BY DEF Known
  <2>2. chan' = [chan EXCEPT ![x] = d]
    BY <1>4 DEF SubscriptionsSent
  <2> HIDE DEF S
  <2>3. Thinner(chan[x], d, p)
    BY <1>2, <2>1
  <2>4. d \in Seq(Message)
    BY <2>3 DEF Thinner
  <2> HIDE DEF d
  <2> QED  BY <1>1, <1>4, <2>2, <2>3, <2>4
<1>5. CASE Establish(l)
  BY <1>3, <1>5 DEF Establish
<1>6. CASE Connect(l)
  <2> DEFINE S == wants[Est[l]]
             d == Each(S, TRUE)
             x == EstEnd(l)
  <2>1. S \in SUBSET Subject /\ x \in End
    BY <1>6, LinkFacts DEF Connect, TypeOK, ClientsTyped
  <2>2. chan' = [chan EXCEPT ![x] = d] /\ UNCHANGED <<held, unsent>>
    BY <1>6 DEF Connect
  <2> HIDE DEF S, x
  <2>3. Thinner(chan[x], d, p)
    BY <1>2, <2>1
  <2>4. d \in Seq(Message)
    BY <2>3 DEF Thinner
  <2> HIDE DEF d
  <2> QED  BY <1>1, <2>1, <2>2, <2>3, <2>4
<1>7. CASE Accept(l)
  BY <1>3, <1>4, <1>7, LinkFacts DEF Accept
<1>8. CASE Activate(l)
  BY <1>3, <1>4, <1>8, LinkFacts DEF Activate
<1>9. CASE Refuse(l)
  <2> DEFINE x == EstEnd(l)
  <2>1. x \in End
    BY LinkFacts
  <2>2. DropFrom(x, chan, tags, held, unsent)
    BY <1>9 DEF Refuse, Drop
  <2> HIDE DEF x
  <2>3. /\ \A y \in End : Thinner(chan[y], chan'[y], p)
        /\ \A k \in Link : Thinner(held[k], held'[k], p)
        /\ \A y \in End : unsent'[y] = unsent[y] \/ unsent'[y].to = {}
    BY ONLY <1>0, <2>1, <2>2, DropThinner
  <2> QED  BY <2>3 DEF NoMore
<1> QED  BY <1>5, <1>6, <1>7, <1>8, <1>9 DEF LinkStep

LEMMA ClientStepThinner ==
  ASSUME TypeOK, NEW p \in Pub, NEW c \in Client, ClientStep(c), ~ Moves(p)
  PROVE  NoMore(p) /\ SameGot(p)
<1>0. chan \in Channels /\ got \in [Client -> [Pub -> 0 .. 2]]
  BY DEF TypeOK, MessagesTyped, ClientsTyped, Channels
<1>1. ASSUME NEW targets, NEW m \in Message, m # PubOf(p), chan' = Sent(chan, targets, m),
             UNCHANGED <<held, unsent>>
      PROVE  NoMore(p)
  <2>1. \A e \in End : Thinner(chan[e], chan'[e], p)
    BY <1>0, <1>1, SentThinner
  <2> QED  BY <1>1, <2>1, SameThinner DEF NoMore
<1>2. \A s \in Subject, on \in BOOLEAN : Sub(s, on) \in Message /\ Sub(s, on) # PubOf(p)
  BY SubType, PubType DEF PubOf
<1>3. ASSUME NEW s \in Subject, Unsubscribe(c, s)  PROVE NoMore(p) /\ SameGot(p)
  <2> DEFINE targets == { e \in End : e.side = "est" /\ At(e) = c }
  <2>1. chan' = Sent(chan, targets, Sub(s, FALSE)) /\ UNCHANGED <<held, unsent, got>>
    BY <1>3 DEF Unsubscribe
  <2> HIDE DEF targets
  <2> QED  BY <1>1, <1>2, <2>1 DEF SameGot
<1>4. ASSUME NEW s \in Subject, NEW l \in Link, Subscribe(c, l, s)
      PROVE  NoMore(p) /\ SameGot(p)
  BY <1>1, <1>2, <1>4 DEF Subscribe, SameGot
<1>5. ASSUME NEW l \in Link, NEW q \in Pub, Publish(c, l, q)
      PROVE  NoMore(p) /\ SameGot(p)
  <2>1. q # p
    BY <1>5 DEF Moves
  <2>2. PubOf(q) \in Message /\ PubOf(q) # PubOf(p)
    BY <2>1, PubType DEF PubOf
  <2>3. chan' = Sent(chan, {EstEnd(l)}, PubOf(q)) /\ UNCHANGED <<held, unsent>>
    BY <1>5 DEF Publish, PubOf
  <2>4. SameGot(p)
    BY <1>0, <1>5, <2>1 DEF Publish, Deliver, SameGot
  <2> QED  BY <1>1, <2>2, <2>3, <2>4
<1> QED  BY <1>3, <1>4, <1>5 DEF ClientStep

LEMMA ReceiveStepThinner ==
  ASSUME TypeOK, ClientsGet, NEW p \in Pub, NEW x \in End, ReceiveStep(x), ~ Moves(p)
  PROVE  NoMore(p) /\ SameGot(p)
<1>0. /\ chan \in Channels /\ held \in HeldLists /\ unsent \in Relays
      /\ got \in [Client -> [Pub -> 0 .. 2]] /\ Peer(x) \in End /\ x.link \in Link
      /\ At(x) \in Node
  BY EndFacts DEF TypeOK, MessagesTyped, ClientsTyped, Channels, HeldLists, Relays
<1> DEFINE c == [chan EXCEPT ![Peer(x)] = Tail(@)]
           m == Head(chan[Peer(x)])
<1>1. ASSUME Arrives(x)
      PROVE  /\ c \in Channels /\ m \in Message /\ \A e \in End : Thinner(chan[e], c[e], p)
             /\ chan[Peer(x)] # <<>> /\ chan[Peer(x)] \in Seq(Message)
  BY <1>0, <1>1, Taken DEF Arrives, Channels
<1>2. CASE ClientReceives(x)
  <2>1. Arrives(x) /\ chan' = c /\ UNCHANGED <<held, unsent>> /\ m # PubOf(p)
        /\ Deliver(At(x), m.pub) /\ At(x) \in Client
    BY <1>2 DEF ClientReceives, Moves
  <2>2. NoMore(p)
    BY <1>1, <2>1, SameThinner DEF NoMore
  <2>3. SameGot(p)
    <3>1. OnlyPubs(chan[Peer(x)])
      BY <1>0, <2>1, EndFacts DEF ClientsGet, ToClients
    <3>2. m.type = "pub"
      BY <1>1, <2>1, <3>1, OnlyPubsFacts
    <3>3. m = PubOf(m.pub)
      BY <1>1, <2>1, <3>2 DEF Message, SubMessage, PubMessage, PubOf
    <3>4. m.pub # p
      BY <2>1, <3>3
    <3> HIDE DEF m
    <3> QED  BY <1>0, <2>1, <3>4 DEF Deliver, SameGot
  <2> QED  BY <2>2, <2>3
<1>3. CASE Hold(x)
  <2>1. /\ Arrives(x) /\ chan' = c /\ UNCHANGED <<unsent, got>> /\ m # PubOf(p)
        /\ held' = [held EXCEPT ![x.link] = Append(@, m)]
    BY <1>3 DEF Hold, Moves
  <2> HIDE DEF c, m
  <2>2. \A l \in Link : Thinner(held[l], held'[l], p)
    <3>1. held[x.link] \in Seq(Message) /\ m \in Message
      BY <1>0, <1>1, <2>1 DEF HeldLists
    <3>2. Thinner(held[x.link], Append(held[x.link], m), p)
      BY <2>1, <3>1, AppendThinner
    <3>3. \A l \in Link : held'[l] = IF l = x.link THEN Append(held[l], m) ELSE held[l]
      BY <1>0, <2>1 DEF HeldLists
    <3> QED  BY <3>2, <3>3, SameThinner
  <2> QED  BY <1>1, <2>1, <2>2 DEF NoMore, SameGot
<1>4. CASE OverLimit(x)
  <2> DEFINE d == Untold(chan, tags, x)
             rest == Tail(chan[Peer(x)])
  <2>1. /\ Arrives(x) /\ UNCHANGED <<unsent, got>>
        /\ held' = [held EXCEPT ![x.link] = <<>>]
    BY <1>4 DEF OverLimit
  <2>2. PICK k \in 0 .. Len(rest) : chan' = [d EXCEPT ![Peer(x)] = SubSeq(rest, 1, k)]
    <3>1. 0 \in 0 .. Len(rest)
      BY <1>1, <2>1, HeadTailProperties, LenProperties
    <3> QED  BY <1>4, <3>1 DEF OverLimit
  <2>3. Thinner(chan[Peer(x)], SubSeq(rest, 1, k), p)
    <3>1. rest \in Seq(Message) /\ Thinner(chan[Peer(x)], rest, p)
      BY <1>1, <2>1, TailThinner, HeadType
    <3> HIDE DEF rest
    <3>2. Thinner(rest, SubSeq(rest, 1, k), p)
      BY <2>2, <3>1, FrontThinner
    <3> DEFINE q == chan[Peer(x)]
               r == SubSeq(rest, 1, k)
    <3>3. q \in Seq(Message) /\ Thinner(q, rest, p) /\ Thinner(rest, r, p)
      BY <1>1, <2>1, <3>1, <3>2
    <3> HIDE DEF q, r
    <3>4. r \in Seq(Message)
      BY <3>3 DEF Thinner
    <3>5. Thinner(q, r, p)
      BY <3>1, <3>3, <3>4, ThinnerFacts
    <3> QED  BY <3>5 DEF q, r
  <2>4. ASSUME NEW e \in End  PROVE Thinner(chan[e], d[e], p)
    <3> DEFINE S == { s \in Subject : e \in NoLongerWantedFrom(tags, x, s)
                                      /\ Heeded(e, Sub(s, FALSE)) }
    <3>1. d[e] = chan[e] \o Each(S, FALSE) /\ S \in SUBSET Subject
      BY DEF Untold
    <3>2. chan[e] \in Seq(Message)
      BY <1>0 DEF Channels
    <3> HIDE DEF S
    <3> QED  BY <3>1, <3>2, EachThinner
  <2>5. d \in Channels
    BY <1>0, UntoldType
  <2> HIDE DEF d, rest
  <2>6. \A e \in End : chan'[e] = IF e = Peer(x) THEN SubSeq(rest, 1, k) ELSE d[e]
    BY <2>2, <2>5 DEF Channels
  <2>7. \A e \in End : Thinner(chan[e], chan'[e], p)
    BY <2>3, <2>4, <2>6
  <2>8. \A l \in Link : Thinner(held[l], held'[l], p)
    <3>1. \A l \in Link : held'[l] \in {held[l], <<>>} /\ held[l] \in Seq(Message)
      BY <1>0, <2>1 DEF HeldLists
    <3> QED  BY <3>1, ThinnerFacts
  <2> QED  BY <2>1, <2>7, <2>8 DEF NoMore, SameGot
<1>5. CASE NodeReceives(x)
  <2>1. Arrives(x) /\ Handle(x, m, c, held, "loop") /\ m # PubOf(p) /\ UNCHANGED got
    BY <1>5 DEF NodeReceives, Moves
  <2> HIDE DEF c, m
  <2>2. NoMore(p)
    <3>1. /\ c \in Channels /\ m \in Message /\ \A e \in End : Thinner(chan[e], c[e], p)
          /\ \A l \in Link : Thinner(held[l], held[l], p)
      BY <1>1, <2>1, SameThinner
    <3> QED  BY <1>0, <2>1, <3>1, HandleThinner
  <2> QED  BY <2>1, <2>2 DEF SameGot
<1>6. CASE ResumeRelay(x)
  <2>0. unsent[x].what # PubOf(p)
    BY <1>6 DEF Moves
  <2>1. /\ chan' = Sent(chan, unsent[x].to, unsent[x].what) /\ unsent[x].what # PubOf(p)
        /\ unsent' = [unsent EXCEPT ![x] = NoRelay] /\ UNCHANGED <<held, got>>
        /\ unsent[x].what \in Message
    BY <1>0, <1>6, <2>0 DEF ResumeRelay, Relays, Relay, NoRelay
  <2>2. \A e \in End : Thinner(chan[e], chan'[e], p)
    BY <1>0, <2>1, SentThinner
  <2>3. \A e \in End : unsent'[e] = unsent[e] \/ unsent'[e].to = {}
    BY <1>0, <2>1 DEF Relays, NoRelay
  <2> QED  BY <2>1, <2>2, <2>3, SameThinner DEF NoMore, SameGot
<1> QED  BY <1>2, <1>3, <1>4, <1>5, <1>6 DEF ReceiveStep
LEMMA StepThinner ==
  ASSUME TypeOK, ClientsGet, NEW p \in Pub, [Next]_vars, ~ Moves(p)
  PROVE  NoMore(p) /\ SameGot(p)
<1>0. /\ chan \in Channels /\ held \in HeldLists /\ unsent \in Relays
  BY DEF TypeOK, MessagesTyped, Channels, HeldLists, Relays
<1>1. CASE UNCHANGED vars
  BY <1>1, SameThinner DEF vars, NoMore, SameGot
<1>2. ASSUME NEW e \in End, Lose(e) \/ NoticeLoss(e)  PROVE NoMore(p) /\ SameGot(p)
  BY <1>0, <1>2, DropThinner DEF Lose, NoticeLoss, Drop, NoMore, SameGot
<1>3. ASSUME NEW l \in Link, LinkStep(l)  PROVE NoMore(p) /\ SameGot(p)
  <2>1. UNCHANGED got
    <3>1. Establish(l) => UNCHANGED got  BY DEF Establish
    <3>2. Connect(l) => UNCHANGED got  BY DEF Connect
    <3>3. Accept(l) => UNCHANGED got  BY DEF Accept
    <3>4. Activate(l) => UNCHANGED got  BY DEF Activate
    <3>5. Refuse(l) => UNCHANGED got  BY DEF Refuse
    <3> QED  BY <1>3, <3>1, <3>2, <3>3, <3>4, <3>5 DEF LinkStep
  <2> QED  BY <1>3, <2>1, LinkStepThinner DEF SameGot
<1>4. ASSUME NEW l \in Link, DrainHeld(l)  PROVE NoMore(p) /\ SameGot(p)
  <2> DEFINE h == [held EXCEPT ![l] = Tail(@)]
             m == Head(held[l])
  <2>1. held[l] # <<>> /\ held[l] \in Seq(Message) /\ Len(held[l]) <= HeldLimit
    BY <1>0, <1>4 DEF DrainHeld, HeldLists
  <2>2. m \in Message /\ Tail(held[l]) \in Seq(Message) /\ Len(Tail(held[l])) <= HeldLimit
    BY <2>1, HeadType, LenProperties, RoutingBoundsAssumption
  <2>3. /\ Handle(EstEnd(l), m, chan, h, "drain") /\ m # PubOf(p) /\ UNCHANGED got
        /\ EstEnd(l) \in End
    BY <1>4, LinkFacts DEF DrainHeld, Moves
  <2>4. \A k \in Link : h[k] = IF k = l THEN Tail(held[l]) ELSE held[k]
    BY <1>0 DEF HeldLists
  <2>5. h \in HeldLists
    BY <1>0, <2>2 DEF HeldLists
  <2> HIDE DEF h, m
  <2>6. \A k \in Link : Thinner(held[k], h[k], p)
    BY <2>1, <2>4, TailThinner, SameThinner
  <2>7. NoMore(p)
    BY <1>0, <2>2, <2>3, <2>5, <2>6, SameThinner, HandleThinner
  <2> QED  BY <2>3, <2>7 DEF SameGot
<1> QED
  BY <1>1, <1>2, <1>3, <1>4, ClientStepThinner, ReceiveStepThinner DEF Next

-----------------------------------------------------------------------------
(* Links come into use one at a time, and only where they close no cycle. *)
Grows(l) ==
  /\ l \notin Used /\ Used' = Used \cup {l} /\ Separated(l, Used)
  /\ \A e \in End : e.link = l => life[e] = "none" \/ l \in pending

LEMMA LinkStepUsed ==
  ASSUME TypeOK, CheckInv, TreeInv, NEW l \in Link, LinkStep(l)
  PROVE  Used' \subseteq Used \/ Grows(l)
<1>0. /\ \A k \in Link : EstEnd(k) \in End /\ AccEnd(k) \in End
      /\ \A k \in Link : k # l => /\ EstEnd(k) # EstEnd(l) /\ EstEnd(k) # AccEnd(l)
                                  /\ AccEnd(k) # EstEnd(l) /\ AccEnd(k) # AccEnd(l)
      /\ EstEnd(l) # AccEnd(l)
      /\ \A e \in End : e.link = l => e \in {EstEnd(l), AccEnd(l)}
  <2>1. ASSUME NEW k \in Link, k # l
        PROVE  /\ EstEnd(k) # EstEnd(l) /\ EstEnd(k) # AccEnd(l)
               /\ AccEnd(k) # EstEnd(l) /\ AccEnd(k) # AccEnd(l)
    BY <2>1, LinkFacts
  <2> QED  BY <2>1, LinkFacts, EndFacts
<1>1. /\ life \in [End -> {"none", "up", "down"}] /\ pending \in SUBSET Link /\ LinksTyped
      /\ \A k \in pending : life[EstEnd(k)] = "up" /\ Est[k] \notin Client
      /\ \A k \in Link : life[AccEnd(k)] # "none" => life[EstEnd(k)] # "none"
  BY DEF TypeOK, LinksTyped, CheckInv, LinksOK
<1>2. CASE Establish(l)
  <2>1. /\ \A e \in End : life'[e] = IF e = EstEnd(l) THEN "up" ELSE life[e]
        /\ pending' = pending \cup {l}
    BY <1>0, <1>1, <1>2 DEF Establish
  <2> QED  BY <1>0, <2>1 DEF Used
<1>3. CASE Connect(l)
  <2>1. /\ \A e \in End : life'[e] = IF e = EstEnd(l) THEN "up" ELSE life[e]
        /\ pending' = pending /\ Est[l] \in Client
        /\ life[EstEnd(l)] = "none" /\ life[AccEnd(l)] = "none"
        /\ \A k \in Link : Est[k] = Est[l] => life[EstEnd(k)] # "up"
    BY <1>0, <1>1, <1>3 DEF Connect
  <2>2. l \notin Used /\ \A k \in Link : k \in Used' <=> k \in Used \cup {l}
    BY <1>0, <1>1, <2>1 DEF Used
  <2>3. Used' = Used \cup {l}
    <3>1. Used' \in SUBSET Link /\ Used \cup {l} \in SUBSET Link
      BY DEF Used
    <3> QED  BY ONLY <2>2, <3>1
  <2> DEFINE S == {Est[l]}
  <2>4. S \in SUBSET Node /\ Crosses(l, S)
    BY <2>1, ClientAssumption, LinkEndsAssumption DEF Crosses
  <2>5. \A k \in Used : ~ Crosses(k, S)
    BY <2>1, ClientAssumption DEF Crosses, Used
  <2> HIDE DEF S
  <2>6. Separated(l, Used)
    BY <2>4, <2>5 DEF Separated, Closed
  <2> QED  BY <1>0, <2>1, <2>2, <2>3, <2>6 DEF Grows
<1>4. CASE Accept(l)
  <2>1. /\ \A e \in End : life'[e] = IF e = AccEnd(l) THEN "up" ELSE life[e]
        /\ pending' = pending /\ life[AccEnd(l)] = "none"
    BY <1>0, <1>1, <1>4 DEF Accept
  <2> QED  BY <1>0, <1>1, <2>1 DEF Used
<1>5. CASE Activate(l)
  <2>1. /\ UNCHANGED life /\ pending' = pending \ {l} /\ l \in pending
        /\ life[AccEnd(l)] # "none"
        /\ life[AccEnd(l)] = "up" => Separated(l, Joined)
    BY <1>5 DEF Activate
  <2>2. CASE life[AccEnd(l)] = "down"
    BY <2>1, <2>2 DEF Used
  <2>3. CASE life[AccEnd(l)] # "down"
    <3>1. Separated(l, Used)
      BY <1>0, <1>1, <2>1, <2>3, ActivatedSeparates
    <3>2. l \notin Used /\ \A k \in Link : k \in Used' <=> k \in Used \cup {l}
      BY <1>1, <2>1, <2>3 DEF Used
    <3>3. Used' \in SUBSET Link /\ Used \cup {l} \in SUBSET Link
      BY DEF Used
    <3>4. Used' = Used \cup {l}
      BY ONLY <3>2, <3>3
    <3> QED  BY <2>1, <3>1, <3>2, <3>4 DEF Grows
  <2> QED  BY <2>2, <2>3
<1>6. CASE Refuse(l)
  <2>1. Used' = Used \ {EstEnd(l).link}
    BY <1>0, <1>1, <1>6, DropUsed, LinkFacts DEF Refuse, Drop, DropFrom
  <2> QED  BY <2>1
<1> QED  BY <1>2, <1>3, <1>4, <1>5, <1>6 DEF LinkStep

LEMMA StepUsed ==
  ASSUME TypeOK, CheckInv, TreeInv, [Next]_vars
  PROVE  Used' \subseteq Used \/ \E l \in Link : LinkStep(l) /\ Grows(l)
<1>0. LinksTyped
  BY DEF TypeOK
<1>1. ASSUME UNCHANGED <<life, pending>>  PROVE Used' \subseteq Used
  BY <1>1 DEF Used
<1>2. ASSUME NEW e \in End, Lose(e) \/ NoticeLoss(e)  PROVE Used' \subseteq Used
  <2>1. Used' = Used \ {e.link}
    BY <1>0, <1>2, DropUsed DEF Lose, NoticeLoss, Drop, DropFrom
  <2> QED  BY <2>1
<1>3. ASSUME NEW c \in Client, ClientStep(c)  PROVE UNCHANGED <<life, pending>>
  BY <1>3 DEF ClientStep, Subscribe, Unsubscribe, Publish
<1>4. ASSUME NEW x \in End, ReceiveStep(x)  PROVE Used' \subseteq Used
  <2>1. CASE OverLimit(x)
    <3>0. /\ life' = [life EXCEPT ![x] = "down"]
          /\ x.side = "est" /\ pending' = pending \ {x.link}
      BY <2>1 DEF OverLimit, Holding
    <3>1. Used' = Used \ {x.link}
      BY <1>0, <3>0, DropUsed
    <3> QED  BY <3>1
  <2>2. CASE NodeReceives(x)
    <3>1. chan[Peer(x)] # <<>> /\ chan[Peer(x)] \in Seq(Message)
      BY <2>2, EndFacts DEF NodeReceives, Arrives, TypeOK, MessagesTyped
    <3>2. Head(chan[Peer(x)]) \in Message
      BY <3>1, HeadType
    <3> QED  BY <1>0, <2>2, <3>2, HandleUsed DEF NodeReceives
  <2>3. CASE ClientReceives(x) \/ Hold(x) \/ ResumeRelay(x)
    BY <1>1, <2>3 DEF ClientReceives, Hold, ResumeRelay
  <2> QED  BY <1>4, <2>1, <2>2, <2>3 DEF ReceiveStep
<1>5. ASSUME NEW l \in Link, DrainHeld(l)  PROVE Used' \subseteq Used
  <2>1. held[l] # <<>> /\ held[l] \in Seq(Message)
    BY <1>5 DEF DrainHeld, TypeOK, MessagesTyped
  <2>2. Head(held[l]) \in Message
    BY <2>1, HeadType
  <2> QED  BY <1>0, <1>5, <2>2, LinkFacts, HandleUsed DEF DrainHeld
<1>6. CASE UNCHANGED vars
  BY <1>1, <1>6 DEF vars
<1>7. ASSUME NEW l \in Link, LinkStep(l)
      PROVE  Used' \subseteq Used \/ \E k \in Link : LinkStep(k) /\ Grows(k)
  BY <1>7, LinkStepUsed
<1> HIDE DEF Used
<1> QED  BY <1>1, <1>2, <1>3, <1>4, <1>5, <1>6, <1>7 DEF Next

-----------------------------------------------------------------------------
(* The steps that take a copy of p, or send it on. *)
LEMMA HoldSpread ==
  ASSUME TypeOK, CheckInv, TreeInv, NEW p \in Pub, NEW V, Spread(p, V),
         NEW x \in End, Hold(x), Head(chan[Peer(x)]) = PubOf(p)
  PROVE  Spread(p, V)'
<1> DEFINE c == [chan EXCEPT ![Peer(x)] = Tail(@)]
<1>0. /\ chan[Peer(x)] # <<>> /\ x.side = "est" /\ chan' = c
      /\ held' = [held EXCEPT ![x.link] = Append(@, PubOf(p))]
      /\ UNCHANGED <<life, pending, unsent, got>>
      /\ Peer(x) \in End /\ Peer(x).side = "acc" /\ Peer(x).link = x.link /\ x.link \in Link
      /\ \A e \in End : e.side = "acc" /\ e.link = x.link => e = Peer(x)
  <2>1. /\ chan[Peer(x)] # <<>> /\ x.side = "est" /\ chan' = c
        /\ held' = [held EXCEPT ![x.link] = Append(@, PubOf(p))]
        /\ UNCHANGED <<life, pending, unsent, got>>
    BY DEF Hold, Holding, Arrives
  <2>2. x = EstEnd(x.link) /\ Peer(x) = AccEnd(x.link) /\ x.link \in Link
    BY <2>1, EndFacts
  <2>3. \A e \in End : e.side = "acc" /\ e.link = x.link => e = AccEnd(x.link)
    BY EndFacts
  <2> QED  BY <2>1, <2>2, <2>3, LinkFacts
<1>1. /\ \A e \in End : Thinner(chan[e], chan'[e], p)
      /\ Has(chan[Peer(x)], p) /\ ~ Has(chan'[Peer(x)], p)
  <2> HIDE DEF c
  <2> QED  BY <1>0, Taken DEF Spread, c
<1>2. OneCopy(p) /\ ~ HeldFrom(Peer(x), p) /\ \A y \in End : ~ LeftBy(y, Peer(x), p)
  BY <1>0, <1>1 DEF Spread, OneCopy
<1>3. ~ Has(held[x.link], p)
  BY <1>0, <1>2 DEF HeldFrom
<1>4. \A l \in Link : held'[l] = IF l = x.link THEN Append(held[l], PubOf(p)) ELSE held[l]
  BY <1>0 DEF TypeOK, MessagesTyped
<1>5. held[x.link] \in Seq(Message) /\ PubOf(p) \in Message
  BY <1>0, PubType DEF TypeOK, MessagesTyped, PubOf
<1>6. AtMostOne(Append(held[x.link], PubOf(p)), p)
  BY <1>3, <1>5, AppendThinner
<1>7. \A l \in Link : AtMostOne(held'[l], p)
  BY <1>2, <1>4, <1>6 DEF OneCopy
<1>8. \A e \in End : HeldFrom(e, p)' => HeldFrom(e, p) \/ e = Peer(x)
  BY <1>0, <1>4, EndFacts DEF HeldFrom
<1>9. /\ Used' = Used
      /\ \A y, e \in End : LeftBy(y, e, p)' => LeftBy(y, e, p)
  BY <1>0 DEF LeftBy, Used
<1>10. \A e \in End : Carries(e, p)' => Carries(e, p)
  BY <1>1, <1>8, <1>9 DEF Carries, Thinner
<1>11. OneCopy(p)'
  <2>1. \A e \in End : AtMostOne(chan'[e], p)
    BY <1>1, <1>2 DEF OneCopy, Thinner
  <2>2. \A e \in End : Has(chan'[e], p) => ~ HeldFrom(e, p)'
    BY <1>1, <1>2, <1>8 DEF OneCopy, Thinner
  <2>3. \A y, e \in End : LeftBy(y, e, p)' =>
          /\ ~ Has(chan'[e], p) /\ ~ HeldFrom(e, p)'
          /\ \A z \in End : LeftBy(z, e, p)' => z = y
    BY <1>1, <1>2, <1>8, <1>9 DEF OneCopy, Thinner
  <2> QED  BY <1>7, <2>1, <2>2, <2>3 DEF OneCopy
<1> QED  BY <1>0, <1>9, <1>10, <1>11, SpreadKept DEF SameGot

LEMMA ResumeSpread ==
  ASSUME TypeOK, CheckInv, TreeInv, NEW p \in Pub, NEW V, Spread(p, V),
         NEW x \in End, ResumeRelay(x), unsent[x].what = PubOf(p)
  PROVE  Spread(p, V)'
<1> DEFINE to == unsent[x].to
           m == PubOf(p)
<1>0. /\ chan' = Sent(chan, to, m) /\ unsent' = [unsent EXCEPT ![x] = NoRelay]
      /\ UNCHANGED <<life, pending, held, got>> /\ PubOf(p) \in Message
      /\ chan \in Channels /\ unsent \in Relays /\ OneCopy(p)
      /\ \A t \in to : MayGet(t, m)
  BY PubType
     DEF ResumeRelay, TypeOK, MessagesTyped, Channels, Relays, Spread, PubOf, CheckInv, RelaysOK
<1>1. \A t \in to : t \in End
  BY <1>0 DEF Relays, Relay, NoRelay
<1>2. \A t \in to : Heeded(t, m) => LeftBy(x, t, p)
  BY <1>0, <1>1, HeededUsed DEF LeftBy
<1>3. /\ Used' = Used
      /\ \A y, e \in End : LeftBy(y, e, p)' => LeftBy(y, e, p) /\ y # x
  BY <1>0 DEF LeftBy, Used, Relays, NoRelay
<1>4. \A e \in End : HeldFrom(e, p)' <=> HeldFrom(e, p)
  BY <1>0 DEF HeldFrom
<1> HIDE DEF to, m
<1>5. ASSUME NEW e \in End
      PROVE  /\ Has(chan'[e], p) => Has(chan[e], p) \/ LeftBy(x, e, p)
             /\ AtMostOne(chan'[e], p)
  <2>1. m \in Message
    BY <1>0 DEF m
  <2>2. CASE e \in to /\ Heeded(e, m)
    <3>1. LeftBy(x, e, p)
      BY <1>2, <2>2
    <3>2. ~ Has(chan[e], p)
      BY <1>0, <3>1 DEF OneCopy
    <3> QED  BY <1>0, <2>1, <3>1, <3>2, SentThinner
  <2>3. CASE ~ (e \in to /\ Heeded(e, m))
    BY <1>0, <2>1, <2>3, SentThinner DEF OneCopy
  <2> QED  BY <2>2, <2>3
<1>6. \A e \in End : Carries(e, p)' => Carries(e, p)
  BY <1>3, <1>4, <1>5 DEF Carries
<1>7. OneCopy(p)'
  <2>1. \A l \in Link : AtMostOne(held'[l], p)
    BY <1>0 DEF OneCopy
  <2>2. \A e \in End : Has(chan'[e], p) => ~ HeldFrom(e, p)'
    BY <1>0, <1>4, <1>5 DEF OneCopy
  <2>3. \A y, e \in End : LeftBy(y, e, p)' =>
          /\ ~ Has(chan'[e], p) /\ ~ HeldFrom(e, p)'
          /\ \A z \in End : LeftBy(z, e, p)' => z = y
    BY <1>0, <1>3, <1>4, <1>5 DEF OneCopy
  <2> QED  BY <1>5, <2>1, <2>2, <2>3 DEF OneCopy
<1> QED  BY <1>0, <1>3, <1>6, <1>7, SpreadKept DEF SameGot

LEMMA ClientSpread ==
  ASSUME TypeOK, CheckInv, TreeInv, NEW p \in Pub, NEW V, Spread(p, V),
         NEW x \in End, ClientReceives(x), Head(chan[Peer(x)]) = PubOf(p)
  PROVE  Spread(p, V \cup {At(x)})'
<1> DEFINE c == [chan EXCEPT ![Peer(x)] = Tail(@)]
           e0 == Peer(x)
           none == {}
<1>0. /\ chan[Peer(x)] # <<>> /\ chan' = c /\ UNCHANGED <<life, pending, held, unsent>>
      /\ At(x) \in Client /\ Deliver(At(x), p)
      /\ e0 \in End /\ Peer(e0) = x /\ OneCopy(p)
  BY EndFacts DEF ClientReceives, Arrives, PubOf, Spread
<1>1. /\ \A e \in End : Thinner(chan[e], chan'[e], p)
      /\ Has(chan[Peer(x)], p) /\ ~ Has(chan'[Peer(x)], p)
  <2> HIDE DEF c
  <2> QED  BY <1>0, Taken DEF c
<1>2. /\ Used' = Used
      /\ \A y, e \in End : LeftBy(y, e, p)' => LeftBy(y, e, p)
      /\ \A e \in End : HeldFrom(e, p)' <=> HeldFrom(e, p)
  BY <1>0 DEF LeftBy, Used, HeldFrom
<1>3. Carries(e0, p) /\ ~ HeldFrom(e0, p)
  BY <1>0, <1>1 DEF Carries, OneCopy
<1>4. At(x) \notin V
  <2>1. At(x) \in Beyond(e0, Used)
    <3>1. Used \in SUBSET Link
      BY DEF Used
    <3> QED  BY <1>0, <3>1, BeyondFacts
  <2> QED  BY <1>0, <1>3, <2>1 DEF Spread
<1> HIDE DEF c, none
<1>5. /\ OneCopy(p)'
      /\ \A e \in End : Carries(e, p)' =>
           \/ Carries(e, p) /\ e # Peer(x)
           \/ At(e) = At(x) /\ e # x /\ e.link \in Used
  <2>1. /\ none \in SUBSET End /\ none \cap none = {}
        /\ \A t \in none \cup none : At(t) = At(x) /\ t # x /\ t.link \in Used
    BY DEF none
  <2>2. \A e \in End : /\ Has(chan'[e], p) => (Has(chan[e], p) /\ e # Peer(x)) \/ e \in none
                       /\ HeldFrom(e, p)' => HeldFrom(e, p) /\ e # Peer(x)
                       /\ AtMostOne(chan'[e], p)
    BY <1>0, <1>1, <1>2, <1>3 DEF Thinner, OneCopy
  <2>3. \A l \in Link : AtMostOne(held'[l], p)
    BY <1>0 DEF OneCopy
  <2>4. \A y, e \in End : LeftBy(y, e, p)' => LeftBy(y, e, p) \/ (y = x /\ e \in none)
    BY <1>2
  <2> QED  BY ONLY <1>1, <1>2, <1>4, <2>1, <2>2, <2>3, <2>4, Distributed, p \in Pub,
                   Spread(p, V), x \in End
<1>6. \A d \in Client : \/ got'[d][p] = got[d][p]
                        \/ d = At(x) /\ (got[d][p] = 0 => got'[d][p] = 1)
  <2>1. got \in [Client -> [Pub -> 0 .. 2]]
    BY DEF TypeOK, ClientsTyped
  <2> QED  BY <1>0, <2>1 DEF Deliver
<1> HIDE DEF e0
<1>7. Spread(p, V \cup {At(Peer(e0))})'
  <2>1. \A e \in End : Carries(e, p)' =>
             \/ Carries(e, p) /\ e # e0
             \/ At(e) = At(Peer(e0)) /\ e # Peer(e0) /\ e.link \in Used
    BY <1>0, <1>5 DEF e0
  <2>2. \A d \in Client : \/ got'[d][p] = got[d][p]
                          \/ d = At(Peer(e0)) /\ (got[d][p] = 0 => got'[d][p] = 1)
    BY <1>0, <1>6
  <2> QED  BY <1>0, <1>2, <1>3, <1>5, <2>1, <2>2, Passed
<1> QED  BY <1>0, <1>7

LEMMA NodeSpread ==
  ASSUME TypeOK, CheckInv, TreeInv, TagsHere, NEW p \in Pub, NEW V, Spread(p, V),
         NEW x \in End, NodeReceives(x), Head(chan[Peer(x)]) = PubOf(p), Used \subseteq Used'
  PROVE  Spread(p, V \cup {At(x)})'
<1> DEFINE c == [chan EXCEPT ![Peer(x)] = Tail(@)]
<1>0. /\ chan[Peer(x)] # <<>> /\ Handle(x, PubOf(p), c, held, "loop") /\ UNCHANGED got
      /\ OneCopy(p) /\ held \in HeldLists /\ Peer(x) \in End
      /\ x.side = "est" => Peer(x).side = "acc" /\ Peer(x).link = x.link
  BY EndFacts, LinkFacts
     DEF NodeReceives, Arrives, Spread, TypeOK, MessagesTyped, HeldLists
<1> HIDE DEF c
<1>1. /\ c \in Channels /\ \A e \in End : Thinner(chan[e], c[e], p)
      /\ Has(chan[Peer(x)], p) /\ ~ Has(c[Peer(x)], p)
  BY <1>0, Taken DEF c
<1>2. x.side = "est" => ~ Has(held[x.link], p)
  BY <1>0, <1>1 DEF OneCopy, HeldFrom
<1>3. \A l \in Link : Thinner(held[l], held[l], p)
  BY SameThinner
<1>4. "loop" \in {"loop", "drain"} /\ SameGot(p)
  BY <1>0 DEF SameGot
<1> QED  BY <1>0, <1>1, <1>2, <1>3, <1>4, HandlePass

LEMMA DrainSpread ==
  ASSUME TypeOK, CheckInv, TreeInv, TagsHere, NEW p \in Pub, NEW V, Spread(p, V),
         NEW l \in Link, DrainHeld(l), Head(held[l]) = PubOf(p), Used \subseteq Used'
  PROVE  Spread(p, V \cup {Est[l]})'
<1> DEFINE h == [held EXCEPT ![l] = Tail(@)]
           x == EstEnd(l)
<1>0. /\ held[l] # <<>> /\ Handle(x, PubOf(p), chan, h, "drain") /\ UNCHANGED got
      /\ OneCopy(p) /\ held \in HeldLists /\ chan \in Channels
      /\ x \in End /\ x.link = l /\ At(x) = Est[l] /\ Peer(x) = AccEnd(l)
      /\ AccEnd(l) \in End /\ AccEnd(l).side = "acc" /\ AccEnd(l).link = l
  BY LinkFacts
     DEF DrainHeld, Spread, TypeOK, MessagesTyped, HeldLists, Channels
<1>1. held[l] \in Seq(Message) /\ Len(held[l]) <= HeldLimit
  BY <1>0 DEF HeldLists
<1>2. /\ Tail(held[l]) \in Seq(Message) /\ Len(Tail(held[l])) <= HeldLimit
      /\ Thinner(held[l], Tail(held[l]), p)
      /\ Has(held[l], p) /\ ~ Has(Tail(held[l]), p)
  BY <1>0, <1>1, HeadType, LenProperties, RoutingBoundsAssumption, TailThinner DEF OneCopy
<1>3. \A k \in Link : h[k] = IF k = l THEN Tail(held[l]) ELSE held[k]
  BY <1>0 DEF HeldLists
<1>4. h \in HeldLists
  BY <1>0, <1>2 DEF HeldLists
<1> HIDE DEF h, x
<1>5. \A k \in Link : Thinner(held[k], h[k], p)
  BY <1>2, <1>3, SameThinner
<1>6. HeldFrom(Peer(x), p) /\ ~ Has(chan[Peer(x)], p) /\ ~ Has(h[x.link], p)
  BY <1>0, <1>2, <1>3 DEF HeldFrom, OneCopy
<1>7. "drain" \in {"loop", "drain"} /\ SameGot(p) /\ \A e \in End : Thinner(chan[e], chan[e], p)
  BY <1>0, SameThinner DEF SameGot
<1>8. Spread(p, V \cup {At(x)})'
  BY <1>0, <1>4, <1>5, <1>6, <1>7, HandlePass
<1> QED  BY <1>0, <1>8
-----------------------------------------------------------------------------
(* No copy of p is anywhere. *)
Absent(p) ==
  /\ \A e \in End : ~ Has(chan[e], p)
  /\ \A l \in Link : ~ Has(held[l], p)
  /\ \A x \in End : unsent[x].what = PubOf(p) => unsent[x].to = {}

LEMMA AbsentIs ==
  ASSUME NEW p \in Pub
  PROVE  Absent(p) <=> ~ UnderWay(p)
BY DEF Absent, UnderWay, Has, PubOf

LEMMA AbsentStays ==
  ASSUME TypeOK, ClientsGet, NEW p \in Pub, Absent(p), [Next]_vars,
         ~ \E c \in Client, l \in Link : Publish(c, l, p)
  PROVE  Absent(p)' /\ SameGot(p)
<1>1. ~ Moves(p)
  <2>1. ASSUME NEW e \in End, Arrives(e)  PROVE Head(chan[Peer(e)]) # PubOf(p)
    <3>1. Peer(e) \in End /\ chan[Peer(e)] \in Seq(Message) /\ chan[Peer(e)] # <<>>
      BY <2>1, EndFacts DEF Arrives, TypeOK, MessagesTyped
    <3> QED  BY <3>1, TailThinner DEF Absent
  <2>2. ASSUME NEW l \in Link, DrainHeld(l)  PROVE Head(held[l]) # PubOf(p)
    <3>1. held[l] \in Seq(Message) /\ held[l] # <<>>
      BY <2>2 DEF DrainHeld, TypeOK, MessagesTyped
    <3> QED  BY <3>1, TailThinner DEF Absent
  <2>3. ASSUME NEW e \in End, ResumeRelay(e)  PROVE unsent[e].what # PubOf(p)
    BY <2>3 DEF ResumeRelay, Absent
  <2> QED  BY <2>1, <2>2, <2>3 DEF Moves
<1>2. NoMore(p) /\ SameGot(p)
  BY <1>1, StepThinner
<1> QED  BY <1>2 DEF NoMore, Thinner, Absent

(* A publish starts with a copy on the link of the client that makes it. *)
LEMMA PublishSpread ==
  ASSUME TypeOK, CheckInv, TreeInv, NEW p \in Pub, Absent(p),
         \A d \in Client : got[d][p] = 0,
         NEW c \in Client, NEW l \in Link, Publish(c, l, p)
  PROVE  Spread(p, {c})'
<1> DEFINE m == PubOf(p)
           e0 == EstEnd(l)
           V == {c}
<1>0. /\ chan' = Sent(chan, {e0}, m) /\ UNCHANGED <<life, pending, held, unsent>>
      /\ Deliver(c, p) /\ life[e0] = "up" /\ Est[l] = c
      /\ e0 \in End /\ At(e0) = c /\ e0.side = "est" /\ e0.link = l /\ Peer(e0) = AccEnd(l)
      /\ PubOf(p) \in Message /\ chan \in Channels /\ c \in Node
  BY LinkFacts, PubType, ClientAssumption DEF Publish, TypeOK, MessagesTyped, Channels, PubOf
<1>1. Used' = Used /\ Used \in SUBSET Link /\ IsForest(Used)
  BY <1>0, UsedForest DEF Used
<1>2. Heeded(e0, m) => l \in Used
  BY <1>0 DEF Heeded, Used, CheckInv, LinksOK
<1> HIDE DEF e0, m
<1>3. ASSUME NEW e \in End
      PROVE  /\ Has(chan'[e], p) => e = e0 /\ Heeded(e0, m)
             /\ AtMostOne(chan'[e], p) /\ ~ HeldFrom(e, p)'
             /\ \A x \in End : ~ LeftBy(x, e, p)'
  <2>1. m \in Message /\ ~ Has(chan[e], p) /\ e.link \in Link
    BY <1>0, EndFacts DEF Absent, m
  <2>2. /\ ~ (e = e0 /\ Heeded(e0, m)) => Sent(chan, {e0}, m)[e] = chan[e]
        /\ AtMostOne(Sent(chan, {e0}, m)[e], p)
    BY <1>0, <2>1, SentThinner
  <2>3. ~ HeldFrom(e, p)' /\ \A x \in End : ~ LeftBy(x, e, p)'
    BY <1>0, <2>1 DEF HeldFrom, LeftBy, Absent
  <2> QED  BY <1>0, <2>1, <2>2, <2>3
<1>4. OneCopy(p)'
  <2>1. \A k \in Link : AtMostOne(held'[k], p)
    BY <1>0 DEF Absent, Has, AtMostOne
  <2> QED  BY <1>3, <2>1 DEF OneCopy
<1>5. ASSUME NEW e \in End, Carries(e, p)'
      PROVE  /\ e.link \in Used' /\ At(e) \in V
             /\ \A n \in V : n \notin Beyond(e, Used')
  <2>1. e = e0 /\ e0.link \in Used
    BY <1>0, <1>2, <1>3, <1>5 DEF Carries
  <2>2. At(e0) \notin Beyond(e0, Used)
    BY <1>0, <1>1, <2>1, SidesDisjoint
  <2> QED  BY <1>0, <1>1, <2>1, <2>2
<1>6. ASSUME NEW d \in Client
      PROVE  got'[d][p] < 2 /\ (got'[d][p] # 0 => d \in V)
  <2>1. got \in [Client -> [Pub -> 0 .. 2]] /\ got[d][p] = 0
    BY DEF TypeOK, ClientsTyped
  <2>2. got'[d][p] \in {0, 1} /\ (d # c => got'[d][p] = 0)
    BY <1>0, <2>1 DEF Deliver
  <2> QED  BY <2>2
<1>7. \A x, y \in V : y \in Reached(x, Used')
  BY <1>0, <1>1, ReachedFacts
<1>8. V \in SUBSET Node
  BY <1>0
<1> HIDE DEF V
<1>9. Spread(p, V)'
  BY <1>4, <1>5, <1>6, <1>7, <1>8 DEF Spread
<1> QED  BY <1>9 DEF V

(* While no link in use is lost, p keeps spreading over a bus that grows. *)
LEMMA SpreadStep ==
  ASSUME TypeOK, CheckInv, TreeInv, TagsHere, ClientsGet, [Next]_vars,
         NEW p \in Pub, NEW V, Spread(p, V), Used \subseteq Used', p \in published
  PROVE  \E W : Spread(p, W)'
<1>1. CASE ~ Moves(p)
  <2>1. NoMore(p) /\ SameGot(p) /\ OneCopy(p)
    BY <1>1, StepThinner DEF Spread
  <2>2. CASE Used' \subseteq Used
    <3>1. Used' = Used
      BY <2>2
    <3>2. \A x \in End : unsent[x].what = PubOf(p) =>
            \A e \in unsent[x].to : e.link \in Used' => e.link \in Used
      BY <2>2
    <3>3. OneCopy(p)' /\ \A e \in End : Carries(e, p)' => Carries(e, p)
      BY <2>1, <3>2, NoMoreCopies
    <3>4. Spread(p, V)'
      BY <2>1, <3>1, <3>3, SpreadKept
    <3> QED  BY <3>4
  <2>3. ASSUME NEW l \in Link, Grows(l)  PROVE \E W : Spread(p, W)'
    <3>1. l \notin Used /\ Used' = Used \cup {l} /\ Separated(l, Used)
      BY <2>3 DEF Grows
    <3>2. ASSUME NEW x \in End, unsent[x].what = PubOf(p), NEW e \in unsent[x].to,
                 e.link \in Used'
          PROVE  e.link \in Used
      <4>1. e \in End /\ MayGet(e, PubOf(p))
        BY <3>2 DEF TypeOK, MessagesTyped, Relay, NoRelay, CheckInv, RelaysOK
      <4>2. life[e] # "none" /\ e.link \notin pending
        BY <4>1, PubType DEF MayGet, PubOf
      <4>3. e.link # l
        BY <2>3, <4>1, <4>2 DEF Grows
      <4> QED  BY <3>1, <3>2, <4>3
    <3>3. OneCopy(p)' /\ \A e \in End : Carries(e, p)' => Carries(e, p)
      BY <2>1, <3>2, NoMoreCopies
    <3>4. Spread(p, V)'
      BY <2>1, <3>1, <3>3, SpreadGrows
    <3> QED  BY <3>4
  <2> QED  BY <2>2, <2>3, StepUsed
<1>2. ASSUME NEW c \in Client, NEW l \in Link, Publish(c, l, p)  PROVE FALSE
  BY <1>2 DEF Publish
<1>3. ASSUME NEW e \in End, Head(chan[Peer(e)]) = PubOf(p),
             Hold(e) \/ ClientReceives(e) \/ NodeReceives(e)
      PROVE  \E W : Spread(p, W)'
  <2>1. CASE Hold(e)
    BY <1>3, <2>1, HoldSpread
  <2>2. CASE ClientReceives(e)
    BY <1>3, <2>2, ClientSpread
  <2>3. CASE NodeReceives(e)
    BY <1>3, <2>3, NodeSpread
  <2> QED  BY <1>3, <2>1, <2>2, <2>3
<1>4. ASSUME NEW l \in Link, DrainHeld(l), Head(held[l]) = PubOf(p)
      PROVE  \E W : Spread(p, W)'
  BY <1>4, DrainSpread
<1>5. ASSUME NEW e \in End, ResumeRelay(e), unsent[e].what = PubOf(p)
      PROVE  \E W : Spread(p, W)'
  BY <1>5, ResumeSpread
<1> QED  BY <1>1, <1>2, <1>3, <1>4, <1>5 DEF Moves

(* No link in use is lost while a publish is under way. *)
LinksKept == \A p \in published : UnderWay(p) => Used \subseteq Used'

(* p is over, or spreads, once it has been made. *)
PublishInv ==
  \A p \in Pub :
    IF p \in published
    THEN \/ Absent(p) /\ \A c \in Client : got[c][p] < 2
         \/ \E V : Spread(p, V)
    ELSE Absent(p) /\ \A c \in Client : got[c][p] = 0

LEMMA PublishedStep ==
  ASSUME [Next]_vars, NEW p \in Pub, ~ \E c \in Client, l \in Link : Publish(c, l, p)
  PROVE  p \in published' <=> p \in published
<1>1. CASE UNCHANGED published
  BY <1>1
<1>2. ASSUME NEW c \in Client, ClientStep(c)  PROVE p \in published' <=> p \in published
  <2>1. ASSUME NEW q \in Pub, NEW l \in Link, Publish(c, l, q)
        PROVE  p \in published' <=> p \in published
    BY <2>1 DEF Publish
  <2> QED  BY <1>2, <2>1 DEF ClientStep, Subscribe, Unsubscribe
<1>3. ASSUME NEW l \in Link, LinkStep(l) \/ DrainHeld(l)  PROVE UNCHANGED published
  BY <1>3 DEF LinkStep, DrainHeld, Establish, Connect, Accept, Activate, Refuse
<1>4. ASSUME NEW e \in End, Lose(e) \/ NoticeLoss(e) \/ ReceiveStep(e)
      PROVE  UNCHANGED published
  BY <1>4
     DEF Lose, NoticeLoss, ReceiveStep, ClientReceives, Hold, OverLimit, NodeReceives,
         ResumeRelay
<1> QED  BY <1>1, <1>2, <1>3, <1>4 DEF Next, vars

LEMMA PublishStep ==
  ASSUME TypeOK, CheckInv, TreeInv, TagsHere, ClientsGet, PublishInv,
         [Next]_vars, [LinksKept]_vars
  PROVE  PublishInv'
<1> SUFFICES ASSUME NEW p \in Pub
             PROVE  IF p \in published'
                    THEN \/ Absent(p)' /\ \A c \in Client : got'[c][p] < 2
                         \/ \E V : Spread(p, V)'
                    ELSE Absent(p)' /\ \A c \in Client : got'[c][p] = 0
  BY DEF PublishInv
<1>1. ASSUME NEW c \in Client, NEW l \in Link, Publish(c, l, p)
      PROVE  p \in published' /\ \E V : Spread(p, V)'
  <2>1. p \notin published /\ published' = published \cup {p}
    BY <1>1 DEF Publish
  <2>2. Absent(p) /\ \A d \in Client : got[d][p] = 0
    BY <2>1 DEF PublishInv
  <2>3. Spread(p, {c})'
    BY <1>1, <2>2, PublishSpread
  <2> QED  BY <2>1, <2>3
<1>2. ASSUME ~ \E c \in Client, l \in Link : Publish(c, l, p)
      PROVE  p \in published' <=> p \in published
  BY <1>2, PublishedStep
<1>3. ASSUME Absent(p), ~ \E c \in Client, l \in Link : Publish(c, l, p)
      PROVE  Absent(p)' /\ \A c \in Client : got'[c][p] = got[c][p]
  BY <1>3, AbsentStays DEF SameGot
<1>4. ASSUME p \in published, NEW V, Spread(p, V)
      PROVE  \/ Absent(p)' /\ \A c \in Client : got'[c][p] < 2
             \/ \E W : Spread(p, W)'
  <2>1. \A c \in Client : got[c][p] < 2
    BY <1>4 DEF Spread
  <2>2. ~ \E c \in Client, l \in Link : Publish(c, l, p)
    BY <1>4 DEF Publish
  <2>3. CASE Absent(p)
    BY <1>3, <2>1, <2>2, <2>3
  <2>4. CASE ~ Absent(p) /\ Used \subseteq Used'
    BY <1>4, <2>4, SpreadStep
  <2>5. CASE UNCHANGED vars
    <3>1. Used' = Used
      BY <2>5 DEF vars, Used
    <3> QED  BY <2>3, <2>4, <3>1
  <2>6. CASE LinksKept /\ ~ Absent(p)
    <3>1. UnderWay(p)
      BY <2>6, AbsentIs
    <3>2. Used \subseteq Used'
      BY <1>4, <2>6, <3>1 DEF LinksKept
    <3> QED  BY <2>4, <2>6, <3>2
  <2> QED  BY <2>3, <2>5, <2>6
<1>5. CASE \E c \in Client, l \in Link : Publish(c, l, p)
  BY <1>1, <1>5
<1>6. CASE ~ \E c \in Client, l \in Link : Publish(c, l, p)
  <2>1. CASE p \notin published
    BY <1>2, <1>3, <1>6, <2>1 DEF PublishInv
  <2>2. CASE p \in published
    BY <1>2, <1>3, <1>4, <1>6, <2>2 DEF PublishInv
  <2> QED  BY <2>1, <2>2
<1> QED  BY <1>5, <1>6

LEMMA PublishInit == Init => PublishInv
<1> SUFFICES ASSUME Init PROVE PublishInv
  OBVIOUS
<1>1. ~ \E i \in DOMAIN <<>> : TRUE
  OBVIOUS
<1>2. \A p \in Pub : Absent(p)
  BY <1>1 DEF Init, Absent, Has, NoRelay
<1> QED  BY <1>2 DEF Init, PublishInv

(* No client is given a publish twice, its own or another's, on a bus of any size
   and shape, as long as no link in use is lost while a publish is under way,
   however links are made, accepted and activated meanwhile, queues are full on
   links that are not in use, and subscribers come and go.  (A publish that is on
   its way over a link when that is lost can still come over it, and come again
   over a link that is made then.)  *)
THEOREM NoPublishTwice == Spec /\ [][LinksKept]_vars => []NoDuplicates
<1> DEFINE I == TypeOK /\ CheckInv /\ TreeInv /\ TagsHere /\ ClientsGet /\ PublishInv
<1>1. Init => I
  <2>1. Init => TypeOK
    BY RoutingBoundsAssumption
       DEF Init, TypeOK, LinksTyped, MessagesTyped, ClientsTyped, CountersTyped, Relay
  <2>2. Init => TagsHere /\ ClientsGet
    BY DEF Init, TagsHere, ClientsGet, ToClients, OnlyPubs
  <2> QED  BY <2>1, <2>2, CheckInit, TreeInit, PublishInit
<1>2. I /\ [Next]_vars /\ [LinksKept]_vars => I'
  BY TypeStep, CheckStep, TreeStep, HereStep, ClientsGetStep, PublishStep
<1>3. I => NoDuplicates
  <2> SUFFICES ASSUME I, NEW c \in Client, NEW p \in Pub  PROVE got[c][p] < 2
    BY DEF NoDuplicates
  <2>1. CASE p \in published /\ \E V : Spread(p, V)
    BY <2>1 DEF Spread
  <2>2. CASE got[c][p] = 0 \/ got[c][p] < 2
    BY <2>2
  <2> QED  BY <2>1, <2>2 DEF PublishInv
<1> QED  BY <1>1, <1>2, <1>3, PTL DEF Spec

-----------------------------------------------------------------------------
(* No unsubscribe from s is on its way in q. *)
NoOff(q, s) == \A i \in DOMAIN q : q[i] # Sub(s, FALSE)

(* What goes over e comes to c, if the ends of P send it on. *)
LeadsTo(P, c, e) ==
  \/ At(Peer(e)) = c
  \/ \E x \in P : At(x) = At(Peer(e)) /\ x # Peer(e)

(* A joined link over which everything is handled when it is received. *)
Clear(l) == l \in Joined /\ held[l] = <<>>

(* The ends P, of nodes, lead to c, and send on what matches s. *)
Way(P, c, s) ==
  \A x \in P :
    /\ At(x) \notin Client /\ Clear(x.link)
    /\ x \in tags[At(x)][s] /\ NoOff(chan[Peer(x)], s)
    /\ LeadsTo(P, c, x)

(* A copy of p is on its way to c. *)
Follows(P, c, p) ==
  \E e \in End : Has(chan[e], p) /\ Clear(e.link) /\ LeadsTo(P, c, e)

Coming(p, c) ==
  \E s \in wants[c] \cap MatchedBy[p], P \in SUBSET End : Way(P, c, s) /\ Follows(P, c, p)

(* Taking a message brings no unsubscribe, nor does adding another one. *)
LEMMA NoOffFacts ==
  ASSUME NEW s \in Subject, NEW q \in Seq(Message), NoOff(q, s)
  PROVE  /\ q # <<>> => NoOff(Tail(q), s) /\ Head(q) # Sub(s, FALSE)
         /\ \A m \in Message : m # Sub(s, FALSE) => NoOff(Append(q, m), s)
<1> DEFINE n == Len(q)
<1>1. n \in Nat /\ DOMAIN q = 1 .. n
  BY LenProperties
<1>2. ASSUME q # <<>>  PROVE NoOff(Tail(q), s) /\ Head(q) # Sub(s, FALSE)
  <2> DEFINE r == Tail(q)
  <2>1. n # 0 /\ 1 \in 1 .. n /\ Head(q) = q[1]
    BY <1>1, <1>2, EmptySeq, LenProperties
  <2>2. /\ DOMAIN r = 1 .. n - 1
        /\ \A i \in 1 .. n - 1 : r[i] = q[i + 1] /\ i + 1 \in 1 .. n
    BY <1>1, <1>2, <2>1, HeadTailProperties, LenProperties
  <2> HIDE DEF r, n
  <2> QED  BY <1>1, <2>1, <2>2 DEF NoOff, r
<1>3. ASSUME NEW m \in Message, m # Sub(s, FALSE)  PROVE NoOff(Append(q, m), s)
  <2> DEFINE r == Append(q, m)
  <2>1. /\ DOMAIN r = 1 .. n + 1 /\ r[n + 1] = m
        /\ \A i \in 1 .. n : r[i] = q[i]
    BY <1>1, AppendProperties, LenProperties
  <2>2. \A i \in 1 .. n + 1 : i \in 1 .. n \/ i = n + 1
    BY <1>1
  <2> HIDE DEF r, n
  <2> QED  BY <1>1, <1>3, <2>1, <2>2 DEF NoOff, r
<1> QED  BY <1>2, <1>3

(* A copy of p that is not first stays. *)
LEMMA HasTail ==
  ASSUME NEW p \in Pub, NEW q \in Seq(Message), Has(q, p), Head(q) # PubOf(p)
  PROVE  q # <<>> /\ Has(Tail(q), p)
<1> DEFINE n == Len(q)
           r == Tail(q)
<1>1. n \in Nat /\ DOMAIN q = 1 .. n
  BY LenProperties
<1>2. PICK i \in 1 .. n : q[i] = PubOf(p)
  BY <1>1 DEF Has
<1>3. q # <<>> /\ Head(q) = q[1]
  BY <1>1, <1>2, EmptySeq, LenProperties
<1>4. /\ DOMAIN r = 1 .. n - 1
      /\ \A j \in 1 .. n - 1 : r[j] = q[j + 1]
  BY <1>1, <1>3, HeadTailProperties, LenProperties
<1>5. i # 1
  BY <1>2, <1>3
<1> HIDE DEF n, r
<1>6. i - 1 \in 1 .. n - 1 /\ (i - 1) + 1 = i
  BY <1>1, <1>2, <1>5
<1>7. Has(r, p)
  BY <1>2, <1>4, <1>6 DEF Has
<1> QED  BY <1>3, <1>7 DEF r

(* What sending adds to a channel. *)
LEMMA SentHas ==
  ASSUME NEW p \in Pub, NEW d \in Channels, NEW targets, NEW m \in Message, NEW e \in End
  PROVE  /\ Has(d[e], p) => Has(Sent(d, targets, m)[e], p)
         /\ m = PubOf(p) /\ e \in targets /\ Heeded(e, m) => Has(Sent(d, targets, m)[e], p)
         /\ \A s \in Subject :
              NoOff(d[e], s) /\ (m = Sub(s, FALSE) => e \notin targets)
                => NoOff(Sent(d, targets, m)[e], s)
<1> DEFINE q == d[e]
           r == Sent(d, targets, m)[e]
<1>1. /\ q \in Seq(Message) /\ r \in {q, Append(q, m)}
      /\ e \in targets /\ Heeded(e, m) => r = Append(q, m)
      /\ e \notin targets => r = q
  BY DEF Channels, Sent
<1> HIDE DEF q, r
<1>2. /\ Has(Append(q, m), p) <=> Has(q, p) \/ m = PubOf(p)
      /\ \A s \in Subject : NoOff(q, s) /\ m # Sub(s, FALSE) => NoOff(Append(q, m), s)
  BY <1>1, AppendThinner, NoOffFacts
<1>3. /\ Has(q, p) => Has(r, p)
      /\ m = PubOf(p) /\ e \in targets /\ Heeded(e, m) => Has(r, p)
      /\ \A s \in Subject : NoOff(q, s) /\ (m = Sub(s, FALSE) => e \notin targets) => NoOff(r, s)
  BY <1>1, <1>2
<1> QED  BY <1>3 DEF q, r

(* Nothing that the way needs changes. *)
LEMMA SameWay ==
  ASSUME NEW P \in SUBSET End, NEW c, NEW s, NEW p, Way(P, c, s),
         \A e \in End : Clear(e.link) => Clear(e.link)' /\ (Has(chan[e], p) => Has(chan'[e], p)),
         \A x \in P : x \in tags'[At(x)][s] /\ NoOff(chan'[Peer(x)], s)
  PROVE  Way(P, c, s)' /\ (Follows(P, c, p) => Follows(P, c, p)')
<1>1. Way(P, c, s)'
  BY DEF Way
<1>2. Follows(P, c, p) => Follows(P, c, p)'
  BY DEF Follows
<1> QED  BY <1>1, <1>2

-----------------------------------------------------------------------------
LEMMA OffIs ==
  ASSUME NEW m \in Message, NEW s \in Subject, m.type = "sub", m.subject = s, ~ m.on
  PROVE  m = Sub(s, FALSE)
BY DEF Message, SubMessage, PubMessage, Sub

(* An end of the way is told to no one as not wanted: the next end, which is
   another, is still subscribed. *)
LEMMA WayNotTold ==
  ASSUME TagsHere, NEW c \in Client, NEW s \in Subject, NEW P \in SUBSET End, Way(P, c, s),
         NEW x \in P, NEW y \in End, At(y) \notin Client, y \notin P
  PROVE  Peer(x) \notin NoLongerWantedFrom(tags, y, s)
<1> SUFFICES ASSUME Peer(x) \in NoLongerWantedFrom(tags, y, s)  PROVE FALSE
  OBVIOUS
<1>1. At(Peer(x)) = At(y)
  BY EndFacts DEF NoLongerWantedFrom, ActiveEnds, TagsHere
<1>2. PICK z \in P : At(z) = At(Peer(x)) /\ z # Peer(x)
  BY <1>1 DEF Way, LeadsTo
<1>3. z \in tags[At(y)][s] \ {y}
  BY <1>1, <1>2 DEF Way
<1>4. Peer(x) \notin NoLongerWantedFrom(tags, y, s)
  BY <1>2, <1>3 DEF NoLongerWantedFrom
<1> QED  BY <1>4

(* The handling of a message, other than an unsubscribe that is heard over the
   way, leaves the way. *)
LEMMA HandleWay ==
  ASSUME LinksTyped, TagsHere, NEW c \in Client, NEW s \in Subject, NEW P \in SUBSET End,
         Way(P, c, s), NEW p \in Pub,
         NEW y \in End, At(y) \notin Client, NEW m \in Message,
         m = Sub(s, FALSE) => y \notin P,
         NEW d \in Channels, \A x \in P : NoOff(d[Peer(x)], s),
         tags' = Tagged(y, m), chan' = Sent(d, Targets(y, m), m),
         UNCHANGED <<life, pending>>, \A l \in Link : held[l] = <<>> => held'[l] = <<>>
  PROVE  /\ Way(P, c, s)' /\ \A l \in Link : Clear(l) => Clear(l)'
         /\ \A e \in End : Has(d[e], p) => Has(chan'[e], p)
<1>1. \A l \in Link : Clear(l) => Clear(l)'
  BY DEF Clear, Joined
<1>2. ASSUME NEW x \in P  PROVE x \in tags'[At(x)][s]
  <2>1. x \in tags[At(x)][s] /\ At(x) \in Node /\ tags \in [Node -> [Subject -> SUBSET End]]
    BY EndFacts DEF Way, LinksTyped
  <2>2. CASE m.type = "pub"
    BY <2>1, <2>2 DEF Tagged
  <2>3. CASE m.type = "sub" /\ m.subject \in Subject /\ m.on \in BOOLEAN
    <3>1. m.subject = s /\ ~ m.on => x # y
      BY <2>3, OffIs
    <3> QED  BY <2>1, <2>3, <3>1 DEF Tagged
  <2> QED  BY <2>2, <2>3, MessageCases
<1>3. ASSUME NEW x \in P  PROVE NoOff(chan'[Peer(x)], s)
  <2>1. m = Sub(s, FALSE) => Peer(x) \notin Targets(y, m)
    <3>1. m = Sub(s, FALSE) => Targets(y, m) = NoLongerWantedFrom(tags, y, s)
      BY SubType DEF Targets
    <3> QED  BY <3>1, WayNotTold
  <2> QED  BY <2>1, SentHas, EndFacts
<1>4. \A e \in End : Has(d[e], p) => Has(chan'[e], p)
  BY SentHas
<1>5. Way(P, c, s)'
  BY <1>1, <1>2, <1>3, EndFacts DEF Way
<1> QED  BY <1>1, <1>4, <1>5

(* A node sends p on along the way. *)
LEMMA PublishSentOn ==
  ASSUME LinksTyped, NEW c \in Client, NEW s \in Subject, NEW P \in SUBSET End,
         Way(P, c, s), NEW p \in Pub, s \in MatchedBy[p],
         NEW y \in End, At(y) \notin Client, LeadsTo(P, c, Peer(y)),
         NEW d \in Channels, chan' = Sent(d, Targets(y, PubOf(p)), PubOf(p)),
         \A l \in Link : Clear(l) => Clear(l)'
  PROVE  Follows(P, c, p)'
<1>1. PICK x \in P : At(x) = At(y) /\ x # y
  BY EndFacts DEF LeadsTo
<1>2. x \in tags[At(y)][s] /\ Clear(x.link) /\ LeadsTo(P, c, x) /\ x.link \in Link
  BY <1>1, EndFacts DEF Way
<1>3. x \in Targets(y, PubOf(p))
  <2>1. PubOf(p).type = "pub" /\ PubOf(p).pub = p
    BY DEF PubOf
  <2>2. tags[At(y)][s] \in { tags[At(y)][t] : t \in MatchedBy[p] }
    OBVIOUS
  <2> QED  BY <1>1, <1>2, <2>1, <2>2 DEF Targets
<1>4. Heeded(x, PubOf(p))
  <2>1. life[x] = "up" /\ life[Peer(x)] = "up"
    BY <1>2, EndFacts DEF Clear, Joined
  <2> QED  BY <2>1 DEF Heeded, PubOf
<1>5. Has(chan'[x], p)
  BY <1>3, <1>4, PubType, SentHas DEF PubOf
<1> QED  BY <1>2, <1>5 DEF Follows

-----------------------------------------------------------------------------
(* Nothing is due after a loss. *)
LEMMA NothingDue ==
  ASSUME NEW p \in Pub, NEW c \in due'[p]
  PROVE  /\ ~ \E l \in Link : Refuse(l)
         /\ ~ \E e \in End : Lose(e) \/ NoticeLoss(e) \/ OverLimit(e)
         /\ ~ \E e, T, u : \E d, h : DropFrom(e, d, T, h, u)
BY DEF Refuse, Lose, NoticeLoss, OverLimit, Drop, DropFrom

(* What becomes of other links does not matter to the way. *)
LEMMA LinkStepWay ==
  ASSUME TypeOK, NEW p \in Pub, NEW c \in due'[p], NEW s \in Subject, NEW P \in SUBSET End,
         Way(P, c, s), NEW l \in Link, LinkStep(l)
  PROVE  Way(P, c, s)' /\ (Follows(P, c, p) => Follows(P, c, p)')
<1>1. /\ UNCHANGED <<held, tags>> /\ l \notin Joined /\ Joined \subseteq Joined'
      /\ \A e \in End : e.link # l => chan'[e] = chan[e]
  <2>0. /\ life \in [End -> {"none", "up", "down"}] /\ chan \in Channels
        /\ EstEnd(l) \in End /\ AccEnd(l) \in End /\ EstEnd(l).link = l /\ AccEnd(l).link = l
    BY LinkFacts DEF TypeOK, LinksTyped, MessagesTyped, Channels
  <2>1. \A e \in End : life[e] = "up" => life'[e] = "up"
    BY <2>0, NothingDue DEF LinkStep, Establish, Connect, Accept, Activate
  <2>2. l \notin Joined
    BY NothingDue DEF LinkStep, Establish, Connect, Accept, Activate, Joined
  <2>3. pending' \subseteq pending \cup {l} /\ UNCHANGED <<held, tags>>
    BY NothingDue DEF LinkStep, Establish, Connect, Accept, Activate
  <2>4. Joined \subseteq Joined'
    BY <2>1, <2>2, <2>3, LinkFacts DEF Joined
  <2>5. \A e \in End : e.link # l => chan'[e] = chan[e]
    <3>1. CASE UNCHANGED chan
      BY <3>1
    <3>2. ASSUME NEW x \in {EstEnd(l), AccEnd(l)}, NEW q, chan' = [chan EXCEPT ![x] = q]
          PROVE  \A e \in End : e.link # l => chan'[e] = chan[e]
      BY <2>0, <3>2 DEF Channels
    <3>3. CASE Establish(l)
      BY <3>1, <3>3 DEF Establish
    <3>4. CASE Connect(l)
      BY <3>2, <3>4 DEF Connect
    <3>5. CASE Accept(l)
      BY <3>1, <3>2, <3>5 DEF Accept, SubscriptionsSent
    <3>6. CASE Activate(l)
      BY <3>1, <3>2, <3>6 DEF Activate, SubscriptionsSent
    <3> QED  BY <3>3, <3>4, <3>5, <3>6, NothingDue DEF LinkStep
  <2> QED  BY <2>2, <2>3, <2>4, <2>5
<1>2. ASSUME NEW e \in End, Clear(e.link)  PROVE Clear(e.link)' /\ chan'[e] = chan[e]
  BY <1>1, <1>2 DEF Clear
<1>3. ASSUME NEW x \in P  PROVE x \in tags'[At(x)][s] /\ NoOff(chan'[Peer(x)], s)
  <2>1. chan'[Peer(x)] = chan[Peer(x)]
    BY <1>2, EndFacts DEF Way
  <2> QED  BY <1>1, <2>1 DEF Way
<1> QED  BY <1>2, <1>3, SameWay

(* Whom p is due to does not unsubscribe: others do, and that is not heard
   on the way. *)
LEMMA ClientStepWay ==
  ASSUME TypeOK, NEW p \in Pub, NEW c \in due'[p], c \in Client,
         NEW s \in wants[c], s \in Subject, NEW P \in SUBSET End,
         Way(P, c, s), NEW k \in Client, ClientStep(k)
  PROVE  Way(P, c, s)' /\ (Follows(P, c, p) => Follows(P, c, p)') /\ s \in wants'[c]
<1>0. chan \in Channels /\ wants \in [Client -> SUBSET Subject]
  BY DEF TypeOK, MessagesTyped, ClientsTyped, Channels
<1>1. ASSUME NEW t, NEW m \in Message, chan' = Sent(chan, t, m), UNCHANGED net,
             m = Sub(s, FALSE) => \A x \in P : Peer(x) \notin t
      PROVE  Way(P, c, s)' /\ (Follows(P, c, p) => Follows(P, c, p)')
  <2>1. \A e \in End : Clear(e.link) => Clear(e.link)' /\ (Has(chan[e], p) => Has(chan'[e], p))
    BY <1>0, <1>1, SentHas DEF Clear, Joined
  <2>2. ASSUME NEW x \in P  PROVE x \in tags'[At(x)][s] /\ NoOff(chan'[Peer(x)], s)
    <3>1. /\ x \in tags[At(x)][s] /\ NoOff(chan[Peer(x)], s)
          /\ m = Sub(s, FALSE) => Peer(x) \notin t
      BY <1>1 DEF Way
    <3>2. Peer(x) \in End
      BY EndFacts
    <3>3. NoOff(Sent(chan, t, m)[Peer(x)], s)
      BY <1>0, <3>1, <3>2, SentHas
    <3> QED  BY <1>1, <3>1, <3>3
  <2> QED  BY <2>1, <2>2, SameWay
<1>2. ASSUME NEW r \in Subject, Unsubscribe(k, r)
      PROVE  Way(P, c, s)' /\ (Follows(P, c, p) => Follows(P, c, p)') /\ s \in wants'[c]
  <2> DEFINE t == { e \in End : e.side = "est" /\ At(e) = k }
  <2>1. /\ chan' = Sent(chan, t, Sub(r, FALSE)) /\ UNCHANGED net
        /\ wants' = [wants EXCEPT ![k] = @ \ {r}] /\ due' = [q \in Pub |-> due[q] \ {k}]
    BY <1>2 DEF Unsubscribe
  <2>2. c # k
    BY <2>1
  <2>3. \A x \in P : Peer(x) \notin t
    BY <2>2 DEF Way, LeadsTo
  <2> HIDE DEF t
  <2>4. s \in wants'[c]
    BY <1>0, <2>1, <2>2
  <2> QED  BY <1>1, <2>1, <2>3, <2>4, SubType
<1>3. ASSUME NEW r \in Subject, NEW l \in Link, Subscribe(k, l, r)
      PROVE  Way(P, c, s)' /\ (Follows(P, c, p) => Follows(P, c, p)') /\ s \in wants'[c]
  <2>1. /\ chan' = Sent(chan, {EstEnd(l)}, Sub(r, TRUE)) /\ UNCHANGED net
        /\ wants' = [wants EXCEPT ![k] = @ \cup {r}]
    BY <1>3 DEF Subscribe
  <2>2. Sub(r, TRUE) \in Message /\ Sub(r, TRUE) # Sub(s, FALSE)
    BY SubType DEF Sub
  <2>3. s \in wants'[c]
    BY <1>0, <2>1
  <2> QED  BY <1>1, <2>1, <2>2, <2>3
<1>4. ASSUME NEW q \in Pub, NEW l \in Link, Publish(k, l, q)
      PROVE  Way(P, c, s)' /\ (Follows(P, c, p) => Follows(P, c, p)') /\ s \in wants'[c]
  <2>1. chan' = Sent(chan, {EstEnd(l)}, PubOf(q)) /\ UNCHANGED net /\ UNCHANGED wants
    BY <1>4 DEF Publish, PubOf
  <2>2. PubOf(q) \in Message /\ PubOf(q) # Sub(s, FALSE)
    BY PubType DEF PubOf, Sub
  <2> QED  BY <1>1, <2>1, <2>2
<1> QED  BY <1>2, <1>3, <1>4 DEF ClientStep

-----------------------------------------------------------------------------
(* d are the channels once y has received a message. *)
TakenBy(y, d) == chan[Peer(y)] # <<>> /\ d = [chan EXCEPT ![Peer(y)] = Tail(@)]

(* What is taken is the only thing that is gone from the channels. *)
LEMMA TakenWay ==
  ASSUME TypeOK, NEW p \in Pub, NEW s \in Subject, NEW y \in End, NEW d, TakenBy(y, d)
  PROVE  /\ d \in Channels /\ Peer(y) \in End
         /\ \A e \in End : NoOff(chan[e], s) => NoOff(d[e], s)
         /\ \A e \in End : Has(chan[e], p) =>
              Has(d[e], p) \/ (e = Peer(y) /\ Head(chan[e]) = PubOf(p))
<1>1. /\ Peer(y) \in End /\ chan[Peer(y)] \in Seq(Message) /\ chan[Peer(y)] # <<>>
      /\ \A e \in End : d[e] = IF e = Peer(y) THEN Tail(chan[e]) ELSE chan[e]
  BY EndFacts DEF TypeOK, MessagesTyped, TakenBy
<1>2. d \in Channels
  <2>1. Tail(chan[Peer(y)]) \in Seq(Message)
    BY <1>1, HeadType DEF TakenBy
  <2>2. chan \in [End -> Seq(Message)] /\ d = [chan EXCEPT ![Peer(y)] = Tail(chan[Peer(y)])]
    BY DEF TakenBy, TypeOK, MessagesTyped
  <2>3. Peer(y) \in End /\ Tail(chan[Peer(y)]) \in Seq(Message)
    BY <1>1, <2>1
  <2> QED  BY ONLY <2>2, <2>3 DEF Channels
<1>3. ASSUME NEW e \in End, NoOff(chan[e], s)  PROVE NoOff(d[e], s)
  <2>1. CASE e = Peer(y)
    <3>1. NoOff(Tail(chan[Peer(y)]), s)
      BY <1>1, <1>3, <2>1, NoOffFacts
    <3> QED  BY <1>1, <2>1, <3>1
  <2>2. CASE e # Peer(y)
    BY <1>1, <1>3, <2>2
  <2> QED  BY <2>1, <2>2
<1>4. ASSUME NEW e \in End, Has(chan[e], p), ~ (e = Peer(y) /\ Head(chan[e]) = PubOf(p))
      PROVE  Has(d[e], p)
  BY <1>1, <1>4, HasTail
<1> QED  BY <1>1, <1>2, <1>3, <1>4

(* What the end y receives is not held, if copies on the way go there. *)
LEMMA ClearNotHeld ==
  ASSUME NoneSuspended, NEW y \in End, Holding(y)
  PROVE  ~ Clear(y.link)
BY DEF Holding, Clear, Joined, NoneSuspended, NoRelay

(* Nothing that is on the way is held. *)
LEMMA HoldWay ==
  ASSUME TypeOK, NoneSuspended, NEW p \in Pub, NEW c, NEW s \in Subject,
         NEW P \in SUBSET End, Way(P, c, s), NEW y \in End, Hold(y)
  PROVE  Way(P, c, s)' /\ (Follows(P, c, p) => Follows(P, c, p)')
<1>1. /\ TakenBy(y, chan') /\ UNCHANGED <<life, pending, tags>> /\ ~ Clear(y.link)
      /\ \E m : held' = [held EXCEPT ![y.link] = m]
  BY ClearNotHeld DEF Hold, Arrives, TakenBy
<1>2. held \in HeldLists
  BY DEF TypeOK, MessagesTyped, HeldLists
<1>3. ASSUME NEW e \in End, Clear(e.link)
      PROVE  Clear(e.link)' /\ (Has(chan[e], p) => Has(chan'[e], p))
  <2>1. e.link # y.link /\ e.link \in Link
    BY <1>1, <1>3, EndFacts
  <2>2. e # Peer(y)
    BY <2>1, EndFacts
  <2> QED  BY <1>1, <1>2, <1>3, <2>1, <2>2, TakenWay DEF Clear, Joined, HeldLists
<1>4. \A x \in P : x \in tags'[At(x)][s] /\ NoOff(chan'[Peer(x)], s)
  BY <1>1, TakenWay, EndFacts DEF Way
<1> QED  BY <1>3, <1>4, SameWay

(* c gets p when it receives it. *)
LEMMA ClientReceivesWay ==
  ASSUME TypeOK, NEW p \in Pub, NEW c \in Client, NEW s \in Subject, s \in wants[c],
         s \in MatchedBy[p], got[c][p] = 0,
         NEW P \in SUBSET End, Way(P, c, s), NEW y \in End, ClientReceives(y)
  PROVE  Way(P, c, s)' /\ (Follows(P, c, p) => Follows(P, c, p)' \/ got'[c][p] = 1)
<1>1. /\ TakenBy(y, chan') /\ UNCHANGED net /\ At(y) \in Client /\ Deliver(At(y), Head(chan[Peer(y)]).pub)
      /\ got \in [Client -> [Pub -> 0 .. 2]] /\ Peer(y) \in End /\ Peer(Peer(y)) = y
  BY EndFacts DEF ClientReceives, Arrives, TypeOK, ClientsTyped, TakenBy
<1>4. /\ \A e \in End : NoOff(chan[e], s) => NoOff(chan'[e], s)
      /\ \A e \in End : Has(chan[e], p) =>
           Has(chan'[e], p) \/ (e = Peer(y) /\ Head(chan[e]) = PubOf(p))
  BY <1>1, TakenWay
<1>2. CASE Head(chan[Peer(y)]) = PubOf(p) /\ At(y) = c
  <2>1. Interested(c, p)
    BY DEF Interested
  <2>2. got'[c][p] = 1
    BY <1>1, <1>2, <2>1 DEF Deliver, PubOf
  <2>3. \A x \in P : x \in tags'[At(x)][s] /\ NoOff(chan'[Peer(x)], s)
    BY <1>1, <1>4, EndFacts DEF Way
  <2>4. Way(P, c, s)'
    BY <1>1, <2>3 DEF Way, Clear, Joined
  <2> QED  BY <2>2, <2>4
<1>3. CASE ~ (Head(chan[Peer(y)]) = PubOf(p) /\ At(y) = c)
  <2>1. \A x \in P : x \in tags'[At(x)][s] /\ NoOff(chan'[Peer(x)], s)
    BY <1>1, <1>4, EndFacts DEF Way
  <2>2. Way(P, c, s)'
    BY <1>1, <2>1 DEF Way, Clear, Joined
  <2>3. ASSUME NEW e \in End, Has(chan[e], p), Clear(e.link), LeadsTo(P, c, e)
        PROVE  Follows(P, c, p)'
    <3>1. e = Peer(y) => At(y) = c
      BY <1>1, <2>3 DEF LeadsTo, Way
    <3>2. ~ (e = Peer(y) /\ Head(chan[e]) = PubOf(p))
      BY <1>3, <3>1
    <3>3. Has(chan'[e], p)
      BY <1>4, <2>3, <3>2
    <3> QED  BY <1>1, <2>3, <3>3 DEF Follows, Clear, Joined
  <2> QED  BY <2>2, <2>3 DEF Follows
<1> QED  BY <1>2, <1>3

LEMMA NodeReceivesWay ==
  ASSUME MaxOverflows = 0, TypeOK, TagsHere, NEW p \in Pub, NEW c \in Client,
         NEW s \in Subject, s \in MatchedBy[p],
         NEW P \in SUBSET End, Way(P, c, s), NEW y \in End, NodeReceives(y)
  PROVE  Way(P, c, s)' /\ (Follows(P, c, p) => Follows(P, c, p)')
<1> DEFINE d == [chan EXCEPT ![Peer(y)] = Tail(@)]
           m == Head(chan[Peer(y)])
<1>1. /\ TakenBy(y, d) /\ At(y) \notin Client /\ LinksTyped
      /\ tags' = Tagged(y, m) /\ chan' = Sent(d, Targets(y, m), m) /\ held' = held
      /\ UNCHANGED <<life, pending>>
  BY DEF NodeReceives, Arrives, Handle, TypeOK, CountersTyped, TakenBy
<1>2. Peer(y) \in End /\ Peer(Peer(y)) = y /\ chan[Peer(y)] \in Seq(Message)
  BY EndFacts DEF TypeOK, MessagesTyped
<1>3. m \in Message
  BY <1>1, <1>2, HeadType DEF TakenBy
<1>4. m = Sub(s, FALSE) => y \notin P
  <2>1. y \in P => m # Sub(s, FALSE)
    BY <1>1, <1>2, NoOffFacts DEF Way, TakenBy
  <2> QED  BY <2>1
<1> HIDE DEF d
<1>5. /\ d \in Channels
      /\ \A e \in End : NoOff(chan[e], s) => NoOff(d[e], s)
      /\ \A e \in End : Has(chan[e], p) => Has(d[e], p) \/ (e = Peer(y) /\ m = PubOf(p))
  BY <1>1, TakenWay
<1> HIDE DEF m
<1>6. \A x \in P : NoOff(d[Peer(x)], s)
  <2> TAKE x \in P
  <2>1. Peer(x) \in End /\ NoOff(chan[Peer(x)], s)
    BY EndFacts DEF Way
  <2> QED  BY <1>5, <2>1
<1>9. \A l \in Link : held[l] = <<>> => held'[l] = <<>>
  BY <1>1
<1>7. /\ Way(P, c, s)' /\ \A l \in Link : Clear(l) => Clear(l)'
      /\ \A e \in End : Has(d[e], p) => Has(chan'[e], p)
  BY <1>1, <1>3, <1>4, <1>5, <1>6, <1>9, HandleWay
<1>8. ASSUME NEW e \in End, Has(chan[e], p), Clear(e.link), LeadsTo(P, c, e)
      PROVE  Follows(P, c, p)'
  <2>1. CASE Has(d[e], p)
    <3>1. Has(chan'[e], p) /\ Clear(e.link)'
      BY <1>7, <1>8, <2>1, EndFacts
    <3> QED  BY <1>8, <3>1 DEF Follows
  <2>2. CASE e = Peer(y) /\ m = PubOf(p)
    BY <1>1, <1>5, <1>7, <1>8, <2>2, PublishSentOn
  <2> QED  BY <1>5, <1>8, <2>1, <2>2
<1> QED  BY <1>7, <1>8 DEF Follows

LEMMA DrainWay ==
  ASSUME MaxOverflows = 0, TypeOK, TreeInv, TagsHere, NEW p \in Pub, NEW c \in Client,
         NEW s \in Subject, NEW P \in SUBSET End, Way(P, c, s), NEW l \in Link, DrainHeld(l)
  PROVE  Way(P, c, s)' /\ (Follows(P, c, p) => Follows(P, c, p)')
<1> DEFINE m == Head(held[l])
           y == EstEnd(l)
<1>1. /\ held[l] # <<>> /\ LinksTyped
      /\ tags' = Tagged(y, m) /\ chan' = Sent(chan, Targets(y, m), m)
      /\ held' = [held EXCEPT ![l] = Tail(@)] /\ UNCHANGED <<life, pending>>
  BY DEF DrainHeld, Handle, TypeOK, CountersTyped
<1>2. held \in HeldLists /\ chan \in Channels /\ y \in End /\ y.link = l /\ At(y) = Est[l]
  BY LinkFacts DEF TypeOK, MessagesTyped, HeldLists, Channels
<1>3. m \in Message
  BY <1>1, <1>2, HeadType DEF HeldLists
<1>4. y \notin P /\ At(y) \notin Client
  BY <1>1, <1>2 DEF Way, Clear, TreeInv, HeldAtNodes
<1>5. \A k \in Link : held[k] = <<>> => held'[k] = <<>>
  BY <1>1, <1>2 DEF HeldLists
<1>6. \A x \in P : NoOff(chan[Peer(x)], s)
  BY DEF Way
<1> HIDE DEF m, y
<1>7. /\ Way(P, c, s)' /\ \A k \in Link : Clear(k) => Clear(k)'
      /\ \A e \in End : Has(chan[e], p) => Has(chan'[e], p)
  BY <1>1, <1>2, <1>3, <1>4, <1>5, <1>6, HandleWay
<1> QED  BY <1>7, EndFacts DEF Follows

-----------------------------------------------------------------------------
(* Whatever is received, the way stays, and p follows it. *)
LEMMA ReceiveStepWay ==
  ASSUME MaxOverflows = 0, TypeOK, TagsHere, NoneSuspended, NEW p \in Pub, NEW c \in due'[p],
         c \in Client, NEW s \in Subject, s \in wants[c], s \in MatchedBy[p], got[c][p] = 0,
         NEW P \in SUBSET End, Way(P, c, s), NEW y \in End, ReceiveStep(y)
  PROVE  Way(P, c, s)' /\ (Follows(P, c, p) => Follows(P, c, p)' \/ got'[c][p] = 1)
<1>1. CASE ClientReceives(y)
  BY <1>1, ClientReceivesWay
<1>2. CASE Hold(y)
  BY <1>2, HoldWay
<1>3. CASE NodeReceives(y)
  BY <1>3, NodeReceivesWay
<1>4. ~ ResumeRelay(y)
  BY DEF ResumeRelay, NoneSuspended, NoRelay
<1> QED  BY <1>1, <1>2, <1>3, <1>4, NothingDue DEF ReceiveStep

(* p stays on its way to whom it is due, until it is got. *)
LEMMA ComingStep ==
  ASSUME MaxOverflows = 0, TypeOK, TreeInv, TagsHere, NoneSuspended, [Next]_vars,
         NEW p \in Pub, NEW c \in due'[p], c \in Client, got[c][p] = 0, Coming(p, c)
  PROVE  got'[c][p] = 1 \/ Coming(p, c)'
<1>1. PICK s \in wants[c] \cap MatchedBy[p], P \in SUBSET End :
        Way(P, c, s) /\ Follows(P, c, p)
  BY DEF Coming
<1>2. s \in Subject /\ s \in wants[c] /\ s \in MatchedBy[p]
  BY <1>1, SubjectAssumption
<1>3. ASSUME s \in wants'[c], Way(P, c, s)', Follows(P, c, p)'
      PROVE  Coming(p, c)'
  BY <1>2, <1>3 DEF Coming
<1>4. CASE UNCHANGED vars
  BY <1>1, <1>2, <1>3, <1>4
     DEF vars, Way, Follows, Clear, Joined
<1>5. ASSUME NEW l \in Link, LinkStep(l)
      PROVE  Coming(p, c)'
  <2>1. wants' = wants
    BY <1>5 DEF LinkStep, Establish, Connect, Accept, Activate, Refuse
  <2> QED  BY <1>1, <1>2, <1>3, <1>5, <2>1, LinkStepWay
<1>6. ASSUME NEW l \in Link, DrainHeld(l)
      PROVE  Coming(p, c)'
  <2>1. wants' = wants
    BY <1>6 DEF DrainHeld
  <2> QED  BY <1>1, <1>2, <1>3, <1>6, <2>1, DrainWay
<1>7. ASSUME NEW k \in Client, ClientStep(k)
      PROVE  Coming(p, c)'
  BY <1>1, <1>2, <1>3, <1>7, ClientStepWay
<1>8. ASSUME NEW y \in End, ReceiveStep(y)
      PROVE  got'[c][p] = 1 \/ Coming(p, c)'
  <2>1. wants' = wants
    BY <1>8 DEF ReceiveStep, ClientReceives, Hold, OverLimit, NodeReceives, ResumeRelay
  <2> QED  BY <1>1, <1>2, <1>3, <1>8, <2>1, ReceiveStepWay
<1> QED  BY <1>4, <1>5, <1>6, <1>7, <1>8, NothingDue DEF Next

-----------------------------------------------------------------------------
(* Whoever lies beyond x, but for the peer itself, lies beyond a next end. *)
LEMMA NextOnTheWay ==
  ASSUME NEW L \in SUBSET Link, Leaves(L), NEW x \in End, x.link \in L,
         NEW c \in Beyond(x, L), c # At(Peer(x))
  PROVE  \E z \in End : /\ z.link \in L /\ At(z) = At(Peer(x)) /\ z # Peer(x)
                        /\ At(z) \notin Client /\ c \in Beyond(z, L)
<1> DEFINE n == At(Peer(x))
           Z == { z \in End : z.link \in L /\ z.link # x.link /\ At(z) = n }
           S == { m \in Node : m = n \/ \E z \in Z : m \in Beyond(z, L) }
<1>1. n \in S /\ S \in SUBSET Node
  BY EndFacts
<1>2. ASSUME NEW y \in End, y.link \in L, y.link # x.link, At(y) \in S
      PROVE  At(Peer(y)) \in S
  <2>1. At(Peer(y)) \in Node
    BY EndFacts
  <2>2. CASE At(y) = n
    <3>1. At(Peer(y)) \in Beyond(y, L)
      BY BeyondFacts
    <3> QED  BY <1>2, <2>1, <2>2, <3>1
  <2>3. ASSUME NEW z \in Z, At(y) \in Beyond(z, L)  PROVE At(Peer(y)) \in S
    <3>1. CASE y.link # z.link
      BY <1>2, <2>1, <2>3, <3>1, BeyondFacts
    <3>2. CASE y = z
      BY <2>1, <2>3, <3>2, BeyondFacts
    <3>3. CASE y = Peer(z)
      BY <1>1, <2>3, <3>3, EndFacts
    <3> QED  BY <3>1, <3>2, <3>3, EndFacts
  <2> QED  BY <1>2, <2>2, <2>3
<1> HIDE DEF S
<1>3. Beyond(x, L) \subseteq S
  BY <1>1, <1>2, BeyondFacts
<1>4. PICK z \in Z : c \in Beyond(z, L)
  BY <1>3 DEF S
<1>5. z # Peer(x) /\ Peer(x) \in End /\ Peer(x).link = x.link
  BY EndFacts
<1>6. At(z) \notin Client
  BY <1>5 DEF Leaves
<1> QED  BY <1>4, <1>5, <1>6

(* All others on the bus of a client lie beyond its one link. *)
LEMMA BusBeyond ==
  ASSUME NEW L \in SUBSET Link, Leaves(L), NEW x \in End, x.link \in L, At(x) \in Client,
         NEW c \in Reached(At(x), L), c # At(x)
  PROVE  c \in Beyond(x, L)
<1> DEFINE S == {At(x)} \cup Beyond(x, L)
<1>1. S \in SUBSET Node /\ At(x) \in S
  BY EndFacts, BeyondFacts
<1>2. ASSUME NEW y \in End, y.link \in L, At(y) \in S  PROVE At(Peer(y)) \in S
  <2>1. CASE y.link = x.link
    <3>1. At(Peer(x)) \in S /\ Peer(Peer(x)) = x /\ (y = x \/ y = Peer(x))
      BY <2>1, EndFacts, BeyondFacts
    <3> QED  BY <3>1
  <2>2. CASE y.link # x.link
    <3>1. At(y) # At(x)
      BY <1>2, <2>2 DEF Leaves
    <3> QED  BY <1>2, <2>2, <3>1, BeyondFacts
  <2> QED  BY <2>1, <2>2
<1> HIDE DEF S
<1>3. Closed(S, L)
  BY <1>2, ClosedByEnds
<1>4. Reached(At(x), L) \subseteq S
  BY <1>1, <1>3, ReachedFacts, EndFacts
<1> QED  BY <1>4 DEF S

-----------------------------------------------------------------------------
(* A publish from a bus at rest has its way to every other client that wants it:
   the ends that lead there send on what that client wants. *)
LEMMA PublishComing ==
  ASSUME TypeOK, GoneInv, ToldInv, TreeInv, ClientInv, NEW p \in Pub,
         NEW k \in Client, NEW l \in Link, Publish(k, l, p), NEW c \in due'[p], c # k
  PROVE  Coming(p, c)'
<1> DEFINE y == EstEnd(l)
<1> PICK P \in SUBSET End : P = { x \in End : /\ x.link \in Joined /\ At(x) \notin Client
                                             /\ c \in Beyond(x, Joined) }
  OBVIOUS
<1>1. /\ Est[l] = k /\ life[y] = "up" /\ chan' = Sent(chan, {y}, PubOf(p))
      /\ UNCHANGED net /\ UNCHANGED wants
      /\ y \in End /\ y.link = l /\ At(y) = k /\ Peer(y) = AccEnd(l) /\ At(Peer(y)) = Acc[l]
      /\ PubOf(p) \in Message /\ chan \in Channels
  BY LinkFacts, PubType DEF Publish, PubOf, TypeOK, MessagesTyped, Channels
<1>2. Quiet /\ c \in Client \cap Bus(k) /\ Interested(c, p)
  <2>1. due \in [Pub -> SUBSET Client]
    BY DEF TypeOK, ClientsTyped
  <2>2. c \in IF Quiet THEN { x \in Client \cap Bus(k) : Interested(x, p) } ELSE {}
    BY <2>1 DEF Publish
  <2> QED  BY <2>2
<1>3. PICK s \in Subject : s \in wants[c] /\ s \in MatchedBy[p]
  BY <1>2, SubjectAssumption DEF Interested
<1>4. /\ \A e \in End : chan[e] = <<>>
      /\ \A m \in Link : held[m] = <<>> /\ m \notin pending
      /\ life[Peer(y)] = "up"
  BY <1>1, <1>2 DEF Quiet
<1>5. /\ Joined \in SUBSET Link /\ IsForest(Joined) /\ l \in Joined
      /\ Leaves(Joined) /\ Directions(Joined, SentOn(s), Wanting(s))
  BY <1>1, <1>2, <1>4, QuietDirections DEF Joined, TreeInv
<1>6. c \in Beyond(y, Joined)
  <2>1. Bus(k) = Reached(k, Joined)
    BY DEF Bus, Reached
  <2> QED  BY <1>1, <1>2, <1>5, <2>1, BusBeyond
<1>7. ASSUME NEW x \in End, x.link \in Joined, c \in Beyond(x, Joined)
      PROVE  At(Peer(x)) = c \/ \E z \in P : At(z) = At(Peer(x)) /\ z # Peer(x)
  BY <1>5, <1>7, NextOnTheWay
<1>8. \A m \in Joined : Clear(m)'
  BY <1>1, <1>4, <1>5 DEF Clear, Joined
<1>9. ASSUME NEW x \in P
      PROVE  /\ At(x) \notin Client /\ Clear(x.link)' /\ x \in tags'[At(x)][s]
             /\ NoOff(chan'[Peer(x)], s) /\ LeadsTo(P, c, x)
  <2>1. c \in Wanting(s)
    BY <1>2, <1>3 DEF Wanting
  <2>2. x \in SentOn(s)
    BY <1>5, <2>1, WantedIsSent
  <2>3. NoOff(chan'[Peer(x)], s)
    <3> DEFINE e == Peer(x)
    <3>1. e \in End /\ NoOff(chan[e], s)
      <4>1. e \in End /\ chan[e] = <<>>
        BY <1>4, EndFacts
      <4>2. DOMAIN <<>> = {}
        OBVIOUS
      <4> QED  BY <4>1, <4>2 DEF NoOff
    <3>2. PubOf(p) # Sub(s, FALSE)
      BY DEF PubOf, Sub
    <3> HIDE DEF e
    <3>3. \A m \in Message : \A t, r :
            NoOff(chan[e], r) /\ (m = Sub(r, FALSE) => e \notin t) /\ r \in Subject
              => NoOff(Sent(chan, t, m)[e], r)
      BY <1>1, <3>1, SentHas
    <3>4. NoOff(Sent(chan, {y}, PubOf(p))[e], s)
      BY <1>1, <3>1, <3>2, <3>3
    <3> QED  BY <1>1, <3>4 DEF e
  <2>4. x \in End /\ x.link \in Joined /\ c \in Beyond(x, Joined)
    OBVIOUS
  <2>5. LeadsTo(P, c, x)
    BY <1>7, <2>4 DEF LeadsTo
  <2>6. At(x) \notin Client /\ x \in tags'[At(x)][s]
    BY <1>1, <2>2 DEF SentOn
  <2> QED  BY <1>8, <2>3, <2>4, <2>5, <2>6
<1>10. Has(chan'[y], p) /\ Clear(y.link)' /\ LeadsTo(P, c, y)
  <2>1. Heeded(y, PubOf(p))
    BY <1>1, <1>4 DEF Heeded, PubOf
  <2>2. Has(chan'[y], p)
    BY <1>1, <2>1, SentHas
  <2> QED  BY <1>1, <1>5, <1>6, <1>7, <1>8, <2>2 DEF LeadsTo
<1>11. s \in wants'[c] \cap MatchedBy[p]
  BY <1>1, <1>3
<1>12. Way(P, c, s)'
  BY <1>9 DEF Way
<1>13. Follows(P, c, p)'
  BY <1>1, <1>10 DEF Follows
<1> QED  BY <1>11, <1>12, <1>13 DEF Coming

(* Who publishes p, and is interested, has it at once. *)
LEMMA PublisherGets ==
  ASSUME TypeOK, NEW p \in Pub, NEW k \in Client, NEW l \in Link, Publish(k, l, p),
         k \in due'[p], got[k][p] = 0
  PROVE  got'[k][p] = 1
<1>1. due \in [Pub -> SUBSET Client] /\ got \in [Client -> [Pub -> 0 .. 2]]
  BY DEF TypeOK, ClientsTyped
<1>2. Interested(k, p)
  BY <1>1 DEF Publish
<1> QED  BY <1>1, <1>2 DEF Publish, Deliver

-----------------------------------------------------------------------------
(* What is due of p, once it is made, only becomes less. *)
LEMMA DueShrinks ==
  ASSUME TypeOK, [Next]_vars, NEW p \in Pub, ~ \E c \in Client, l \in Link : Publish(c, l, p)
  PROVE  due'[p] \subseteq due[p]
<1>0. due \in [Pub -> SUBSET Client]
  BY DEF TypeOK, ClientsTyped
<1>1. CASE UNCHANGED due
  BY <1>1
<1>2. CASE due' = [q \in Pub |-> {}]
  BY <1>2
<1>3. ASSUME NEW k \in Client, ClientStep(k)  PROVE due'[p] \subseteq due[p]
  <2>1. ASSUME NEW s \in Subject, Unsubscribe(k, s)  PROVE due'[p] \subseteq due[p]
    BY <1>0, <2>1 DEF Unsubscribe
  <2>2. ASSUME NEW q \in Pub, NEW l \in Link, Publish(k, l, q)  PROVE due'[p] \subseteq due[p]
    <3>1. p # q
      BY <2>2
    <3> QED  BY <1>0, <2>2, <3>1 DEF Publish
  <2> QED  BY <1>1, <1>3, <2>1, <2>2 DEF ClientStep, Subscribe
<1>4. ASSUME NEW e \in End, NEW m, NEW d, NEW h, NEW by, Handle(e, m, d, h, by)
      PROVE  due'[p] \subseteq due[p]
  BY <1>1, <1>2, <1>4 DEF Handle, DropFrom
<1>5. ASSUME NEW l \in Link, LinkStep(l)  PROVE due'[p] \subseteq due[p]
  BY <1>1, <1>2, <1>5 DEF LinkStep, Establish, Connect, Accept, Activate, Refuse, Drop, DropFrom
<1>6. ASSUME NEW l \in Link, DrainHeld(l)  PROVE due'[p] \subseteq due[p]
  BY <1>4, <1>6, LinkFacts DEF DrainHeld
<1>7. ASSUME NEW e \in End, Lose(e) \/ NoticeLoss(e)  PROVE due'[p] \subseteq due[p]
  BY <1>2, <1>7 DEF Lose, NoticeLoss, Drop, DropFrom
<1>8. ASSUME NEW e \in End, ReceiveStep(e)  PROVE due'[p] \subseteq due[p]
  <2>1. CASE NodeReceives(e)
    BY <1>4, <2>1 DEF NodeReceives
  <2> QED  BY <1>1, <1>2, <1>8, <2>1 DEF ReceiveStep, ClientReceives, Hold, OverLimit, ResumeRelay
<1> QED  BY <1>1, <1>3, <1>5, <1>6, <1>7, <1>8 DEF Next, vars

(* What a client has got it keeps. *)
LEMMA GotGrows ==
  ASSUME TypeOK, [Next]_vars, NEW p \in Pub, NEW c \in Client, got[c][p] # 0
  PROVE  got'[c][p] # 0
<1>0. got \in [Client -> [Pub -> 0 .. 2]]
  BY DEF TypeOK, ClientsTyped
<1>1. CASE UNCHANGED got
  BY <1>1
<1>2. ASSUME NEW k \in Client, NEW q, Deliver(k, q)  PROVE got'[c][p] # 0
  BY <1>0, <1>2 DEF Deliver
<1>3. ASSUME NEW k \in Client, ClientStep(k)  PROVE got'[c][p] # 0
  BY <1>1, <1>2, <1>3 DEF ClientStep, Subscribe, Unsubscribe, Publish
<1>4. ASSUME NEW l \in Link, LinkStep(l) \/ DrainHeld(l)  PROVE UNCHANGED got
  BY <1>4 DEF LinkStep, DrainHeld, Establish, Connect, Accept, Activate, Refuse
<1>5. ASSUME NEW e \in End, Lose(e) \/ NoticeLoss(e)  PROVE UNCHANGED got
  BY <1>5 DEF Lose, NoticeLoss
<1>6. ASSUME NEW e \in End, ReceiveStep(e)  PROVE got'[c][p] # 0
  BY <1>1, <1>2, <1>6
     DEF ReceiveStep, ClientReceives, Hold, OverLimit, NodeReceives, ResumeRelay
<1> QED  BY <1>1, <1>3, <1>4, <1>5, <1>6 DEF Next, vars

(* While anything is due, no link in use is lost. *)
LEMMA NoneLost ==
  ASSUME MaxOverflows = 0, TypeOK, [Next]_vars, NEW p \in Pub, NEW c \in due'[p]
  PROVE  Used \subseteq Used'
<1>0. life \in [End -> {"none", "up", "down"}] /\ overflows = 0
  BY DEF TypeOK, LinksTyped, CountersTyped
<1>1. CASE UNCHANGED <<life, pending>>
  BY <1>1 DEF Used
<1>2. ASSUME NEW l \in Link, LinkStep(l)  PROVE Used \subseteq Used'
  <2>0. EstEnd(l) \in End /\ AccEnd(l) \in End
    BY LinkFacts
  <2>1. CASE Establish(l)
    <3>1. /\ life' = [life EXCEPT ![EstEnd(l)] = "up"] /\ life[EstEnd(l)] = "none"
          /\ pending' = pending \cup {l}
      BY <2>1 DEF Establish
    <3>2. l \notin Used
      BY <3>1 DEF Used
    <3> QED  BY <1>0, <2>0, <3>1, <3>2, LinkFacts DEF Used
  <2>2. CASE Connect(l) \/ Accept(l)
    <3>1. /\ pending' = pending
          /\ \/ life' = [life EXCEPT ![EstEnd(l)] = "up"]
             \/ life' = [life EXCEPT ![AccEnd(l)] = "up"]
      BY <2>2 DEF Connect, Accept
    <3> QED  BY <1>0, <2>0, <3>1, LinkFacts DEF Used
  <2>3. CASE Activate(l)
    BY <2>3 DEF Activate, Used
  <2> QED  BY <1>2, <2>1, <2>2, <2>3, NothingDue DEF LinkStep
<1>3. ASSUME NEW e \in End, NEW m, NEW d, NEW h, NEW by, Handle(e, m, d, h, by)
      PROVE  UNCHANGED <<life, pending>>
  BY <1>0, <1>3 DEF Handle
<1>4. ASSUME NEW l \in Link, DrainHeld(l)  PROVE UNCHANGED <<life, pending>>
  BY <1>3, <1>4, LinkFacts DEF DrainHeld
<1>5. ASSUME NEW k \in Client, ClientStep(k)  PROVE UNCHANGED <<life, pending>>
  BY <1>5 DEF ClientStep, Subscribe, Unsubscribe, Publish
<1>6. ASSUME NEW e \in End, ReceiveStep(e)  PROVE UNCHANGED <<life, pending>>
  <2>1. CASE NodeReceives(e)
    BY <1>3, <2>1 DEF NodeReceives
  <2> QED  BY <1>6, <2>1, NothingDue DEF ReceiveStep, ClientReceives, Hold, ResumeRelay
<1> QED  BY <1>1, <1>2, <1>4, <1>5, <1>6, NothingDue DEF Next, vars

-----------------------------------------------------------------------------
(* What is due of p is on its way, or has been got; p is nowhere before it is
   made, and spreads over a bus of which nothing is lost while anything is due. *)
DueInv ==
  \A p \in Pub :
    IF p \in published
    THEN \/ due[p] = {}
         \/ /\ \A c \in due[p] : got[c][p] # 0 \/ Coming(p, c)
            /\ \/ Absent(p) /\ \A c \in Client : got[c][p] < 2
               \/ \E V : Spread(p, V)
    ELSE Absent(p) /\ due[p] = {} /\ \A c \in Client : got[c][p] = 0

(* A step keeps p on its way to those that it is still due to. *)
LEMMA DueStep ==
  ASSUME MaxOverflows = 0, TypeOK, CheckInv, GoneInv, NeighbourInv, TreeInv, ClientInv,
         TagsHere, ClientsGet, DueInv, [Next]_vars
  PROVE  DueInv'
<1> SUFFICES ASSUME NEW p \in Pub
             PROVE  IF p \in published'
                    THEN \/ due'[p] = {}
                         \/ /\ \A c \in due'[p] : got'[c][p] # 0 \/ Coming(p, c)'
                            /\ \/ Absent(p)' /\ \A c \in Client : got'[c][p] < 2
                               \/ \E V : Spread(p, V)'
                    ELSE Absent(p)' /\ due'[p] = {} /\ \A c \in Client : got'[c][p] = 0
  BY DEF DueInv
<1>0. NoneSuspended /\ ToldInv /\ due \in [Pub -> SUBSET Client]
  BY DEF NeighbourInv, TypeOK, ClientsTyped
<1>1. ASSUME NEW k \in Client, NEW l \in Link, Publish(k, l, p)
      PROVE  /\ p \in published' /\ \E V : Spread(p, V)'
             /\ \A c \in due'[p] : got'[c][p] # 0 \/ Coming(p, c)'
  <2>1. p \notin published /\ published' = published \cup {p}
    BY <1>1 DEF Publish
  <2>2. Absent(p) /\ \A d \in Client : got[d][p] = 0
    BY <2>1 DEF DueInv
  <2>3. Spread(p, {k})'
    BY <1>1, <2>2, PublishSpread
  <2>4. ASSUME NEW c \in due'[p]  PROVE got'[c][p] # 0 \/ Coming(p, c)'
    <3>1. CASE c = k
      BY <1>1, <2>2, <2>4, <3>1, PublisherGets
    <3>2. CASE c # k
      BY <1>0, <1>1, <2>4, <3>2, PublishComing
    <3> QED  BY <3>1, <3>2
  <2> QED  BY <2>1, <2>3, <2>4
<1>2. ASSUME ~ \E k \in Client, l \in Link : Publish(k, l, p)
      PROVE  /\ p \in published' <=> p \in published
             /\ due'[p] \subseteq due[p]
             /\ Absent(p) => Absent(p)' /\ \A c \in Client : got'[c][p] = got[c][p]
  BY <1>2, PublishedStep, DueShrinks, AbsentStays DEF SameGot
<1>3. ASSUME p \in published, NEW c \in due'[p], c \in due[p]
      PROVE  got'[c][p] # 0 \/ Coming(p, c)'
  <2>1. c \in Client /\ (got[c][p] # 0 \/ Coming(p, c))
    BY <1>0, <1>3 DEF DueInv
  <2>2. CASE got[c][p] # 0
    BY <2>1, <2>2, GotGrows
  <2>3. CASE got[c][p] = 0
    BY <1>0, <1>3, <2>1, <2>3, ComingStep
  <2> QED  BY <2>2, <2>3
<1>4. ASSUME p \in published, NEW c \in due'[p], NEW V, Spread(p, V)
      PROVE  \E W : Spread(p, W)'
  BY <1>4, NoneLost, SpreadStep
<1>5. CASE \E k \in Client, l \in Link : Publish(k, l, p)
  BY <1>1, <1>5
<1>6. CASE ~ \E k \in Client, l \in Link : Publish(k, l, p)
  <2>1. CASE p \notin published
    BY <1>2, <1>6, <2>1 DEF DueInv
  <2>2. CASE p \in published /\ due'[p] # {}
    <3>1. PICK c \in due'[p] : TRUE
      BY <2>2
    <3>2. \A d \in due'[p] : got'[d][p] # 0 \/ Coming(p, d)'
      BY <1>2, <1>3, <1>6, <2>2
    <3>3. \/ Absent(p) /\ \A d \in Client : got[d][p] < 2
          \/ \E V : Spread(p, V)
      BY <1>2, <1>6, <2>2 DEF DueInv
    <3> QED  BY <1>2, <1>4, <1>6, <2>2, <3>1, <3>2, <3>3
  <2>3. CASE p \in published /\ due'[p] = {}
    BY <1>2, <1>6, <2>3
  <2> QED  BY <2>1, <2>2, <2>3
<1> QED  BY <1>5, <1>6

LEMMA DueInit == Init => DueInv
<1> SUFFICES ASSUME Init PROVE DueInv
  OBVIOUS
<1>1. ~ \E i \in DOMAIN <<>> : TRUE
  OBVIOUS
<1>2. \A p \in Pub : Absent(p)
  BY <1>1 DEF Init, Absent, Has, NoRelay
<1> QED  BY <1>2 DEF Init, DueInv

(* Once nothing of p is under way, what was due of it has come. *)
LEMMA DueIsGot ==
  ASSUME TypeOK, DueInv
  PROVE  DueIsDelivered
<1> SUFFICES ASSUME NEW p \in published, ~ UnderWay(p), NEW c \in due[p]
             PROVE  got[c][p] = 1
  BY DEF DueIsDelivered
<1>1. p \in Pub /\ c \in Client /\ got[c][p] \in 0 .. 2
  BY DEF TypeOK, ClientsTyped
<1>2. Absent(p)
  BY <1>1, AbsentIs
<1>3. ~ Coming(p, c)
  BY <1>2 DEF Coming, Follows, Absent
<1>4. got[c][p] # 0 /\ got[c][p] < 2
  <2>1. got[c][p] # 0
    BY <1>1, <1>3 DEF DueInv
  <2>2. \/ \A d \in Client : got[d][p] < 2
        \/ \E V : Spread(p, V)
    BY <1>1 DEF DueInv
  <2> QED  BY <1>1, <2>1, <2>2 DEF Spread
<1> QED  BY <1>1, <1>4

(* On a bus of any size and shape: a publish that is made while the bus is at
   rest is delivered to every client on it that wants it and goes on wanting it,
   exactly once, whatever is subscribed, unsubscribed, connected and published
   while it is under way, unless a connection is lost meanwhile. *)
THEOREM DueGetsThere ==
  ASSUME ~ Buffered, MaxOverflows = 0
  PROVE  Spec => []DueIsDelivered
<1> DEFINE I == /\ TypeOK /\ CheckInv /\ GoneInv /\ NeighbourInv /\ TreeInv /\ ClientInv
                /\ TagsHere /\ ClientsGet /\ DueInv
<1>1. Init => I
  <2>1. Init => TypeOK
    BY RoutingBoundsAssumption
       DEF Init, TypeOK, LinksTyped, MessagesTyped, ClientsTyped, CountersTyped, Relay
  <2>2. Init => TagsHere /\ ClientsGet
    BY DEF Init, TagsHere, ClientsGet, ToClients, OnlyPubs
  <2> QED
    BY <2>1, <2>2, CheckInit, GoneInit, NeighbourInit, TreeInit, ClientsInit, DueInit
<1>2. I /\ [Next]_vars => I'
  <2> SUFFICES ASSUME I, [Next]_vars PROVE I'
    OBVIOUS
  <2>1. TypeOK' /\ CheckInv' /\ GoneInv' /\ NeighbourInv'
    BY TypeStep, CheckStep, GoneStep, NeighbourStep
  <2>2. TreeInv' /\ ClientInv' /\ TagsHere' /\ ClientsGet'
    BY TypeStep, TreeStep, ClientsStep, HereStep, ClientsGetStep DEF NeighbourInv
  <2>3. DueInv'
    BY DueStep
  <2> QED  BY <2>1, <2>2, <2>3
<1>3. I => DueIsDelivered
  BY DueIsGot
<1> QED  BY <1>1, <1>2, <1>3, PTL DEF Spec
=============================================================================
