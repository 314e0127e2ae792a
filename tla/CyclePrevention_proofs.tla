----------------------- MODULE CyclePrevention_proofs -----------------------
(***************************************************************************)
(* What holds of the cycle check for any nodes, links and bounds.           *)
(*                                                                         *)
(* The first part is the bookkeeping: its types, that a node runs one check *)
(* at a time, that _checking is set exactly while a query of the node       *)
(* itself is open, and that no query waits in vain.  The second part is     *)
(* what it is for: no interleaving of checks closes a cycle.  The third is  *)
(* that what is refused because of the tree would have closed one.          *)
(***************************************************************************)
EXTENDS CyclePrevention, Ends_proofs, TLAPS, SequenceTheorems

-----------------------------------------------------------------------------
(* The ends of a link are ends, and the nodes they are at are nodes. *)
LEMMA EndTypes ==
  /\ \A l \in Link : EstEnd(l) \in End /\ AccEnd(l) \in End
  /\ \A l \in Link : At(EstEnd(l)) = Est[l] /\ EstEnd(l).link = l
  /\ \A e \in End : Peer(e) \in End /\ At(e) \in Node /\ e.link \in Link
BY LinkEndsAssumption DEF End, EstEnd, AccEnd, Peer, At

(* Combining a reply gives a query again, and does not change whose it is. *)
LEMMA RepliedFacts ==
  ASSUME NEW query \in Query, NEW e \in End, NEW result \in Result
  PROVE  /\ Replied(query, e, result) \in Query
         /\ Replied(query, e, result).own = query.own
         /\ Replied(query, e, result).stage = query.stage
BY DEF Replied, Query, Result, NoResult

(* A query that is opened, and a forgotten one, are queries. *)
LEMMA OpenQueryFacts ==
  /\ \A q \in QueryId : NoQuery(q) \in Query /\ ~ NoQuery(q).own
  /\ \A stage \in {"opened", "sent"}, own \in BOOLEAN, source \in End,
        targets \in SUBSET End :
       LET query == OpenQuery(stage, own, source, targets)
       IN query \in Query /\ query.own = own /\ query.stage = stage
BY EndTypes DEF NoQuery, OpenQuery, Query, QueryId, NoResult

(* Queueing a message on some ends keeps the channels sequences of messages. *)
LEMMA SentType ==
  ASSUME chan \in [End -> Seq(Message)], NEW targets, NEW m \in Message
  PROVE  Sent(targets, m) \in [End -> Seq(Message)]
BY DEF Sent

(* Taking the first message of a channel keeps the channels' type. *)
LEMMA TakenType ==
  ASSUME NEW c \in [End -> Seq(Message)], NEW e \in End, c[e] # <<>>
  PROVE  [c EXCEPT ![e] = Tail(@)] \in [End -> Seq(Message)]
OBVIOUS

(* The first message of a channel is a message of the type it says. *)
LEMMA ArrivesFacts ==
  ASSUME TypeOK, NEW e \in End, NEW type, Arrives(e, type)
  PROVE  /\ chan[Peer(e)] # <<>>
         /\ Head(chan[Peer(e)]) \in Message
         /\ Head(chan[Peer(e)]).type = type
BY EndTypes DEF TypeOK, Arrives

(* The ends that a node may ask are ends. *)
LEMMA ActiveNodeEndsType == \A n : ActiveNodeEnds(n) \in SUBSET End
BY DEF ActiveNodeEnds

(* Dropping an end keeps the types, and does not open or forget a query. *)
LEMMA DropFacts ==
  ASSUME TypeOK, NEW e \in End, Drop(e)
  PROVE  /\ life' \in [End -> {"none", "up", "down"}]
         /\ known' \subseteq End
         /\ pending' \subseteq Link
         /\ chan' \in [End -> Seq(Message)]
         /\ queries' \in [Node -> [QueryId -> Query]]
         /\ \A n \in Node, q \in QueryId :
              /\ queries'[n][q].own = queries[n][q].own
              /\ queries'[n][q].stage = queries[n][q].stage
<1> USE EndTypes DEF TypeOK, Drop
<1>1. life' \in [End -> {"none", "up", "down"}]
  OBVIOUS
<1>2. known' \subseteq End /\ pending' \subseteq Link
  OBVIOUS
<1>3. chan' \in [End -> Seq(Message)]
  <2>1. <<>> \in Seq(Message)
    OBVIOUS
  <2>2. QED
    BY <2>1
<1>4. "not_found" \in Result
  BY DEF Result
<1>5. \A n \in Node, q \in QueryId :
        queries[n][q] \in Query
  OBVIOUS
<1>6. \A n \in Node, q \in QueryId :
        queries'[n][q] = IF n = At(e) THEN Replied(queries[n][q], e, "not_found")
                         ELSE queries[n][q]
  OBVIOUS
<1>7. \A n \in Node, q \in QueryId :
        /\ queries'[n][q] \in Query
        /\ queries'[n][q].own = queries[n][q].own
        /\ queries'[n][q].stage = queries[n][q].stage
  BY <1>4, <1>5, <1>6, RepliedFacts
<1>8. queries' \in [Node -> [QueryId -> Query]]
  <2>1. [q \in QueryId |-> Replied(queries[At(e)][q], e, "not_found")]
          \in [QueryId -> Query]
    BY <1>4, <1>5, RepliedFacts
  <2>2. QED
    BY <2>1
<1>9. QED
  BY <1>1, <1>2, <1>3, <1>7, <1>8
-----------------------------------------------------------------------------
LEMMA InitType == Init => TypeOK
<1> SUFFICES ASSUME Init PROVE TypeOK
  OBVIOUS
<1>1. life \in [End -> {"none", "up", "down"}] /\ known \subseteq End
  BY DEF Init
<1>2. chan \in [End -> Seq(Message)]
  BY DEF Init
<1>3. phase \in [Link -> Phase] /\ pending \subseteq Link
  BY DEF Init, Phase
<1>4. attempt \in [Link -> 0 .. MaxAttempts - 1] /\ outcome \in [Link -> Result]
  BY BoundsAssumption DEF Init, Result
<1>5. checking \in [Node -> BOOLEAN] /\ losses \in 0 .. MaxLosses
  BY BoundsAssumption DEF Init
<1>6. queries \in [Node -> [QueryId -> Query]]
  BY OpenQueryFacts DEF Init
<1>7. QED
  BY <1>1, <1>2, <1>3, <1>4, <1>5, <1>6 DEF TypeOK

(* Connections that are made, accepted or lost keep the types. *)
LEMMA ConnectionType ==
  ASSUME TypeOK, NEW l \in Link, NEW e \in End,
         Establish(l) \/ Accept(l) \/ Lose(e) \/ NoticeLoss(e)
  PROVE  TypeOK'
<1> USE EndTypes DEF TypeOK
<1>0. <<[type |-> "hello"]>> \in Seq(Message) /\ <<>> \in Seq(Message)
  BY DEF Message
<1>1. CASE Establish(l)
  BY <1>0, <1>1 DEF Establish, Phase
<1>2. CASE Accept(l)
  BY <1>0, <1>2 DEF Accept
<1>3. CASE Lose(e)
  <2>1. losses' \in 0 .. MaxLosses
    BY <1>3, BoundsAssumption DEF Lose
  <2>2. QED
    BY <1>3, <2>1, DropFacts DEF Lose
<1>4. CASE NoticeLoss(e)
  BY <1>4, DropFacts DEF NoticeLoss
<1>5. QED
  BY <1>1, <1>2, <1>3, <1>4

(* A refusal keeps the types. *)
LEMMA RefuseType ==
  ASSUME TypeOK, NEW l \in Link, NEW how \in {"refused", "no hello", "undetermined"},
         Refuse(l, how)
  PROVE  TypeOK'
BY EndTypes, DropFacts DEF TypeOK, Refuse, Phase

(* The query of an attempt is a query ID. *)
LEMMA OwnQueryId ==
  ASSUME TypeOK, NEW l \in Link
  PROVE  [link |-> l, attempt |-> attempt[l]] \in QueryId
BY DEF TypeOK, QueryId

(* A check that waits for its next attempt has one left. *)
DelayBound == \A l \in Link : phase[l] = "delay" => attempt[l] < MaxAttempts - 1

(* Every step of a check keeps the types. *)
LEMMA CheckType ==
  ASSUME TypeOK, DelayBound, NEW l \in Link, CheckStep(l)
  PROVE  TypeOK'
<1> DEFINE n == Est[l]
           q == [link |-> l, attempt |-> attempt[l]]
<1> USE EndTypes, OwnQueryId, OpenQueryFacts
<1>1. CASE \/ HelloTimeout(l) \/ RefuseKnownPeer(l) \/ RefuseCycle(l) \/ GiveUp(l)
  BY <1>1, RefuseType DEF HelloTimeout, RefuseKnownPeer, RefuseCycle, GiveUp
<1>2. CASE AcquireLock(l) \/ PeerIdentified(l) \/ Retry(l)
  <2>1. \E p \in Phase : phase' = [phase EXCEPT ![l] = p]
    BY <1>2 DEF AcquireLock, PeerIdentified, Retry, Phase
  <2>2. UNCHANGED <<life, chan, known, pending, attempt, outcome, checking,
                    queries, losses>>
    BY <1>2 DEF AcquireLock, PeerIdentified, Retry
  <2>3. QED
    BY <2>1, <2>2 DEF TypeOK
<1>3. CASE NobodyToAsk(l)
  BY <1>3 DEF TypeOK, NobodyToAsk, Phase, Result
<1>4. CASE AskOwnQuery(l)
  <2>1. [type |-> "query", id |-> q] \in Message
    BY DEF Message
  <2>2. chan' \in [End -> Seq(Message)]
    BY <1>4, <2>1, SentType DEF TypeOK, AskOwnQuery
  <2>3. OpenQuery("sent", TRUE, EstEnd(l), ActiveNodeEnds(n)) \in Query
    BY ActiveNodeEndsType
  <2>4. queries' \in [Node -> [QueryId -> Query]]
    BY <1>4, <2>3 DEF TypeOK, AskOwnQuery
  <2>5. QED
    BY <1>4, <2>2, <2>4 DEF TypeOK, AskOwnQuery, Phase
<1>5. CASE OwnQueryDone(l)
  <2>1. queries[n][q] \in Query
    BY DEF TypeOK
  <2>2. outcome' \in [Link -> Result]
    BY <1>5, <2>1 DEF TypeOK, OwnQueryDone, Query, Result, NoResult
  <2>3. queries' \in [Node -> [QueryId -> Query]]
    BY <1>5 DEF TypeOK, OwnQueryDone
  <2>4. QED
    BY <1>5, <2>2, <2>3 DEF TypeOK, OwnQueryDone, Phase
<1>6. CASE Activate(l)
  BY <1>6 DEF TypeOK, Activate, Phase
<1>7. CASE NextAttempt(l)
  <2>1. attempt' \in [Link -> 0 .. MaxAttempts - 1]
    BY <1>7, BoundsAssumption DEF TypeOK, DelayBound, NextAttempt
  <2>2. QED
    BY <1>7, <2>1 DEF TypeOK, NextAttempt, Phase
<1>8. CASE AbandonCheck(l)
  <2>1. queries' \in [Node -> [QueryId -> Query]]
    <3>1. CASE phase[l] = "query"
      <4>1. queries' = [queries EXCEPT ![n][q] = NoQuery(q)]
        BY <1>8, <3>1 DEF AbandonCheck
      <4>2. QED
        BY <4>1 DEF TypeOK
    <3>2. CASE phase[l] # "query"
      BY <1>8, <3>2 DEF TypeOK, AbandonCheck
    <3>3. QED
      BY <3>1, <3>2
  <2>2. checking' \in [Node -> BOOLEAN]
    BY <1>8 DEF TypeOK, AbandonCheck
  <2>3. QED
    BY <1>8, <2>1, <2>2 DEF TypeOK, AbandonCheck, Phase
<1>9. QED
  BY <1>1, <1>2, <1>3, <1>4, <1>5, <1>6, <1>7, <1>8 DEF CheckStep

(* Messages that are received keep the types. *)
LEMMA ReceiveType ==
  ASSUME TypeOK, NEW e \in End, ReceiveStep(e)
  PROVE  TypeOK'
<1> USE EndTypes
<1>1. CASE ReceiveHello(e)
  <2>1. chan' \in [End -> Seq(Message)]
    BY <1>1, TakenType DEF TypeOK, ReceiveHello, Arrives
  <2>2. QED
    BY <1>1, <2>1 DEF TypeOK, ReceiveHello
<1>2. CASE AnswerQuery(e)
  <2>1. Head(chan[Peer(e)]).id \in QueryId /\ chan[Peer(e)] # <<>>
    BY <1>2, ArrivesFacts DEF AnswerQuery, QueryArrives, Message
  <2>2. PICK result \in Result :
          chan' = [Sent({e}, [type |-> "reply", id |-> Head(chan[Peer(e)]).id,
                              result |-> result]) EXCEPT ![Peer(e)] = Tail(@)]
    BY <1>2 DEF AnswerQuery, AnswerNow, Result, NoResult
  <2>3. DEFINE m == [type |-> "reply", id |-> Head(chan[Peer(e)]).id,
                     result |-> result]
  <2>4. m \in Message
    BY <2>1 DEF Message
  <2>5. Sent({e}, m) \in [End -> Seq(Message)]
    BY <2>4, SentType DEF TypeOK
  <2>6. Sent({e}, m)[Peer(e)] # <<>>
    <3>1. Peer(e) # e
      BY DEF Peer, End, EstEnd, AccEnd
    <3>2. QED
      BY <2>1, <3>1 DEF Sent
  <2>7. chan' \in [End -> Seq(Message)]
    BY <2>2, <2>5, <2>6, TakenType
  <2>8. QED
    BY <1>2, <2>7 DEF TypeOK, AnswerQuery
<1>3. CASE ForwardQuery(e)
  <2>1. Head(chan[Peer(e)]).id \in QueryId /\ chan[Peer(e)] # <<>>
    BY <1>3, ArrivesFacts DEF ForwardQuery, QueryArrives, Message
  <2>2. chan' \in [End -> Seq(Message)]
    BY <1>3, <2>1, TakenType DEF TypeOK, ForwardQuery
  <2>3. OpenQuery("opened", FALSE, e, ActiveNodeEnds(At(e)) \ {e}) \in Query
    BY OpenQueryFacts, ActiveNodeEndsType
  <2>4. queries' \in [Node -> [QueryId -> Query]]
    BY <1>3, <2>1, <2>3 DEF TypeOK, ForwardQuery
  <2>5. QED
    BY <1>3, <2>2, <2>4 DEF TypeOK, ForwardQuery
<1>4. CASE ReceiveReply(e)
  <2>1. DEFINE m == Head(chan[Peer(e)])
  <2>2. m.id \in QueryId /\ m.result \in Result /\ chan[Peer(e)] # <<>>
    BY <1>4, ArrivesFacts DEF ReceiveReply, Message
  <2>3. chan' \in [End -> Seq(Message)]
    BY <1>4, <2>2, TakenType DEF TypeOK, ReceiveReply
  <2>4. Replied(queries[At(e)][m.id], e, m.result) \in Query
    BY <2>2, RepliedFacts DEF TypeOK
  <2>5. queries' \in [Node -> [QueryId -> Query]]
    BY <1>4, <2>2, <2>4 DEF TypeOK, ReceiveReply
  <2>6. QED
    BY <1>4, <2>3, <2>5 DEF TypeOK, ReceiveReply
<1>5. QED
  BY <1>1, <1>2, <1>3, <1>4 DEF ReceiveStep

(* Queries that are forwarded, and their replies, keep the types. *)
LEMMA ForwardType ==
  ASSUME TypeOK, NEW n \in Node, NEW q \in QueryId, ForwardStep(n, q)
  PROVE  TypeOK'
<1>1. CASE SendForward(n, q)
  <2>1. [type |-> "query", id |-> q] \in Message
    BY DEF Message
  <2>2. chan' \in [End -> Seq(Message)]
    BY <1>1, <2>1, SentType DEF TypeOK, SendForward
  <2>3. [queries[n][q] EXCEPT !.stage = "sent"] \in Query
    <3>1. queries[n][q] \in Query
      BY DEF TypeOK
    <3>2. QED
      BY <3>1 DEF Query
  <2>4. queries' \in [Node -> [QueryId -> Query]]
    BY <1>1, <2>3 DEF TypeOK, SendForward
  <2>5. QED
    BY <1>1, <2>2, <2>4 DEF TypeOK, SendForward
<1>2. CASE ReplyForward(n, q)
  <2>1. queries[n][q].result \in Result \cup {NoResult}
    BY DEF TypeOK, Query
  <2>2. PICK result \in Result :
          chan' = Sent({queries[n][q].source},
                       [type |-> "reply", id |-> q, result |-> result])
    BY <1>2, <2>1 DEF ReplyForward, Result, NoResult
  <2>3. [type |-> "reply", id |-> q, result |-> result] \in Message
    BY DEF Message
  <2>4. chan' \in [End -> Seq(Message)]
    BY <2>2, <2>3, SentType DEF TypeOK
  <2>5. queries' \in [Node -> [QueryId -> Query]]
    BY <1>2, OpenQueryFacts DEF TypeOK, ReplyForward
  <2>6. QED
    BY <1>2, <2>4, <2>5 DEF TypeOK, ReplyForward
<1>3. QED
  BY <1>1, <1>2 DEF ForwardStep

-----------------------------------------------------------------------------
(* The inductive invariant.  A query of the node's own is open exactly while
   the check it belongs to is in phase "query", at the attempt it was made
   for; with one check per node, that makes _checking exact. *)
OwnQueryInv ==
  \A n \in Node, q \in QueryId :
    queries[n][q].own =>
      /\ Est[q.link] = n
      /\ phase[q.link] = "query"
      /\ attempt[q.link] = q.attempt
      /\ queries[n][q].stage = "sent"

AskingInv ==
  \A l \in Link :
    phase[l] = "query" =>
      /\ queries[Est[l]][[link |-> l, attempt |-> attempt[l]]].own
      /\ checking[Est[l]]

CheckingInv ==
  \A n \in Node :
    checking[n] => \E l \in Link : Est[l] = n /\ phase[l] = "query"

Bookkeeping ==
  /\ DelayBound
  /\ OneCheckPerNode
  /\ OwnQueryInv
  /\ AskingInv
  /\ CheckingInv

IInv == TypeOK /\ Bookkeeping

(* Steps that leave the checks and the own queries alone. *)
LEMMA SameChecks ==
  ASSUME IInv, TypeOK', UNCHANGED <<phase, attempt, checking>>,
         \A n \in Node, q \in QueryId :
           /\ queries'[n][q].own = queries[n][q].own
           /\ queries[n][q].own => queries'[n][q].stage = "sent"
  PROVE  Bookkeeping'
<1>1. DelayBound' /\ OneCheckPerNode'
  BY DEF IInv, Bookkeeping, DelayBound, OneCheckPerNode
<1>2. OwnQueryInv' /\ CheckingInv'
  BY DEF IInv, Bookkeeping, OwnQueryInv, CheckingInv
<1>3. AskingInv'
  BY OwnQueryId, LinkEndsAssumption DEF IInv, Bookkeeping, AskingInv
<1>4. QED
  BY <1>1, <1>2, <1>3 DEF Bookkeeping

(* Steps of one check that neither open nor end an own query, and do not take
   the lock. *)
LEMMA OtherPhase ==
  ASSUME IInv, TypeOK', NEW l \in Link, NEW p \in Phase,
         phase' = [phase EXCEPT ![l] = p],
         phase[l] # "query", p # "query",
         p \in LockPhase => phase[l] \in LockPhase,
         p = "delay" => attempt'[l] < MaxAttempts - 1,
         \A k \in Link \ {l} : attempt'[k] = attempt[k],
         UNCHANGED checking,
         \A n \in Node, q \in QueryId :
           /\ queries'[n][q].own = queries[n][q].own
           /\ queries'[n][q].stage = queries[n][q].stage
  PROVE  Bookkeeping'
<1> USE DEF IInv, Bookkeeping
<1>1. \A k \in Link : phase'[k] = IF k = l THEN p ELSE phase[k]
  BY DEF TypeOK
<1>2. DelayBound'
  BY <1>1 DEF DelayBound
<1>3. OneCheckPerNode'
  BY <1>1 DEF OneCheckPerNode
<1>4. OwnQueryInv'
  BY <1>1 DEF OwnQueryInv, QueryId
<1>5. AskingInv'
  BY <1>1, OwnQueryId, LinkEndsAssumption DEF AskingInv
<1>6. CheckingInv'
  BY <1>1 DEF CheckingInv
<1>7. QED
  BY <1>2, <1>3, <1>4, <1>5, <1>6

(* The end of the own query of a check: answered, timed out or abandoned. *)
LEMMA OwnQueryEnds ==
  ASSUME IInv, TypeOK', NEW l \in Link, NEW p \in Phase,
         phase[l] = "query", p \notin {"query", "delay"},
         phase' = [phase EXCEPT ![l] = p],
         checking' = [checking EXCEPT ![Est[l]] = FALSE],
         queries' = [queries EXCEPT
           ![Est[l]][[link |-> l, attempt |-> attempt[l]]] =
              NoQuery([link |-> l, attempt |-> attempt[l]])],
         UNCHANGED attempt
  PROVE  Bookkeeping'
<1> USE DEF IInv, Bookkeeping
<1> DEFINE own == [link |-> l, attempt |-> attempt[l]]
<1>1. \A k \in Link : phase'[k] = IF k = l THEN p ELSE phase[k]
  BY DEF TypeOK
<1>2. \A n \in Node, q \in QueryId :
        queries'[n][q] = IF n = Est[l] /\ q = own THEN NoQuery(own)
                         ELSE queries[n][q]
  BY OwnQueryId DEF TypeOK
<1>3. \A k \in Link : phase[k] = "query" /\ Est[k] = Est[l] => k = l
  BY DEF OneCheckPerNode, LockPhase
<1>4. DelayBound'
  BY <1>1 DEF DelayBound
<1>5. OneCheckPerNode'
  BY <1>1 DEF OneCheckPerNode, LockPhase
<1>6. OwnQueryInv'
  <2>1. SUFFICES ASSUME NEW n \in Node, NEW q \in QueryId, queries'[n][q].own
                 PROVE  /\ Est[q.link] = n
                        /\ phase'[q.link] = "query"
                        /\ attempt[q.link] = q.attempt
                        /\ queries'[n][q].stage = "sent"
    BY DEF OwnQueryInv
  <2>2. ~ (n = Est[l] /\ q = own)
    BY <1>2, <2>1, OpenQueryFacts, OwnQueryId
  <2>3. queries'[n][q] = queries[n][q]
    BY <1>2, <2>2
  <2>4. /\ Est[q.link] = n
        /\ phase[q.link] = "query"
        /\ attempt[q.link] = q.attempt
        /\ queries[n][q].stage = "sent"
    BY <2>1, <2>3 DEF OwnQueryInv
  <2>5. q.link # l
    BY <2>2, <2>4 DEF QueryId
  <2>6. QED
    BY <1>1, <2>3, <2>4, <2>5 DEF QueryId
<1>7. AskingInv'
  <2>1. SUFFICES ASSUME NEW k \in Link, phase'[k] = "query"
                 PROVE  /\ queries'[Est[k]][[link |-> k, attempt |-> attempt[k]]].own
                        /\ checking'[Est[k]]
    BY DEF AskingInv
  <2>2. k # l /\ phase[k] = "query"
    BY <1>1, <2>1
  <2>3. Est[k] # Est[l]
    BY <1>3, <2>2
  <2>4. QED
    BY <1>2, <2>2, <2>3, OwnQueryId DEF AskingInv, TypeOK
<1>8. CheckingInv'
  <2>1. SUFFICES ASSUME NEW n \in Node, checking'[n]
                 PROVE  \E k \in Link : Est[k] = n /\ phase'[k] = "query"
    BY DEF CheckingInv
  <2>2. n # Est[l] /\ checking[n]
    BY <2>1 DEF TypeOK
  <2>3. QED
    BY <1>1, <2>2 DEF CheckingInv
<1>9. QED
  BY <1>4, <1>5, <1>6, <1>7, <1>8

(* The lock is taken by a check when no other check of its node holds it. *)
LEMMA LockTaken ==
  ASSUME IInv, TypeOK', NEW l \in Link, AcquireLock(l)
  PROVE  Bookkeeping'
<1> USE DEF IInv, Bookkeeping, AcquireLock
<1>1. \A k \in Link : phase'[k] = IF k = l THEN "hello" ELSE phase[k]
  BY DEF TypeOK
<1>2. DelayBound'
  BY <1>1 DEF DelayBound
<1>3. OneCheckPerNode'
  BY <1>1 DEF OneCheckPerNode
<1>4. OwnQueryInv'
  BY <1>1 DEF OwnQueryInv, QueryId
<1>5. AskingInv'
  BY <1>1, OwnQueryId DEF AskingInv
<1>6. CheckingInv'
  BY <1>1 DEF CheckingInv
<1>7. QED
  BY <1>2, <1>3, <1>4, <1>5, <1>6

(* An own query is opened. *)
LEMMA OwnQueryOpened ==
  ASSUME IInv, TypeOK', NEW l \in Link, AskOwnQuery(l)
  PROVE  Bookkeeping'
<1> USE DEF IInv, Bookkeeping
<1> DEFINE own == [link |-> l, attempt |-> attempt[l]]
           opened == OpenQuery("sent", TRUE, EstEnd(l), ActiveNodeEnds(Est[l]))
<1>0. /\ phase[l] = "ask"
      /\ phase' = [phase EXCEPT ![l] = "query"]
      /\ checking' = [checking EXCEPT ![Est[l]] = TRUE]
      /\ queries' = [queries EXCEPT ![Est[l]][own] = opened]
  BY DEF AskOwnQuery
<1> attempt' = attempt
  BY DEF AskOwnQuery
<1>1. \A k \in Link : phase'[k] = IF k = l THEN "query" ELSE phase[k]
  BY <1>0 DEF TypeOK
<1>2. \A n \in Node, q \in QueryId :
        queries'[n][q] = IF n = Est[l] /\ q = own THEN opened ELSE queries[n][q]
  BY <1>0, OwnQueryId DEF TypeOK
<1>3. opened.own /\ opened.stage = "sent"
  BY DEF OpenQuery
<1>4. DelayBound'
  BY <1>0, <1>1 DEF DelayBound
<1>5. OneCheckPerNode'
  BY <1>0, <1>1 DEF OneCheckPerNode, LockPhase
<1>6. OwnQueryInv'
  <2>1. SUFFICES ASSUME NEW n \in Node, NEW q \in QueryId, queries'[n][q].own
                 PROVE  /\ Est[q.link] = n
                        /\ phase'[q.link] = "query"
                        /\ attempt[q.link] = q.attempt
                        /\ queries'[n][q].stage = "sent"
    BY DEF OwnQueryInv
  <2>2. CASE n = Est[l] /\ q = own
    BY <1>1, <1>2, <1>3, <2>2
  <2>3. CASE ~ (n = Est[l] /\ q = own)
    <3>1. queries'[n][q] = queries[n][q]
      BY <1>2, <2>3
    <3>2. /\ Est[q.link] = n
          /\ phase[q.link] = "query"
          /\ attempt[q.link] = q.attempt
          /\ queries[n][q].stage = "sent"
      BY <2>1, <3>1 DEF OwnQueryInv
    <3>3. QED
      BY <1>1, <3>1, <3>2 DEF QueryId
  <2>4. QED
    BY <2>2, <2>3
<1>7. AskingInv'
  <2>1. SUFFICES ASSUME NEW k \in Link, phase'[k] = "query"
                 PROVE  /\ queries'[Est[k]][[link |-> k, attempt |-> attempt[k]]].own
                        /\ checking'[Est[k]]
    BY DEF AskingInv
  <2>2. CASE k = l
    BY <1>0, <1>2, <1>3, <2>2, OwnQueryId, LinkEndsAssumption DEF TypeOK
  <2>3. CASE k # l
    <3>1. DEFINE other == [link |-> k, attempt |-> attempt[k]]
    <3>2. phase[k] = "query"
      BY <1>1, <2>1, <2>3
    <3>3. queries[Est[k]][other].own /\ checking[Est[k]]
      BY <3>2 DEF AskingInv
    <3>4. other \in QueryId /\ other # own
      BY <2>3, OwnQueryId
    <3>5. queries'[Est[k]][other] = queries[Est[k]][other]
      BY <1>2, <3>4, LinkEndsAssumption
    <3>6. checking'[Est[k]]
      BY <1>0, <3>3 DEF TypeOK
    <3>7. QED
      BY <3>3, <3>5, <3>6
  <2>4. QED
    BY <2>2, <2>3
<1>8. CheckingInv'
  BY <1>0, <1>1 DEF CheckingInv, TypeOK
<1>9. QED
  BY <1>4, <1>5, <1>6, <1>7, <1>8

-----------------------------------------------------------------------------
LEMMA InitIInv == Init => IInv
<1> SUFFICES ASSUME Init PROVE Bookkeeping
  BY InitType DEF IInv
<1>1. \A l \in Link : phase[l] \in {"idle", "accepted"}
  BY DEF Init
<1>2. \A n \in Node, q \in QueryId : ~ queries[n][q].own
  BY OpenQueryFacts DEF Init
<1>3. DelayBound /\ OneCheckPerNode /\ AskingInv
  BY <1>1 DEF DelayBound, OneCheckPerNode, AskingInv, LockPhase
<1>4. OwnQueryInv
  BY <1>2 DEF OwnQueryInv
<1>5. CheckingInv
  BY DEF Init, CheckingInv
<1>6. QED
  BY <1>3, <1>4, <1>5 DEF Bookkeeping

(* Every step keeps the types. *)
LEMMA NextType == IInv /\ [Next]_vars => TypeOK'
<1> SUFFICES ASSUME IInv, [Next]_vars PROVE TypeOK'
  OBVIOUS
<1>0. TypeOK /\ DelayBound
  BY DEF IInv, Bookkeeping
<1>1. ASSUME NEW l \in Link, Establish(l) \/ Accept(l) \/ CheckStep(l)
      PROVE  TypeOK'
  BY <1>0, <1>1, ConnectionType, CheckType, EndTypes
<1>2. ASSUME NEW e \in End, Lose(e) \/ NoticeLoss(e)
      PROVE  TypeOK'
  BY <1>0, <1>2, ConnectionType, EndTypes
<1>3. ASSUME NEW e \in End, ReceiveStep(e)
      PROVE  TypeOK'
  BY <1>0, <1>3, ReceiveType
<1>4. ASSUME NEW n \in Node, NEW q \in QueryId, ForwardStep(n, q)
      PROVE  TypeOK'
  BY <1>0, <1>4, ForwardType
<1>5. CASE UNCHANGED vars
  BY <1>0, <1>5 DEF TypeOK, vars
<1>6. QED
  BY <1>1, <1>2, <1>3, <1>4, <1>5 DEF Next

(* Every step of a check keeps the bookkeeping. *)
LEMMA CheckBookkeeping ==
  ASSUME IInv, TypeOK', NEW l \in Link, CheckStep(l)
  PROVE  Bookkeeping'
<1> DEFINE own == [link |-> l, attempt |-> attempt[l]]
<1>0. TypeOK
  BY DEF IInv
<1>1. CASE AcquireLock(l)
  BY <1>1, LockTaken
<1>2. ASSUME NEW how \in {"refused", "no hello", "undetermined"}, Refuse(l, how),
             phase[l] # "query"
      PROVE  Bookkeeping'
  <2>1. \A n \in Node, q \in QueryId :
          /\ queries'[n][q].own = queries[n][q].own
          /\ queries'[n][q].stage = queries[n][q].stage
    BY <1>0, <1>2, DropFacts, EndTypes DEF Refuse
  <2>2. /\ phase' = [phase EXCEPT ![l] = how]
        /\ UNCHANGED <<attempt, checking>>
    BY <1>2 DEF Refuse
  <2>3. how \in Phase /\ how \notin LockPhase \cup {"query", "delay"}
    BY DEF Phase, LockPhase
  <2>4. QED
    BY <1>2, <2>1, <2>2, <2>3, OtherPhase
<1>3. CASE \/ HelloTimeout(l) \/ RefuseKnownPeer(l) \/ RefuseCycle(l) \/ GiveUp(l)
  BY <1>2, <1>3 DEF HelloTimeout, RefuseKnownPeer, RefuseCycle, GiveUp
<1>4. CASE PeerIdentified(l) \/ NobodyToAsk(l) \/ Activate(l)
  <2>1. PICK p \in {"ask", "answered", "accepted"} :
          phase' = [phase EXCEPT ![l] = p] /\ (p \in LockPhase => phase[l] \in LockPhase)
    BY <1>4 DEF PeerIdentified, NobodyToAsk, Activate, LockPhase
  <2>2. UNCHANGED <<attempt, checking, queries>> /\ phase[l] # "query"
    BY <1>4 DEF PeerIdentified, NobodyToAsk, Activate
  <2>3. p \in Phase
    BY DEF Phase
  <2>4. QED
    BY <2>1, <2>2, <2>3, OtherPhase
<1>5. CASE Retry(l)
  <2>1. "delay" \in Phase /\ phase[l] \in LockPhase
    BY <1>5 DEF Retry, Phase, LockPhase
  <2>2. QED
    BY <1>5, <2>1, OtherPhase DEF Retry
<1>6. CASE NextAttempt(l)
  <2>1. "ask" \in Phase /\ phase[l] \in LockPhase
    BY <1>6 DEF NextAttempt, Phase, LockPhase
  <2>2. \A k \in Link \ {l} : attempt'[k] = attempt[k]
    BY <1>0, <1>6 DEF NextAttempt, TypeOK
  <2>3. QED
    BY <1>6, <2>1, <2>2, OtherPhase DEF NextAttempt
<1>7. CASE AskOwnQuery(l)
  BY <1>7, OwnQueryOpened
<1>8. CASE OwnQueryDone(l)
  <2>1. "answered" \in Phase
    BY DEF Phase
  <2>2. QED
    BY <1>8, <2>1, OwnQueryEnds DEF OwnQueryDone
<1>9. CASE AbandonCheck(l)
  <2>1. "lost" \in Phase /\ "lost" \notin LockPhase
    BY DEF Phase, LockPhase
  <2>2. CASE phase[l] = "query"
    BY <1>9, <2>1, <2>2, OwnQueryEnds DEF AbandonCheck
  <2>3. CASE phase[l] # "query"
    BY <1>9, <2>1, <2>3, OtherPhase DEF AbandonCheck
  <2>4. QED
    BY <2>2, <2>3
<1>10. QED
  BY <1>1, <1>3, <1>4, <1>5, <1>6, <1>7, <1>8, <1>9 DEF CheckStep

(* Messages leave the checks alone: a reply does not end a query, and a query
   that is to be forwarded never takes the place of an own one. *)
LEMMA ReceiveBookkeeping ==
  ASSUME IInv, TypeOK', NEW e \in End, ReceiveStep(e)
  PROVE  Bookkeeping'
<1>0. TypeOK /\ OwnQueryInv
  BY DEF IInv, Bookkeeping
<1>1. CASE ReceiveHello(e) \/ AnswerQuery(e)
  <2>1. UNCHANGED <<phase, attempt, checking, queries>>
    BY <1>1 DEF ReceiveHello, AnswerQuery
  <2>2. QED
    BY <1>0, <2>1, SameChecks DEF OwnQueryInv
<1>2. CASE ForwardQuery(e)
  <2>1. DEFINE i == Head(chan[Peer(e)]).id
               opened == OpenQuery("opened", FALSE, e, ActiveNodeEnds(At(e)) \ {e})
  <2>2. i \in QueryId /\ At(e) \in Node
    BY <1>0, <1>2, ArrivesFacts, EndTypes DEF ForwardQuery, QueryArrives, Message
  <2>3. queries[At(e)][i].stage = "none"
    BY <1>2 DEF ForwardQuery, AnswerNow, NoResult
  <2>4. ~ queries[At(e)][i].own /\ queries[At(e)][i].own \in BOOLEAN
    <3>1. queries[At(e)][i] \in Query
      BY <1>0, <2>2 DEF TypeOK
    <3>2. QED
      BY <1>0, <2>2, <2>3, <3>1 DEF OwnQueryInv, Query
  <2>5. opened.own = FALSE
    BY DEF OpenQuery
  <2>6. queries' = [queries EXCEPT ![At(e)][i] = opened]
    BY <1>2 DEF ForwardQuery
  <2>7. UNCHANGED <<phase, attempt, checking>>
    BY <1>2 DEF ForwardQuery
  <2>8. ASSUME NEW m \in Node, NEW k \in QueryId
        PROVE  /\ queries'[m][k].own = queries[m][k].own
               /\ queries[m][k].own => queries'[m][k].stage = "sent"
    <3>1. CASE m = At(e) /\ k = i
      BY <1>0, <2>2, <2>4, <2>5, <2>6, <3>1 DEF TypeOK
    <3>2. CASE ~ (m = At(e) /\ k = i)
      <4>1. queries'[m][k] = queries[m][k]
        BY <1>0, <2>2, <2>6, <3>2 DEF TypeOK
      <4>2. QED
        BY <1>0, <4>1 DEF OwnQueryInv
    <3>3. QED
      BY <3>1, <3>2
  <2>9. QED
    BY <2>7, <2>8, SameChecks
<1>3. CASE ReceiveReply(e)
  <2>1. DEFINE r == Head(chan[Peer(e)])
  <2>2. r.id \in QueryId /\ r.result \in Result /\ At(e) \in Node
    BY <1>0, <1>3, ArrivesFacts, EndTypes DEF ReceiveReply, Message
  <2>3. /\ Replied(queries[At(e)][r.id], e, r.result).own
             = queries[At(e)][r.id].own
        /\ Replied(queries[At(e)][r.id], e, r.result).stage
             = queries[At(e)][r.id].stage
    BY <1>0, <2>2, RepliedFacts DEF TypeOK
  <2>4. queries' = [queries EXCEPT ![At(e)][r.id] = Replied(@, e, r.result)]
    BY <1>3 DEF ReceiveReply
  <2>5. UNCHANGED <<phase, attempt, checking>>
    BY <1>3 DEF ReceiveReply
  <2>6. \A m \in Node, k \in QueryId :
          /\ queries'[m][k].own = queries[m][k].own
          /\ queries'[m][k].stage = queries[m][k].stage
    BY <1>0, <2>2, <2>3, <2>4 DEF TypeOK
  <2>7. QED
    BY <1>0, <2>5, <2>6, SameChecks DEF OwnQueryInv
<1>4. QED
  BY <1>1, <1>2, <1>3 DEF ReceiveStep

(* A query that is forwarded, and its end, leave the own queries alone. *)
LEMMA ForwardBookkeeping ==
  ASSUME IInv, TypeOK', NEW n \in Node, NEW q \in QueryId, ForwardStep(n, q)
  PROVE  Bookkeeping'
<1>0. TypeOK /\ OwnQueryInv
  BY DEF IInv, Bookkeeping
<1>1. CASE SendForward(n, q)
  <2>1. /\ queries[n][q].stage = "opened"
        /\ queries' = [queries EXCEPT ![n][q].stage = "sent"]
        /\ UNCHANGED <<phase, attempt, checking>>
    BY <1>1 DEF SendForward
  <2>2. \A m \in Node, k \in QueryId :
          /\ queries'[m][k].own = queries[m][k].own
          /\ queries[m][k].own => queries'[m][k].stage = "sent"
    <3>1. SUFFICES ASSUME NEW m \in Node, NEW k \in QueryId
                   PROVE  /\ queries'[m][k].own = queries[m][k].own
                          /\ queries[m][k].own => queries'[m][k].stage = "sent"
      OBVIOUS
    <3>2. queries[m][k] \in Query
      BY <1>0 DEF TypeOK
    <3>3. CASE m = n /\ k = q
      <4>1. queries'[m][k] = [queries[m][k] EXCEPT !.stage = "sent"]
        BY <1>0, <2>1, <3>3 DEF TypeOK
      <4>2. QED
        BY <3>2, <4>1 DEF Query
    <3>4. CASE ~ (m = n /\ k = q)
      <4>1. queries'[m][k] = queries[m][k]
        BY <1>0, <2>1, <3>4 DEF TypeOK
      <4>2. QED
        BY <1>0, <4>1 DEF OwnQueryInv
    <3>5. QED
      BY <3>3, <3>4
  <2>3. QED
    BY <2>1, <2>2, SameChecks
<1>2. CASE ReplyForward(n, q)
  <2>1. /\ ~ queries[n][q].own
        /\ queries' = [queries EXCEPT ![n][q] = NoQuery(q)]
        /\ UNCHANGED <<phase, attempt, checking>>
    BY <1>2 DEF ReplyForward
  <2>2. queries[n][q].own = FALSE /\ NoQuery(q).own = FALSE
    BY <1>0, <2>1 DEF TypeOK, Query, NoQuery
  <2>3. \A m \in Node, k \in QueryId :
          /\ queries'[m][k].own = queries[m][k].own
          /\ queries[m][k].own => queries'[m][k].stage = "sent"
    <3>1. SUFFICES ASSUME NEW m \in Node, NEW k \in QueryId
                   PROVE  /\ queries'[m][k].own = queries[m][k].own
                          /\ queries[m][k].own => queries'[m][k].stage = "sent"
      OBVIOUS
    <3>2. queries'[m][k] = IF m = n /\ k = q THEN NoQuery(q) ELSE queries[m][k]
      BY <1>0, <2>1 DEF TypeOK
    <3>3. CASE m = n /\ k = q
      BY <2>2, <3>2, <3>3
    <3>4. CASE ~ (m = n /\ k = q)
      <4>1. queries'[m][k] = queries[m][k]
        BY <3>2, <3>4
      <4>2. QED
        BY <1>0, <4>1 DEF OwnQueryInv
    <3>5. QED
      BY <3>3, <3>4
  <2>4. QED
    BY <2>1, <2>3, SameChecks
<1>3. QED
  BY <1>1, <1>2 DEF ForwardStep

LEMMA NextIInv == IInv /\ [Next]_vars => IInv'
<1> SUFFICES ASSUME IInv, [Next]_vars PROVE IInv'
  OBVIOUS
<1>0. TypeOK' /\ TypeOK /\ OwnQueryInv
  BY NextType DEF IInv, Bookkeeping
<1>1. ASSUME NEW l \in Link, Establish(l)
      PROVE  Bookkeeping'
  <2>1. "lock" \in Phase /\ "lock" \notin LockPhase
    BY DEF Phase, LockPhase
  <2>2. QED
    BY <1>0, <1>1, <2>1, OtherPhase DEF Establish
<1>2. ASSUME NEW l \in Link, Accept(l)
      PROVE  Bookkeeping'
  <2>1. UNCHANGED <<phase, attempt, checking, queries>>
    BY <1>2 DEF Accept
  <2>2. QED
    BY <1>0, <2>1, SameChecks DEF OwnQueryInv
<1>3. ASSUME NEW e \in End, Lose(e) \/ NoticeLoss(e)
      PROVE  Bookkeeping'
  <2>1. UNCHANGED <<phase, attempt, checking>> /\ Drop(e)
    BY <1>3 DEF Lose, NoticeLoss
  <2>2. \A n \in Node, q \in QueryId :
          /\ queries'[n][q].own = queries[n][q].own
          /\ queries'[n][q].stage = queries[n][q].stage
    BY <1>0, <2>1, DropFacts
  <2>3. QED
    BY <1>0, <2>1, <2>2, SameChecks DEF OwnQueryInv
<1>4. ASSUME NEW l \in Link, CheckStep(l)
      PROVE  Bookkeeping'
  BY <1>0, <1>4, CheckBookkeeping
<1>5. ASSUME NEW e \in End, ReceiveStep(e)
      PROVE  Bookkeeping'
  BY <1>0, <1>5, ReceiveBookkeeping
<1>6. ASSUME NEW n \in Node, NEW q \in QueryId, ForwardStep(n, q)
      PROVE  Bookkeeping'
  BY <1>0, <1>6, ForwardBookkeeping
<1>7. ASSUME UNCHANGED vars
      PROVE  Bookkeeping'
  <2>1. UNCHANGED <<phase, attempt, checking, queries>>
    BY <1>7 DEF vars
  <2>2. QED
    BY <1>0, <2>1, SameChecks DEF OwnQueryInv
<1>8. QED
  BY <1>0, <1>1, <1>2, <1>3, <1>4, <1>5, <1>6, <1>7 DEF IInv, Next

-----------------------------------------------------------------------------
(* The variables keep their types: no attempt beyond the last, no message or
   query of an unknown shape. *)
THEOREM TypeCorrect == Spec => []TypeOK
<1>1. IInv => TypeOK
  BY DEF IInv
<1>2. QED
  BY <1>1, InitIInv, NextIInv, PTL DEF Spec

(* A node runs one check at a time, whatever is lost meanwhile: every way out
   of _check_new_connection releases the lock, and none releases it twice. *)
THEOREM OneCheckAtATime == Spec => []OneCheckPerNode
<1>1. IInv => OneCheckPerNode
  BY DEF IInv, Bookkeeping
<1>2. QED
  BY <1>1, InitIInv, NextIInv, PTL DEF Spec

(* _checking is set exactly while the node has an own query open, which is
   what its answers to the queries of other nodes depend on. *)
THEOREM CheckingIsExact == Spec => []CheckingExact
<1>1. IInv => CheckingExact
  <2>1. SUFFICES ASSUME IInv, NEW n \in Node
                 PROVE  checking[n] <=> \E q \in QueryId : queries[n][q].own
    BY DEF CheckingExact
  <2>2. TypeOK /\ OwnQueryInv /\ AskingInv /\ CheckingInv
    BY <2>1 DEF IInv, Bookkeeping
  <2>3. ASSUME checking[n]
        PROVE  \E q \in QueryId : queries[n][q].own
    <3>1. PICK l \in Link : Est[l] = n /\ phase[l] = "query"
      BY <2>2, <2>3 DEF CheckingInv
    <3>2. QED
      BY <2>2, <3>1, OwnQueryId DEF AskingInv
  <2>4. ASSUME NEW q \in QueryId, queries[n][q].own
        PROVE  checking[n]
    <3>1. q.link \in Link
      BY DEF QueryId
    <3>2. Est[q.link] = n /\ phase[q.link] = "query"
      BY <2>2, <2>4 DEF OwnQueryInv
    <3>3. QED
      BY <2>2, <3>1, <3>2 DEF AskingInv
  <2>5. checking[n] \in BOOLEAN
    BY <2>2 DEF TypeOK
  <2>6. QED
    BY <2>3, <2>4, <2>5
<1>2. QED
  BY <1>1, InitIInv, NextIInv, PTL DEF Spec

-----------------------------------------------------------------------------
(* AwaitedReplyIsComing: what it takes besides.  A connection that is not made
   has nothing under way, and the check of a pending one holds it up. *)
LifeInv ==
  /\ \A e \in End : life[e] = "none" => chan[e] = <<>>
  /\ \A l \in Link : phase[l] = "idle" =>
       life[EstEnd(l)] = "none" /\ life[AccEnd(l)] = "none"
  /\ \A l \in pending : life[EstEnd(l)] = "up"

(* What an open query waits for is connected, and so was what asked for it. *)
OpenInv ==
  \A n \in Node, q \in QueryId :
    /\ queries[n][q].stage # "none" /\ queries[n][q].result = NoResult =>
         \A e \in queries[n][q].waiting : At(e) = n /\ life[e] = "up"
    /\ queries[n][q].stage # "none" /\ ~ queries[n][q].own =>
         life[queries[n][q].source] # "none"

(* The check of q's link has not come to asking q. *)
NotAsked(q) ==
  \/ q.attempt > attempt[q.link]
  \/ q.attempt = attempt[q.link] /\ phase[q.link] \in {"idle", "lock", "hello", "ask"}

(* A query is only heard of once it was asked, so it is never asked by a node
   that is forwarding it. *)
AskedInv ==
  \A q \in QueryId : NotAsked(q) =>
    /\ \A n \in Node : queries[n][q].stage = "none"
    /\ \A e \in End : \A i \in DOMAIN chan[e] : chan[e][i] # [type |-> "query", id |-> q]


(* The two ends of a link are the peers of each other. *)
LEMMA PeerFacts ==
  ASSUME NEW e \in End
  PROVE  /\ Peer(e) \in End /\ Peer(e) # e /\ Peer(Peer(e)) = e
         /\ \A d \in End : Peer(d) = Peer(e) => d = e
         /\ e = EstEnd(e.link) \/ e = AccEnd(e.link)
BY DEF End, EstEnd, AccEnd, Peer

LEMMA LinkEnds ==
  ASSUME NEW l \in Link
  PROVE  Peer(EstEnd(l)) = AccEnd(l) /\ Peer(AccEnd(l)) = EstEnd(l)
BY DEF End, EstEnd, AccEnd, Peer

(* m is under way in c. *)
Under(c, m) == \E i \in DOMAIN c : c[i] = m
ReplyUnder(c, q) == \E i \in DOMAIN c : c[i].type = "reply" /\ c[i].id = q

LEMMA UnderAppended ==
  ASSUME NEW c \in Seq(Message), NEW m \in Message
  PROVE  /\ Under(Append(c, m), m)
         /\ \A x : Under(c, x) => Under(Append(c, m), x)
         /\ \A x : Under(Append(c, m), x) => x = m \/ Under(c, x)
<1> DEFINE r == Append(c, m)
<1>1. /\ Len(c) \in Nat /\ DOMAIN c = 1 .. Len(c) /\ DOMAIN r = 1 .. Len(c) + 1
      /\ r[Len(c) + 1] = m /\ \A i \in 1 .. Len(c) : r[i] = c[i]
  BY LenProperties, AppendProperties
<1> HIDE DEF r
<1> QED  BY <1>1 DEF Under, r

LEMMA UnderTaken ==
  ASSUME NEW c \in Seq(Message), c # <<>>
  PROVE  /\ \A x : Under(c, x) => x = Head(c) \/ Under(Tail(c), x)
         /\ \A x : Under(Tail(c), x) => Under(c, x)
         /\ Under(c, Head(c))
<1> DEFINE r == Tail(c)
<1>1. /\ Len(c) \in Nat /\ DOMAIN c = 1 .. Len(c) /\ DOMAIN r = 1 .. Len(c) - 1
      /\ \A i \in 1 .. Len(c) - 1 : r[i] = c[i + 1]
      /\ Head(c) = c[1] /\ Len(c) >= 1
  BY LenProperties, HeadTailProperties, EmptySeq
<1> HIDE DEF r
<1>2. ASSUME NEW i \in DOMAIN c, i # 1  PROVE i - 1 \in DOMAIN r /\ r[i - 1] = c[i]
  BY <1>1, <1>2
<1>3. ASSUME NEW x, Under(c, x), x # Head(c)  PROVE Under(r, x)
  <2>1. PICK i \in DOMAIN c : c[i] = x
    BY <1>3 DEF Under
  <2> QED  BY <1>1, <1>2, <1>3, <2>1 DEF Under
<1>4. ASSUME NEW x, Under(r, x)  PROVE Under(c, x)
  <2>1. PICK i \in DOMAIN r : r[i] = x
    BY <1>4 DEF Under
  <2>2. i + 1 \in DOMAIN c /\ c[i + 1] = x
    BY <1>1, <2>1
  <2> QED  BY <2>2 DEF Under
<1> QED  BY <1>1, <1>3, <1>4 DEF r, Under

LEMMA ReplyIsUnder ==
  ASSUME NEW c, NEW q
  PROVE  ReplyUnder(c, q) <=> \E x : Under(c, x) /\ x.type = "reply" /\ x.id = q
BY DEF ReplyUnder, Under

(* What a query asked of e has come to. *)
AskedOf(q) == [type |-> "query", id |-> q]
There(e, q) ==
  LET there == queries[At(Peer(e))][q]
  IN there.stage # "none" /\ ~ there.own /\ there.source = Peer(e)
Coming(e, q) ==
  \/ life[Peer(e)] = "down"
  \/ Under(chan[e], AskedOf(q))
  \/ There(e, q)
  \/ ReplyUnder(chan[Peer(e)], q)
Awaits(n, q, e) ==
  queries[n][q].stage = "sent" /\ queries[n][q].result = NoResult /\ e \in queries[n][q].waiting

AllComing == \A n \in Node, q \in QueryId, e \in End : Awaits(n, q, e) => Coming(e, q)

AwaitInv == LifeInv /\ OpenInv /\ AskedInv /\ AllComing

LEMMA AwaitedIs ==
  ASSUME TypeOK
  PROVE  AwaitedReplyIsComing <=> AllComing
<1>1. \A n \in Node, q \in QueryId : queries[n][q].waiting \subseteq End
  BY DEF TypeOK, Query
<1>2. \A e, q : Coming(e, q) <=>
        \/ life[Peer(e)] = "down"
        \/ \E i \in DOMAIN chan[e] : chan[e][i] = [type |-> "query", id |-> q]
        \/ LET there == queries[At(Peer(e))][q]
           IN there.stage # "none" /\ ~ there.own /\ there.source = Peer(e)
        \/ \E i \in DOMAIN chan[Peer(e)] :
             chan[Peer(e)][i].type = "reply" /\ chan[Peer(e)][i].id = q
  BY DEF Coming, Under, AskedOf, There, ReplyUnder
<1>3. ASSUME AwaitedReplyIsComing,
             NEW n \in Node, NEW q \in QueryId, NEW e \in End, Awaits(n, q, e)
      PROVE  Coming(e, q)
  BY <1>2, <1>3 DEF AwaitedReplyIsComing, Awaits
<1>4. ASSUME AllComing  PROVE AwaitedReplyIsComing
  <2> SUFFICES ASSUME NEW n \in Node, NEW q \in QueryId, queries[n][q].stage = "sent",
                      queries[n][q].result = NoResult, NEW e \in queries[n][q].waiting
               PROVE  \/ life[Peer(e)] = "down"
                      \/ \E i \in DOMAIN chan[e] : chan[e][i] = [type |-> "query", id |-> q]
                      \/ LET there == queries[At(Peer(e))][q]
                         IN there.stage # "none" /\ ~ there.own /\ there.source = Peer(e)
                      \/ \E i \in DOMAIN chan[Peer(e)] :
                           chan[Peer(e)][i].type = "reply" /\ chan[Peer(e)][i].id = q
    BY DEF AwaitedReplyIsComing
  <2>1. e \in End
    BY <1>1
  <2>2. Awaits(n, q, e)
    BY DEF Awaits
  <2>3. Coming(e, q)
    BY <1>4, <2>1, <2>2 DEF AllComing
  <2> QED  BY <1>2, <2>3
<1> QED  BY <1>3, <1>4 DEF AllComing

LEMMA NextOnce ==
  ASSUME TypeOK, NEW l \in Link, CheckStep(l)
  PROVE  /\ \A q \in QueryId : NotAsked(q)' => NotAsked(q)
         /\ \A k \in Link : phase'[k] = "idle" => phase[k] = "idle"
<1>1. CASE UNCHANGED attempt
  <2>1. PICK p \in Phase \ {"idle", "lock"} :
          /\ phase' = [phase EXCEPT ![l] = p]
          /\ p \in {"hello", "ask"} => phase[l] \in {"lock", "hello"}
    <3>1. CASE AcquireLock(l) \/ PeerIdentified(l) \/ Activate(l) \/ Retry(l)
      BY <3>1 DEF AcquireLock, PeerIdentified, Activate, Retry, Phase
    <3>2. CASE NobodyToAsk(l) \/ OwnQueryDone(l) \/ AskOwnQuery(l)
      <4>1. \/ phase' = [phase EXCEPT ![l] = "answered"]
            \/ phase' = [phase EXCEPT ![l] = "query"]
        BY <3>2 DEF NobodyToAsk, OwnQueryDone, AskOwnQuery
      <4>2. {"answered", "query"} \subseteq Phase \ {"idle", "lock", "hello", "ask"}
        BY DEF Phase
      <4> QED  BY ONLY <4>1, <4>2
    <3>3. CASE AbandonCheck(l)
      <4>1. phase' = [phase EXCEPT ![l] = "lost"]
        BY <3>3 DEF AbandonCheck
      <4>2. "lost" \in Phase \ {"idle", "lock", "hello", "ask"}
        BY DEF Phase
      <4> QED  BY ONLY <4>1, <4>2
    <3>4. CASE HelloTimeout(l) \/ RefuseKnownPeer(l) \/ RefuseCycle(l) \/ GiveUp(l)
      BY <3>4 DEF HelloTimeout, RefuseKnownPeer, RefuseCycle, GiveUp, Refuse, Phase
    <3>5. CASE NextAttempt(l)
      BY <1>1, <3>5 DEF NextAttempt, TypeOK
    <3> QED  BY <3>1, <3>2, <3>3, <3>4, <3>5 DEF CheckStep
  <2>2. \A k \in Link : phase'[k] = IF k = l THEN p ELSE phase[k]
    BY <2>1 DEF TypeOK
  <2>3. \A q \in QueryId : q.link \in Link
    BY DEF QueryId
  <2> QED  BY <1>1, <2>1, <2>2, <2>3 DEF NotAsked
<1>2. CASE NextAttempt(l)
  <2>1. \A k \in Link : /\ phase'[k] = IF k = l THEN "ask" ELSE phase[k]
                        /\ attempt'[k] = IF k = l THEN attempt[l] + 1 ELSE attempt[k]
    BY <1>2 DEF NextAttempt, TypeOK
  <2>2. \A q \in QueryId : q.link \in Link /\ q.attempt \in Int
    BY DEF QueryId
  <2>3. attempt[l] \in Int
    BY DEF TypeOK
  <2> QED  BY <2>1, <2>2, <2>3 DEF NotAsked
<1> QED
  BY <1>1, <1>2 DEF CheckStep, AcquireLock, HelloTimeout, RefuseKnownPeer, PeerIdentified,
     NobodyToAsk, AskOwnQuery, OwnQueryDone, Activate, Retry, RefuseCycle,
     GiveUp, AbandonCheck, Refuse

(* A step of a check that neither sends nor ends a query, and drops nothing. *)
LEMMA PhaseAwait ==
  ASSUME TypeOK, TypeOK', AwaitInv, NEW l \in Link, CheckStep(l),
         UNCHANGED <<life, chan, queries>>, pending' \subseteq pending
  PROVE  AwaitInv'
<1>1. LifeInv'
  BY NextOnce DEF AwaitInv, LifeInv
<1>2. OpenInv'
  BY DEF AwaitInv, OpenInv
<1>3. AskedInv'
  BY NextOnce DEF AwaitInv, AskedInv
<1>4. AllComing'
  BY DEF AwaitInv, AllComing, Awaits, Coming, There
<1> QED  BY <1>1, <1>2, <1>3, <1>4 DEF AwaitInv

LEMMA RepliedWaits ==
  ASSUME NEW query \in Query, NEW e \in End, NEW result \in Result
  PROVE  LET r == Replied(query, e, result)
         IN /\ r.source = query.source
            /\ query.stage = "none" => r.stage = "none"
            /\ r.stage # "none" /\ r.result = NoResult =>
                 query.result = NoResult /\ r.waiting = query.waiting \ {e}
BY DEF Replied, Query, Result, NoResult

(* An end is dropped. *)
LEMMA DropAwait ==
  ASSUME TypeOK, TypeOK', AwaitInv, NEW d \in End, Drop(d), life[d] = "up",
         \A q \in QueryId : NotAsked(q)' => NotAsked(q),
         \A k \in Link : phase'[k] = "idle" => phase[k] = "idle"
  PROVE  AwaitInv'
<1>1. /\ \A e \in End : life'[e] = IF e = d THEN "down" ELSE life[e]
      /\ \A e \in End : chan'[e] = IF e = Peer(d) THEN <<>> ELSE chan[e]
      /\ \A n \in Node, q \in QueryId :
           queries'[n][q] = IF n = At(d) THEN Replied(queries[n][q], d, "not_found")
                            ELSE queries[n][q]
  BY EndTypes DEF Drop, TypeOK
<1>2. ASSUME NEW n \in Node, NEW q \in QueryId
      PROVE  /\ queries'[n][q].source = queries[n][q].source
             /\ queries'[n][q].own = queries[n][q].own
             /\ queries'[n][q].stage = queries[n][q].stage
             /\ queries[n][q] \in Query
             /\ queries'[n][q].stage # "none" /\ queries'[n][q].result = NoResult =>
                  /\ queries[n][q].result = NoResult
                  /\ queries'[n][q].waiting \subseteq queries[n][q].waiting
                  /\ n = At(d) => d \notin queries'[n][q].waiting
  <2>1. queries[n][q] \in Query /\ "not_found" \in Result
    BY DEF TypeOK, Result
  <2> QED  BY <1>1, <2>1, RepliedFacts, RepliedWaits
<1>3. LifeInv'
  <2>1. \A e \in End : life'[e] = "none" => chan'[e] = <<>>
    BY <1>1 DEF AwaitInv, LifeInv
  <2>2. \A l \in Link : phase'[l] = "idle" =>
          life'[EstEnd(l)] = "none" /\ life'[AccEnd(l)] = "none"
    BY <1>1, EndTypes DEF AwaitInv, LifeInv
  <2>3. ASSUME NEW l \in pending'  PROVE life'[EstEnd(l)] = "up"
    <3>1. l \in pending /\ l \in Link /\ EstEnd(l) # d
      BY EndTypes DEF Drop, TypeOK, EstEnd
    <3> QED  BY <1>1, <3>1, EndTypes DEF AwaitInv, LifeInv
  <2> QED  BY <2>1, <2>2, <2>3 DEF LifeInv
<1>4. OpenInv'
  <2>1. ASSUME NEW n \in Node, NEW q \in QueryId, queries'[n][q].stage # "none",
               queries'[n][q].result = NoResult, NEW e \in queries'[n][q].waiting
        PROVE  At(e) = n /\ life'[e] = "up"
    <3>1. e \in queries[n][q].waiting /\ e \in End
      BY <1>2, <2>1 DEF TypeOK, Query
    <3>2. At(e) = n /\ life[e] = "up"
      BY <1>2, <2>1, <3>1 DEF AwaitInv, OpenInv
    <3>3. e # d
      BY <1>2, <2>1, <3>2
    <3> QED  BY <1>1, <3>1, <3>2, <3>3
  <2>2. ASSUME NEW n \in Node, NEW q \in QueryId, queries'[n][q].stage # "none",
               ~ queries'[n][q].own
        PROVE  life'[queries'[n][q].source] # "none"
    <3>1. queries[n][q].source \in End
      BY DEF TypeOK, Query
    <3> QED  BY <1>1, <1>2, <2>2, <3>1 DEF AwaitInv, OpenInv
  <2> QED  BY <2>1, <2>2 DEF OpenInv
<1>5. AskedInv'
  <2> SUFFICES ASSUME NEW q \in QueryId, NotAsked(q)
               PROVE  /\ \A n \in Node : queries'[n][q].stage = "none"
                      /\ \A e \in End : \A i \in DOMAIN chan'[e] :
                           chan'[e][i] # [type |-> "query", id |-> q]
    BY DEF AskedInv
  <2>1. \A e \in End : \A i \in DOMAIN chan[e] : chan[e][i] # [type |-> "query", id |-> q]
    BY DEF AwaitInv, AskedInv
  <2>2. \A e \in End : chan'[e] = <<>> \/ chan'[e] = chan[e]
    BY <1>1
  <2>3. DOMAIN <<>> = {}
    OBVIOUS
  <2> QED  BY <1>2, <2>1, <2>2, <2>3 DEF AwaitInv, AskedInv
<1>6. AllComing'
  <2>1. ASSUME NEW n \in Node, NEW q \in QueryId, NEW e \in End, Awaits(n, q, e)'
        PROVE  Coming(e, q)'
    <3>1. Awaits(n, q, e) /\ (n = At(d) => e # d)
      BY <1>2, <2>1 DEF Awaits
    <3>2. At(e) = n
      BY <3>1 DEF AwaitInv, OpenInv, Awaits
    <3>3. Coming(e, q) /\ e # d
      BY <3>1, <3>2 DEF AwaitInv, AllComing
    <3>4. CASE Peer(e) = d
      BY <1>1, <3>4 DEF Coming
    <3>5. CASE Peer(e) # d
      <4>1. e # Peer(d) /\ Peer(e) # Peer(d) /\ Peer(e) \in End /\ At(Peer(e)) \in Node
        BY <3>3, <3>5, PeerFacts, EndTypes
      <4>2. /\ life'[Peer(e)] = life[Peer(e)] /\ chan'[e] = chan[e]
            /\ chan'[Peer(e)] = chan[Peer(e)]
        BY <1>1, <3>3, <3>5, <4>1
      <4>3. There(e, q) => There(e, q)'
        BY <1>2, <4>1 DEF There
      <4> QED  BY <3>3, <4>2, <4>3 DEF Coming
    <3> QED  BY <3>4, <3>5
  <2> QED  BY <2>1 DEF AllComing
<1> QED  BY <1>3, <1>4, <1>5, <1>6 DEF AwaitInv

(* A message is queued on some ends. *)
LEMMA SentKeeps ==
  ASSUME TypeOK, NEW targets, NEW m \in Message, NEW e \in End
  PROVE  /\ \A x : Under(chan[e], x) => Under(Sent(targets, m)[e], x)
         /\ \A x : Under(Sent(targets, m)[e], x) => Under(chan[e], x) \/ x = m
         /\ e \in targets /\ life[e] = "up" /\ life[Peer(e)] # "down" =>
              Under(Sent(targets, m)[e], m)
         /\ life[e] # "up" => Sent(targets, m)[e] = chan[e]
<1>1. Sent(targets, m)[e] =
        IF e \in targets /\ life[e] = "up" /\ life[Peer(e)] # "down"
        THEN Append(chan[e], m) ELSE chan[e]
  BY DEF Sent
<1>2. chan[e] \in Seq(Message)
  BY DEF TypeOK
<1> QED  BY <1>1, <1>2, UnderAppended

(* A connection is made: nothing was under way on it. *)
LEMMA NewEndAwait ==
  ASSUME TypeOK, AwaitInv, NEW d \in End, life[d] = "none", NEW c,
         \A x : Under(c, x) => x = [type |-> "hello"],
         life' = [life EXCEPT ![d] = "up"], chan' = [chan EXCEPT ![d] = c],
         UNCHANGED <<attempt, queries>>,
         \A q \in QueryId : NotAsked(q)' => NotAsked(q)
  PROVE  /\ \A e \in End : life'[e] = "none" => chan'[e] = <<>>
         /\ OpenInv' /\ AskedInv' /\ AllComing'
<1>1. /\ \A e \in End : life'[e] = IF e = d THEN "up" ELSE life[e]
      /\ \A e \in End : chan'[e] = IF e = d THEN c ELSE chan[e]
      /\ chan[d] = <<>>
  BY DEF TypeOK, AwaitInv, LifeInv
<1>2. \A e \in End : life'[e] = "none" => chan'[e] = <<>>
  BY <1>1 DEF AwaitInv, LifeInv
<1>3. \A n \in Node, q \in QueryId : /\ queries[n][q].waiting \subseteq End
                                     /\ queries[n][q].source \in End
  BY DEF TypeOK, Query
<1>4. OpenInv'
  BY <1>1, <1>3 DEF AwaitInv, OpenInv
<1>5. AskedInv'
  <2> SUFFICES ASSUME NEW q \in QueryId, NotAsked(q), NEW e \in End
               PROVE  \A i \in DOMAIN chan'[e] : chan'[e][i] # [type |-> "query", id |-> q]
    BY DEF AwaitInv, AskedInv
  <2>1. CASE e = d
    <3>1. \A i \in DOMAIN c : c[i] = [type |-> "hello"]
      BY DEF Under
    <3> QED  BY <1>1, <2>1, <3>1
  <2>2. CASE e # d
    BY <1>1, <2>2 DEF AwaitInv, AskedInv
  <2> QED  BY <2>1, <2>2
<1>6. AllComing'
  <2> SUFFICES ASSUME NEW n \in Node, NEW q \in QueryId, NEW e \in End, Awaits(n, q, e)
               PROVE  Coming(e, q)'
    BY DEF AllComing, Awaits
  <2>1. Coming(e, q) /\ life[e] = "up" /\ Peer(e) \in End
    BY PeerFacts DEF AwaitInv, AllComing, OpenInv, Awaits
  <2>2. e # d
    BY <2>1
  <2>3. There(e, q) => There(e, q)'
    BY DEF There
  <2>4. life[Peer(e)] = "down" => life'[Peer(e)] = "down"
    BY <1>1, <2>1
  <2>5. chan'[e] = chan[e]
    BY <1>1, <2>2
  <2>6. ReplyUnder(chan[Peer(e)], q) => ReplyUnder(chan'[Peer(e)], q)
    <3>1. CASE Peer(e) = d
      BY <1>1, <3>1 DEF ReplyUnder
    <3>2. CASE Peer(e) # d
      BY <1>1, <2>1, <3>2
    <3> QED  BY <3>1, <3>2
  <2> QED  BY <2>1, <2>3, <2>4, <2>5, <2>6 DEF Coming
<1> QED  BY <1>2, <1>4, <1>5, <1>6

LEMMA EstablishAwait ==
  ASSUME TypeOK, AwaitInv, NEW l \in Link, Establish(l)
  PROVE  AwaitInv'
<1> DEFINE d == EstEnd(l)
           c == <<[type |-> "hello"]>>
<1>1. life[d] = "none" /\ d \in End
  BY EndTypes DEF AwaitInv, LifeInv, Establish
<1>2. \A x : Under(c, x) => x = [type |-> "hello"]
  BY DEF Under
<1>3. \A k \in Link : phase'[k] = IF k = l THEN "lock" ELSE phase[k]
  BY DEF Establish, TypeOK
<1>4. \A q \in QueryId : NotAsked(q)' => NotAsked(q)
  <2>1. \A q \in QueryId : q.link \in Link
    BY DEF QueryId
  <2> QED  BY <1>3, <2>1 DEF NotAsked, Establish
<1>5. /\ life' = [life EXCEPT ![d] = "up"] /\ chan' = [chan EXCEPT ![d] = c]
      /\ UNCHANGED <<attempt, queries>>
  BY DEF Establish
<1> HIDE DEF c
<1>6. /\ \A e \in End : life'[e] = "none" => chan'[e] = <<>>
      /\ OpenInv' /\ AskedInv' /\ AllComing'
  BY <1>1, <1>2, <1>4, <1>5, NewEndAwait
<1>7. \A e \in End : life'[e] = IF e = d THEN "up" ELSE life[e]
  BY <1>5 DEF TypeOK
<1>8. \A k \in Link : phase'[k] = "idle" =>
        life'[EstEnd(k)] = "none" /\ life'[AccEnd(k)] = "none"
  <2> SUFFICES ASSUME NEW k \in Link, phase'[k] = "idle"
               PROVE  life'[EstEnd(k)] = "none" /\ life'[AccEnd(k)] = "none"
    OBVIOUS
  <2>1. phase[k] = "idle" /\ k # l
    BY <1>3
  <2>2. EstEnd(k) # d /\ AccEnd(k) # d
    BY <2>1 DEF EstEnd, AccEnd
  <2> QED  BY <1>7, <2>1, <2>2, EndTypes DEF AwaitInv, LifeInv
<1>9. \A k \in pending' : life'[EstEnd(k)] = "up"
  <2>1. pending' = pending \cup {l} /\ pending \subseteq Link
    BY DEF Establish, TypeOK
  <2> QED  BY <1>7, <2>1, EndTypes DEF AwaitInv, LifeInv
<1> QED  BY <1>6, <1>8, <1>9 DEF AwaitInv, LifeInv

LEMMA AcceptAwait ==
  ASSUME TypeOK, AwaitInv, NEW l \in Link, Accept(l)
  PROVE  AwaitInv'
<1> DEFINE d == AccEnd(l)
           c == IF life[EstEnd(l)] = "up" THEN <<[type |-> "hello"]>> ELSE <<>>
<1>1. life[d] = "none" /\ d \in End
  BY EndTypes DEF Accept
<1>2. \A x : Under(c, x) => x = [type |-> "hello"]
  BY DEF Under
<1>3. /\ life' = [life EXCEPT ![d] = "up"] /\ chan' = [chan EXCEPT ![d] = c]
      /\ UNCHANGED <<attempt, queries, phase, pending>>
  BY DEF Accept
<1>4. \A q \in QueryId : NotAsked(q)' => NotAsked(q)
  BY <1>3 DEF NotAsked
<1> HIDE DEF c
<1>6. /\ \A e \in End : life'[e] = "none" => chan'[e] = <<>>
      /\ OpenInv' /\ AskedInv' /\ AllComing'
  BY <1>1, <1>2, <1>3, <1>4, NewEndAwait
<1>7. \A e \in End : life'[e] = IF e = d THEN "up" ELSE life[e]
  BY <1>3 DEF TypeOK
<1>8. \A k \in Link : phase'[k] = "idle" =>
        life'[EstEnd(k)] = "none" /\ life'[AccEnd(k)] = "none"
  <2> SUFFICES ASSUME NEW k \in Link, phase[k] = "idle"
               PROVE  life'[EstEnd(k)] = "none" /\ life'[AccEnd(k)] = "none"
    BY <1>3
  <2>1. life[EstEnd(k)] = "none" /\ life[AccEnd(k)] = "none"
    BY DEF AwaitInv, LifeInv
  <2>2. k # l
    BY <2>1 DEF Accept
  <2>3. EstEnd(k) # d /\ AccEnd(k) # d
    BY <2>2 DEF EstEnd, AccEnd
  <2> QED  BY <1>7, <2>1, <2>3, EndTypes
<1>9. \A k \in pending' : life'[EstEnd(k)] = "up"
  <2>1. pending' = pending /\ pending \subseteq Link
    BY <1>3 DEF TypeOK
  <2> QED  BY <1>7, <2>1, EndTypes DEF AwaitInv, LifeInv
<1> QED  BY <1>6, <1>8, <1>9 DEF AwaitInv, LifeInv

(* An own query is asked: nobody has it yet. *)
LEMMA AskAwait ==
  ASSUME TypeOK, TypeOK', AwaitInv, NEW l \in Link, AskOwnQuery(l)
  PROVE  AwaitInv'
<1> DEFINE n0 == Est[l]
           q0 == [link |-> l, attempt |-> attempt[l]]
           t == ActiveNodeEnds(n0)
           m == AskedOf(q0)
           opened == OpenQuery("sent", TRUE, EstEnd(l), t)
<1>1. /\ phase[l] = "ask" /\ queries' = [queries EXCEPT ![n0][q0] = opened]
      /\ chan' = Sent(t, m) /\ UNCHANGED <<life, pending, attempt>>
      /\ phase' = [phase EXCEPT ![l] = "query"]
  BY DEF AskOwnQuery, AskedOf
<1>2. q0 \in QueryId /\ n0 \in Node /\ m \in Message
  BY OwnQueryId, LinkEndsAssumption DEF AskedOf, Message
<1>3. NotAsked(q0)
  BY <1>1 DEF NotAsked
<1>4. /\ opened.stage = "sent" /\ opened.own = TRUE /\ opened.waiting = t
  BY DEF OpenQuery
<1>5. \A e \in t : e \in End /\ At(e) = n0 /\ life[e] = "up"
  BY DEF ActiveNodeEnds
<1> HIDE DEF q0, n0, t, m, opened
<1>6. \A n \in Node, q \in QueryId :
        queries'[n][q] = IF n = n0 /\ q = q0 THEN opened ELSE queries[n][q]
  BY <1>1, <1>2 DEF TypeOK
<1>7. \A e \in End :
        /\ \A x : Under(chan[e], x) => Under(chan'[e], x)
        /\ \A x : Under(chan'[e], x) => Under(chan[e], x) \/ x = m
        /\ e \in t /\ life[e] = "up" /\ life[Peer(e)] # "down" => Under(chan'[e], m)
        /\ life[e] # "up" => chan'[e] = chan[e]
  BY <1>1, <1>2, SentKeeps
<1>8. /\ \A q \in QueryId : NotAsked(q)' => NotAsked(q)
      /\ \A k \in Link : phase'[k] = "idle" => phase[k] = "idle"
  BY NextOnce DEF CheckStep
<1>9. LifeInv'
  BY <1>1, <1>7, <1>8 DEF AwaitInv, LifeInv
<1>10. OpenInv'
  BY <1>1, <1>4, <1>5, <1>6 DEF AwaitInv, OpenInv
<1>11. AskedInv'
  <2> SUFFICES ASSUME NEW q \in QueryId, NotAsked(q)'
               PROVE  /\ \A n \in Node : queries'[n][q].stage = "none"
                      /\ \A e \in End : ~ Under(chan'[e], AskedOf(q))
    BY DEF AskedInv, Under, AskedOf
  <2>1. NotAsked(q)
    BY <1>8
  <2>2. q # q0
    <3>1. phase'[l] = "query"
      BY <1>1 DEF TypeOK
    <3>2. attempt[l] \in Int
      BY DEF TypeOK
    <3> QED  BY <1>1, <3>1, <3>2 DEF NotAsked, q0
  <2>3. /\ \A n \in Node : queries[n][q].stage = "none"
        /\ \A e \in End : ~ Under(chan[e], AskedOf(q))
    BY <2>1 DEF AwaitInv, AskedInv, Under, AskedOf
  <2>4. AskedOf(q) # m
    BY <2>2 DEF AskedOf, m
  <2> QED  BY <1>6, <1>7, <2>2, <2>3, <2>4
<1>12. AllComing'
  <2> SUFFICES ASSUME NEW n \in Node, NEW q \in QueryId, NEW e \in End, Awaits(n, q, e)'
               PROVE  Coming(e, q)'
    BY DEF AllComing
  <2>1. CASE n = n0 /\ q = q0
    <3>1. e \in t
      BY <1>4, <1>6, <2>1 DEF Awaits
    <3>2. AskedOf(q) = m
      BY <2>1 DEF m
    <3> QED  BY <1>1, <1>5, <1>7, <3>1, <3>2 DEF Coming
  <2>2. CASE ~ (n = n0 /\ q = q0)
    <3>1. Awaits(n, q, e)
      BY <1>6, <2>2 DEF Awaits
    <3>2. q # q0
      BY <1>3, <1>2, <3>1 DEF AwaitInv, AskedInv, Awaits
    <3>3. Coming(e, q) /\ Peer(e) \in End /\ At(Peer(e)) \in Node
      BY <3>1, PeerFacts, EndTypes DEF AwaitInv, AllComing
    <3>4. There(e, q) => There(e, q)'
      BY <1>6, <3>2, <3>3 DEF There
    <3>5. ReplyUnder(chan[Peer(e)], q) => ReplyUnder(chan'[Peer(e)], q)
      BY <1>7, <3>3, ReplyIsUnder
    <3> QED  BY <1>1, <1>7, <3>3, <3>4, <3>5 DEF Coming
  <2> QED  BY <2>1, <2>2
<1> QED  BY <1>9, <1>10, <1>11, <1>12 DEF AwaitInv

(* The own query of a check ends. *)
LEMMA EndAwait ==
  ASSUME IInv, TypeOK', AwaitInv, NEW l \in Link, phase[l] = "query", CheckStep(l),
         queries' = [queries EXCEPT
           ![Est[l]][[link |-> l, attempt |-> attempt[l]]] =
              NoQuery([link |-> l, attempt |-> attempt[l]])],
         UNCHANGED <<life, chan, pending>>
  PROVE  AwaitInv'
<1> DEFINE n0 == Est[l]
           q0 == [link |-> l, attempt |-> attempt[l]]
<1>1. TypeOK /\ queries[n0][q0].own
  BY DEF IInv, Bookkeeping, AskingInv
<1>2. q0 \in QueryId /\ n0 \in Node
  BY <1>1, OwnQueryId, LinkEndsAssumption
<1> HIDE DEF q0, n0
<1>3. \A n \in Node, q \in QueryId :
        queries'[n][q] = IF n = n0 /\ q = q0 THEN NoQuery(q0) ELSE queries[n][q]
  BY <1>1, <1>2 DEF TypeOK, q0, n0
<1>4. NoQuery(q0).stage = "none"
  BY DEF NoQuery
<1>5. /\ \A q \in QueryId : NotAsked(q)' => NotAsked(q)
      /\ \A k \in Link : phase'[k] = "idle" => phase[k] = "idle"
  BY <1>1, NextOnce
<1>6. LifeInv'
  BY <1>5 DEF AwaitInv, LifeInv
<1>7. OpenInv'
  BY <1>3, <1>4 DEF AwaitInv, OpenInv
<1>8. AskedInv'
  BY <1>3, <1>4, <1>5 DEF AwaitInv, AskedInv
<1>9. AllComing'
  <2> SUFFICES ASSUME NEW n \in Node, NEW q \in QueryId, NEW e \in End, Awaits(n, q, e)'
               PROVE  Coming(e, q)'
    BY DEF AllComing
  <2>1. Awaits(n, q, e)
    BY <1>3, <1>4 DEF Awaits
  <2>2. Coming(e, q) /\ At(Peer(e)) \in Node
    BY <2>1, PeerFacts, EndTypes DEF AwaitInv, AllComing
  <2>3. There(e, q) => There(e, q)'
    BY <1>1, <1>3, <2>2 DEF There
  <2> QED  BY <2>2, <2>3 DEF Coming
<1> QED  BY <1>6, <1>7, <1>8, <1>9 DEF AwaitInv


(* The first message under way to f is taken; of what is under way only that
   is gone. *)
Taken(f) == [chan EXCEPT ![Peer(f)] = Tail(@)]

LEMMA TakenKeeps ==
  ASSUME TypeOK, NEW f \in End, NEW type, Arrives(f, type)
  PROVE  \A e \in End :
           /\ \A x : Under(chan[e], x) =>
                Under(Taken(f)[e], x) \/ (e = Peer(f) /\ x = Head(chan[Peer(f)]))
           /\ \A x : Under(Taken(f)[e], x) => Under(chan[e], x)
           /\ chan[e] = <<>> => Taken(f)[e] = <<>>
<1> DEFINE c == Taken(f)
<1>1. /\ Peer(f) \in End /\ chan[Peer(f)] # <<>>
      /\ \A e \in End : c[e] = IF e = Peer(f) THEN Tail(chan[e]) ELSE chan[e]
  BY PeerFacts DEF TypeOK, Arrives, Taken
<1>2. chan[Peer(f)] \in Seq(Message)
  BY <1>1 DEF TypeOK
<1> HIDE DEF c
<1> SUFFICES ASSUME NEW e \in End
    PROVE  /\ \A x : Under(chan[e], x) =>
                Under(c[e], x) \/ (e = Peer(f) /\ x = Head(chan[Peer(f)]))
           /\ \A x : Under(c[e], x) => Under(chan[e], x)
           /\ chan[e] = <<>> => c[e] = <<>>
  BY DEF c
<1>3. CASE e = Peer(f)
  BY <1>1, <1>2, <1>3, UnderTaken
<1>4. CASE e # Peer(f)
  BY <1>1, <1>4
<1> QED  BY <1>3, <1>4

LEMMA HelloAwait ==
  ASSUME TypeOK, TypeOK', AwaitInv, NEW f \in End, ReceiveHello(f)
  PROVE  AwaitInv'
<1>1. /\ Arrives(f, "hello") /\ chan' = Taken(f)
      /\ UNCHANGED <<life, pending, phase, attempt, queries>>
  BY DEF ReceiveHello, Taken
<1>2. Head(chan[Peer(f)]).type = "hello"
  BY <1>1 DEF Arrives
<1>3. \A e \in End :
        /\ \A x : Under(chan[e], x) => Under(chan'[e], x) \/ x.type = "hello"
        /\ \A x : Under(chan'[e], x) => Under(chan[e], x)
        /\ chan[e] = <<>> => chan'[e] = <<>>
  <2>1. \A e \in End :
           /\ \A x : Under(chan[e], x) =>
                Under(chan'[e], x) \/ (e = Peer(f) /\ x = Head(chan[Peer(f)]))
           /\ \A x : Under(chan'[e], x) => Under(chan[e], x)
           /\ chan[e] = <<>> => chan'[e] = <<>>
    BY <1>1, TakenKeeps
  <2> QED  BY <1>2, <2>1
<1>4. LifeInv'
  BY <1>1, <1>3 DEF AwaitInv, LifeInv
<1>5. OpenInv'
  BY <1>1 DEF AwaitInv, OpenInv
<1>6. AskedInv'
  <2> SUFFICES ASSUME NEW q \in QueryId, NotAsked(q)
               PROVE  /\ \A n \in Node : queries[n][q].stage = "none"
                      /\ \A e \in End : ~ Under(chan'[e], AskedOf(q))
    BY <1>1 DEF AskedInv, Under, AskedOf, NotAsked
  <2>1. /\ \A n \in Node : queries[n][q].stage = "none"
        /\ \A e \in End : ~ Under(chan[e], AskedOf(q))
    BY DEF AwaitInv, AskedInv, Under, AskedOf
  <2> QED  BY <1>3, <2>1
<1>7. AllComing'
  <2> SUFFICES ASSUME NEW n \in Node, NEW q \in QueryId, NEW e \in End, Awaits(n, q, e)
               PROVE  Coming(e, q)'
    BY <1>1 DEF AllComing, Awaits
  <2>1. Coming(e, q) /\ Peer(e) \in End
    BY PeerFacts DEF AwaitInv, AllComing
  <2>2. There(e, q) => There(e, q)'
    BY <1>1 DEF There
  <2>3. AskedOf(q).type = "query"
    BY DEF AskedOf
  <2>4. ReplyUnder(chan[Peer(e)], q) => ReplyUnder(chan'[Peer(e)], q)
    BY <1>3, <2>1, ReplyIsUnder
  <2>5. Under(chan[e], AskedOf(q)) => Under(chan'[e], AskedOf(q))
    BY <1>3, <2>3
  <2> QED  BY <1>1, <2>1, <2>2, <2>4, <2>5 DEF Coming
<1> QED  BY <1>4, <1>5, <1>6, <1>7 DEF AwaitInv

(* A query is answered at once: its reply takes its place. *)
LEMMA AnswerAwait ==
  ASSUME TypeOK, TypeOK', AwaitInv, NEW f \in End, AnswerQuery(f)
  PROVE  AwaitInv'
<1> DEFINE g == Peer(f)
           q0 == Head(chan[g]).id
<1>1. Arrives(f, "query") /\ UNCHANGED <<life, pending, phase, attempt, queries>>
  BY DEF AnswerQuery, QueryArrives
<1>2. PICK result \in Result :
        chan' = [Sent({f}, [type |-> "reply", id |-> q0, result |-> result])
                   EXCEPT ![g] = Tail(@)]
  BY DEF AnswerQuery, AnswerNow, Result, NoResult
<1> DEFINE m == [type |-> "reply", id |-> q0, result |-> result]
           t == {f}
           s == Sent(t, m)
           c == Taken(f)
<1>3. /\ Head(chan[g]) \in Message /\ Head(chan[g]).type = "query" /\ g \in End
      /\ life[f] = "up" /\ g # f /\ chan[g] # <<>>
  BY <1>1, ArrivesFacts, PeerFacts DEF Arrives
<1>4. q0 \in QueryId /\ Head(chan[g]) = AskedOf(q0) /\ m \in Message
  BY <1>3 DEF Message, AskedOf
<1>5. m.type = "reply" /\ m.id = q0
  OBVIOUS
<1>6. s \in [End -> Seq(Message)]
  BY <1>4, SentType DEF TypeOK
<1>7. chan' = [s EXCEPT ![g] = Tail(@)]
  BY <1>2
<1>8. s[g] = chan[g]
  BY <1>3 DEF Sent
<1> HIDE DEF m, s, c, t
<1> f \in t
  BY DEF t
<1>9. \A e \in End :
        /\ \A x : Under(chan[e], x) => Under(s[e], x)
        /\ \A x : Under(s[e], x) => Under(chan[e], x) \/ x = m
        /\ e = f /\ life[g] # "down" => Under(s[e], m)
        /\ life[e] # "up" => s[e] = chan[e]
  <2>1. \A e \in End :
           /\ \A x : Under(chan[e], x) => Under(Sent(t, m)[e], x)
           /\ \A x : Under(Sent(t, m)[e], x) => Under(chan[e], x) \/ x = m
           /\ e \in t /\ life[e] = "up" /\ life[Peer(e)] # "down" =>
                Under(Sent(t, m)[e], m)
           /\ life[e] # "up" => Sent(t, m)[e] = chan[e]
    <3>1. m \in Message /\ TypeOK
      BY <1>4
    <3> QED  BY ONLY <3>1, SentKeeps
  <2> HIDE DEF g
  <2>2. g = Peer(f) /\ f \in t /\ life[f] = "up"
    BY <1>3 DEF g
  <2> QED  BY <2>1, <2>2 DEF s
<1>10. \A e \in End :
         /\ \A x : Under(chan[e], x) =>
              Under(c[e], x) \/ (e = g /\ x = Head(chan[g]))
         /\ \A x : Under(c[e], x) => Under(chan[e], x)
         /\ chan[e] = <<>> => c[e] = <<>>
  BY <1>1, TakenKeeps DEF c
<1>11. \A e \in End : chan'[e] = IF e = g THEN c[e] ELSE s[e]
  BY <1>3, <1>6, <1>7, <1>8 DEF c, Taken, TypeOK
<1>12. \A e \in End :
         /\ \A x : Under(chan[e], x) =>
              Under(chan'[e], x) \/ (e = g /\ x = AskedOf(q0))
         /\ \A x : Under(chan'[e], x) => Under(chan[e], x) \/ x = m
         /\ e = f /\ life[g] # "down" => Under(chan'[e], m)
         /\ chan[e] = <<>> /\ life[e] = "none" => chan'[e] = <<>>
  BY <1>3, <1>4, <1>9, <1>10, <1>11
<1>13. LifeInv'
  BY <1>1, <1>12 DEF AwaitInv, LifeInv
<1>14. OpenInv'
  BY <1>1 DEF AwaitInv, OpenInv
<1>15. AskedInv'
  <2> SUFFICES ASSUME NEW q \in QueryId, NotAsked(q)
               PROVE  /\ \A n \in Node : queries[n][q].stage = "none"
                      /\ \A e \in End : ~ Under(chan'[e], AskedOf(q))
    BY <1>1 DEF AskedInv, Under, AskedOf, NotAsked
  <2>1. /\ \A n \in Node : queries[n][q].stage = "none"
        /\ \A e \in End : ~ Under(chan[e], AskedOf(q))
    BY DEF AwaitInv, AskedInv, Under, AskedOf
  <2>2. AskedOf(q) # m
    BY <1>5 DEF AskedOf
  <2> QED  BY <1>12, <2>1, <2>2
<1>16. AllComing'
  <2> SUFFICES ASSUME NEW n \in Node, NEW q \in QueryId, NEW e \in End, Awaits(n, q, e)
               PROVE  Coming(e, q)'
    BY <1>1 DEF AllComing, Awaits
  <2>1. Coming(e, q) /\ Peer(e) \in End /\ life[e] = "up"
    BY PeerFacts DEF AwaitInv, AllComing, OpenInv, Awaits
  <2>2. There(e, q) => There(e, q)'
    BY <1>1 DEF There
  <2>3. CASE e = g /\ q = q0
    <3>1. Peer(e) = f /\ life[g] # "down"
      BY <2>1, <2>3, PeerFacts
    <3>2. Under(chan'[f], m)
      BY <1>12, <3>1
    <3>3. ReplyUnder(chan'[f], q)
      BY <1>5, <2>3, <3>2, ReplyIsUnder
    <3> QED  BY <3>1, <3>3 DEF Coming
  <2>4. CASE ~ (e = g /\ q = q0)
    <3>1. AskedOf(q) = AskedOf(q0) => q = q0
      BY DEF AskedOf
    <3>2. \A x : x = AskedOf(q0) => x.type # "reply"
      BY DEF AskedOf
    <3>3. Under(chan[e], AskedOf(q)) => Under(chan'[e], AskedOf(q))
      BY <1>12, <2>4, <3>1
    <3>4. ReplyUnder(chan[Peer(e)], q) => ReplyUnder(chan'[Peer(e)], q)
      BY <1>12, <2>1, <3>2, ReplyIsUnder
    <3> QED  BY <1>1, <2>1, <2>2, <3>3, <3>4 DEF Coming
  <2> QED  BY <2>3, <2>4
<1> QED  BY <1>13, <1>14, <1>15, <1>16 DEF AwaitInv

(* A query is registered, to be forwarded: the peer has it open. *)
LEMMA ForwardAwait ==
  ASSUME TypeOK, TypeOK', AwaitInv, NEW f \in End, ForwardQuery(f)
  PROVE  AwaitInv'
<1> DEFINE g == Peer(f)
           q0 == Head(chan[g]).id
           t == ActiveNodeEnds(At(f)) \ {f}
           opened == OpenQuery("opened", FALSE, f, t)
<1>1. /\ Arrives(f, "query") /\ UNCHANGED <<life, pending, phase, attempt>>
      /\ AnswerNow(f, q0) = NoResult /\ chan' = Taken(f)
      /\ queries' = [queries EXCEPT ![At(f)][q0] = opened]
  BY DEF ForwardQuery, QueryArrives, Taken
<1>2. /\ Head(chan[g]) \in Message /\ Head(chan[g]).type = "query" /\ g \in End
      /\ life[f] = "up" /\ g # f /\ chan[g] # <<>> /\ At(f) \in Node
  BY <1>1, ArrivesFacts, PeerFacts, EndTypes DEF Arrives
<1>3. q0 \in QueryId /\ Head(chan[g]) = AskedOf(q0)
  BY <1>2 DEF Message, AskedOf
<1>4. queries[At(f)][q0].stage = "none"
  BY <1>1 DEF AnswerNow, NoResult
<1>5. \A e \in t : e \in End /\ At(e) = At(f) /\ life[e] = "up"
  BY DEF ActiveNodeEnds
<1>6. opened.stage = "opened" /\ ~ opened.own /\ opened.source = f /\ opened.waiting = t
  BY DEF OpenQuery
<1>7. \A e \in End :
        /\ \A x : Under(chan[e], x) =>
             Under(chan'[e], x) \/ (e = g /\ x = AskedOf(q0))
        /\ \A x : Under(chan'[e], x) => Under(chan[e], x)
        /\ chan[e] = <<>> => chan'[e] = <<>>
  <2>1. \A e \in End :
           /\ \A x : Under(chan[e], x) =>
                Under(chan'[e], x) \/ (e = Peer(f) /\ x = Head(chan[Peer(f)]))
           /\ \A x : Under(chan'[e], x) => Under(chan[e], x)
           /\ chan[e] = <<>> => chan'[e] = <<>>
    BY <1>1, TakenKeeps
  <2> QED  BY <1>3, <2>1
<1>8. Under(chan[g], AskedOf(q0))
  <2>1. chan[g] \in Seq(Message)
    BY <1>2 DEF TypeOK
  <2> QED  BY <1>2, <1>3, <2>1, UnderTaken
<1> HIDE DEF t, opened, q0
<1>9. \A n \in Node, q \in QueryId :
        queries'[n][q] = IF n = At(f) /\ q = q0 THEN opened ELSE queries[n][q]
  BY <1>1, <1>2, <1>3 DEF TypeOK
<1>10. LifeInv'
  BY <1>1, <1>7 DEF AwaitInv, LifeInv
<1>11. OpenInv'
  BY <1>1, <1>2, <1>5, <1>6, <1>9 DEF AwaitInv, OpenInv
<1>12. AskedInv'
  <2> SUFFICES ASSUME NEW q \in QueryId, NotAsked(q)
               PROVE  /\ \A n \in Node : queries'[n][q].stage = "none"
                      /\ \A e \in End : ~ Under(chan'[e], AskedOf(q))
    BY <1>1 DEF AskedInv, Under, AskedOf, NotAsked
  <2>1. /\ \A n \in Node : queries[n][q].stage = "none"
        /\ \A e \in End : ~ Under(chan[e], AskedOf(q))
    BY DEF AwaitInv, AskedInv, Under, AskedOf
  <2>2. q # q0
    BY <1>2, <1>8, <2>1
  <2> QED  BY <1>7, <1>9, <2>1, <2>2
<1>13. AllComing'
  <2> SUFFICES ASSUME NEW n \in Node, NEW q \in QueryId, NEW e \in End, Awaits(n, q, e)'
               PROVE  Coming(e, q)'
    BY DEF AllComing
  <2>1. Awaits(n, q, e)
    BY <1>6, <1>9 DEF Awaits
  <2>2. Coming(e, q) /\ Peer(e) \in End /\ At(Peer(e)) \in Node
    BY <2>1, PeerFacts, EndTypes DEF AwaitInv, AllComing
  <2>3. There(e, q) => There(e, q)'
    BY <1>4, <1>9, <2>2 DEF There
  <2>4. CASE e = g /\ q = q0
    <3>1. Peer(e) = f
      BY <2>4, PeerFacts
    <3> QED  BY <1>2, <1>3, <1>6, <1>9, <2>4, <3>1 DEF Coming, There
  <2>5. CASE ~ (e = g /\ q = q0)
    <3>1. AskedOf(q) = AskedOf(q0) => q = q0
      BY DEF AskedOf
    <3>2. \A x : x = AskedOf(q0) => x.type # "reply"
      BY DEF AskedOf
    <3>3. Under(chan[e], AskedOf(q)) => Under(chan'[e], AskedOf(q))
      BY <1>7, <2>5, <3>1
    <3>4. ReplyUnder(chan[Peer(e)], q) => ReplyUnder(chan'[Peer(e)], q)
      BY <1>7, <2>2, <3>2, ReplyIsUnder
    <3> QED  BY <1>1, <2>2, <2>3, <3>3, <3>4 DEF Coming
  <2> QED  BY <2>4, <2>5
<1> QED  BY <1>10, <1>11, <1>12, <1>13 DEF AwaitInv

(* A reply is taken: what waited for it waits no more. *)
LEMMA ReplyAwait ==
  ASSUME TypeOK, TypeOK', AwaitInv, NEW f \in End, ReceiveReply(f)
  PROVE  AwaitInv'
<1> DEFINE g == Peer(f)
           m == Head(chan[g])
<1>1. /\ Arrives(f, "reply") /\ UNCHANGED <<life, pending, phase, attempt>>
      /\ chan' = Taken(f)
      /\ queries' = [queries EXCEPT ![At(f)][m.id] = Replied(@, f, m.result)]
  BY DEF ReceiveReply, Taken
<1>2. m \in Message /\ m.type = "reply" /\ g \in End /\ At(f) \in Node
  BY <1>1, ArrivesFacts, PeerFacts, EndTypes DEF Arrives
<1>3. m.id \in QueryId /\ m.result \in Result
  BY <1>2 DEF Message
<1>4. \A e \in End :
        /\ \A x : Under(chan[e], x) => Under(chan'[e], x) \/ (e = g /\ x = m)
        /\ \A x : Under(chan'[e], x) => Under(chan[e], x)
        /\ chan[e] = <<>> => chan'[e] = <<>>
  BY <1>1, TakenKeeps
<1> DEFINE q0 == m.id
           r == Replied(queries[At(f)][q0], f, m.result)
<1>5. queries' = [queries EXCEPT ![At(f)][q0] = r]
  BY <1>1
<1>6. queries[At(f)][q0] \in Query
  BY <1>2, <1>3 DEF TypeOK
<1>7. /\ r.source = queries[At(f)][q0].source /\ r.own = queries[At(f)][q0].own
      /\ r.stage = queries[At(f)][q0].stage
      /\ r.stage # "none" /\ r.result = NoResult =>
           /\ queries[At(f)][q0].result = NoResult
           /\ r.waiting = queries[At(f)][q0].waiting \ {f}
  BY <1>3, <1>6, RepliedFacts, RepliedWaits
<1>8. \A x : x = m => x.type = "reply" /\ x.id = q0
  BY <1>2
<1> HIDE DEF m, q0, r
<1>9. \A n \in Node, q \in QueryId :
        queries'[n][q] = IF n = At(f) /\ q = q0 THEN r ELSE queries[n][q]
  BY <1>2, <1>3, <1>5 DEF TypeOK, q0
<1>10. \A n \in Node, q \in QueryId :
         /\ queries'[n][q].source = queries[n][q].source
         /\ queries'[n][q].own = queries[n][q].own
         /\ queries'[n][q].stage = queries[n][q].stage
         /\ queries'[n][q].stage # "none" /\ queries'[n][q].result = NoResult =>
              /\ queries[n][q].result = NoResult
              /\ queries'[n][q].waiting \subseteq queries[n][q].waiting
              /\ n = At(f) /\ q = q0 => f \notin queries'[n][q].waiting
  BY <1>7, <1>9
<1>11. LifeInv'
  BY <1>1, <1>4 DEF AwaitInv, LifeInv
<1>12. OpenInv'
  <2>1. ASSUME NEW n \in Node, NEW q \in QueryId, queries'[n][q].stage # "none",
               queries'[n][q].result = NoResult, NEW e \in queries'[n][q].waiting
        PROVE  At(e) = n /\ life'[e] = "up"
    BY <1>1, <1>10, <2>1 DEF AwaitInv, OpenInv
  <2>2. ASSUME NEW n \in Node, NEW q \in QueryId, queries'[n][q].stage # "none",
               ~ queries'[n][q].own
        PROVE  life'[queries'[n][q].source] # "none"
    BY <1>1, <1>10, <2>2 DEF AwaitInv, OpenInv
  <2> QED  BY <2>1, <2>2 DEF OpenInv
<1>13. AskedInv'
  <2> SUFFICES ASSUME NEW q \in QueryId, NotAsked(q)
               PROVE  /\ \A n \in Node : queries'[n][q].stage = "none"
                      /\ \A e \in End : ~ Under(chan'[e], AskedOf(q))
    BY <1>1 DEF AskedInv, Under, AskedOf, NotAsked
  <2>1. /\ \A n \in Node : queries[n][q].stage = "none"
        /\ \A e \in End : ~ Under(chan[e], AskedOf(q))
    BY DEF AwaitInv, AskedInv, Under, AskedOf
  <2> QED  BY <1>4, <1>10, <2>1
<1>14. AllComing'
  <2> SUFFICES ASSUME NEW n \in Node, NEW q \in QueryId, NEW e \in End, Awaits(n, q, e)'
               PROVE  Coming(e, q)'
    BY DEF AllComing
  <2>1. Awaits(n, q, e) /\ (n = At(f) /\ q = q0 => e # f)
    BY <1>10 DEF Awaits
  <2>2. Coming(e, q) /\ Peer(e) \in End /\ At(Peer(e)) \in Node /\ At(e) = n
    BY <2>1, PeerFacts, EndTypes DEF AwaitInv, AllComing, OpenInv, Awaits
  <2>3. There(e, q) => There(e, q)'
    BY <1>10, <2>2 DEF There
  <2>4. AskedOf(q).type # "reply"
    BY DEF AskedOf
  <2>5. Under(chan[e], AskedOf(q)) => Under(chan'[e], AskedOf(q))
    BY <1>4, <1>8, <2>4
  <2>6. ReplyUnder(chan[Peer(e)], q) => ReplyUnder(chan'[Peer(e)], q)
    <3>1. q = q0 => Peer(e) # g
      BY <2>1, <2>2, PeerFacts
    <3> QED  BY <1>4, <1>8, <2>2, <3>1, ReplyIsUnder
  <2> QED  BY <1>1, <2>2, <2>3, <2>5, <2>6 DEF Coming
<1> QED  BY <1>11, <1>12, <1>13, <1>14 DEF AwaitInv

(* A registered query is sent to all it waits for. *)
LEMMA SendForwardAwait ==
  ASSUME TypeOK, TypeOK', AwaitInv, NEW n0 \in Node, NEW q0 \in QueryId,
         SendForward(n0, q0)
  PROVE  AwaitInv'
<1> DEFINE t == queries[n0][q0].waiting
           m == AskedOf(q0)
           sent == [queries[n0][q0] EXCEPT !.stage = "sent"]
<1>1. /\ queries[n0][q0].stage = "opened"
      /\ queries' = [queries EXCEPT ![n0][q0].stage = "sent"]
      /\ chan' = Sent(t, m)
      /\ UNCHANGED <<life, pending, phase, attempt>>
  BY DEF SendForward, AskedOf
<1>2. queries[n0][q0] \in Query /\ m \in Message
  BY DEF TypeOK, AskedOf, Message
<1>3. /\ sent.stage = "sent" /\ sent.own = queries[n0][q0].own
      /\ sent.source = queries[n0][q0].source /\ sent.waiting = t
      /\ sent.result = queries[n0][q0].result
  BY <1>2 DEF Query
<1>4. \A n \in Node, q \in QueryId :
        queries'[n][q] = IF n = n0 /\ q = q0 THEN sent ELSE queries[n][q]
  BY <1>1 DEF TypeOK
<1> HIDE DEF t, m, sent
<1>5. \A e \in End :
        /\ \A x : Under(chan[e], x) => Under(chan'[e], x)
        /\ \A x : Under(chan'[e], x) => Under(chan[e], x) \/ x = m
        /\ e \in t /\ life[e] = "up" /\ life[Peer(e)] # "down" => Under(chan'[e], m)
        /\ life[e] # "up" => chan'[e] = chan[e]
  <2>1. TypeOK /\ chan' = Sent(t, m) /\ m \in Message
    BY <1>1, <1>2
  <2> QED  BY ONLY <2>1, SentKeeps
<1>6. \A n \in Node, q \in QueryId :
        /\ queries'[n][q].stage = "none" <=> queries[n][q].stage = "none"
        /\ queries'[n][q].own = queries[n][q].own
        /\ queries'[n][q].source = queries[n][q].source
        /\ queries'[n][q].waiting = queries[n][q].waiting
        /\ queries'[n][q].result = queries[n][q].result
  BY <1>1, <1>3, <1>4 DEF t
<1>7. LifeInv'
  BY <1>1, <1>5 DEF AwaitInv, LifeInv
<1>8. OpenInv'
  BY <1>1, <1>6 DEF AwaitInv, OpenInv
<1>9. AskedInv'
  <2> SUFFICES ASSUME NEW q \in QueryId, NotAsked(q)
               PROVE  /\ \A n \in Node : queries'[n][q].stage = "none"
                      /\ \A e \in End : ~ Under(chan'[e], AskedOf(q))
    BY <1>1 DEF AskedInv, Under, AskedOf, NotAsked
  <2>1. /\ \A n \in Node : queries[n][q].stage = "none"
        /\ \A e \in End : ~ Under(chan[e], AskedOf(q))
    BY DEF AwaitInv, AskedInv, Under, AskedOf
  <2>2. q # q0
    BY <1>1, <2>1
  <2>3. AskedOf(q) # m
    BY <2>2 DEF AskedOf, m
  <2> QED  BY <1>5, <1>6, <2>1, <2>3
<1>10. AllComing'
  <2> SUFFICES ASSUME NEW n \in Node, NEW q \in QueryId, NEW e \in End, Awaits(n, q, e)'
               PROVE  Coming(e, q)'
    BY DEF AllComing
  <2>1. CASE n = n0 /\ q = q0
    <3>1. e \in t /\ queries[n0][q0].result = NoResult
      BY <1>6, <2>1 DEF Awaits, t
    <3>2. life[e] = "up"
      BY <1>1, <3>1 DEF AwaitInv, OpenInv, t
    <3>3. life[Peer(e)] # "down" => Under(chan'[e], AskedOf(q))
      BY <1>5, <2>1, <3>1, <3>2 DEF m
    <3> QED  BY <1>1, <3>3 DEF Coming
  <2>2. CASE ~ (n = n0 /\ q = q0)
    <3>1. Awaits(n, q, e)
      BY <1>4, <2>2 DEF Awaits
    <3>2. Coming(e, q) /\ Peer(e) \in End /\ At(Peer(e)) \in Node
      BY <3>1, PeerFacts, EndTypes DEF AwaitInv, AllComing
    <3>3. There(e, q) => There(e, q)'
      BY <1>6, <3>2 DEF There
    <3>4. ReplyUnder(chan[Peer(e)], q) => ReplyUnder(chan'[Peer(e)], q)
      BY <1>5, <3>2, ReplyIsUnder
    <3> QED  BY <1>1, <1>5, <3>2, <3>3, <3>4 DEF Coming
  <2> QED  BY <2>1, <2>2
<1> QED  BY <1>7, <1>8, <1>9, <1>10 DEF AwaitInv

(* A forwarded query ends: its reply goes where the query came from. *)
LEMMA ReplyForwardAwait ==
  ASSUME TypeOK, TypeOK', AwaitInv, NEW n0 \in Node, NEW q0 \in QueryId,
         ReplyForward(n0, q0)
  PROVE  AwaitInv'
<1> DEFINE s == queries[n0][q0].source
           t == {s}
           none == NoQuery(q0)
<1>1. /\ queries[n0][q0].stage = "sent" /\ ~ queries[n0][q0].own
      /\ queries' = [queries EXCEPT ![n0][q0] = none]
      /\ UNCHANGED <<life, pending, phase, attempt>>
  BY DEF ReplyForward
<1>2. queries[n0][q0].result \in Result \cup {NoResult}
  BY DEF TypeOK, Query
<1>3. PICK result \in Result :
        chan' = Sent(t, [type |-> "reply", id |-> q0, result |-> result])
  BY <1>2 DEF ReplyForward, Result, NoResult
<1> DEFINE m == [type |-> "reply", id |-> q0, result |-> result]
<1>4. m \in Message /\ m.type = "reply" /\ m.id = q0
  BY DEF Message
<1>5. s \in t /\ none.stage = "none" /\ s \in End
  BY DEF NoQuery, TypeOK, Query
<1>6. \A n \in Node, q \in QueryId :
        queries'[n][q] = IF n = n0 /\ q = q0 THEN none ELSE queries[n][q]
  BY <1>1 DEF TypeOK
<1>7. chan' = Sent(t, m) /\ life[s] # "none"
  BY <1>1, <1>3 DEF AwaitInv, OpenInv
<1> HIDE DEF t, m, none
<1>8. \A e \in End :
        /\ \A x : Under(chan[e], x) => Under(chan'[e], x)
        /\ \A x : Under(chan'[e], x) => Under(chan[e], x) \/ x = m
        /\ e \in t /\ life[e] = "up" /\ life[Peer(e)] # "down" => Under(chan'[e], m)
        /\ life[e] # "up" => chan'[e] = chan[e]
  <2>1. TypeOK /\ chan' = Sent(t, m) /\ m \in Message
    BY <1>4, <1>7
  <2> QED  BY ONLY <2>1, SentKeeps
<1>9. LifeInv'
  BY <1>1, <1>8 DEF AwaitInv, LifeInv
<1>10. OpenInv'
  BY <1>1, <1>5, <1>6 DEF AwaitInv, OpenInv
<1>11. AskedInv'
  <2> SUFFICES ASSUME NEW q \in QueryId, NotAsked(q)
               PROVE  /\ \A n \in Node : queries'[n][q].stage = "none"
                      /\ \A e \in End : ~ Under(chan'[e], AskedOf(q))
    BY <1>1 DEF AskedInv, Under, AskedOf, NotAsked
  <2>1. /\ \A n \in Node : queries[n][q].stage = "none"
        /\ \A e \in End : ~ Under(chan[e], AskedOf(q))
    BY DEF AwaitInv, AskedInv, Under, AskedOf
  <2>2. AskedOf(q) # m
    BY <1>4 DEF AskedOf
  <2> QED  BY <1>5, <1>6, <1>8, <2>1, <2>2
<1>12. AllComing'
  <2> SUFFICES ASSUME NEW n \in Node, NEW q \in QueryId, NEW e \in End, Awaits(n, q, e)'
               PROVE  Coming(e, q)'
    BY DEF AllComing
  <2>1. Awaits(n, q, e)
    BY <1>5, <1>6 DEF Awaits
  <2>2. /\ Coming(e, q) /\ Peer(e) \in End /\ At(Peer(e)) \in Node
        /\ life[e] = "up" /\ Peer(Peer(e)) = e
    BY <2>1, PeerFacts, EndTypes DEF AwaitInv, AllComing, OpenInv, Awaits
  <2>3. ReplyUnder(chan[Peer(e)], q) => ReplyUnder(chan'[Peer(e)], q)
    BY <1>8, <2>2, ReplyIsUnder
  <2>4. CASE At(Peer(e)) = n0 /\ q = q0 /\ There(e, q)
    <3>1. s = Peer(e)
      BY <2>4 DEF There
    <3>2. life[s] = "up" \/ life[s] = "down"
      BY <1>5, <1>7 DEF TypeOK
    <3>3. life[s] = "up" => Under(chan'[s], m)
      BY <1>5, <1>8, <2>2, <3>1
    <3>4. Under(chan'[s], m) => ReplyUnder(chan'[s], q)
      BY <1>4, <2>4, ReplyIsUnder
    <3> QED  BY <1>1, <3>1, <3>2, <3>3, <3>4 DEF Coming
  <2>5. CASE ~ (At(Peer(e)) = n0 /\ q = q0 /\ There(e, q))
    <3>1. There(e, q) => There(e, q)'
      BY <1>6, <2>2, <2>5 DEF There
    <3> QED  BY <1>1, <1>8, <2>2, <2>3, <3>1 DEF Coming
  <2> QED  BY <2>4, <2>5
<1> QED  BY <1>9, <1>10, <1>11, <1>12 DEF AwaitInv

LEMMA CheckAwait ==
  ASSUME IInv, TypeOK', AwaitInv, NEW l \in Link, CheckStep(l)
  PROVE  AwaitInv'
<1>0. TypeOK
  BY DEF IInv
<1>1. CASE \/ AcquireLock(l) \/ PeerIdentified(l) \/ NobodyToAsk(l) \/ Activate(l)
           \/ Retry(l) \/ NextAttempt(l)
  <2>1. UNCHANGED <<life, chan, queries>> /\ pending' \subseteq pending
    BY <1>1 DEF AcquireLock, PeerIdentified, NobodyToAsk, Activate, Retry, NextAttempt
  <2> QED  BY <1>0, <2>1, PhaseAwait
<1>2. CASE \/ HelloTimeout(l) \/ RefuseKnownPeer(l) \/ RefuseCycle(l) \/ GiveUp(l)
  <2>1. Drop(EstEnd(l)) /\ l \in pending
    BY <1>2 DEF HelloTimeout, RefuseKnownPeer, RefuseCycle, GiveUp, Refuse
  <2>2. life[EstEnd(l)] = "up" /\ EstEnd(l) \in End
    BY <2>1, EndTypes DEF AwaitInv, LifeInv
  <2> QED  BY <1>0, <2>1, <2>2, NextOnce, DropAwait
<1>3. CASE OwnQueryDone(l)
  BY <1>3, EndAwait DEF OwnQueryDone
<1>4. CASE AbandonCheck(l) /\ phase[l] = "query"
  BY <1>4, EndAwait DEF AbandonCheck
<1>5. CASE AbandonCheck(l) /\ phase[l] # "query"
  <2>1. UNCHANGED <<life, chan, queries>> /\ pending' \subseteq pending
    BY <1>5 DEF AbandonCheck
  <2> QED  BY <1>0, <2>1, PhaseAwait
<1>6. CASE AskOwnQuery(l)
  BY <1>0, <1>6, AskAwait
<1> QED  BY <1>1, <1>2, <1>3, <1>4, <1>5, <1>6 DEF CheckStep

LEMMA NextAwait == IInv /\ AwaitInv /\ [Next]_vars => AwaitInv'
<1> SUFFICES ASSUME IInv, AwaitInv, [Next]_vars PROVE AwaitInv'
  OBVIOUS
<1>0. TypeOK' /\ TypeOK
  BY NextType DEF IInv
<1>1. ASSUME NEW l \in Link, Establish(l) \/ Accept(l) \/ CheckStep(l)
      PROVE  AwaitInv'
  BY <1>0, <1>1, EstablishAwait, AcceptAwait, CheckAwait
<1>2. ASSUME NEW e \in End, Lose(e) \/ NoticeLoss(e)
      PROVE  AwaitInv'
  <2>1. Drop(e) /\ life[e] = "up" /\ UNCHANGED <<phase, attempt>>
    BY <1>2 DEF Lose, NoticeLoss
  <2>2. \A q \in QueryId : NotAsked(q)' => NotAsked(q)
    BY <2>1 DEF NotAsked
  <2>3. \A k \in Link : phase'[k] = "idle" => phase[k] = "idle"
    BY <2>1
  <2> QED  BY <1>0, <2>1, <2>2, <2>3, DropAwait
<1>3. ASSUME NEW e \in End, ReceiveStep(e)
      PROVE  AwaitInv'
  BY <1>0, <1>3, HelloAwait, AnswerAwait, ForwardAwait, ReplyAwait DEF ReceiveStep
<1>4. ASSUME NEW n \in Node, NEW q \in QueryId, ForwardStep(n, q)
      PROVE  AwaitInv'
  BY <1>0, <1>4, SendForwardAwait, ReplyForwardAwait DEF ForwardStep
<1>5. CASE UNCHANGED vars
  BY <1>5 DEF vars, AwaitInv, LifeInv, OpenInv, AskedInv, NotAsked, AllComing,
     Awaits, Coming, There
<1> QED  BY <1>1, <1>2, <1>3, <1>4, <1>5 DEF Next

LEMMA InitAwait == Init => AwaitInv
<1> SUFFICES ASSUME Init PROVE AwaitInv
  OBVIOUS
<1>1. \A e \in End : chan[e] = <<>>
  BY DEF Init
<1>2. \A n \in Node, q \in QueryId : queries[n][q].stage = "none"
  BY DEF Init, NoQuery
<1>3. LifeInv
  <2>1. \A l \in Link : phase[l] = "idle" => l \notin Initial
    BY DEF Init
  <2>2. \A l \in Link : EstEnd(l).link = l /\ AccEnd(l).link = l
    BY DEF EstEnd, AccEnd
  <2> QED  BY <1>1, <2>1, <2>2, EndTypes DEF Init, LifeInv
<1>4. OpenInv
  BY <1>2 DEF OpenInv
<1>5. AskedInv
  <2>1. DOMAIN <<>> = {}
    OBVIOUS
  <2> QED  BY <1>1, <1>2, <2>1 DEF AskedInv
<1>6. AllComing
  BY <1>2 DEF AllComing, Awaits
<1> QED  BY <1>3, <1>4, <1>5, <1>6 DEF AwaitInv

-----------------------------------------------------------------------------
(* No reply is waited for in vain: whatever a sent query still waits for is
   asked, answering, answered or lost at the other end, whichever connections
   fail and however the nodes' checks and queries interleave. *)
THEOREM RepliesCome == Spec => []AwaitedReplyIsComing
<1>1. IInv /\ AwaitInv => AwaitedReplyIsComing
  BY AwaitedIs DEF IInv, AwaitInv
<1> QED  BY <1>1, InitIInv, NextIInv, InitAwait, NextAwait, PTL DEF Spec

-----------------------------------------------------------------------------
(***************************************************************************)
(* The links of CyclePrevention always form a forest, for any nodes, links, *)
(* losses and timeouts: CyclePrevention implements LinkForest.              *)
(*                                                                         *)
(* A link that has been cleared by its check but not yet activated counts   *)
(* as tied already: Tied is Joined and these, and it is Tied that stays a   *)
(* forest.  The argument is about what a "not found" stands for.  While the *)
(* check of a link a is asking, every open query and every "not found" of   *)
(* it stands for the nodes that can be reached, over tied links, without    *)
(* what the query still waits for and the link it came over (Fine).  None   *)
(* of them is the accepting node of a; and a check that could tie one of    *)
(* them to anything else began to ask after a did (Clean), for a node that  *)
(* is checking does not answer "not found".  The order bef in which checks  *)
(* began to ask is not part of the state, so the invariant says that there  *)
(* is one (FloodInv).  When the own query of a comes to "not found" it      *)
(* waits for nothing, so that all that its node reaches is without the      *)
(* accepting node: a closes no cycle (OwnQueryDoneFlood).  Any other check  *)
(* that has asked there began later, and does not count on what a ties on   *)
(* (TieFlood).                                                              *)
(*                                                                         *)
(* A lost link cuts nodes off.  An answer that goes into a part of the bus  *)
(* that the node of the check is not in will never be counted by it, so     *)
(* nothing depends on what such an answer says (Side).                      *)
(*                                                                         *)
(* The timing assumptions are used in one place each: PromptHello in        *)
(* NextKnown (a node that acts on its peer's Hello is known to the peer),   *)
(* PromptDecision in NoneOfItsOwn (a node answers no query between its own  *)
(* "not found" and the activation it leads to).                             *)
(***************************************************************************)

-----------------------------------------------------------------------------
(* What is reached over some links. *)

(* Over one link more, its other end is reached, with all that is reached from
   there; or nothing more is. *)
LEMMA ReachedMore ==
  ASSUME NEW n \in Node, NEW L \in SUBSET Link, NEW k \in Link,
         NEW K \in SUBSET L, NEW M \in SUBSET Link, M \subseteq K \cup {k}
  PROVE  /\ ~ Crosses(k, Reached(n, K)) => Reached(n, M) \subseteq Reached(n, K)
         /\ Acc[k] \in Reached(n, K) =>
              Reached(n, M) \subseteq Reached(n, K) \cup Reached(Est[k], L)
<1> DEFINE R == Reached(n, K)
           B == Reached(Est[k], L)
           S == R \cup B
<1>1. R \in SUBSET Node /\ n \in R /\ \A l \in K : ~ Crosses(l, R)
  BY ReachedFacts DEF Closed
<1>2. Est[k] \in Node
  BY LinkEndsAssumption
<1>3. B \in SUBSET Node /\ Est[k] \in B /\ \A l \in L : ~ Crosses(l, B)
  BY <1>2, ReachedFacts DEF Closed
<1> HIDE DEF R, B
<1>4. ASSUME ~ Crosses(k, R)  PROVE Reached(n, M) \subseteq R
  <2>1. \A l \in M : ~ Crosses(l, R)
    BY <1>1, <1>4
  <2> QED  BY <1>1, <2>1, ReachedWithin
<1>5. ASSUME Acc[k] \in R  PROVE Reached(n, M) \subseteq S
  <2>1. \A l \in M : ~ Crosses(l, S)
    BY <1>1, <1>3, <1>5 DEF Crosses
  <2>2. S \in SUBSET Node /\ n \in S
    BY <1>1, <1>3
  <2> HIDE DEF S
  <2> QED  BY <2>1, <2>2, ReachedWithin
<1> QED  BY <1>4, <1>5 DEF R, B

(* What has no link out but these reaches nothing but itself. *)
LEMMA ReachedAlone ==
  ASSUME NEW n \in Node, NEW L \in SUBSET Link,
         \A e \in End : At(e) = n => e.link \notin L
  PROVE  Reached(n, L) = {n}
<1>1. ASSUME NEW l \in L  PROVE ~ Crosses(l, {n})
  <2>1. Est[l] # n /\ Acc[l] # n
    BY LinkFacts
  <2> QED  BY <2>1 DEF Crosses
<1>2. Reached(n, L) \subseteq {n}
  BY <1>1, ReachedWithin
<1>3. n \in Reached(n, L)
  BY ReachedFacts
<1> QED  BY <1>2, <1>3

-----------------------------------------------------------------------------
(* Who knows whom, and what passes over a pending connection. *)

Late == {"ask", "query", "answered", "delay"}

(* A node that acts on its peer's Hello is known to the peer; a connection of
   which it is the establishing end is pending exactly while its check is not
   over. *)
KnownInv ==
  /\ \A l \in Link : EstEnd(l) \in known =>
       AccEnd(l) \in known \/ life[AccEnd(l)] = "down"
  /\ \A l \in pending : phase[l] \in Late => EstEnd(l) \in known /\ Acc[l] # Est[l]
  /\ \A l \in Link : phase[l] = "accepted" /\ life[EstEnd(l)] = "up" => EstEnd(l) \in known
  /\ \A l \in Link : life[EstEnd(l)] = "up" /\ l \notin pending => phase[l] = "accepted"
  /\ \A l \in pending : phase[l] \in Unfinished

(* The phases of a check. *)
LEMMA PhaseFacts ==
  /\ Late \subseteq LockPhase /\ LockPhase \subseteq Unfinished /\ "accepted" \notin Unfinished
  /\ "lock" \in Unfinished /\ "lost" \notin Unfinished /\ "idle" \notin Unfinished
  /\ {"refused", "no hello", "undetermined"} \cap Unfinished = {}
  /\ {"lost", "refused", "no hello", "undetermined", "lock", "accepted", "idle"} \cap Late = {}
BY DEF Late, LockPhase, Unfinished, Phase

(* A step of a check that drops nothing and finishes no check. *)
LEMMA KnownPhase ==
  ASSUME TypeOK, KnownInv, NEW l \in Link, NEW p, phase' = [phase EXCEPT ![l] = p],
         UNCHANGED <<life, known, pending>>, phase[l] \in Unfinished,
         l \in pending => p \in Unfinished,
         l \in pending /\ p \in Late => EstEnd(l) \in known /\ Acc[l] # Est[l],
         p # "accepted"
  PROVE  KnownInv'
<1>1. \A k \in Link : phase'[k] = IF k = l THEN p ELSE phase[k]
  BY DEF TypeOK
<1>2. pending \subseteq Link
  BY DEF TypeOK
<1>3. phase[l] # "accepted"
  BY PhaseFacts
<1> QED  BY <1>1, <1>2, <1>3 DEF KnownInv

(* Dropping an end keeps who knows whom. *)
LEMMA KnownDrop ==
  ASSUME TypeOK, KnownInv, NEW d \in End, Drop(d),
         \A k \in Link : phase'[k] = phase[k] \/ (d = EstEnd(k) /\ phase'[k] # "accepted")
  PROVE  KnownInv'
<1>1. /\ \A e \in End : life'[e] = IF e = d THEN "down" ELSE life[e]
      /\ known' = known \ {d} /\ pending' \subseteq pending /\ pending \subseteq Link
      /\ \A k \in Link : EstEnd(k) = d => k \notin pending'
      /\ \A k \in Link : EstEnd(k) # d /\ k \in pending => k \in pending'
  <2>1. \A k \in Link : (EstEnd(k) = d <=> d.side = "est" /\ d.link = k)
    BY EndFacts, LinkFacts
  <2> QED  BY <2>1 DEF Drop, TypeOK
<1>2. \A k \in Link : EstEnd(k) \in End /\ AccEnd(k) \in End
  BY LinkFacts
<1>3. \A l \in Link : EstEnd(l) \in known' =>
        AccEnd(l) \in known' \/ life'[AccEnd(l)] = "down"
  BY <1>1, <1>2 DEF KnownInv
<1>4. \A l \in pending' : phase'[l] \in Late => EstEnd(l) \in known' /\ Acc[l] # Est[l]
  BY <1>1, <1>2 DEF KnownInv
<1>5. \A l \in Link : phase'[l] = "accepted" /\ life'[EstEnd(l)] = "up" => EstEnd(l) \in known'
  BY <1>1, <1>2 DEF KnownInv
<1>6. \A l \in Link : life'[EstEnd(l)] = "up" /\ l \notin pending' => phase'[l] = "accepted"
  BY <1>1, <1>2 DEF KnownInv
<1>7. \A l \in pending' : phase'[l] \in Unfinished
  BY <1>1, <1>2 DEF KnownInv
<1> QED  BY <1>3, <1>4, <1>5, <1>6, <1>7 DEF KnownInv

(* So does every step of a check. *)
LEMMA CheckKnown ==
  ASSUME TypeOK, KnownInv, NEW l \in Link, CheckStep(l)
  PROVE  KnownInv'
<1>1. CASE AcquireLock(l) \/ PeerIdentified(l)
  <2>1. phase[l] \in Unfinished /\ "hello" \in Unfinished /\ "ask" \in Unfinished
        /\ "hello" \notin Late
    BY <1>1 DEF AcquireLock, PeerIdentified, Unfinished, Phase, Late
  <2>2. PeerIdentified(l) => EstEnd(l) \in known /\ Acc[l] # Est[l]
    BY DEF PeerIdentified, KnownPeer
  <2>3. /\ \/ phase' = [phase EXCEPT ![l] = "hello"]
           \/ phase' = [phase EXCEPT ![l] = "ask"] /\ PeerIdentified(l)
        /\ UNCHANGED <<life, known, pending>>
    BY <1>1 DEF AcquireLock, PeerIdentified
  <2> QED  BY <2>1, <2>2, <2>3, KnownPhase
<1>2. CASE NobodyToAsk(l) \/ AskOwnQuery(l) \/ OwnQueryDone(l) \/ Retry(l) \/ NextAttempt(l)
  <2>1. phase[l] \in Late
    BY <1>2 DEF NobodyToAsk, AskOwnQuery, OwnQueryDone, Retry, NextAttempt, Late
  <2>2. PICK p \in Late : phase' = [phase EXCEPT ![l] = p]
    <3>1. {"ask", "query", "answered", "delay"} \subseteq Late
      BY DEF Late
    <3>2. \/ phase' = [phase EXCEPT ![l] = "ask"] \/ phase' = [phase EXCEPT ![l] = "query"]
          \/ phase' = [phase EXCEPT ![l] = "answered"] \/ phase' = [phase EXCEPT ![l] = "delay"]
      BY <1>2 DEF NobodyToAsk, AskOwnQuery, OwnQueryDone, Retry, NextAttempt
    <3> QED  BY ONLY <3>1, <3>2
  <2>3. UNCHANGED <<life, known, pending>>
    BY <1>2 DEF NobodyToAsk, AskOwnQuery, OwnQueryDone, Retry, NextAttempt
  <2>4. p \in Unfinished /\ phase[l] \in Unfinished /\ p # "accepted"
    BY <2>1, PhaseFacts
  <2>5. l \in pending => EstEnd(l) \in known /\ Acc[l] # Est[l]
    BY <2>1 DEF KnownInv
  <2> QED  BY <2>2, <2>3, <2>4, <2>5, KnownPhase
<1>3. CASE Activate(l)
  <2>1. /\ \A k \in Link : phase'[k] = IF k = l THEN "accepted" ELSE phase[k]
        /\ pending' = pending \ {l} /\ UNCHANGED <<life, known>>
        /\ phase[l] \in Late /\ l \in pending /\ pending \subseteq Link
    BY <1>3 DEF Activate, TypeOK, Late
  <2> QED  BY <2>1 DEF KnownInv
<1>4. CASE HelloTimeout(l) \/ RefuseKnownPeer(l) \/ RefuseCycle(l) \/ GiveUp(l)
  <2>1. /\ Drop(EstEnd(l))
        /\ \/ phase' = [phase EXCEPT ![l] = "no hello"]
           \/ phase' = [phase EXCEPT ![l] = "refused"]
           \/ phase' = [phase EXCEPT ![l] = "undetermined"]
    BY <1>4 DEF HelloTimeout, RefuseKnownPeer, RefuseCycle, GiveUp, Refuse
  <2>2. \A k \in Link : phase'[k] = phase[k] \/ (EstEnd(l) = EstEnd(k) /\ phase'[k] # "accepted")
    BY <2>1 DEF TypeOK
  <2> QED  BY <2>1, <2>2, LinkFacts, KnownDrop
<1>5. CASE AbandonCheck(l)
  <2>1. /\ phase' = [phase EXCEPT ![l] = "lost"] /\ UNCHANGED <<life, known, pending>>
        /\ phase[l] \in Unfinished /\ l \notin pending
    BY <1>5 DEF AbandonCheck
  <2> QED  BY <2>1, KnownPhase
<1> QED  BY <1>1, <1>2, <1>3, <1>4, <1>5 DEF CheckStep

(* So does every step; for a Hello this is the assumption PromptHello. *)
LEMMA NextKnown ==
  ASSUME TypeOK, LifeInv, KnownInv, PromptHello, [Next]_vars
  PROVE  KnownInv'
<1>1. ASSUME NEW l \in Link, Establish(l)  PROVE KnownInv'
  <2>1. /\ \A k \in Link : phase'[k] = IF k = l THEN "lock" ELSE phase[k]
        /\ \A e \in End : life'[e] = IF e = EstEnd(l) THEN "up" ELSE life[e]
        /\ pending' = pending \cup {l} /\ known' = known /\ pending \subseteq Link
        /\ phase[l] = "idle"
    BY <1>1 DEF Establish, TypeOK
  <2>2. \A k \in Link : /\ EstEnd(k) \in End /\ AccEnd(k) \in End /\ AccEnd(k) # EstEnd(l)
                        /\ (EstEnd(k) = EstEnd(l) => k = l)
    BY LinkFacts DEF EstEnd, AccEnd
  <2> QED  BY <2>1, <2>2, PhaseFacts DEF KnownInv
<1>2. ASSUME NEW l \in Link, Accept(l)  PROVE KnownInv'
  <2>1. /\ \A e \in End : life'[e] = IF e = AccEnd(l) THEN "up" ELSE life[e]
        /\ UNCHANGED <<pending, known, phase>> /\ life[AccEnd(l)] = "none" /\ pending \subseteq Link
    BY <1>2 DEF Accept, TypeOK
  <2>2. \A k \in Link : /\ EstEnd(k) \in End /\ AccEnd(k) \in End /\ AccEnd(l) # EstEnd(k)
                        /\ (AccEnd(k) = AccEnd(l) => k = l)
    BY LinkFacts DEF EstEnd, AccEnd
  <2> QED  BY <2>1, <2>2 DEF KnownInv
<1>3. ASSUME NEW e \in End, Lose(e) \/ NoticeLoss(e)  PROVE KnownInv'
  BY <1>3, KnownDrop DEF Lose, NoticeLoss
<1>4. ASSUME NEW e \in End, ReceiveHello(e)  PROVE KnownInv'
  <2>1. /\ known' = known \cup {e} /\ UNCHANGED <<life, pending, phase>>
        /\ e.side = "est" => Peer(e) \in known \/ life[Peer(e)] = "down"
    BY <1>4 DEF ReceiveHello
  <2>2. \A l \in Link : EstEnd(l) = e => e.side = "est" /\ Peer(e) = AccEnd(l)
    BY LinkFacts
  <2> QED  BY <2>1, <2>2 DEF KnownInv
<1>5. ASSUME UNCHANGED <<life, known, pending, phase>>  PROVE KnownInv'
  BY <1>5 DEF KnownInv
<1>6. ASSUME NEW e \in End, AnswerQuery(e) \/ ForwardQuery(e) \/ ReceiveReply(e)  PROVE KnownInv'
  BY <1>5, <1>6 DEF AnswerQuery, ForwardQuery, ReceiveReply
<1>7. ASSUME NEW n \in Node, NEW q \in QueryId, ForwardStep(n, q)  PROVE KnownInv'
  BY <1>5, <1>7 DEF ForwardStep, SendForward, ReplyForward
<1> QED  BY <1>1, <1>2, <1>3, <1>4, <1>5, <1>6, <1>7, CheckKnown DEF Next, ReceiveStep, vars

(* At the start every listed end has received its Hello. *)
LEMMA InitKnown == Init => KnownInv
<1> SUFFICES ASSUME Init PROVE KnownInv
  OBVIOUS
<1>1. \A l \in Link : /\ EstEnd(l) \in End /\ AccEnd(l) \in End
                      /\ EstEnd(l).link = l /\ AccEnd(l).link = l
  BY LinkFacts
<1> QED  BY <1>1 DEF Init, KnownInv

-----------------------------------------------------------------------------
(* What is under way, and what has been asked for.  A query comes only over  *)
(* the establishing end of a link that was accepted, or from an accepting    *)
(* one; its reply goes back the same way.                                    *)

EntryOK(ph, n, query) ==
  query.stage # "none" =>
    /\ ~ query.own => /\ At(query.source) = n /\ ph[query.source.link] = "accepted"
                      /\ query.source \notin query.waiting
    /\ query.result = "not_found" => query.waiting = {} /\ ~ query.unknown
    /\ \A e \in query.waiting : e.side = "est" => ph[e.link] = "accepted"

MessageOK(ph, e, x) ==
  \/ x.type = "hello"
  \/ x.type = "query" /\ (e.side = "est" => ph[e.link] = "accepted")
  \/ x.type = "reply" /\ (e.side = "acc" => ph[e.link] = "accepted")

FlowInv ==
  /\ \A e \in known : life[e] = "up"
  /\ \A n \in Node, q \in QueryId : EntryOK(phase, n, queries[n][q])
  /\ \A e \in End : \A x : Under(chan[e], x) => MessageOK(phase, e, x)
  /\ \A q \in QueryId : NotAsked(q) =>
       \A e \in End : \A x : Under(chan[e], x) => ~ (x.type = "reply" /\ x.id = q)

(* An accepted link stays accepted, lost or not; a query is asked for good. *)
Onward ==
  /\ \A l \in Link : phase[l] = "accepted" => phase'[l] = "accepted"
  /\ \A q \in QueryId : NotAsked(q)' => NotAsked(q)

(* No step takes an acceptance back, or comes to asking a query twice. *)
LEMMA NextOnward ==
  ASSUME TypeOK, [Next]_vars
  PROVE  Onward
<1>1. ASSUME NEW l \in Link, CheckStep(l)  PROVE Onward
  <2>1. \A k \in Link : k # l => phase'[k] = phase[k]
    BY <1>1 DEF CheckStep, AcquireLock, HelloTimeout, RefuseKnownPeer, PeerIdentified,
       NobodyToAsk, AskOwnQuery, OwnQueryDone, Activate, Retry, NextAttempt, RefuseCycle,
       GiveUp, AbandonCheck, Refuse, TypeOK
  <2>2. phase[l] # "accepted"
    BY <1>1 DEF CheckStep, AcquireLock, HelloTimeout, RefuseKnownPeer, PeerIdentified,
       NobodyToAsk, AskOwnQuery, OwnQueryDone, Activate, Retry, NextAttempt, RefuseCycle,
       GiveUp, AbandonCheck, Unfinished
  <2> QED  BY <1>1, <2>1, <2>2, NextOnce DEF Onward
<1>2. ASSUME NEW l \in Link, Establish(l)  PROVE Onward
  <2>1. \A k \in Link : phase'[k] = IF k = l THEN "lock" ELSE phase[k]
    BY <1>2 DEF Establish, TypeOK
  <2>2. \A q \in QueryId : q.link \in Link
    BY DEF QueryId
  <2> QED  BY <1>2, <2>1, <2>2 DEF Onward, NotAsked, Establish
<1>3. ASSUME UNCHANGED <<phase, attempt>>  PROVE Onward
  BY <1>3 DEF Onward, NotAsked
<1>4. ASSUME NEW l \in Link, Accept(l)  PROVE Onward
  BY <1>3, <1>4 DEF Accept
<1>5. ASSUME NEW e \in End, Lose(e) \/ NoticeLoss(e) \/ ReceiveStep(e)  PROVE Onward
  BY <1>3, <1>5 DEF Lose, NoticeLoss, ReceiveStep, ReceiveHello, AnswerQuery, ForwardQuery,
     ReceiveReply
<1>6. ASSUME NEW n \in Node, NEW q \in QueryId, ForwardStep(n, q)  PROVE Onward
  BY <1>3, <1>6 DEF ForwardStep, SendForward, ReplyForward
<1> QED  BY <1>1, <1>2, <1>3, <1>4, <1>5, <1>6 DEF Next, vars

(* A query that goes on: replied to, or sent, or forgotten. *)
Continues(query, next) ==
  next.stage # "none" =>
    /\ query.stage # "none" /\ next.own = query.own /\ next.source = query.source
    /\ next.waiting \subseteq query.waiting
    /\ next.result = "not_found" =>
         query.result = "not_found" \/ (next.waiting = {} /\ ~ next.unknown)
    /\ query.result = "not_found" => next.unknown = query.unknown

(* A reply that is counted leaves the query a continuation of itself. *)
LEMMA RepliedContinues ==
  ASSUME NEW query \in Query, NEW e \in End, NEW result \in Result
  PROVE  Continues(query, Replied(query, e, result))
BY DEF Continues, Replied, Query, Result, NoResult

(* A step keeps FlowInv if what it sends and what it opens are as they
   should be. *)
LEMMA FlowStep ==
  ASSUME TypeOK, TypeOK', FlowInv, Onward,
         \A e \in known' : life'[e] = "up",
         \A n \in Node, q \in QueryId :
           \/ Continues(queries[n][q], queries'[n][q])
           \/ EntryOK(phase, n, queries'[n][q]),
         \A e \in End : \A x : Under(chan'[e], x) =>
           \/ Under(chan[e], x)
           \/ /\ MessageOK(phase, e, x)
              /\ x.type = "reply" => x.id \in QueryId /\ ~ NotAsked(x.id)
  PROVE  FlowInv'
<1>1. ASSUME NEW n \in Node, NEW q \in QueryId  PROVE EntryOK(phase', n, queries'[n][q])
  <2>1. /\ queries[n][q] \in Query /\ queries'[n][q] \in Query
        /\ EntryOK(phase, n, queries[n][q])
    BY DEF TypeOK, FlowInv
  <2>2. EntryOK(phase, n, queries'[n][q])
    BY <2>1 DEF EntryOK, Continues
  <2>3. \A e \in End : e.link \in Link
    BY EndFacts
  <2> QED  BY <2>1, <2>2, <2>3 DEF EntryOK, Onward, Query
<1>2. ASSUME NEW e \in End, NEW x, Under(chan'[e], x)  PROVE MessageOK(phase', e, x)
  <2>1. MessageOK(phase, e, x)
    BY <1>2 DEF FlowInv
  <2>2. e.link \in Link
    BY EndFacts
  <2> QED  BY <2>1, <2>2 DEF MessageOK, Onward
<1>3. ASSUME NEW q \in QueryId, NotAsked(q)', NEW e \in End, NEW x, Under(chan'[e], x)
      PROVE  ~ (x.type = "reply" /\ x.id = q)
  <2>1. NotAsked(q)
    BY <1>3 DEF Onward
  <2> QED  BY <1>3, <2>1 DEF FlowInv
<1> QED  BY <1>1, <1>2, <1>3 DEF FlowInv

(* Nothing is sent or opened. *)
LEMMA SameFlow ==
  ASSUME TypeOK, TypeOK', FlowInv, Onward, UNCHANGED <<life, known, chan>>,
         \A n \in Node, q \in QueryId : Continues(queries[n][q], queries'[n][q])
  PROVE  FlowInv'
<1>1. \A e \in known' : life'[e] = "up"
  BY DEF FlowInv
<1> QED  BY <1>1, FlowStep

(* So does leaving it alone, or forgetting it. *)
LEMMA ContinuesSame ==
  /\ \A query \in Query : Continues(query, query)
  /\ \A query \in Query, q \in QueryId : Continues(query, NoQuery(q))
BY DEF Continues, NoQuery, Query

(* Dropping an end keeps what passes where. *)
LEMMA DropFlow ==
  ASSUME TypeOK, TypeOK', FlowInv, Onward, NEW d \in End, Drop(d)
  PROVE  FlowInv'
<1>1. /\ \A e \in End : life'[e] = IF e = d THEN "down" ELSE life[e]
      /\ \A e \in End : chan'[e] = IF e = Peer(d) THEN <<>> ELSE chan[e]
      /\ known' = known \ {d} /\ known \subseteq End
      /\ \A n \in Node, q \in QueryId :
           queries'[n][q] = IF n = At(d) THEN Replied(queries[n][q], d, "not_found")
                            ELSE queries[n][q]
  BY EndTypes DEF Drop, TypeOK
<1>2. \A e \in known' : life'[e] = "up"
  BY <1>1 DEF FlowInv
<1>3. \A n \in Node, q \in QueryId : Continues(queries[n][q], queries'[n][q])
  <2>1. \A n \in Node, q \in QueryId : queries[n][q] \in Query
    BY DEF TypeOK
  <2>2. "not_found" \in Result
    BY DEF Result
  <2> QED  BY <1>1, <2>1, <2>2, RepliedContinues, ContinuesSame
<1>4. \A e \in End : \A x : Under(chan'[e], x) => Under(chan[e], x)
  BY <1>1 DEF Under
<1> QED  BY <1>2, <1>3, <1>4, FlowStep

(* A new connection has only its Hello under way ... *)
LEMMA EstablishFlow ==
  ASSUME TypeOK, TypeOK', LifeInv, FlowInv, Onward, NEW l \in Link, Establish(l)
  PROVE  FlowInv'
<1>1. /\ \A e \in End : life'[e] = IF e = EstEnd(l) THEN "up" ELSE life[e]
      /\ \A e \in End : chan'[e] = IF e = EstEnd(l) THEN <<[type |-> "hello"]>> ELSE chan[e]
      /\ UNCHANGED <<known, queries>> /\ known \subseteq End
  BY DEF Establish, TypeOK
<1>2. \A e \in known' : life'[e] = "up"
  BY <1>1 DEF FlowInv
<1>3. \A n \in Node, q \in QueryId : Continues(queries[n][q], queries'[n][q])
  BY <1>1, ContinuesSame DEF TypeOK
<1>4. \A e \in End : \A x : Under(chan'[e], x) => Under(chan[e], x) \/ x = [type |-> "hello"]
  BY <1>1 DEF Under
<1>5. \A x : x = [type |-> "hello"] => \A e : MessageOK(phase, e, x) /\ x.type # "reply"
  BY DEF MessageOK
<1> QED  BY <1>2, <1>3, <1>4, <1>5, FlowStep

(* ... and so has its accepting end. *)
LEMMA AcceptFlow ==
  ASSUME TypeOK, TypeOK', FlowInv, Onward, NEW l \in Link, Accept(l)
  PROVE  FlowInv'
<1>1. /\ \A e \in End : life'[e] = IF e = AccEnd(l) THEN "up" ELSE life[e]
      /\ \A e \in End : e # AccEnd(l) => chan'[e] = chan[e]
      /\ chan'[AccEnd(l)] \in {<<[type |-> "hello"]>>, <<>>}
      /\ UNCHANGED <<known, queries>> /\ known \subseteq End
  BY LinkFacts DEF Accept, TypeOK
<1>2. \A e \in known' : life'[e] = "up"
  BY <1>1 DEF FlowInv
<1>3. \A n \in Node, q \in QueryId : Continues(queries[n][q], queries'[n][q])
  BY <1>1, ContinuesSame DEF TypeOK
<1>4. \A e \in End : \A x : Under(chan'[e], x) => Under(chan[e], x) \/ x = [type |-> "hello"]
  BY <1>1 DEF Under
<1>5. \A x : x = [type |-> "hello"] => \A e : MessageOK(phase, e, x) /\ x.type # "reply"
  BY DEF MessageOK
<1> QED  BY <1>2, <1>3, <1>4, <1>5, FlowStep

(* A node has its accepted connections to ask over. *)
LEMMA ActiveEnds ==
  ASSUME KnownInv, NEW n, NEW e \in ActiveNodeEnds(n)
  PROVE  /\ e \in End /\ At(e) = n /\ life[e] = "up"
         /\ e.side = "est" => phase[e.link] = "accepted"
<1>1. e \in End /\ At(e) = n /\ life[e] = "up" /\ ~ (e.side = "est" /\ e.link \in pending)
  BY DEF ActiveNodeEnds
<1>2. e.side = "est" => e = EstEnd(e.link) /\ e.link \in Link
  BY <1>1, EndFacts
<1> QED  BY <1>1, <1>2 DEF KnownInv

(* An own query goes to active ends, and only now is it heard of. *)
LEMMA AskFlow ==
  ASSUME TypeOK, TypeOK', KnownInv, FlowInv, Onward, NEW l \in Link, AskOwnQuery(l)
  PROVE  FlowInv'
<1> DEFINE n0 == Est[l]
           q0 == [link |-> l, attempt |-> attempt[l]]
           t == ActiveNodeEnds(n0)
           m == [type |-> "query", id |-> q0]
           opened == OpenQuery("sent", TRUE, EstEnd(l), t)
<1>1. /\ queries' = [queries EXCEPT ![n0][q0] = opened]
      /\ chan' = Sent(t, m) /\ UNCHANGED <<life, known>>
  BY DEF AskOwnQuery
<1>2. q0 \in QueryId /\ n0 \in Node /\ m \in Message
  BY OwnQueryId, LinkEndsAssumption DEF Message
<1>3. opened.own = TRUE /\ opened.waiting = t /\ opened.result = NoResult
  BY DEF OpenQuery
<1>4. \A e \in t : e.side = "est" => phase[e.link] = "accepted"
  BY ActiveEnds
<1> HIDE DEF q0, n0, t, opened
<1>5. \A n \in Node, q \in QueryId :
        queries'[n][q] = IF n = n0 /\ q = q0 THEN opened ELSE queries[n][q]
  BY <1>1, <1>2 DEF TypeOK
<1>6. \A n : EntryOK(phase, n, opened)
  BY <1>3, <1>4 DEF EntryOK, NoResult
<1>7. \A n \in Node, q \in QueryId :
           \/ Continues(queries[n][q], queries'[n][q])
           \/ EntryOK(phase, n, queries'[n][q])
  <2>1. \A n \in Node, q \in QueryId : queries[n][q] \in Query
    BY DEF TypeOK
  <2> QED  BY <1>5, <1>6, <2>1, ContinuesSame
<1>8. ASSUME NEW e \in End, NEW x, Under(chan'[e], x)
      PROVE  Under(chan[e], x) \/ (MessageOK(phase, e, x) /\ x.type # "reply")
  <2>1. chan'[e] = IF e \in t /\ life[e] = "up" /\ life[Peer(e)] # "down"
                   THEN Append(chan[e], m) ELSE chan[e]
    BY <1>1 DEF Sent
  <2>2. CASE chan'[e] = chan[e]
    BY <1>8, <2>2
  <2>3. CASE e \in t /\ chan'[e] = Append(chan[e], m)
    <3>1. Under(chan[e], x) \/ x = m
      BY <1>2, <1>8, <2>3, UnderAppended DEF TypeOK
    <3>2. m.type = "query" /\ MessageOK(phase, e, m)
      BY <1>4, <2>3 DEF MessageOK
    <3> QED  BY <3>1, <3>2
  <2> QED  BY <2>1, <2>2, <2>3
<1>9. \A e \in known' : life'[e] = "up"
  BY <1>1 DEF FlowInv
<1> QED  BY <1>7, <1>8, <1>9, FlowStep

(* Every step of a check keeps what passes where. *)
LEMMA CheckFlow ==
  ASSUME TypeOK, TypeOK', KnownInv, FlowInv, Onward, NEW l \in Link, CheckStep(l)
  PROVE  FlowInv'
<1> DEFINE n0 == Est[l]
           q0 == [link |-> l, attempt |-> attempt[l]]
<1>0. \A n \in Node, q \in QueryId : queries[n][q] \in Query
  BY DEF TypeOK
<1>1. CASE \/ AcquireLock(l) \/ PeerIdentified(l) \/ Retry(l) \/ NobodyToAsk(l)
           \/ Activate(l) \/ NextAttempt(l)
  <2>1. UNCHANGED <<life, known, chan, queries>>
    BY <1>1 DEF AcquireLock, PeerIdentified, Retry, NobodyToAsk, Activate, NextAttempt
  <2> QED  BY <1>0, <2>1, ContinuesSame, SameFlow
<1>2. CASE OwnQueryDone(l) \/ AbandonCheck(l)
  <2>1. /\ UNCHANGED <<life, known, chan>>
        /\ queries' = queries \/ queries' = [queries EXCEPT ![n0][q0] = NoQuery(q0)]
    BY <1>2 DEF OwnQueryDone, AbandonCheck
  <2>2. \A n \in Node, q \in QueryId :
          queries'[n][q] = queries[n][q] \/ (queries'[n][q] = NoQuery(q0))
    <3>1. n0 \in Node /\ q0 \in QueryId /\ queries \in [Node -> [QueryId -> Query]]
      BY OwnQueryId, LinkEndsAssumption DEF TypeOK
    <3> HIDE DEF n0, q0
    <3>2. CASE queries' = queries
      BY <3>2
    <3>3. CASE queries' = [queries EXCEPT ![n0][q0] = NoQuery(q0)]
      BY <3>1, <3>3
    <3> QED  BY <2>1, <3>2, <3>3
  <2>3. \A n \in Node, q \in QueryId : Continues(queries[n][q], queries'[n][q])
    BY <1>0, <2>2, OwnQueryId, ContinuesSame
  <2> QED  BY <2>1, <2>3, SameFlow
<1>3. CASE HelloTimeout(l) \/ RefuseKnownPeer(l) \/ RefuseCycle(l) \/ GiveUp(l)
  <2>1. Drop(EstEnd(l)) /\ EstEnd(l) \in End
    BY <1>3, LinkFacts DEF HelloTimeout, RefuseKnownPeer, RefuseCycle, GiveUp, Refuse
  <2> QED  BY <2>1, DropFlow
<1> QED  BY <1>1, <1>2, <1>3, AskFlow DEF CheckStep

(* The message that is received was under way. *)
LEMMA ArrivedUnder ==
  ASSUME TypeOK, NEW f \in End, NEW type, Arrives(f, type)
  PROVE  /\ Under(chan[Peer(f)], Head(chan[Peer(f)]))
         /\ Head(chan[Peer(f)]) \in Message /\ Head(chan[Peer(f)]).type = type
         /\ Peer(f) \in End /\ chan[Peer(f)] # <<>> /\ life[f] = "up"
<1>1. Peer(f) \in End /\ chan[Peer(f)] # <<>> /\ life[f] = "up"
      /\ Head(chan[Peer(f)]).type = type /\ Head(chan[Peer(f)]) \in Message
  BY ArrivesFacts, PeerFacts DEF Arrives
<1>2. chan[Peer(f)] \in Seq(Message)
  BY <1>1 DEF TypeOK
<1> QED  BY <1>1, <1>2, UnderTaken

(* Receiving a Hello does. *)
LEMMA ReceiveHelloFlow ==
  ASSUME TypeOK, TypeOK', FlowInv, Onward, NEW f \in End, ReceiveHello(f)
  PROVE  FlowInv'
<1>1. /\ Arrives(f, "hello") /\ chan' = Taken(f) /\ known' = known \cup {f}
      /\ UNCHANGED <<life, queries>> /\ life[f] = "up"
  BY DEF ReceiveHello, Taken, Arrives
<1>2. \A e \in End : \A x : Under(chan'[e], x) => Under(chan[e], x)
  BY <1>1, TakenKeeps
<1>3. \A n \in Node, q \in QueryId : Continues(queries[n][q], queries'[n][q])
  BY <1>1, ContinuesSame DEF TypeOK
<1>4. \A e \in known' : life'[e] = "up"
  BY <1>1 DEF FlowInv
<1> QED  BY <1>2, <1>3, <1>4, FlowStep

(* What is asked for has come over an accepted link, if f did not make it. *)
LEMMA QueryCame ==
  ASSUME TypeOK, AskedInv, FlowInv, NEW f \in End, QueryArrives(f)
  PROVE  LET q == Head(chan[Peer(f)]).id
         IN /\ q \in QueryId /\ ~ NotAsked(q)
            /\ f.side = "acc" => phase[f.link] = "accepted"
            /\ f.link \in Link /\ f.side \in {"est", "acc"}
<1> DEFINE m == Head(chan[Peer(f)])
<1>1. /\ Under(chan[Peer(f)], m) /\ m \in Message /\ m.type = "query"
      /\ Peer(f) \in End
  BY ArrivedUnder DEF QueryArrives
<1>2. m = AskedOf(m.id) /\ m.id \in QueryId
  BY <1>1 DEF Message, AskedOf
<1> HIDE DEF m
<1>3. ~ NotAsked(m.id)
  <2> SUFFICES ASSUME NotAsked(m.id)  PROVE FALSE
    OBVIOUS
  <2>1. ~ Under(chan[Peer(f)], AskedOf(m.id))
    BY <1>1, <1>2 DEF AskedInv, Under, AskedOf
  <2> QED  BY <1>1, <1>2, <2>1
<1>4. MessageOK(phase, Peer(f), m)
  BY <1>1 DEF FlowInv
<1>5. f.side = "acc" => phase[f.link] = "accepted"
  <2>1. f.side = "acc" => Peer(f).side = "est" /\ Peer(f).link = f.link
    BY EndFacts, LinkFacts
  <2> QED  BY <1>1, <1>4, <2>1 DEF MessageOK
<1>6. f.link \in Link /\ f.side \in {"est", "acc"}
  BY EndFacts
<1> QED  BY <1>2, <1>3, <1>5, <1>6 DEF m

(* An answer goes back the way its query came. *)
LEMMA AnswerFlow ==
  ASSUME TypeOK, TypeOK', AskedInv, FlowInv, Onward, NEW f \in End, AnswerQuery(f)
  PROVE  FlowInv'
<1> DEFINE g == Peer(f)
           q0 == Head(chan[g]).id
<1>1. QueryArrives(f) /\ UNCHANGED <<life, known, queries>>
  BY DEF AnswerQuery
<1>2. PICK result \in Result :
        chan' = [Sent({f}, [type |-> "reply", id |-> q0, result |-> result])
                   EXCEPT ![g] = Tail(@)]
  BY DEF AnswerQuery, AnswerNow, Result, NoResult
<1> DEFINE m == [type |-> "reply", id |-> q0, result |-> result]
           t == {f}
           s == Sent(t, m)
           c == Taken(f)
<1>3. /\ q0 \in QueryId /\ ~ NotAsked(q0) /\ (f.side = "acc" => phase[f.link] = "accepted")
      /\ g \in End /\ g # f /\ Arrives(f, "query")
  BY <1>1, QueryCame, PeerFacts DEF QueryArrives
<1>4. m \in Message /\ m.type = "reply" /\ m.id = q0
  BY <1>3 DEF Message
<1>5. \A e \in End : e # f => chan'[e] = c[e]
  <2>1. \A e \in End : e # f => s[e] = chan[e]
    BY DEF Sent
  <2>2. s \in [End -> Seq(Message)] /\ chan \in [End -> Seq(Message)]
    BY <1>4, SentType DEF TypeOK
  <2>3. chan' = [s EXCEPT ![g] = Tail(@)]
    BY <1>2
  <2> HIDE DEF s, m, t
  <2> QED  BY <1>3, <2>1, <2>2, <2>3 DEF Taken
<1>6. chan'[f] = s[f]
  <2>1. s \in [End -> Seq(Message)]
    BY <1>4, SentType DEF TypeOK
  <2>2. chan' = [s EXCEPT ![g] = Tail(@)]
    BY <1>2
  <2> HIDE DEF s, m, t
  <2> QED  BY <1>3, <2>1, <2>2
<1> HIDE DEF s, c, t, m, q0
<1>7. ASSUME NEW e \in End, NEW x, Under(chan'[e], x)
      PROVE  Under(chan[e], x) \/ (e = f /\ x = m)
  <2>1. CASE e = f
    BY <1>4, <1>6, <1>7, <2>1, SentKeeps DEF s
  <2>2. CASE e # f
    BY <1>3, <1>5, <1>7, <2>2, TakenKeeps DEF c
  <2> QED  BY <2>1, <2>2
<1>8. MessageOK(phase, f, m)
  BY <1>3, <1>4 DEF MessageOK
<1>9. \A n \in Node, q \in QueryId : Continues(queries[n][q], queries'[n][q])
  BY <1>1, ContinuesSame DEF TypeOK
<1>10. \A e \in known' : life'[e] = "up"
  BY <1>1 DEF FlowInv
<1> QED  BY <1>3, <1>4, <1>7, <1>8, <1>9, <1>10, FlowStep

(* A query that is registered came over a link that was accepted. *)
LEMMA ForwardFlow ==
  ASSUME TypeOK, TypeOK', AskedInv, KnownInv, FlowInv, Onward, NEW f \in End, ForwardQuery(f)
  PROVE  FlowInv'
<1> DEFINE n0 == At(f)
           q0 == Head(chan[Peer(f)]).id
           t == ActiveNodeEnds(n0) \ {f}
           opened == OpenQuery("opened", FALSE, f, t)
<1>1. /\ QueryArrives(f) /\ UNCHANGED <<life, known>> /\ Arrives(f, "query")
      /\ queries' = [queries EXCEPT ![n0][q0] = opened] /\ chan' = Taken(f)
      /\ AnswerNow(f, q0) = NoResult
  BY DEF ForwardQuery, QueryArrives, Taken
<1>2. /\ q0 \in QueryId /\ f.link \in Link /\ f.side \in {"est", "acc"}
      /\ f.side = "acc" => phase[f.link] = "accepted"
  BY <1>1, QueryCame
<1>3. phase[f.link] = "accepted" /\ n0 \in Node
  <2>1. f.side = "est" => f.link \notin pending /\ f = EstEnd(f.link)
    BY <1>1, EndFacts DEF AnswerNow, NoResult
  <2>2. life[f] = "up"
    BY <1>1 DEF Arrives
  <2> QED  BY <1>2, <2>1, <2>2, EndFacts DEF KnownInv
<1>4. opened.own = FALSE /\ opened.waiting = t /\ opened.result = NoResult /\ opened.source = f
  BY DEF OpenQuery
<1>5. \A e \in t : e # f /\ (e.side = "est" => phase[e.link] = "accepted")
  BY ActiveEnds
<1>6. EntryOK(phase, n0, opened)
  <2> HIDE DEF opened, t
  <2> QED  BY <1>3, <1>4, <1>5 DEF EntryOK, NoResult
<1> HIDE DEF q0, t, opened
<1>7. \A n \in Node, q \in QueryId :
        queries'[n][q] = IF n = n0 /\ q = q0 THEN opened ELSE queries[n][q]
  BY <1>1, <1>2, <1>3 DEF TypeOK
<1>8. \A n \in Node, q \in QueryId :
           \/ Continues(queries[n][q], queries'[n][q])
           \/ EntryOK(phase, n, queries'[n][q])
  <2>1. \A n \in Node, q \in QueryId : queries[n][q] \in Query
    BY DEF TypeOK
  <2> QED  BY <1>6, <1>7, <2>1, ContinuesSame
<1>9. \A e \in End : \A x : Under(chan'[e], x) => Under(chan[e], x)
  BY <1>1, TakenKeeps
<1>10. \A e \in known' : life'[e] = "up"
  BY <1>1 DEF FlowInv
<1> QED  BY <1>8, <1>9, <1>10, FlowStep

(* A reply that arrives is taken off the link, and counted. *)
LEMMA ReceiveReplyFlow ==
  ASSUME TypeOK, TypeOK', FlowInv, Onward, NEW f \in End, ReceiveReply(f)
  PROVE  FlowInv'
<1> DEFINE m == Head(chan[Peer(f)])
           n0 == At(f)
<1>1. /\ Arrives(f, "reply") /\ chan' = Taken(f) /\ UNCHANGED <<life, known>>
      /\ queries' = [queries EXCEPT ![n0][m.id] = Replied(@, f, m.result)]
  BY DEF ReceiveReply, Taken
<1>2. m.id \in QueryId /\ m.result \in Result /\ n0 \in Node
  <2>1. m \in Message /\ m.type = "reply"
    BY <1>1, ArrivedUnder
  <2> QED  BY <2>1, EndFacts DEF Message
<1> HIDE DEF m, n0
<1>3. \A n \in Node, q \in QueryId :
        queries'[n][q] = IF n = n0 /\ q = m.id THEN Replied(queries[n][q], f, m.result)
                         ELSE queries[n][q]
  BY <1>1, <1>2 DEF TypeOK
<1>4. \A n \in Node, q \in QueryId : Continues(queries[n][q], queries'[n][q])
  <2>1. \A n \in Node, q \in QueryId : queries[n][q] \in Query
    BY DEF TypeOK
  <2> QED  BY <1>2, <1>3, <2>1, RepliedContinues, ContinuesSame
<1>5. \A e \in End : \A x : Under(chan'[e], x) => Under(chan[e], x)
  BY <1>1, TakenKeeps
<1>6. \A e \in known' : life'[e] = "up"
  BY <1>1 DEF FlowInv
<1> QED  BY <1>4, <1>5, <1>6, FlowStep

(* A query that is forwarded goes to active ends. *)
LEMMA SendForwardFlow ==
  ASSUME TypeOK, TypeOK', FlowInv, Onward, NEW n0 \in Node, NEW q0 \in QueryId,
         SendForward(n0, q0)
  PROVE  FlowInv'
<1> DEFINE old == queries[n0][q0]
           m == [type |-> "query", id |-> q0]
           t == old.waiting
           sent == [old EXCEPT !.stage = "sent"]
<1>1. /\ UNCHANGED <<life, known>> /\ chan' = Sent(t, m)
      /\ queries' = [queries EXCEPT ![n0][q0] = sent] /\ old.stage = "opened"
  BY DEF SendForward
<1>2. old \in Query /\ m \in Message /\ EntryOK(phase, n0, old)
  BY DEF TypeOK, Message, FlowInv
<1>3. Continues(old, sent)
  BY <1>1, <1>2 DEF Continues, Query
<1>4. \A e \in t : MessageOK(phase, e, m)
  BY <1>1, <1>2 DEF EntryOK, MessageOK
<1> HIDE DEF old, m, t, sent
<1>5. \A n \in Node, q \in QueryId :
        queries'[n][q] = IF n = n0 /\ q = q0 THEN sent ELSE queries[n][q]
  BY <1>1 DEF TypeOK
<1>6. \A n \in Node, q \in QueryId : Continues(queries[n][q], queries'[n][q])
  <2>1. \A n \in Node, q \in QueryId : queries[n][q] \in Query
    BY DEF TypeOK
  <2> QED  BY <1>3, <1>5, <2>1, ContinuesSame DEF old
<1>7. ASSUME NEW e \in End, NEW x, Under(chan'[e], x)
      PROVE  Under(chan[e], x) \/ (MessageOK(phase, e, x) /\ x.type # "reply")
  <2>1. chan'[e] = IF e \in t /\ life[e] = "up" /\ life[Peer(e)] # "down"
                   THEN Append(chan[e], m) ELSE chan[e]
    BY <1>1 DEF Sent
  <2>2. CASE chan'[e] = chan[e]
    BY <1>7, <2>2
  <2>3. CASE e \in t /\ chan'[e] = Append(chan[e], m)
    <3>1. Under(chan[e], x) \/ x = m
      BY <1>2, <1>7, <2>3, UnderAppended DEF TypeOK
    <3>2. m.type = "query" /\ MessageOK(phase, e, m)
      BY <1>4, <2>3 DEF m
    <3> QED  BY <3>1, <3>2
  <2> QED  BY <2>1, <2>2, <2>3
<1>8. \A e \in known' : life'[e] = "up"
  BY <1>1 DEF FlowInv
<1> QED  BY <1>6, <1>7, <1>8, FlowStep

(* The result of a forwarded query goes back the way the query came. *)
LEMMA ReplyForwardFlow ==
  ASSUME TypeOK, TypeOK', AskedInv, FlowInv, Onward, NEW n0 \in Node, NEW q0 \in QueryId,
         ReplyForward(n0, q0)
  PROVE  FlowInv'
<1> DEFINE old == queries[n0][q0]
<1>1. /\ UNCHANGED <<life, known>> /\ old.stage = "sent" /\ ~ old.own
      /\ queries' = [queries EXCEPT ![n0][q0] = NoQuery(q0)]
  BY DEF ReplyForward
<1>2. PICK result : chan' = Sent({old.source}, [type |-> "reply", id |-> q0, result |-> result])
                    /\ result \in Result
  <2>1. old.result \in Result \cup {NoResult}
    BY DEF TypeOK, Query
  <2> QED  BY <2>1 DEF ReplyForward, Result, NoResult
<1> DEFINE m == [type |-> "reply", id |-> q0, result |-> result]
<1>3. old \in Query /\ m \in Message /\ EntryOK(phase, n0, old) /\ ~ NotAsked(q0)
  BY <1>1, <1>2 DEF TypeOK, Message, FlowInv, AskedInv
<1>4. m.type = "reply" /\ m.id = q0 /\ MessageOK(phase, old.source, m)
  BY <1>1, <1>3 DEF EntryOK, MessageOK
<1>5. chan' = Sent({old.source}, m)
  BY <1>2
<1> HIDE DEF m
<1>6. \A n \in Node, q \in QueryId :
        queries'[n][q] = IF n = n0 /\ q = q0 THEN NoQuery(q0) ELSE queries[n][q]
  BY <1>1 DEF TypeOK
<1>7. \A n \in Node, q \in QueryId : Continues(queries[n][q], queries'[n][q])
  <2>1. \A n \in Node, q \in QueryId : queries[n][q] \in Query
    BY DEF TypeOK
  <2> QED  BY <1>6, <2>1, ContinuesSame
<1>8. ASSUME NEW e \in End, NEW x, Under(chan'[e], x)
      PROVE  Under(chan[e], x) \/ (e = old.source /\ x = m)
  <2>1. chan'[e] = IF e \in {old.source} /\ life[e] = "up" /\ life[Peer(e)] # "down"
                   THEN Append(chan[e], m) ELSE chan[e]
    BY <1>5 DEF Sent
  <2>2. CASE chan'[e] = chan[e]
    BY <1>8, <2>2
  <2>3. CASE e = old.source /\ chan'[e] = Append(chan[e], m)
    BY <1>3, <1>8, <2>3, UnderAppended DEF TypeOK
  <2> QED  BY <2>1, <2>2, <2>3
<1>9. \A e \in known' : life'[e] = "up"
  BY <1>1 DEF FlowInv
<1> QED  BY <1>3, <1>4, <1>7, <1>8, <1>9, FlowStep

(* Every step keeps what passes where. *)
LEMMA NextFlow ==
  ASSUME TypeOK, TypeOK', LifeInv, AskedInv, KnownInv, FlowInv, [Next]_vars
  PROVE  FlowInv'
<1>1. Onward
  BY NextOnward
<1>2. ASSUME NEW l \in Link, Establish(l) \/ Accept(l) \/ CheckStep(l)  PROVE FlowInv'
  BY <1>1, <1>2, EstablishFlow, AcceptFlow, CheckFlow
<1>3. ASSUME NEW e \in End, Lose(e) \/ NoticeLoss(e)  PROVE FlowInv'
  BY <1>1, <1>3, DropFlow DEF Lose, NoticeLoss
<1>4. ASSUME NEW e \in End, ReceiveStep(e)  PROVE FlowInv'
  BY <1>1, <1>4, ReceiveHelloFlow, AnswerFlow, ForwardFlow, ReceiveReplyFlow DEF ReceiveStep
<1>5. ASSUME NEW n \in Node, NEW q \in QueryId, ForwardStep(n, q)  PROVE FlowInv'
  BY <1>1, <1>5, SendForwardFlow, ReplyForwardFlow DEF ForwardStep
<1>6. CASE UNCHANGED vars
  <2>1. UNCHANGED <<life, known, chan, queries>>
    BY <1>6 DEF vars
  <2> QED  BY <1>1, <2>1, ContinuesSame, SameFlow DEF TypeOK
<1> QED  BY <1>2, <1>3, <1>4, <1>5, <1>6 DEF Next

(* At the start nothing is under way. *)
LEMMA InitFlow == Init => FlowInv
<1> SUFFICES ASSUME Init PROVE FlowInv
  OBVIOUS
<1>1. \A e \in known : life[e] = "up"
  BY DEF Init
<1>2. \A n \in Node, q \in QueryId : queries[n][q].stage = "none"
  BY DEF Init, NoQuery
<1>3. \A e \in End : chan[e] = <<>>
  BY DEF Init
<1>4. \A e \in End : \A x : ~ Under(chan[e], x)
  BY <1>3 DEF Under
<1> QED  BY <1>1, <1>2, <1>4 DEF FlowInv, EntryOK

-----------------------------------------------------------------------------
(* The argument about one query, for any links L that are tied, any links T  *)
(* of which the check is asking, and any order bef in which they began.      *)
(*                                                                           *)
(* A "not found" stands for a set R of nodes that the query was asked in,    *)
(* and says that the accepting node of its link a is not one of them.  This  *)
(* stays true only if no link is tied to R afterwards by a check that asked  *)
(* before a did: whatever check could tie R to something has to come after.  *)

(* The check of b is heard of in R, unless it is K's business. *)
Hears(b, R, K) == Est[b] \in R \/ (Acc[b] \in R /\ b \notin K)

Clean(bef, T, a, R, K) ==
  /\ Acc[a] \notin R
  /\ \A b \in T : b # a /\ Hears(b, R, K) => <<a, b>> \in bef

(* What n reaches without the links K, that it waits for or was asked over. *)
Fine(bef, T, L, a, n, K) == Clean(bef, T, a, Reached(n, L \ K), K)

(* Nothing that comes over f matters any more to the check of a. *)
Off(bef, T, a, Z) ==
  /\ Est[a] \notin Z
  /\ \A b \in T : b # a /\ Hears(b, Z, {}) => <<a, b>> \in bef

Side(bef, T, L, a, f) == Off(bef, T, a, Beyond(f, L))

Held(bef, T, L, a, f, K) == Fine(bef, T, L, a, At(f), K) \/ Side(bef, T, L, a, f)

(* Nothing new is asking, but what a comes before. *)
Follows(bef, T, since, U, a) ==
  \A b \in U : b # a => <<a, b>> \in since \/ (b \in T /\ <<a, b>> \notin bef)

(* With fewer links, less is beyond an end. *)
LEMMA BeyondLess ==
  ASSUME NEW L \in SUBSET Link, NEW M \in SUBSET L, NEW f \in End
  PROVE  Beyond(f, M) \subseteq Beyond(f, L)
<1>1. /\ At(Peer(f)) \in Node /\ L \ {f.link} \in SUBSET Link
      /\ M \ {f.link} \in SUBSET (L \ {f.link})
  BY EndFacts
<1> QED  BY <1>1, ReachedLess DEF Beyond

(* What an answer stands for stays right when there are fewer links and checks ... *)
LEMMA ShrinkFine ==
  ASSUME NEW bef, NEW since, NEW a \in Link, NEW T, NEW U, Follows(bef, T, since, U, a),
         NEW L \in SUBSET Link, NEW M \in SUBSET L, NEW K, NEW J,
         \A b \in K : b \in M \/ b \in U => b \in J,
         NEW n \in Node, Fine(bef, T, L, a, n, K)
  PROVE  Fine(since, U, M, a, n, J)
<1>1. M \ J \in SUBSET (L \ K) /\ L \ K \in SUBSET Link
  OBVIOUS
<1>2. Reached(n, M \ J) \subseteq Reached(n, L \ K)
  BY <1>1, ReachedLess
<1> QED  BY <1>2 DEF Fine, Clean, Hears, Follows

(* ... an answer that does not matter goes on not to ... *)
LEMMA ShrinkSide ==
  ASSUME NEW bef, NEW since, NEW a \in Link, NEW T, NEW U, Follows(bef, T, since, U, a),
         NEW L \in SUBSET Link, NEW M \in SUBSET L,
         NEW f \in End, Side(bef, T, L, a, f)
  PROVE  Side(since, U, M, a, f)
<1>1. Beyond(f, M) \subseteq Beyond(f, L)
  BY BeyondLess
<1> QED  BY <1>1 DEF Side, Off, Hears, Follows

(* ... and so both together. *)
LEMMA ShrinkHeld ==
  ASSUME NEW bef, NEW since, NEW a \in Link, NEW T, NEW U, Follows(bef, T, since, U, a),
         NEW L \in SUBSET Link, NEW M \in SUBSET L, NEW K, NEW J,
         \A b \in K : b \in M \/ b \in U => b \in J,
         NEW f \in End, Held(bef, T, L, a, f, K)
  PROVE  Held(since, U, M, a, f, J)
<1>1. At(f) \in Node
  BY EndFacts
<1> QED  BY <1>1, ShrinkFine, ShrinkSide DEF Held

(* A node that asks all its neighbours knows about itself only. *)
LEMMA AloneFine ==
  ASSUME NEW bef, NEW T, NEW L \in SUBSET Link, NEW a \in Link, NEW n \in Node, NEW K,
         \A e \in End : At(e) = n /\ e.link \in L => e.link \in K,
         Acc[a] # n,
         \A b \in T : b # a => Est[b] # n /\ (Acc[b] = n => b \in K)
  PROVE  Fine(bef, T, L, a, n, K)
<1>1. L \ K \in SUBSET Link /\ \A e \in End : At(e) = n => e.link \notin L \ K
  OBVIOUS
<1>2. Reached(n, L \ K) = {n}
  BY <1>1, ReachedAlone
<1> QED  BY <1>2 DEF Fine, Clean, Hears

(* A neighbour's "not found" joins what it stands for to the rest. *)
LEMMA MergeFine ==
  ASSUME NEW bef, NEW T, NEW L \in SUBSET Link, NEW a \in Link, NEW K, NEW J,
         NEW e \in End, e.link \in L, e.link \notin T, e.link \in K,
         \A b \in K : b # e.link => b \in J,
         Fine(bef, T, L, a, At(e), K), Fine(bef, T, L, a, At(Peer(e)), {e.link})
  PROVE  Fine(bef, T, L, a, At(e), J)
<1> DEFINE n == At(e)
           u == At(Peer(e))
           R == Reached(n, L \ K)
           B == Reached(u, L \ {e.link})
           S == R \cup B
<1>1. n \in Node /\ u \in Node /\ L \ K \in SUBSET Link /\ L \ {e.link} \in SUBSET Link
      /\ L \ J \in SUBSET Link
  BY EndFacts
<1>2. /\ n \in R /\ R \in SUBSET Node /\ Closed(R, L \ K)
      /\ u \in B /\ B \in SUBSET Node /\ Closed(B, L \ {e.link})
  BY <1>1, ReachedFacts
<1>3. ASSUME NEW l \in L \ J  PROVE ~ Crosses(l, S)
  <2>1. CASE l = e.link
    <3>1. {Est[l], Acc[l]} = {n, u}
      BY <2>1, EndFacts, LinkFacts
    <3> HIDE DEF R, B, n, u
    <3> QED  BY <1>2, <3>1 DEF Crosses
  <2>2. CASE l # e.link
    <3>1. l \in L \ K /\ l \in L \ {e.link}
      BY <2>2
    <3>2. ~ Crosses(l, R) /\ ~ Crosses(l, B)
      BY <1>2, <3>1 DEF Closed
    <3> QED  BY <3>2 DEF Crosses
  <2> QED  BY <2>1, <2>2
<1>4. S \in SUBSET Node /\ n \in S
  BY <1>2
<1>5. Reached(n, L \ J) \subseteq S
  <2> HIDE DEF S, R, B, n
  <2> QED  BY <1>1, <1>3, <1>4, ReachedWithin
<1>6. Clean(bef, T, a, R, K) /\ Clean(bef, T, a, B, {e.link})
  BY DEF Fine
<1> HIDE DEF R, B
<1>7. Clean(bef, T, a, Reached(n, L \ J), J)
  BY <1>5, <1>6 DEF Clean, Hears
<1> QED  BY <1>7 DEF Fine

(* If what came over e does not matter, nothing that comes over what is
   beyond e does. *)
LEMMA NextSide ==
  ASSUME NEW bef, NEW T, NEW L \in SUBSET Link, IsForest(L), NEW a \in Link,
         NEW x \in End, x.link \in L, NEW y \in End, y.link \in L,
         At(y) = At(Peer(x)), y # Peer(x), Side(bef, T, L, a, x)
  PROVE  Side(bef, T, L, a, y)
<1>1. Beyond(y, L) \subseteq Beyond(x, L)
  BY BeyondNext
<1> QED  BY <1>1 DEF Side, Off, Hears

-----------------------------------------------------------------------------
(* The link k is tied on: its establishing node found that B, what it        *)
(* reaches, does not have the accepting node.  A check that heard nothing of *)
(* B is not affected; one that did began before that of k.                   *)

Later(bef, T, L, k, a) ==
  /\ Est[a] \notin Reached(Est[k], L)
  /\ Clean(bef, T \ {k}, a, Reached(Est[k], L), {})

(* What is known of a check a, before k is tied on. *)
Heeds(bef, T, L, k, a) ==
  a # k /\ ((k \in T => <<a, k>> \in bef) => Later(bef, T, L, k, a))

(* n is reached from what it reaches, over no link less. *)
LEMMA ReachedFrom ==
  ASSUME NEW n \in Node, NEW L \in SUBSET Link, NEW K, NEW m \in Reached(n, L \ K)
  PROVE  n \in Reached(m, L)
<1>1. L \ K \in SUBSET Link /\ L \ K \in SUBSET L /\ m \in Node
  BY ReachedFacts
<1> QED  BY <1>1, ReachedBack, ReachedLess

(* What stands for a set of nodes that k is not tied to stays right. *)
LEMMA AddFine ==
  ASSUME NEW bef, NEW T, NEW L \in SUBSET Link, NEW k \in Link, NEW a \in Link,
         Heeds(bef, T, L, k, a), NEW K, NEW n \in Node, Fine(bef, T, L, a, n, K),
         k \in K \/ Est[k] \notin Reached(n, L \ K)
  PROVE  Fine(bef, T \ {k}, L \cup {k}, a, n, K)
<1> DEFINE R == Reached(n, L \ K)
           M == (L \cup {k}) \ K
           B == Reached(Est[k], L)
<1>0. M \in SUBSET Link /\ M \subseteq (L \ K) \cup {k} /\ L \ K \in SUBSET L
  OBVIOUS
<1>1. Clean(bef, T, a, R, K)
  BY DEF Fine
<1>2. CASE Reached(n, M) \subseteq R
  <2> HIDE DEF R, M
  <2>1. Clean(bef, T \ {k}, a, Reached(n, M), K)
    BY <1>1, <1>2 DEF Clean, Hears
  <2> QED  BY <2>1 DEF Fine, M
<1>3. CASE k \in K
  <2>1. M = L \ K
    BY <1>3
  <2> QED  BY <1>2, <2>1
<1>4. CASE k \notin K /\ Acc[k] \notin R
  <2>1. ~ Crosses(k, R)
    BY <1>4 DEF Crosses
  <2> HIDE DEF M
  <2>2. Reached(n, M) \subseteq R
    BY <1>0, <2>1, ReachedMore
  <2> QED  BY <1>2, <2>2
<1>5. CASE k \notin K /\ Acc[k] \in R
  <2>1. k \in T => <<a, k>> \in bef
    BY <1>1, <1>5 DEF Clean, Hears, Heeds
  <2>2. Clean(bef, T \ {k}, a, B, {})
    BY <2>1 DEF Heeds, Later
  <2> HIDE DEF M
  <2>3. Reached(n, M) \subseteq R \cup B
    BY <1>0, <1>5, ReachedMore
  <2> HIDE DEF R, B
  <2>4. Clean(bef, T \ {k}, a, Reached(n, M), K)
    BY <1>1, <2>2, <2>3 DEF Clean, Hears
  <2> QED  BY <2>4 DEF Fine, M
<1> QED  BY <1>3, <1>4, <1>5

(* Its own check hears of B only if it is asking in B. *)
LEMMA AddOwn ==
  ASSUME NEW bef, NEW T, NEW L \in SUBSET Link, NEW k \in Link, NEW a \in Link,
         Heeds(bef, T, L, k, a), NEW K, Fine(bef, T, L, a, Est[a], K)
  PROVE  Fine(bef, T \ {k}, L \cup {k}, a, Est[a], K)
<1> DEFINE n == Est[a]
<1>1. n \in Node
  BY LinkEndsAssumption
<1>2. ASSUME k \notin K, Est[k] \in Reached(n, L \ K)  PROVE FALSE
  <2>1. k \in T => <<a, k>> \in bef
    BY <1>2 DEF Fine, Clean, Hears, Heeds
  <2>2. n \notin Reached(Est[k], L)
    BY <2>1 DEF Heeds, Later
  <2> HIDE DEF n
  <2> QED  BY <1>1, <1>2, <2>2, ReachedFrom
<1> QED  BY <1>1, <1>2, AddFine

(* Where the link of f is tied, what is reached on this side of it without K,
   and what is beyond it, are apart. *)
LEMMA ApartSides ==
  ASSUME NEW L \in SUBSET Link, IsForest(L), NEW f \in End, f.link \in L,
         NEW K, f.link \in K, NEW m, m \in Reached(At(f), L \ K)
  PROVE  /\ m \in Node /\ m \notin Beyond(f, L)
         /\ At(f) \in Reached(m, L) /\ At(Peer(f)) \in Reached(m, L)
<1>1. At(f) \in Node /\ L \ K \in SUBSET Link /\ L \ {f.link} \in SUBSET Link
      /\ L \ K \in SUBSET (L \ {f.link}) /\ Peer(Peer(f)) = f /\ Peer(f).link = f.link
  BY EndFacts
<1>2. m \in Node /\ At(f) \in Reached(m, L)
  BY <1>1, ReachedFacts, ReachedFrom
<1>3. m \in Beyond(Peer(f), L)
  <2>1. m \in Reached(At(f), L \ {f.link})
    BY <1>1, ReachedLess
  <2> QED  BY <1>1, <2>1 DEF Beyond
<1>4. m \notin Beyond(f, L)
  BY <1>3, SidesDisjoint
<1>5. At(Peer(f)) \in Reached(m, L)
  <2>1. Closed(Reached(m, L), L)
    BY <1>2, ReachedFacts
  <2> QED  BY <1>2, <2>1, ClosedByEnds
<1> QED  BY <1>2, <1>4, <1>5

(* What is reached from inside of B is B's. *)
LEMMA ReachedOn ==
  ASSUME NEW n \in Node, NEW L \in SUBSET Link, NEW m \in Reached(n, L), NEW K \in SUBSET L
  PROVE  Reached(m, K) \subseteq Reached(n, L)
<1> DEFINE S == Reached(n, L)
<1>1. S \in SUBSET Node /\ m \in S /\ m \in Node /\ \A l \in K : ~ Crosses(l, S)
  BY ReachedFacts DEF Closed
<1> HIDE DEF S
<1>2. Reached(m, K) \subseteq S
  BY <1>1, ReachedWithin
<1> QED  BY <1>2 DEF S

(* What an answer under way stands for stays right: k is tied to it only from B,
   and if so either B is right for a as well, or the answer goes away from a. *)
LEMMA AddHeld ==
  ASSUME NEW bef, NEW T, NEW L \in SUBSET Link, IsForest(L), NEW k \in Link,
         Acc[k] \notin Reached(Est[k], L), NEW a \in Link, Heeds(bef, T, L, k, a),
         NEW f \in End, f.link \in L, NEW K, f.link \in K, Held(bef, T, L, a, f, K)
  PROVE  Held(bef, T \ {k}, L \cup {k}, a, f, K)
<1> DEFINE n == At(f)
           u == At(Peer(f))
           B == Reached(Est[k], L)
           R == Reached(n, L \ K)
           M == (L \cup {k}) \ K
           Z == Beyond(f, L)
           W == L \ {f.link}
           V == (L \cup {k}) \ {f.link}
<1>0. /\ n \in Node /\ u \in Node /\ Est[k] \in Node /\ Peer(f) \in End
      /\ Peer(Peer(f)) = f /\ Peer(f).link = f.link
  BY EndFacts, LinkEndsAssumption
<1>1. /\ L \ K \in SUBSET L /\ M \in SUBSET Link /\ M \subseteq (L \ K) \cup {k}
      /\ W \in SUBSET L /\ V \in SUBSET Link /\ V \subseteq W \cup {k}
      /\ L \ K \in SUBSET W
  OBVIOUS
<1>2. Z = Reached(u, W) /\ Beyond(f, L \cup {k}) = Reached(u, V)
  BY DEF Beyond
<1>3. /\ ~ Crosses(k, Z) => Reached(u, V) \subseteq Z
      /\ Acc[k] \in Z => Reached(u, V) \subseteq Z \cup B
  <2> HIDE DEF V, W, Z, u
  <2>1. /\ ~ Crosses(k, Reached(u, W)) => Reached(u, V) \subseteq Reached(u, W)
        /\ Acc[k] \in Reached(u, W) =>
             Reached(u, V) \subseteq Reached(u, W) \cup Reached(Est[k], L)
    BY <1>0, <1>1, ReachedMore
  <2> QED  BY <1>2, <2>1
<1>4. ~ Crosses(k, R) => Reached(n, M) \subseteq R
  <2> HIDE DEF M
  <2> QED  BY <1>0, <1>1, ReachedMore
<1>5. \A m \in R : m \notin Z /\ u \in Reached(m, L)
  BY ApartSides
<1>6. Later(bef, T, L, k, a) => Est[a] \notin B /\ Clean(bef, T \ {k}, a, B, {})
  BY DEF Later
<1>7. ASSUME Clean(bef, T, a, R, K), k \notin K, Est[k] \in R
      PROVE  Off(bef, T \ {k}, a, Reached(u, V))
  <2>1. Later(bef, T, L, k, a)
    BY <1>7 DEF Clean, Hears, Heeds
  <2>2. u \in B /\ Est[k] \notin Z
    BY <1>5, <1>7
  <2>3. Z \subseteq B
    <3> HIDE DEF W
    <3> QED  BY <1>0, <1>1, <1>2, <2>2, ReachedOn
  <2>4. ~ Crosses(k, Z)
    BY <2>2, <2>3 DEF Crosses
  <2> HIDE DEF Z, B, V
  <2> QED  BY <1>3, <1>6, <2>1, <2>3, <2>4 DEF Off, Clean, Hears
<1>8. ASSUME Off(bef, T, a, Z), ~ (Est[k] \in Z /\ Acc[k] \notin Z)
      PROVE  Off(bef, T \ {k}, a, Reached(u, V))
  <2>1. CASE Acc[k] \in Z
    <3>1. Later(bef, T, L, k, a)
      BY <1>8, <2>1 DEF Off, Hears, Heeds
    <3> HIDE DEF Z, B, V
    <3> QED  BY <1>3, <1>6, <1>8, <2>1, <3>1 DEF Off, Clean, Hears
  <2>2. CASE Acc[k] \notin Z
    <3>1. ~ Crosses(k, Z)
      BY <1>8, <2>2 DEF Crosses
    <3> HIDE DEF Z, B, V
    <3> QED  BY <1>3, <1>8, <3>1 DEF Off, Hears
  <2> QED  BY <2>1, <2>2
<1>9. ASSUME Off(bef, T, a, Z), Est[k] \in Z, Acc[k] \notin Z
      PROVE  Clean(bef, T \ {k}, a, Reached(n, M), K)
  <2>1. Later(bef, T, L, k, a)
    BY <1>9 DEF Off, Hears, Heeds
  <2>2. u \in B
    <3>1. Est[k] \in Reached(u, L \ {f.link})
      BY <1>2, <1>9
    <3> QED  BY <1>0, <3>1, ReachedFrom
  <2>3. n \in B
    <3>1. Closed(B, L)
      BY <1>0, ReachedFacts
    <3> HIDE DEF B
    <3>2. \A e \in End : e.link \in L /\ At(e) \in B => At(Peer(e)) \in B
      BY <3>1, ClosedByEnds
    <3> QED  BY <1>0, <2>2, <3>2
  <2>4. R \subseteq B
    BY <1>0, <1>1, <2>3, ReachedOn
  <2>5. ~ Crosses(k, R)
    <3>1. Est[k] \notin R
      BY <1>5, <1>9
    <3> QED  BY <2>4, <3>1 DEF Crosses
  <2> HIDE DEF R, B, M
  <2> QED  BY <1>4, <1>6, <2>1, <2>4, <2>5 DEF Clean, Hears
<1>10. CASE Fine(bef, T, L, a, n, K)
  <2>1. Clean(bef, T, a, R, K)
    BY <1>10 DEF Fine
  <2>2. CASE k \in K \/ Est[k] \notin R
    <3>1. Fine(bef, T \ {k}, L \cup {k}, a, n, K)
      BY <1>0, <1>10, <2>2, AddFine
    <3> QED  BY <3>1 DEF Held
  <2>3. CASE k \notin K /\ Est[k] \in R
    <3>1. Off(bef, T \ {k}, a, Beyond(f, L \cup {k}))
      BY <1>2, <1>7, <2>1, <2>3
    <3> QED  BY <3>1 DEF Held, Side
  <2> QED  BY <2>2, <2>3
<1>11. CASE Side(bef, T, L, a, f)
  <2>1. Off(bef, T, a, Z)
    BY <1>11 DEF Side
  <2>2. CASE Est[k] \in Z /\ Acc[k] \notin Z
    <3>1. Clean(bef, T \ {k}, a, Reached(n, M), K)
      BY <1>9, <2>1, <2>2
    <3> QED  BY <3>1 DEF Held, Fine
  <2>3. CASE ~ (Est[k] \in Z /\ Acc[k] \notin Z)
    <3>1. Off(bef, T \ {k}, a, Beyond(f, L \cup {k}))
      BY <1>2, <1>8, <2>1, <2>3
    <3> QED  BY <3>1 DEF Held, Side
  <2> QED  BY <2>2, <2>3
<1> QED  BY <1>10, <1>11 DEF Held

(* What has come over k from its establishing node. *)
LEMMA AddNew ==
  ASSUME NEW bef, NEW T, NEW L \in SUBSET Link, NEW k \in Link \ L,
         NEW a, Later(bef, T, L, k, a)
  PROVE  Held(bef, T \ {k}, L \cup {k}, a, EstEnd(k), {k})
<1>1. (L \cup {k}) \ {k} = L /\ At(EstEnd(k)) = Est[k]
  BY LinkFacts
<1>2. Clean(bef, T \ {k}, a, Reached(Est[k], L), {k})
  BY DEF Later, Clean, Hears
<1> QED  BY <1>1, <1>2 DEF Held, Fine

(* The link that is tied on closes no cycle. *)
LEMMA AddForest ==
  ASSUME NEW L \in SUBSET Link, IsForest(L), NEW k \in Link \ L,
         Acc[k] \notin Reached(Est[k], L)
  PROVE  IsForest(L \cup {k})
<1> DEFINE B == Reached(Est[k], L)
<1>1. B \in SUBSET Node /\ Closed(B, L) /\ Est[k] \in B
  BY LinkEndsAssumption, ReachedFacts
<1>2. Crosses(k, B)
  BY <1>1 DEF Crosses
<1> HIDE DEF B
<1>3. Separated(k, L)
  BY <1>1, <1>2 DEF Separated
<1> QED  BY <1>3, AddKeepsForest

-----------------------------------------------------------------------------
(* The checks that are asking, the links that are tied, or will be as soon as *)
(* their check resumes, and what the answers of a query stand for.            *)

Asking ==
  { a \in Link : phase[a] = "query" /\ a \in pending /\ life[AccEnd(a)] = "up" }

Cleared ==
  { l \in Link : /\ l \in pending /\ phase[l] = "answered" /\ outcome[l] = "not_found"
                 /\ life[AccEnd(l)] = "up" }

Tied == Joined \cup Cleared

Now(a) == [link |-> a, attempt |-> attempt[a]]

(* The query may still come to "not found". *)
Good(query) ==
  query.stage # "none" /\ ~ query.unknown /\ query.result \in {NoResult, "not_found"}

WaitLinks(query) == { e.link : e \in query.waiting }

Denied(c, q) == Under(c, [type |-> "reply", id |-> q, result |-> "not_found"])

EntryHolds(bef, T, L, a, query) ==
  Good(query) =>
    IF query.own
    THEN Fine(bef, T, L, a, Est[a], WaitLinks(query))
    ELSE query.source.link \in L =>
           Held(bef, T, L, a, query.source, WaitLinks(query) \cup {query.source.link})

DenialHolds(bef, T, L, a, f) ==
  /\ f.link \in L => Held(bef, T, L, a, f, {f.link})
  /\ f.side = "est" /\ f.link \in T /\ f.link # a => <<a, f.link>> \in bef

FloodOf(bef, a) ==
  /\ \A n \in Node : EntryHolds(bef, Asking, Tied, a, queries[n][Now(a)])
  /\ \A f \in End : Denied(chan[f], Now(a)) => DenialHolds(bef, Asking, Tied, a, f)

Flood(bef) == \A a \in Asking : FloodOf(bef, a)

(* bef orders the checks by when they asked. *)
Order(bef) ==
  /\ bef \in SUBSET (Link \X Link)
  /\ \A x, y : <<x, y>> \in bef => <<y, x>> \notin bef
  /\ \A x, y, z : <<x, y>> \in bef /\ <<y, z>> \in bef => <<x, z>> \in bef

FloodInv == IsForest(Tied) /\ \E bef : Order(bef) /\ Flood(bef)

-----------------------------------------------------------------------------
(* Steps that tie nothing on, and answer nothing.                            *)

(* query has less to wait for, and nothing that still matters. *)
Weakens(U, M, query, next) ==
  Good(next) =>
    /\ Good(query) /\ next.own = query.own /\ next.source = query.source
    /\ \A e \in query.waiting \ next.waiting : e.link \notin U /\ e.link \notin M

(* What an open query stands for, with fewer links and checks. *)
LEMMA EntryShrinks ==
  ASSUME NEW bef, NEW since, NEW a \in Link, NEW T, NEW U, Follows(bef, T, since, U, a),
         NEW L \in SUBSET Link, NEW M \in SUBSET L,
         NEW query, query.source \in End, NEW next, Weakens(U, M, query, next),
         EntryHolds(bef, T, L, a, query)
  PROVE  EntryHolds(since, U, M, a, next)
<1> SUFFICES ASSUME Good(next)
    PROVE  IF next.own
           THEN Fine(since, U, M, a, Est[a], WaitLinks(next))
           ELSE next.source.link \in M =>
                Held(since, U, M, a, next.source, WaitLinks(next) \cup {next.source.link})
  BY DEF EntryHolds
<1> DEFINE K == WaitLinks(query)
           J == WaitLinks(next)
           s == query.source
<1>1. /\ Good(query) /\ next.own = query.own /\ next.source = s
      /\ \A b \in K : b \in M \/ b \in U => b \in J
  BY DEF Weakens, WaitLinks
<1>2. CASE query.own
  <2>1. Fine(bef, T, L, a, Est[a], K) /\ Est[a] \in Node
    BY <1>1, <1>2, LinkEndsAssumption DEF EntryHolds
  <2> HIDE DEF K, J
  <2>2. Fine(since, U, M, a, Est[a], J)
    BY <1>1, <2>1, ShrinkFine
  <2> QED  BY <1>1, <1>2, <2>2 DEF J
<1>3. CASE ~ query.own
  <2> SUFFICES ASSUME s.link \in M
               PROVE  Held(since, U, M, a, s, J \cup {s.link})
    BY <1>1, <1>3
  <2>1. Held(bef, T, L, a, s, K \cup {s.link})
    BY <1>1, <1>3 DEF EntryHolds
  <2>2. \A b \in K \cup {s.link} : b \in M \/ b \in U => b \in J \cup {s.link}
    BY <1>1
  <2> HIDE DEF K, J, s
  <2> QED  BY <2>1, <2>2, ShrinkHeld DEF s
<1> QED  BY <1>2, <1>3

(* What a "not found" under way stands for, with fewer links and checks. *)
LEMMA DenialShrinks ==
  ASSUME NEW bef, NEW since, NEW a \in Link, NEW T, NEW U, Follows(bef, T, since, U, a),
         NEW L \in SUBSET Link, NEW M \in SUBSET L,
         NEW f \in End, DenialHolds(bef, T, L, a, f)
  PROVE  DenialHolds(since, U, M, a, f)
<1>1. ASSUME f.link \in M  PROVE Held(since, U, M, a, f, {f.link})
  <2>1. Held(bef, T, L, a, f, {f.link})
    BY <1>1 DEF DenialHolds
  <2> QED  BY <2>1, ShrinkHeld
<1>2. ASSUME f.side = "est", f.link \in U, f.link # a  PROVE <<a, f.link>> \in since
  BY <1>2 DEF DenialHolds, Follows
<1> QED  BY <1>1, <1>2 DEF DenialHolds

(* What a goes on from. *)
Goes(bef, since, a) ==
  /\ a \in Asking /\ attempt'[a] = attempt[a]
  /\ Follows(bef, Asking, since, Asking', a)
  /\ \A n \in Node :
       \/ Weakens(Asking', Tied', queries[n][Now(a)], queries'[n][Now(a)])
       \/ EntryHolds(since, Asking', Tied', a, queries'[n][Now(a)])
  /\ \A f \in End : Denied(chan'[f], Now(a)) =>
       Denied(chan[f], Now(a)) \/ DenialHolds(since, Asking', Tied', a, f)

(* These are sets of links. *)
LEMMA TiedTypes == Asking \in SUBSET Link /\ Tied \in SUBSET Link
BY DEF Asking, Tied, Joined, Cleared

(* A check that goes on asking is right about its query, if nothing is tied on. *)
LEMMA FloodGoes ==
  ASSUME TypeOK, NEW bef, NEW since, Flood(bef), Tied' \subseteq Tied,
         NEW a \in Link, Goes(bef, since, a)
  PROVE  FloodOf(since, a)'
<1>1. /\ a \in Asking /\ Now(a)' = Now(a) /\ Now(a) \in QueryId
      /\ Follows(bef, Asking, since, Asking', a) /\ FloodOf(bef, a)
  BY OwnQueryId DEF Goes, Now, Flood
<1>2. Tied \in SUBSET Link /\ Tied' \in SUBSET Tied
  BY TiedTypes
<1>3. ASSUME NEW n \in Node
      PROVE  EntryHolds(since, Asking', Tied', a, queries'[n][Now(a)])
  <2>1. EntryHolds(bef, Asking, Tied, a, queries[n][Now(a)])
    BY <1>1 DEF FloodOf
  <2>2. queries[n][Now(a)].source \in End
    BY <1>1 DEF TypeOK, Query
  <2>3. \/ Weakens(Asking', Tied', queries[n][Now(a)], queries'[n][Now(a)])
        \/ EntryHolds(since, Asking', Tied', a, queries'[n][Now(a)])
    BY DEF Goes
  <2> QED  BY <1>1, <1>2, <2>1, <2>2, <2>3, EntryShrinks
<1>4. ASSUME NEW f \in End, Denied(chan'[f], Now(a))
      PROVE  DenialHolds(since, Asking', Tied', a, f)
  <2>1. Denied(chan[f], Now(a)) => DenialHolds(bef, Asking, Tied, a, f)
    BY <1>1 DEF FloodOf
  <2>2. Denied(chan[f], Now(a)) \/ DenialHolds(since, Asking', Tied', a, f)
    BY <1>4 DEF Goes
  <2> QED  BY <1>1, <1>2, <2>1, <2>2, DenialShrinks
<1> QED  BY <1>1, <1>3, <1>4 DEF FloodOf

(* Nothing is tied on, no check starts to ask. *)
Narrows ==
  /\ Tied' \subseteq Tied
  /\ \A a \in Asking' : a \in Asking /\ attempt'[a] = attempt[a]

Unraised(k) ==
  /\ phase'[k] = phase[k] /\ outcome'[k] = outcome[k] /\ attempt'[k] = attempt[k]
  /\ k \in pending' => k \in pending
  /\ life'[EstEnd(k)] = "up" => life[EstEnd(k)] = "up"
  /\ life'[AccEnd(k)] = "up" => life[AccEnd(k)] = "up"

(* A step narrows if it does so link by link. *)
LEMMA NarrowStep ==
  ASSUME \A k \in Link : Unraised(k) \/ (k \notin Tied' /\ k \notin Asking')
  PROVE  Narrows
<1>1. ASSUME NEW k \in Tied'  PROVE k \in Tied
  <2>1. k \in Link
    BY TiedTypes DEF Tied, Joined, Cleared
  <2>2. Unraised(k)
    BY <1>1, <2>1
  <2> QED  BY <1>1, <2>1, <2>2 DEF Unraised, Tied, Joined, Cleared
<1>2. ASSUME NEW k \in Asking'  PROVE k \in Asking /\ attempt'[k] = attempt[k]
  <2>1. k \in Link
    BY DEF Asking
  <2>2. Unraised(k)
    BY <1>2, <2>1
  <2> QED  BY <1>2, <2>1, <2>2 DEF Unraised, Asking
<1> QED  BY <1>1, <1>2 DEF Narrows

(* The phases that make a link tied or asking. *)
LEMMA OutOfPhase ==
  ASSUME NEW k \in Link, phase'[k] \notin {"query", "answered", "accepted"}
  PROVE  k \notin Tied' /\ k \notin Asking'
BY DEF Tied, Joined, Cleared, Asking

(* A query that is left alone, or forgotten, has not got stronger. *)
LEMMA WeakensSame ==
  ASSUME NEW query, NEW q, NEW U, NEW M
  PROVE  Weakens(U, M, query, query) /\ Weakens(U, M, query, NoQuery(q))
BY DEF Weakens, Good, NoQuery

(* A step that narrows, and by which no query or answer gets stronger, is safe. *)
LEMMA QuietFlood ==
  ASSUME TypeOK, FloodInv, Narrows,
         \A n \in Node, q \in QueryId :
           Weakens(Asking', Tied', queries[n][q], queries'[n][q]),
         \A f \in End, q \in QueryId : Denied(chan'[f], q) => Denied(chan[f], q)
  PROVE  FloodInv'
<1>1. PICK bef : Order(bef) /\ Flood(bef)
  BY DEF FloodInv
<1>2. Tied' \subseteq Tied /\ Tied \in SUBSET Link
  BY TiedTypes DEF Narrows
<1>3. ASSUME NEW a \in Asking'  PROVE FloodOf(bef, a)'
  <2>1. a \in Asking /\ attempt'[a] = attempt[a] /\ a \in Link
    BY <1>3 DEF Narrows, Asking
  <2>2. Now(a) \in QueryId
    BY <2>1, OwnQueryId DEF Now
  <2>3. Follows(bef, Asking, bef, Asking', a)
    BY DEF Follows, Narrows
  <2>4. Goes(bef, bef, a)
    BY <2>1, <2>2, <2>3 DEF Goes
  <2> QED  BY <1>1, <1>2, <2>1, <2>4, FloodGoes
<1>4. Flood(bef)'
  BY <1>3 DEF Flood
<1>5. IsForest(Tied')
  BY <1>2, SubsetKeepsForest DEF FloodInv
<1>6. Order(bef)'
  BY <1>1 DEF Order
<1> QED  BY <1>4, <1>5, <1>6 DEF FloodInv

(* Dropping an end.  What waits for it goes on without it. *)
CountsIn(query, next, e, result) ==
  \/ next = query
  \/ Good(next) =>
       /\ Good(query) /\ result = "not_found" /\ e \in query.waiting
       /\ next.own = query.own /\ next.source = query.source
       /\ next.waiting = query.waiting \ {e}

(* What a reply makes of a query that may still come to "not found". *)
LEMMA RepliedGood ==
  ASSUME NEW query \in Query, NEW e \in End, NEW result \in Result
  PROVE  CountsIn(query, Replied(query, e, result), e, result)
BY DEF CountsIn, Replied, Good, Query, Result, NoResult

(* Nothing is under way in an empty channel. *)
LEMMA NothingUnder == \A x : ~ Under(<<>>, x)
<1>1. DOMAIN <<>> = {}
  OBVIOUS
<1> QED  BY <1>1 DEF Under

(* Dropping an end is safe: its link is not tied any more, and who counts it as
   "not found" is right. *)
LEMMA DropFlood ==
  ASSUME TypeOK, TypeOK', FloodInv, NEW d \in End, Drop(d), UNCHANGED <<outcome, attempt>>,
         \A k \in Link : phase'[k] = phase[k]
                         \/ phase'[k] \in {"refused", "no hello", "undetermined"}
  PROVE  FloodInv'
<1>1. /\ \A e \in End : life'[e] = IF e = d THEN "down" ELSE life[e]
      /\ \A e \in End : chan'[e] = IF e = Peer(d) THEN <<>> ELSE chan[e]
      /\ pending' = IF d.side = "est" THEN pending \ {d.link} ELSE pending
      /\ \A n \in Node, q \in QueryId :
           queries'[n][q] = IF n = At(d) THEN Replied(queries[n][q], d, "not_found")
                            ELSE queries[n][q]
  BY EndTypes, ZenonT(60) DEF Drop, TypeOK
<1>2. Narrows
  <2> SUFFICES ASSUME NEW k \in Link
               PROVE  Unraised(k) \/ (k \notin Tied' /\ k \notin Asking')
    BY NarrowStep
  <2>1. CASE phase'[k] = phase[k]
    BY <1>1, <2>1, LinkFacts DEF Unraised
  <2>2. CASE phase'[k] # phase[k]
    BY <2>2, OutOfPhase
  <2> QED  BY <2>1, <2>2
<1>3. d.link \notin Tied' /\ d.link \notin Asking'
  <2>1. /\ d.link \in Link /\ d.side \in {"est", "acc"}
        /\ d.side = "est" => d = EstEnd(d.link) /\ d.link \notin pending'
        /\ d.side = "acc" => d = AccEnd(d.link)
    BY <1>1, EndFacts
  <2>2. life'[d] = "down"
    BY <1>1
  <2>3. life'[AccEnd(d.link)] # "up" \/ (life'[EstEnd(d.link)] # "up" /\ d.link \notin pending')
    BY <2>1, <2>2
  <2> QED  BY <2>3 DEF Tied, Joined, Cleared, Asking
<1>4. \A n \in Node, q \in QueryId :
        Weakens(Asking', Tied', queries[n][q], queries'[n][q])
  <2>1. \A n \in Node, q \in QueryId : queries[n][q] \in Query
    BY DEF TypeOK
  <2>2. "not_found" \in Result
    BY DEF Result
  <2>3. ASSUME NEW query \in Query
        PROVE  Weakens(Asking', Tied', query, Replied(query, d, "not_found"))
    <3> DEFINE next == Replied(query, d, "not_found")
    <3>1. CountsIn(query, next, d, "not_found")
      BY <2>2, RepliedGood
    <3> HIDE DEF next
    <3>2. Weakens(Asking', Tied', query, next)
      BY <1>3, <3>1, WeakensSame DEF Weakens, CountsIn
    <3> QED  BY <3>2 DEF next
  <2> QED  BY <1>1, <2>1, <2>3, WeakensSame
<1>5. \A f \in End, q \in QueryId : Denied(chan'[f], q) => Denied(chan[f], q)
  <2> SUFFICES ASSUME NEW f \in End, NEW x, Under(chan'[f], x)  PROVE Under(chan[f], x)
    BY DEF Denied
  <2> QED  BY <1>1, NothingUnder
<1> QED  BY <1>2, <1>4, <1>5, QuietFlood

(* A step of the check of l that sends nothing, drops nothing and does not
   tie l on; an own query may be over. *)
LEMMA CheckQuiet ==
  ASSUME TypeOK, TypeOK', FloodInv, NEW l \in Link, UNCHANGED <<life, chan>>,
         \A k \in Link : k # l =>
           /\ phase'[k] = phase[k] /\ outcome'[k] = outcome[k] /\ attempt'[k] = attempt[k]
           /\ k \in pending' => k \in pending,
         l \notin Asking', l \in Tied' => l \in Tied,
         \A n \in Node, q \in QueryId :
           queries'[n][q] \in {queries[n][q], NoQuery(q)}
  PROVE  FloodInv'
<1>1. Narrows
  <2>1. ASSUME NEW k \in Link, k # l  PROVE Unraised(k)
    BY <2>1 DEF Unraised
  <2>2. Tied' \subseteq Tied
    BY <2>1 DEF Unraised, Tied, Joined, Cleared
  <2>3. \A a \in Asking' : a \in Asking /\ attempt'[a] = attempt[a]
    BY <2>1 DEF Unraised, Asking
  <2> QED  BY <2>2, <2>3 DEF Narrows
<1>2. \A n \in Node, q \in QueryId :
        Weakens(Asking', Tied', queries[n][q], queries'[n][q])
  BY WeakensSame
<1> QED  BY <1>1, <1>2, QuietFlood

(* The steps of a check that change only how far it is are safe. *)
LEMMA PhaseFlood ==
  ASSUME TypeOK, TypeOK', LifeInv, FloodInv, NEW l \in Link,
         AcquireLock(l) \/ PeerIdentified(l) \/ Retry(l) \/ NextAttempt(l) \/ Activate(l)
  PROVE  FloodInv'
<1>1. /\ UNCHANGED <<life, chan, queries, outcome>> /\ pending' \subseteq pending
      /\ \A k \in Link : k # l => phase'[k] = phase[k] /\ attempt'[k] = attempt[k]
  BY DEF AcquireLock, PeerIdentified, Retry, NextAttempt, Activate, TypeOK
<1>2. \/ phase'[l] \in {"hello", "ask", "delay"}
      \/ Activate(l) /\ phase'[l] = "accepted"
  BY DEF AcquireLock, PeerIdentified, Retry, NextAttempt, Activate, TypeOK
<1>3. l \notin Asking'
  BY <1>2 DEF Asking
<1>4. l \in Tied' => l \in Tied
  <2>1. CASE phase'[l] \in {"hello", "ask", "delay"}
    BY <2>1, OutOfPhase
  <2>2. CASE Activate(l)
    <3>1. l \in pending /\ phase[l] = "answered" /\ outcome[l] = "not_found"
      BY <2>2 DEF Activate
    <3>2. l \in Tied' => life'[AccEnd(l)] = "up"
      BY DEF Tied, Joined, Cleared
    <3> QED  BY <1>1, <3>1, <3>2 DEF Tied, Cleared
  <2> QED  BY <1>2, <2>1, <2>2
<1>5. \A n \in Node, q \in QueryId : queries'[n][q] \in {queries[n][q], NoQuery(q)}
  BY <1>1
<1> QED  BY <1>1, <1>3, <1>4, <1>5, CheckQuiet

(* The query of a check is over, or it is abandoned. *)
LEMMA OverFlood ==
  ASSUME TypeOK, TypeOK', FloodInv, NEW l \in Link,
         OwnQueryDone(l) \/ AbandonCheck(l), l \notin Tied'
  PROVE  FloodInv'
<1> DEFINE n0 == Est[l]
           q0 == [link |-> l, attempt |-> attempt[l]]
<1>1. /\ UNCHANGED <<life, chan, pending, attempt>>
      /\ \A k \in Link : k # l => phase'[k] = phase[k] /\ outcome'[k] = outcome[k]
      /\ phase'[l] # "query"
      /\ queries' = queries \/ queries' = [queries EXCEPT ![n0][q0] = NoQuery(q0)]
  BY DEF OwnQueryDone, AbandonCheck, TypeOK
<1>2. \A n \in Node, q \in QueryId : queries'[n][q] \in {queries[n][q], NoQuery(q)}
  <2>1. n0 \in Node /\ q0 \in QueryId /\ queries \in [Node -> [QueryId -> Query]]
    BY OwnQueryId, LinkEndsAssumption DEF TypeOK
  <2> HIDE DEF n0, q0
  <2>2. CASE queries' = queries
    BY <2>2
  <2>3. CASE queries' = [queries EXCEPT ![n0][q0] = NoQuery(q0)]
    BY <2>1, <2>3
  <2> QED  BY <1>1, <2>2, <2>3
<1>3. l \notin Asking'
  BY <1>1 DEF Asking
<1> HIDE DEF n0, q0
<1> QED  BY <1>1, <1>2, <1>3, CheckQuiet

(* A new connection is safe. *)
LEMMA EstablishFlood ==
  ASSUME TypeOK, TypeOK', LifeInv, FloodInv, NEW l \in Link, Establish(l)
  PROVE  FloodInv'
<1>1. /\ \A e \in End : life'[e] = IF e = EstEnd(l) THEN "up" ELSE life[e]
      /\ \A e \in End : chan'[e] = IF e = EstEnd(l) THEN <<[type |-> "hello"]>> ELSE chan[e]
      /\ UNCHANGED <<attempt, outcome, queries>>
      /\ pending' = pending \cup {l}
      /\ \A k \in Link : phase'[k] = IF k = l THEN "lock" ELSE phase[k]
  BY DEF Establish, TypeOK
<1>2. Narrows
  <2> SUFFICES ASSUME NEW k \in Link
               PROVE  Unraised(k) \/ (k \notin Tied' /\ k \notin Asking')
    BY NarrowStep
  <2>1. CASE k = l
    BY <1>1, <2>1, OutOfPhase
  <2>2. CASE k # l
    <3>1. EstEnd(k) # EstEnd(l) /\ AccEnd(k) # EstEnd(l) /\ EstEnd(k) \in End /\ AccEnd(k) \in End
      BY <2>2, LinkFacts
    <3> QED  BY <1>1, <2>2, <3>1 DEF Unraised
  <2> QED  BY <2>1, <2>2
<1>3. \A n \in Node, q \in QueryId :
        Weakens(Asking', Tied', queries[n][q], queries'[n][q])
  BY <1>1, WeakensSame
<1>4. ASSUME NEW f \in End, NEW q \in QueryId, Denied(chan'[f], q)  PROVE Denied(chan[f], q)
  <2>1. \A x : Under(<<[type |-> "hello"]>>, x) => x = [type |-> "hello"]
    BY DEF Under
  <2>2. f # EstEnd(l)
    BY <1>1, <1>4, <2>1 DEF Denied
  <2> QED  BY <1>1, <1>4, <2>2
<1> QED  BY <1>2, <1>3, <1>4, QuietFlood

(* The peer accepts; it had not, if the check was about to ask. *)
LEMMA AcceptFlood ==
  ASSUME TypeOK, TypeOK', KnownInv, FlowInv, FloodInv, NEW l \in Link, Accept(l)
  PROVE  FloodInv'
<1>1. /\ \A e \in End : life'[e] = IF e = AccEnd(l) THEN "up" ELSE life[e]
      /\ \A e \in End : e # AccEnd(l) => chan'[e] = chan[e]
      /\ chan'[AccEnd(l)] \in {<<[type |-> "hello"]>>, <<>>}
      /\ UNCHANGED <<attempt, outcome, queries, pending, phase>>
      /\ life[AccEnd(l)] = "none"
  BY LinkFacts DEF Accept, TypeOK
<1>2. EstEnd(l) \notin known
  BY <1>1 DEF KnownInv, FlowInv
<1>3. Narrows
  <2> SUFFICES ASSUME NEW k \in Link
               PROVE  Unraised(k) \/ (k \notin Tied' /\ k \notin Asking')
    BY NarrowStep
  <2>1. CASE k = l
    <3>1. ~ (l \in pending /\ phase[l] \in Late)
          /\ ~ (phase[l] = "accepted" /\ life[EstEnd(l)] = "up")
      BY <1>2 DEF KnownInv
    <3>2. life'[EstEnd(l)] = life[EstEnd(l)]
      BY <1>1, LinkFacts
    <3> QED  BY <1>1, <2>1, <3>1, <3>2 DEF Tied, Joined, Cleared, Asking, Late
  <2>2. CASE k # l
    <3>1. EstEnd(k) # AccEnd(l) /\ AccEnd(k) # AccEnd(l) /\ EstEnd(k) \in End /\ AccEnd(k) \in End
      BY <2>2, LinkFacts
    <3> QED  BY <1>1, <2>2, <3>1 DEF Unraised
  <2> QED  BY <2>1, <2>2
<1>4. \A n \in Node, q \in QueryId :
        Weakens(Asking', Tied', queries[n][q], queries'[n][q])
  BY <1>1, WeakensSame
<1>5. ASSUME NEW f \in End, NEW q \in QueryId, Denied(chan'[f], q)  PROVE Denied(chan[f], q)
  <2>1. \A x : Under(<<[type |-> "hello"]>>, x) => x = [type |-> "hello"]
    BY DEF Under
  <2>2. f # AccEnd(l)
    BY <1>1, <1>5, <2>1, NothingUnder DEF Denied
  <2> QED  BY <1>1, <1>5, <2>2
<1> QED  BY <1>3, <1>4, <1>5, QuietFlood

(* Nothing happens to a connection or a check. *)
LEMMA SameTied ==
  ASSUME UNCHANGED <<life, phase, pending, outcome, attempt>>
  PROVE  Asking' = Asking /\ Tied' = Tied /\ Narrows /\ \A a : Now(a)' = Now(a)
BY DEF Asking, Tied, Joined, Cleared, Narrows, Now

(* Receiving a Hello is safe. *)
LEMMA ReceiveHelloFlood ==
  ASSUME TypeOK, TypeOK', FloodInv, NEW f \in End, ReceiveHello(f)
  PROVE  FloodInv'
<1>1. /\ Arrives(f, "hello") /\ chan' = Taken(f)
      /\ UNCHANGED <<life, phase, pending, outcome, attempt, queries>>
  BY DEF ReceiveHello, Taken
<1>2. \A e \in End, q \in QueryId : Denied(chan'[e], q) => Denied(chan[e], q)
  BY <1>1, TakenKeeps DEF Denied
<1> QED  BY <1>1, <1>2, SameTied, WeakensSame, QuietFlood

(* Forwarding a query is safe: it stands for what it stood for. *)
LEMMA SendForwardFlood ==
  ASSUME TypeOK, TypeOK', FloodInv, NEW n0 \in Node, NEW q0 \in QueryId, SendForward(n0, q0)
  PROVE  FloodInv'
<1> DEFINE old == queries[n0][q0]
           m == [type |-> "query", id |-> q0]
           sent == [old EXCEPT !.stage = "sent"]
<1>1. /\ UNCHANGED <<life, phase, pending, outcome, attempt>> /\ chan' = Sent(old.waiting, m)
      /\ queries' = [queries EXCEPT ![n0][q0] = sent] /\ old.stage = "opened"
  BY DEF SendForward
<1>2. old \in Query /\ m \in Message
  BY DEF TypeOK, Message
<1>3. \A U, M : Weakens(U, M, old, sent)
  BY <1>1, <1>2 DEF Weakens, Good, Query
<1> HIDE DEF old, sent
<1>4. \A n \in Node, q \in QueryId :
        queries'[n][q] = IF n = n0 /\ q = q0 THEN sent ELSE queries[n][q]
  BY <1>1 DEF TypeOK
<1>5. \A n \in Node, q \in QueryId :
        Weakens(Asking', Tied', queries[n][q], queries'[n][q])
  BY <1>3, <1>4, WeakensSame DEF old
<1>6. \A e \in End, q \in QueryId : Denied(chan'[e], q) => Denied(chan[e], q)
  <2>1. \A e \in End : \A x : Under(chan'[e], x) => Under(chan[e], x) \/ x = m
    BY <1>1, <1>2, SentKeeps
  <2>2. m.type = "query"
    OBVIOUS
  <2> QED  BY <2>1, <2>2 DEF Denied
<1> QED  BY <1>1, <1>5, <1>6, SameTied, QuietFlood

-----------------------------------------------------------------------------
(* Steps that answer.                                                        *)

(* A step that touches no connection and no check is safe if every query and
   every "not found" it makes stands for what it should. *)
LEMMA SameFlood ==
  ASSUME TypeOK, UNCHANGED <<life, phase, pending, outcome, attempt>>, IsForest(Tied),
         NEW bef, Order(bef), Flood(bef),
         \A a \in Asking :
           /\ \A n \in Node :
                \/ Weakens(Asking, Tied, queries[n][Now(a)], queries'[n][Now(a)])
                \/ EntryHolds(bef, Asking, Tied, a, queries'[n][Now(a)])
           /\ \A f \in End : Denied(chan'[f], Now(a)) =>
                Denied(chan[f], Now(a)) \/ DenialHolds(bef, Asking, Tied, a, f)
  PROVE  FloodInv'
<1>1. Asking' = Asking /\ Tied' = Tied /\ UNCHANGED attempt
  BY SameTied
<1>2. ASSUME NEW a \in Asking  PROVE FloodOf(bef, a)'
  <2>1. a \in Link
    BY DEF Asking
  <2>2. Follows(bef, Asking, bef, Asking', a)
    BY <1>1 DEF Follows
  <2>3. Goes(bef, bef, a)
    BY <1>1, <2>2 DEF Goes
  <2> QED  BY <1>1, <2>1, <2>3, FloodGoes
<1>3. Flood(bef)'
  BY <1>1, <1>2 DEF Flood
<1>4. Order(bef)'
  BY DEF Order
<1> QED  BY <1>1, <1>3, <1>4 DEF FloodInv

(* The result of a forwarded query stands for what the query stood for. *)
LEMMA ReplyForwardFlood ==
  ASSUME TypeOK, FlowInv, FloodInv, NEW n0 \in Node, NEW q0 \in QueryId, ReplyForward(n0, q0)
  PROVE  FloodInv'
<1> DEFINE old == queries[n0][q0]
           s == old.source
           result == IF old.result = NoResult THEN "unknown" ELSE old.result
           m == [type |-> "reply", id |-> q0, result |-> result]
<1>1. /\ UNCHANGED <<life, phase, pending, outcome, attempt>> /\ old.stage = "sent" /\ ~ old.own
      /\ queries' = [queries EXCEPT ![n0][q0] = NoQuery(q0)] /\ chan' = Sent({s}, m)
  BY DEF ReplyForward
<1>2. /\ old \in Query /\ s \in End /\ m \in Message
      /\ phase[s.link] = "accepted"
      /\ old.result = "not_found" => old.waiting = {} /\ ~ old.unknown
  <2>1. old \in Query /\ EntryOK(phase, n0, old)
    BY DEF TypeOK, FlowInv
  <2>2. result \in Result
    BY <2>1 DEF Query, NoResult, Result
  <2> QED  BY <1>1, <2>1, <2>2 DEF EntryOK, Query, Message
<1>3. PICK bef : Order(bef) /\ Flood(bef)
  BY DEF FloodInv
<1>4. \A n \in Node, q \in QueryId :
        queries'[n][q] = IF n = n0 /\ q = q0 THEN NoQuery(q0) ELSE queries[n][q]
  BY <1>1 DEF TypeOK
<1>5. \A e \in End : \A x : Under(chan'[e], x) => Under(chan[e], x) \/ (e = s /\ x = m)
  <2>1. \A e \in End : \A x : Under(chan'[e], x) => Under(chan[e], x) \/ x = m
    BY <1>1, <1>2, SentKeeps
  <2>2. \A e \in End : e # s => chan'[e] = chan[e]
    BY <1>1 DEF Sent
  <2> QED  BY <2>1, <2>2
<1>6. ASSUME NEW a \in Asking  PROVE Now(a) \in QueryId
  BY <1>6, OwnQueryId DEF Asking, Now
<1>7. ASSUME NEW a \in Asking, NEW n \in Node
      PROVE  Weakens(Asking, Tied, queries[n][Now(a)], queries'[n][Now(a)])
  BY <1>4, <1>6, WeakensSame
<1>8. ASSUME NEW a \in Asking, NEW f \in End, Denied(chan'[f], Now(a)), ~ Denied(chan[f], Now(a))
      PROVE  DenialHolds(bef, Asking, Tied, a, f)
  <2>1. f = s /\ Now(a) = q0 /\ result = "not_found"
    BY <1>5, <1>8 DEF Denied
  <2>2. old.result = "not_found"
    BY <2>1 DEF NoResult
  <2>3. Good(old) /\ WaitLinks(old) = {}
    BY <1>1, <1>2, <2>2 DEF Good, WaitLinks
  <2>4. EntryHolds(bef, Asking, Tied, a, old)
    BY <1>3, <2>1 DEF Flood, FloodOf
  <2> HIDE DEF old
  <2>5. s.link \in Tied => Held(bef, Asking, Tied, a, s, {} \cup {s.link})
    BY <1>1, <2>3, <2>4 DEF EntryHolds
  <2>6. {} \cup {s.link} = {s.link}
    OBVIOUS
  <2>7. s.link \notin Asking
    BY <1>2 DEF Asking
  <2> QED  BY <2>1, <2>5, <2>6, <2>7 DEF DenialHolds
<1> QED  BY <1>1, <1>3, <1>7, <1>8, SameFlood DEF FloodInv

(* The ends of tied links, and of checks that ask, are what a node asks. *)
LEMMA TiedIsActive ==
  ASSUME KnownInv, NEW e \in End,
         \/ e.link \in Tied /\ (e.side = "est" => phase[e.link] # "answered")
         \/ e.link \in Asking /\ e.side = "acc"
  PROVE  e \in ActiveNodeEnds(At(e))
<1> DEFINE l == e.link
<1>1. l \in Link /\ ((e = EstEnd(l) /\ e.side = "est") \/ (e = AccEnd(l) /\ e.side = "acc"))
  BY EndFacts
<1>2. CASE l \in Joined
  <2>1. phase[l] = "accepted" /\ life[EstEnd(l)] = "up" /\ life[AccEnd(l)] = "up"
    BY <1>2 DEF Joined
  <2>2. EstEnd(l) \in known /\ AccEnd(l) \in known /\ l \notin pending
    BY <1>1, <2>1, PhaseFacts DEF KnownInv
  <2> QED  BY <1>1, <2>1, <2>2 DEF ActiveNodeEnds
<1>3. CASE (l \in Cleared \/ l \in Asking) /\ e.side = "acc"
  <2>1. l \in pending /\ phase[l] \in Late /\ life[AccEnd(l)] = "up"
    BY <1>3 DEF Cleared, Asking, Late
  <2>2. AccEnd(l) \in known
    BY <1>1, <2>1 DEF KnownInv
  <2> QED  BY <1>1, <1>3, <2>1, <2>2 DEF ActiveNodeEnds
<1> QED  BY <1>1, <1>2, <1>3 DEF Tied, Cleared

(* n asks all it is tied to, and no check of its own is asking, but a. *)
LEMMA NodeAlone ==
  ASSUME KnownInv, NEW bef, NEW U, NEW a \in Link, U \subseteq Asking \cup {a},
         NEW n \in Node, NEW K, \A e \in ActiveNodeEnds(n) : e.link \in K,
         Acc[a] # n,
         \A b \in Link : Est[b] = n => phase[b] # "answered" /\ (b # a => phase[b] # "query")
  PROVE  Fine(bef, U, Tied, a, n, K)
<1>1. ASSUME NEW e \in End, At(e) = n, e.link \in Tied  PROVE e.link \in K
  <2>1. e.side = "est" => phase[e.link] # "answered"
    BY <1>1, EndFacts
  <2> QED  BY <1>1, <2>1, TiedIsActive
<1>2. ASSUME NEW b \in U, b # a  PROVE Est[b] # n /\ (Acc[b] = n => b \in K)
  <2>1. b \in Asking /\ b \in Link /\ phase[b] = "query"
    BY <1>2 DEF Asking
  <2>2. Acc[b] = n => b \in K
    BY <2>1, LinkFacts, TiedIsActive
  <2> QED  BY <1>2, <2>1, <2>2
<1> QED  BY <1>1, <1>2, TiedTypes, AloneFine

(* A query that is not refused comes to a node that has no check asking, nor
   one that is about to be decided. *)
LEMMA NoneOfItsOwn ==
  ASSUME PromptDecision, AskingInv, NEW f \in End, QueryArrives(f)
  PROVE  \A b \in Link : Est[b] = At(f) =>
           phase[b] # "answered" /\ (~ checking[At(f)] => phase[b] # "query")
BY DEF QueryArrives, AskingInv

(* A "not found" at once is right: the node is not asking itself, is not the one
   that is looked for, and knows about itself only. *)
LEMMA AnswerFlood ==
  ASSUME PromptDecision, TypeOK, AskingInv, AskedInv, KnownInv, FlowInv, FloodInv,
         NEW f \in End, AnswerQuery(f)
  PROVE  FloodInv'
<1> DEFINE n == At(f)
           g == Peer(f)
           q0 == Head(chan[g]).id
           pend == f.side = "est" /\ f.link \in pending
           alone == ~ pend /\ Acc[q0.link] # n /\ ActiveNodeEnds(n) \ {f} = {}
<1>1. QueryArrives(f) /\ UNCHANGED <<life, phase, pending, outcome, attempt, queries>>
  BY DEF AnswerQuery
<1>2. PICK result \in Result :
        /\ chan' = [Sent({f}, [type |-> "reply", id |-> q0, result |-> result])
                      EXCEPT ![g] = Tail(@)]
        /\ result = "not_found" => ~ checking[n] /\ (pend \/ alone)
  BY DEF AnswerQuery, AnswerNow, Result, NoResult
<1> DEFINE m == [type |-> "reply", id |-> q0, result |-> result]
           t == {f}
           s == Sent(t, m)
           c == Taken(f)
<1>3. q0 \in QueryId /\ g \in End /\ g # f /\ Arrives(f, "query") /\ n \in Node
  BY <1>1, QueryCame, PeerFacts, EndFacts DEF QueryArrives
<1>4. m \in Message
  BY <1>3 DEF Message
<1>5. \A e \in End : e # f => chan'[e] = c[e]
  <2>1. \A e \in End : e # f => s[e] = chan[e]
    BY DEF Sent
  <2>2. s \in [End -> Seq(Message)] /\ chan \in [End -> Seq(Message)]
    BY <1>4, SentType DEF TypeOK
  <2>3. chan' = [s EXCEPT ![g] = Tail(@)]
    BY <1>2
  <2> HIDE DEF s, m, t
  <2> QED  BY <1>3, <2>1, <2>2, <2>3 DEF Taken
<1>6. chan'[f] = s[f]
  <2>1. s \in [End -> Seq(Message)]
    BY <1>4, SentType DEF TypeOK
  <2>2. chan' = [s EXCEPT ![g] = Tail(@)]
    BY <1>2
  <2> HIDE DEF s, m, t
  <2> QED  BY <1>3, <2>1, <2>2
<1> HIDE DEF s, c, t, m, q0, n, pend
<1>7. ASSUME NEW e \in End, NEW x, Under(chan'[e], x)
      PROVE  Under(chan[e], x) \/ (e = f /\ x = m)
  <2>1. CASE e = f
    BY <1>4, <1>6, <1>7, <2>1, SentKeeps DEF s
  <2>2. CASE e # f
    BY <1>3, <1>5, <1>7, <2>2, TakenKeeps DEF c
  <2> QED  BY <2>1, <2>2
<1>8. PICK bef : Order(bef) /\ Flood(bef)
  BY DEF FloodInv
<1>9. ASSUME NEW a \in Asking, NEW e \in End, Denied(chan'[e], Now(a)), ~ Denied(chan[e], Now(a))
      PROVE  DenialHolds(bef, Asking, Tied, a, e)
  <2>1. e = f /\ Now(a) = q0 /\ result = "not_found"
    BY <1>7, <1>9 DEF Denied, m
  <2>2. q0.link = a /\ a \in Link
    BY <2>1 DEF Now, Asking
  <2>3. /\ ~ checking[n] /\ (pend \/ alone)
        /\ \A b \in Link : Est[b] = n => phase[b] # "answered" /\ phase[b] # "query"
    BY <1>1, <1>2, <2>1, NoneOfItsOwn DEF n
  <2>4. f.link \in Link /\ (f.side = "est" => Est[f.link] = n)
    BY EndFacts DEF n
  <2>5. ASSUME f.link \in Tied  PROVE Held(bef, Asking, Tied, a, f, {f.link})
    <3>1. ~ pend
      <4>1. pend => phase[f.link] \in Unfinished /\ Est[f.link] = n
        BY <2>4 DEF KnownInv, pend
      <4> QED  BY <2>3, <2>4, <2>5, <4>1, PhaseFacts DEF Tied, Joined, Cleared
    <3>2. Acc[a] # n /\ \A e2 \in ActiveNodeEnds(n) : e2.link \in {f.link}
      BY <2>2, <2>3, <3>1
    <3>3. Fine(bef, Asking, Tied, a, n, {f.link})
      BY <1>3, <2>2, <2>3, <3>2, NodeAlone
    <3> QED  BY <3>3 DEF Held, n
  <2>6. ~ (f.side = "est" /\ f.link \in Asking)
    BY <2>3, <2>4 DEF Asking
  <2> QED  BY <2>1, <2>5, <2>6 DEF DenialHolds
<1>10. ASSUME NEW a \in Asking, NEW v \in Node
       PROVE  Weakens(Asking, Tied, queries[v][Now(a)], queries'[v][Now(a)])
  BY <1>1, WeakensSame
<1> QED  BY <1>1, <1>8, <1>9, <1>10, SameFlood DEF FloodInv

(* A query that is registered to be forwarded stands for the node itself. *)
LEMMA ForwardFlood ==
  ASSUME PromptDecision, TypeOK, AskingInv, AskedInv, KnownInv, FlowInv, FloodInv,
         NEW f \in End, ForwardQuery(f)
  PROVE  FloodInv'
<1> DEFINE n0 == At(f)
           q0 == Head(chan[Peer(f)]).id
           t == ActiveNodeEnds(n0) \ {f}
           opened == OpenQuery("opened", FALSE, f, t)
<1>1. /\ QueryArrives(f) /\ UNCHANGED <<life, phase, pending, outcome, attempt>>
      /\ Arrives(f, "query")
      /\ queries' = [queries EXCEPT ![n0][q0] = opened] /\ chan' = Taken(f)
      /\ AnswerNow(f, q0) = NoResult
  BY DEF ForwardQuery, QueryArrives, Taken
<1>2. q0 \in QueryId /\ n0 \in Node
  BY <1>1, QueryCame, EndFacts
<1>3. Acc[q0.link] # n0 /\ ~ checking[n0]
  BY <1>1 DEF AnswerNow, NoResult
<1>4. opened.own = FALSE /\ opened.waiting = t /\ opened.source = f
  BY DEF OpenQuery
<1>5. \A b \in Link : Est[b] = n0 => phase[b] # "answered" /\ phase[b] # "query"
  BY <1>1, <1>3, NoneOfItsOwn
<1>6. PICK bef : Order(bef) /\ Flood(bef)
  BY DEF FloodInv
<1>7. ASSUME NEW a \in Asking, Now(a) = q0  PROVE EntryHolds(bef, Asking, Tied, a, opened)
  <2> DEFINE K == WaitLinks(opened) \cup {f.link}
  <2>1. q0.link = a /\ a \in Link
    BY <1>7 DEF Now, Asking
  <2>2. \A e \in ActiveNodeEnds(n0) : e.link \in K
    <3> HIDE DEF opened
    <3> QED  BY <1>4 DEF WaitLinks
  <2> HIDE DEF K, opened, n0, q0
  <2>3. Fine(bef, Asking, Tied, a, n0, K)
    BY <1>2, <1>3, <1>5, <2>1, <2>2, NodeAlone
  <2>4. Held(bef, Asking, Tied, a, f, K)
    BY <2>3 DEF Held, n0
  <2> QED  BY <1>4, <2>4 DEF EntryHolds, K
<1> HIDE DEF q0, t, opened, n0
<1>8. \A n \in Node, q \in QueryId :
        queries'[n][q] = IF n = n0 /\ q = q0 THEN opened ELSE queries[n][q]
  BY <1>1, <1>2 DEF TypeOK
<1>9. \A a \in Asking : Now(a) \in QueryId
  BY OwnQueryId DEF Asking, Now
<1>10. ASSUME NEW a \in Asking, NEW n \in Node
       PROVE  \/ Weakens(Asking, Tied, queries[n][Now(a)], queries'[n][Now(a)])
              \/ EntryHolds(bef, Asking, Tied, a, queries'[n][Now(a)])
  <2>1. CASE n = n0 /\ Now(a) = q0
    BY <1>2, <1>7, <1>8, <2>1
  <2>2. CASE ~ (n = n0 /\ Now(a) = q0)
    <3>1. queries'[n][Now(a)] = queries[n][Now(a)]
      BY <1>8, <1>9, <2>2
    <3> QED  BY <3>1, WeakensSame
  <2> QED  BY <2>1, <2>2
<1>11. \A e \in End : \A q : Denied(chan'[e], q) => Denied(chan[e], q)
  BY <1>1, TakenKeeps DEF Denied
<1> QED  BY <1>1, <1>6, <1>10, <1>11, SameFlood DEF FloodInv

(* A "not found" that comes over f is counted in: a node that it comes to
   stands for more now, or it came from a part that does not matter. *)
LEMMA TakeIn ==
  ASSUME NEW bef, NEW T, NEW L \in SUBSET Link, NEW a \in Link, NEW K, NEW J,
         NEW f \in End, f.link \in K, \A b \in K : b # f.link => b \in J,
         f.link \in L \/ f.side = "est" => f.link \notin T,
         Fine(bef, T, L, a, At(f), K), DenialHolds(bef, T, L, a, Peer(f))
  PROVE  \/ Fine(bef, T, L, a, At(f), J)
         \/ f.link \in L /\ Side(bef, T, L, a, Peer(f))
<1>1. /\ Peer(f) \in End /\ Peer(f).link = f.link /\ At(f) \in Node
      /\ f.side # "est" => Peer(f).side = "est"
  BY EndFacts, LinkFacts
<1>2. CASE f.link \in L
  <2>1. Held(bef, T, L, a, Peer(f), {f.link})
    BY <1>1, <1>2 DEF DenialHolds
  <2>2. CASE Fine(bef, T, L, a, At(Peer(f)), {f.link})
    <3>1. Fine(bef, T, L, a, At(f), J)
      BY <1>2, <2>2, MergeFine
    <3> QED  BY <3>1
  <2> QED  BY <1>2, <2>1, <2>2 DEF Held
<1>3. CASE f.link \notin L
  <2>1. f.link \in T /\ f.link # a => <<a, f.link>> \in bef
    BY <1>1 DEF DenialHolds
  <2>2. L \ J \in SUBSET (L \ K) /\ L \ K \in SUBSET Link
    BY <1>3
  <2>3. Reached(At(f), L \ J) \subseteq Reached(At(f), L \ K)
    BY <1>1, <2>2, ReachedLess
  <2>4. Fine(bef, T, L, a, At(f), J)
    BY <2>1, <2>3 DEF Fine, Clean, Hears
  <2> QED  BY <2>4
<1> QED  BY <1>2, <1>3

(* A "not found" that is counted joins what it stands for to what the query
   stands for, or comes from where it does not matter any more. *)
LEMMA ReceiveReplyFlood ==
  ASSUME TypeOK, OwnQueryInv, FlowInv, FloodInv, NEW f \in End, ReceiveReply(f)
  PROVE  FloodInv'
<1> DEFINE g == Peer(f)
           m == Head(chan[g])
           n0 == At(f)
           old == queries[n0][m.id]
           next == Replied(old, f, m.result)
<1>1. /\ Arrives(f, "reply") /\ chan' = Taken(f)
      /\ UNCHANGED <<life, phase, pending, outcome, attempt>>
      /\ queries' = [queries EXCEPT ![n0][m.id] = Replied(@, f, m.result)]
  BY DEF ReceiveReply, Taken
<1>2. /\ m.id \in QueryId /\ m.result \in Result /\ n0 \in Node
      /\ g \in End /\ g.link = f.link /\ Peer(g) = f /\ f.link \in Link
      /\ Under(chan[g], m)
      /\ m = [type |-> "reply", id |-> m.id, result |-> m.result]
  <2>1. m \in Message /\ m.type = "reply" /\ Under(chan[g], m)
    BY <1>1, ArrivedUnder
  <2>2. /\ m.id \in QueryId /\ m.result \in Result
        /\ m = [type |-> "reply", id |-> m.id, result |-> m.result]
    BY <2>1 DEF Message
  <2> HIDE DEF m
  <2> QED  BY <2>1, <2>2, EndFacts
<1> HIDE DEF m
<1>3. \A n \in Node, q \in QueryId :
        queries'[n][q] = IF n = n0 /\ q = m.id THEN next ELSE queries[n][q]
  BY <1>1, <1>2 DEF TypeOK
<1>4. old \in Query /\ EntryOK(phase, n0, old)
  BY <1>2 DEF TypeOK, FlowInv
<1>5. CountsIn(old, next, f, m.result)
  BY <1>2, <1>4, RepliedGood
<1>6. PICK bef : Order(bef) /\ Flood(bef)
  BY DEF FloodInv
<1>7. ASSUME NEW a \in Asking, Now(a) = m.id
      PROVE  \/ Weakens(Asking, Tied, old, next)
             \/ EntryHolds(bef, Asking, Tied, a, next)
  <2> DEFINE K == WaitLinks(old)
             J == WaitLinks(next)
             s == old.source
  <2> HIDE DEF next
  <2>1. CASE next = old
    BY <2>1, WeakensSame
  <2>2. CASE ~ Good(next)
    BY <2>2 DEF Weakens
  <2>3. CASE next # old /\ Good(next)
    <3>1. /\ Good(old) /\ m.result = "not_found" /\ f \in old.waiting
          /\ next.own = old.own /\ next.source = s /\ next.waiting = old.waiting \ {f}
      BY <1>5, <2>3 DEF CountsIn
    <3>2. a \in Link /\ m.id.link = a
      BY <1>7 DEF Asking, Now
    <3>3. f.link \in K /\ \A b \in K : b # f.link => b \in J
      BY <3>1 DEF WaitLinks
    <3>4. f.link \in Tied \/ f.side = "est" => f.link \notin Asking
      <4>1. f.side = "est" => phase[f.link] = "accepted"
        BY <1>4, <3>1 DEF EntryOK, Good
      <4> QED  BY <4>1 DEF Tied, Joined, Cleared, Asking
    <3>5. DenialHolds(bef, Asking, Tied, a, g)
      <4>1. Denied(chan[g], Now(a))
        BY <1>2, <1>7, <3>1 DEF Denied
      <4> QED  BY <1>2, <1>6, <4>1 DEF Flood, FloodOf
    <3>6. EntryHolds(bef, Asking, Tied, a, old)
      BY <1>2, <1>6, <1>7 DEF Flood, FloodOf
    <3>7. IsForest(Tied) /\ Tied \in SUBSET Link
      BY TiedTypes DEF FloodInv
    <3> HIDE DEF old, K, J, s
    <3>8. CASE old.own
      <4>1. Est[a] = n0 /\ Fine(bef, Asking, Tied, a, At(f), K)
        <5>1. Est[a] = n0
          BY <1>2, <3>2, <3>8 DEF OwnQueryInv, old
        <5>2. Fine(bef, Asking, Tied, a, Est[a], K)
          BY <3>1, <3>6, <3>8 DEF EntryHolds, K
        <5> QED  BY <5>1, <5>2
      <4>2. \/ Fine(bef, Asking, Tied, a, At(f), J)
            \/ f.link \in Tied /\ Side(bef, Asking, Tied, a, g)
        BY <3>2, <3>3, <3>4, <3>5, <3>7, <4>1, TakeIn
      <4>3. ~ Side(bef, Asking, Tied, a, g)
        <5>1. At(Peer(g)) \in Beyond(g, Tied)
          BY <1>2, <3>7, BeyondFacts
        <5> QED  BY <1>2, <4>1, <5>1 DEF Side, Off
      <4> QED  BY <3>1, <3>8, <4>1, <4>2, <4>3 DEF EntryHolds, J
    <3>9. CASE ~ old.own
      <4> DEFINE KS == K \cup {s.link}
                 JS == J \cup {s.link}
      <4> SUFFICES ASSUME s.link \in Tied  PROVE Held(bef, Asking, Tied, a, s, JS)
        BY <3>1, <3>9 DEF EntryHolds, J
      <4>1. At(s) = n0 /\ s # f /\ s \in End
        BY <1>4, <3>1, <3>9 DEF EntryOK, Good, Query, s
      <4>2. Held(bef, Asking, Tied, a, s, KS)
        BY <3>1, <3>6, <3>9 DEF EntryHolds, K, s
      <4>3. CASE Side(bef, Asking, Tied, a, s)
        BY <4>3 DEF Held
      <4>4. CASE Fine(bef, Asking, Tied, a, At(s), KS)
        <5>1. Fine(bef, Asking, Tied, a, At(f), KS)
          BY <4>1, <4>4
        <5>2. f.link \in KS /\ \A b \in KS : b # f.link => b \in JS
          BY <3>3
        <5> HIDE DEF KS, JS
        <5>3. \/ Fine(bef, Asking, Tied, a, At(f), JS)
              \/ f.link \in Tied /\ Side(bef, Asking, Tied, a, g)
          BY <3>2, <3>4, <3>5, <3>7, <5>1, <5>2, TakeIn
        <5>4. CASE Fine(bef, Asking, Tied, a, At(f), JS)
          BY <4>1, <5>4 DEF Held
        <5>5. CASE f.link \in Tied /\ Side(bef, Asking, Tied, a, g)
          <6>1. Side(bef, Asking, Tied, a, s)
            BY <1>2, <3>2, <3>7, <4>1, <5>5, NextSide
          <6> QED  BY <6>1 DEF Held
        <5> QED  BY <5>3, <5>4, <5>5
      <4> QED  BY <4>2, <4>3, <4>4 DEF Held
    <3> QED  BY <3>8, <3>9
  <2> QED  BY <2>1, <2>2, <2>3
<1> HIDE DEF old, next, n0
<1>8. \A a \in Asking : Now(a) \in QueryId
  BY OwnQueryId DEF Asking, Now
<1>9. ASSUME NEW a \in Asking, NEW n \in Node
      PROVE  \/ Weakens(Asking, Tied, queries[n][Now(a)], queries'[n][Now(a)])
             \/ EntryHolds(bef, Asking, Tied, a, queries'[n][Now(a)])
  <2>1. CASE n = n0 /\ Now(a) = m.id
    BY <1>2, <1>3, <1>7, <2>1 DEF old
  <2>2. CASE ~ (n = n0 /\ Now(a) = m.id)
    <3>1. queries'[n][Now(a)] = queries[n][Now(a)]
      BY <1>3, <1>8, <2>2
    <3> QED  BY <3>1, WeakensSame
  <2> QED  BY <2>1, <2>2
<1>10. \A e \in End : \A q : Denied(chan'[e], q) => Denied(chan[e], q)
  BY <1>1, TakenKeeps DEF Denied
<1> QED  BY <1>1, <1>6, <1>9, <1>10, SameFlood DEF FloodInv

-----------------------------------------------------------------------------
(* A check starts to ask: it comes after all that are asking.                *)

(* A check that begins to ask is the last one in the order; what its query stands
   for is the node itself. *)
LEMMA AskFlood ==
  ASSUME TypeOK, TypeOK', OneCheckPerNode, AskedInv, KnownInv, FlowInv, FloodInv,
         NEW l \in Link, AskOwnQuery(l)
  PROVE  FloodInv'
<1> DEFINE n0 == Est[l]
           q0 == [link |-> l, attempt |-> attempt[l]]
           t == ActiveNodeEnds(n0)
           m == [type |-> "query", id |-> q0]
           opened == OpenQuery("sent", TRUE, EstEnd(l), t)
<1>1. /\ phase[l] = "ask" /\ l \in pending
      /\ queries' = [queries EXCEPT ![n0][q0] = opened]
      /\ chan' = Sent(t, m) /\ UNCHANGED <<life, pending, attempt, outcome>>
      /\ \A k \in Link : phase'[k] = IF k = l THEN "query" ELSE phase[k]
  BY DEF AskOwnQuery, TypeOK
<1>2. q0 \in QueryId /\ n0 \in Node /\ m \in Message /\ q0 = Now(l)
  BY OwnQueryId, LinkEndsAssumption DEF Message, Now
<1>3. opened.own = TRUE /\ opened.waiting = t
  BY DEF OpenQuery
<1>4. NotAsked(q0)
  BY <1>1 DEF NotAsked
<1>5. \A k : Now(k)' = Now(k)
  BY <1>1 DEF Now
<1>6. Tied' = Tied /\ Asking' \subseteq Asking \cup {l} /\ l \notin Asking
  BY <1>1 DEF Tied, Joined, Cleared, Asking
<1>7. \A k \in Link : Est[k] = n0 => phase[k] # "answered" /\ (k # l => phase[k] # "query")
  BY <1>1 DEF OneCheckPerNode, LockPhase
<1>8. Acc[l] # n0
  BY <1>1 DEF KnownInv, Late
<1>9. \A e \in ActiveNodeEnds(n0) : e.link \in WaitLinks(opened)
  <2> HIDE DEF opened
  <2> QED  BY <1>3 DEF WaitLinks
<1> HIDE DEF q0, n0, t, opened
<1>10. \A n \in Node, q \in QueryId :
        queries'[n][q] = IF n = n0 /\ q = q0 THEN opened ELSE queries[n][q]
  BY <1>1, <1>2 DEF TypeOK
<1>11. \A e \in End : \A q : Denied(chan'[e], q) => Denied(chan[e], q)
  <2>1. \A e \in End : \A x : Under(chan'[e], x) => Under(chan[e], x) \/ x = m
    BY <1>1, <1>2, SentKeeps
  <2>2. m.type = "query"
    OBVIOUS
  <2> QED  BY <2>1, <2>2 DEF Denied
<1>12. PICK bef : Order(bef) /\ Flood(bef)
  BY DEF FloodInv
<1> DEFINE since == { p \in Link \X Link : \/ p \in bef /\ p[1] # l /\ p[2] # l
                                           \/ p[1] # l /\ p[2] = l }
<1>13. /\ since \in SUBSET (Link \X Link)
       /\ \A x \in Link, y \in Link : <<x, y>> \in since <=>
            (<<x, y>> \in bef /\ x # l /\ y # l) \/ (x # l /\ y = l)
  OBVIOUS
<1> HIDE DEF since
<1>14. Order(since)
  <2>1. \A x, y : <<x, y>> \in since => x \in Link /\ y \in Link
    BY <1>13
  <2>2. \A x, y : <<x, y>> \in since => <<y, x>> \notin since
    BY <1>12, <1>13, <2>1 DEF Order
  <2>3. \A x, y, z : <<x, y>> \in since /\ <<y, z>> \in since => <<x, z>> \in since
    BY <1>12, <1>13, <2>1 DEF Order
  <2> QED  BY <1>13, <2>2, <2>3 DEF Order
<1>15. ASSUME NEW a \in Asking', a # l  PROVE FloodOf(since, a)'
  <2>1. a \in Asking /\ a \in Link
    BY <1>6, <1>15 DEF Asking
  <2>2. Follows(bef, Asking, since, Asking', a)
    <3> SUFFICES ASSUME NEW b \in Asking', b # a
                 PROVE  <<a, b>> \in since \/ (b \in Asking /\ <<a, b>> \notin bef)
      BY DEF Follows
    <3>1. b \in Link /\ (b = l \/ b \in Asking)
      BY <1>6 DEF Asking
    <3> QED  BY <1>13, <1>15, <2>1, <3>1
  <2>3. Now(a) \in QueryId /\ Now(a) # q0
    BY <1>15, <2>1, OwnQueryId DEF Now, q0
  <2>4. \A n \in Node : queries'[n][Now(a)] = queries[n][Now(a)]
    BY <1>10, <2>3
  <2>5. Goes(bef, since, a)
    BY <1>1, <1>11, <2>1, <2>2, <2>4, WeakensSame DEF Goes
  <2> QED  BY <1>6, <1>12, <2>1, <2>5, FloodGoes
<1>16. FloodOf(since, l)'
  <2>1. Fine(since, Asking', Tied, l, n0, WaitLinks(opened))
    BY <1>2, <1>6, <1>7, <1>8, <1>9, NodeAlone
  <2>2. EntryHolds(since, Asking', Tied, l, opened)
    BY <1>3, <2>1 DEF EntryHolds, n0
  <2>3. ASSUME NEW n \in Node, n # n0  PROVE EntryHolds(since, Asking', Tied, l, queries'[n][q0])
    <3>1. queries'[n][q0].stage = "none"
      BY <1>2, <1>4, <1>10, <2>3 DEF AskedInv
    <3> QED  BY <3>1 DEF EntryHolds, Good
  <2>4. \A n \in Node : EntryHolds(since, Asking', Tied, l, queries'[n][q0])
    BY <1>2, <1>10, <2>2, <2>3
  <2>5. \A f \in End : ~ Denied(chan'[f], q0)
    <3> SUFFICES ASSUME NEW f \in End, Denied(chan[f], q0)  PROVE FALSE
      BY <1>11
    <3> DEFINE r == [type |-> "reply", id |-> q0, result |-> "not_found"]
    <3>1. Under(chan[f], r) /\ r.type = "reply" /\ r.id = q0
      BY DEF Denied
    <3> HIDE DEF r
    <3> QED  BY <1>2, <1>4, <3>1 DEF FlowInv
  <2> QED  BY <1>2, <1>5, <1>6, <2>4, <2>5 DEF FloodOf
<1>17. Flood(since)'
  BY <1>15, <1>16 DEF Flood
<1>18. Order(since)'
  BY <1>14 DEF Order
<1> QED  BY <1>6, <1>17, <1>18 DEF FloodInv

-----------------------------------------------------------------------------
(* A check is told that nobody reaches its peer: the link is tied on.        *)

(* Tying k on is safe if what its node reaches is without its accepting node, and
   every check that asks there began later. *)
LEMMA TieFlood ==
  ASSUME TypeOK, FlowInv, IsForest(Tied), NEW k \in Link, k \notin Tied,
         phase[k] # "accepted", Tied' = Tied \cup {k}, Asking' = Asking \ {k},
         UNCHANGED <<chan, attempt>>,
         \A n \in Node, q \in QueryId : queries'[n][q] \in {queries[n][q], NoQuery(q)},
         NEW bef, Order(bef), Flood(bef),
         Acc[k] \notin Reached(Est[k], Tied),
         \A a \in Asking \ {k} : Heeds(bef, Asking, Tied, k, a)
  PROVE  FloodInv'
<1> DEFINE T == Asking \ {k}
           M == Tied \cup {k}
<1>1. Tied \in SUBSET Link /\ IsForest(M)
  BY TiedTypes, AddForest
<1>2. ASSUME NEW a \in T  PROVE FloodOf(bef, a)'
  <2>1. /\ a \in Asking /\ a \in Link /\ FloodOf(bef, a) /\ Heeds(bef, Asking, Tied, k, a)
        /\ Now(a) \in QueryId /\ Now(a)' = Now(a) /\ a # k
    BY <1>2, OwnQueryId DEF Asking, Flood, Now
  <2>2. ASSUME NEW n \in Node  PROVE EntryHolds(bef, T, M, a, queries'[n][Now(a)])
    <3> DEFINE query == queries[n][Now(a)]
    <3>1. query \in Query /\ EntryOK(phase, n, query) /\ EntryHolds(bef, Asking, Tied, a, query)
      BY <2>1 DEF TypeOK, FlowInv, FloodOf
    <3>2. EntryHolds(bef, T, M, a, NoQuery(Now(a)))
      BY DEF EntryHolds, Good, NoQuery
    <3>3. queries'[n][Now(a)] \in {query, NoQuery(Now(a))}
      BY <2>1
    <3> DEFINE s == query.source
               K == WaitLinks(query)
    <3> HIDE DEF query
    <3>4. ASSUME Good(query), query.own
          PROVE  Fine(bef, T, M, a, Est[a], K)
      <4>1. Fine(bef, Asking, Tied, a, Est[a], K)
        BY <3>1, <3>4 DEF EntryHolds
      <4> HIDE DEF K
      <4> QED  BY <1>1, <2>1, <4>1, AddOwn
    <3>5. ASSUME Good(query), ~ query.own, s.link \in M
          PROVE  Held(bef, T, M, a, s, K \cup {s.link})
      <4>1. s.link \in Tied /\ s \in End
        BY <3>1, <3>5 DEF EntryOK, Good, Query
      <4>2. Held(bef, Asking, Tied, a, s, K \cup {s.link})
        BY <3>1, <3>5, <4>1 DEF EntryHolds
      <4>3. s.link \in K \cup {s.link}
        OBVIOUS
      <4> HIDE DEF K, s
      <4> QED  BY <1>1, <2>1, <4>1, <4>2, <4>3, AddHeld
    <3>6. EntryHolds(bef, T, M, a, query)
      BY <3>4, <3>5 DEF EntryHolds
    <3> QED  BY <3>2, <3>3, <3>6
  <2>3. ASSUME NEW f \in End, Denied(chan[f], Now(a))  PROVE DenialHolds(bef, T, M, a, f)
    <3>1. DenialHolds(bef, Asking, Tied, a, f)
      BY <2>1, <2>3 DEF FloodOf
    <3>2. ASSUME f.link \in Tied  PROVE Held(bef, T, M, a, f, {f.link})
      <4>1. Held(bef, Asking, Tied, a, f, {f.link}) /\ f.link \in {f.link}
        BY <3>1, <3>2 DEF DenialHolds
      <4> QED  BY <1>1, <2>1, <3>2, <4>1, AddHeld
    <3>3. ASSUME f.link = k  PROVE Held(bef, T, M, a, f, {f.link})
      <4>1. f.side # "acc"
        <5> DEFINE r == [type |-> "reply", id |-> Now(a), result |-> "not_found"]
        <5>1. Under(chan[f], r) /\ r.type = "reply"
          BY <2>3 DEF Denied
        <5> HIDE DEF r
        <5>2. MessageOK(phase, f, r)
          BY <5>1 DEF FlowInv
        <5> QED  BY <3>3, <5>1, <5>2 DEF MessageOK
      <4>2. f = EstEnd(k) /\ f.side = "est"
        BY <3>3, <4>1, EndFacts
      <4>3. k \in Asking => <<a, k>> \in bef
        BY <2>1, <3>1, <3>3, <4>2 DEF DenialHolds
      <4>4. Later(bef, Asking, Tied, k, a)
        BY <2>1, <4>3 DEF Heeds
      <4> QED  BY <1>1, <3>3, <4>2, <4>4, AddNew
    <3>4. f.side = "est" /\ f.link \in T /\ f.link # a => <<a, f.link>> \in bef
      BY <3>1 DEF DenialHolds
    <3> QED  BY <3>2, <3>3, <3>4 DEF DenialHolds
  <2> QED  BY <2>1, <2>2, <2>3 DEF FloodOf
<1>3. Flood(bef)'
  BY <1>2 DEF Flood
<1>4. Order(bef)'
  BY DEF Order
<1> QED  BY <1>1, <1>3, <1>4 DEF FloodInv

(* The query of a check is over.  If its answer is "not found", what the node
   reaches does not have the accepting node, and every check that hears of it
   there began to ask after this one. *)
LEMMA OwnQueryDoneFlood ==
  ASSUME TypeOK, TypeOK', OwnQueryInv, AskingInv, FlowInv, FloodInv,
         NEW l \in Link, OwnQueryDone(l)
  PROVE  FloodInv'
<1> DEFINE n0 == Est[l]
           q0 == Now(l)
           own == queries[n0][q0]
           B == Reached(n0, Tied)
<1>1. CASE l \notin Tied'
  BY <1>1, OverFlood
<1>2. CASE l \in Tied'
  <2>1. /\ UNCHANGED <<life, chan, pending, attempt>> /\ phase[l] = "query"
        /\ \A k \in Link : k # l => phase'[k] = phase[k] /\ outcome'[k] = outcome[k]
        /\ phase'[l] = "answered"
        /\ outcome'[l] = IF own.result = NoResult THEN "unknown" ELSE own.result
        /\ queries' = [queries EXCEPT ![n0][q0] = NoQuery(q0)]
    BY DEF OwnQueryDone, TypeOK, Now
  <2>2. n0 \in Node /\ q0 \in QueryId /\ own \in Query
    BY OwnQueryId, LinkEndsAssumption DEF TypeOK, Now
  <2>3. l \in pending /\ life[AccEnd(l)] = "up" /\ own.result = "not_found"
    BY <1>2, <2>1 DEF Tied, Joined, Cleared
  <2>4. l \in Asking /\ l \notin Tied
    BY <2>1, <2>3 DEF Asking, Tied, Joined, Cleared
  <2>5. own.own /\ own.stage = "sent" /\ own.waiting = {} /\ ~ own.unknown
    <3>1. own.own
      BY <2>1 DEF AskingInv, Now
    <3>2. own.stage = "sent"
      BY <2>2, <3>1 DEF OwnQueryInv
    <3>3. EntryOK(phase, n0, own)
      BY <2>2 DEF FlowInv
    <3> QED  BY <2>3, <3>1, <3>2, <3>3 DEF EntryOK
  <2>6. Good(own) /\ WaitLinks(own) = {}
    BY <2>3, <2>5 DEF Good, WaitLinks
  <2>7. PICK bef : Order(bef) /\ Flood(bef)
    BY DEF FloodInv
  <2>8. Fine(bef, Asking, Tied, l, n0, {})
    <3>1. EntryHolds(bef, Asking, Tied, l, own)
      BY <2>2, <2>4, <2>7 DEF Flood, FloodOf
    <3> HIDE DEF own
    <3> QED  BY <2>5, <2>6, <3>1 DEF EntryHolds
  <2>9. Clean(bef, Asking, l, B, {})
    <3>1. Tied \ {} = Tied
      OBVIOUS
    <3> QED  BY <2>8, <3>1 DEF Fine
  <2> HIDE DEF B
  <2>10. Acc[l] \notin B
    BY <2>9 DEF Clean
  <2>11. ASSUME NEW a \in Asking \ {l}  PROVE Heeds(bef, Asking, Tied, l, a)
    <3> SUFFICES ASSUME <<a, l>> \in bef  PROVE Later(bef, Asking, Tied, l, a)
      BY <2>4, <2>11 DEF Heeds
    <3>1. \A b \in Asking : b # l /\ Hears(b, B, {}) => <<l, b>> \in bef
      BY <2>9 DEF Clean
    <3>2. <<l, a>> \notin bef
      BY <2>7 DEF Order
    <3>3. ~ Hears(a, B, {})
      BY <3>1, <3>2
    <3>4. Est[a] \notin B /\ Acc[a] \notin B
      BY <3>3 DEF Hears
    <3>5. \A b \in Asking \ {l} : Hears(b, B, {}) => <<a, b>> \in bef
      BY <2>7, <3>1 DEF Order
    <3> QED  BY <3>4, <3>5 DEF Later, Clean, B
  <2>12. Tied' = Tied \cup {l} /\ Asking' = Asking \ {l}
    <3>1. \A k \in Link : k # l =>
            (k \in Tied' <=> k \in Tied) /\ (k \in Asking' <=> k \in Asking)
      BY <2>1 DEF Tied, Joined, Cleared, Asking
    <3>2. l \notin Asking'
      BY <2>1 DEF Asking
    <3>3. Tied' \in SUBSET Link /\ Asking' \in SUBSET Link
      BY DEF Tied, Joined, Cleared, Asking
    <3> QED  BY <1>2, <3>1, <3>2, <3>3, TiedTypes
  <2> HIDE DEF n0, q0
  <2>13. \A n \in Node, q \in QueryId : queries'[n][q] \in {queries[n][q], NoQuery(q)}
    <3>1. queries \in [Node -> [QueryId -> Query]]
      BY DEF TypeOK
    <3> QED  BY <2>1, <2>2, <3>1
  <2>14. IsForest(Tied) /\ phase[l] # "accepted"
    BY <2>1 DEF FloodInv
  <2> QED  BY <2>1, <2>4, <2>7, <2>10, <2>11, <2>12, <2>13, <2>14, TieFlood DEF n0, B
<1> QED  BY <1>1, <1>2

(* A node that has nobody to ask is tied to nothing, and no other check hears
   of it. *)
LEMMA NobodyFlood ==
  ASSUME TypeOK, TypeOK', OneCheckPerNode, KnownInv, FlowInv, FloodInv,
         NEW l \in Link, NobodyToAsk(l)
  PROVE  FloodInv'
<1> DEFINE n0 == Est[l]
<1>1. /\ UNCHANGED <<life, chan, pending, attempt, queries>>
      /\ phase[l] = "ask" /\ l \in pending /\ ActiveNodeEnds(n0) = {}
      /\ \A k \in Link : k # l => phase'[k] = phase[k] /\ outcome'[k] = outcome[k]
      /\ phase'[l] = "answered"
  BY DEF NobodyToAsk, TypeOK
<1>2. l \notin Asking /\ l \notin Asking' /\ l \notin Tied
  BY <1>1 DEF Asking, Tied, Joined, Cleared
<1>3. \A n \in Node, q \in QueryId : queries'[n][q] \in {queries[n][q], NoQuery(q)}
  BY <1>1
<1>4. CASE l \notin Tied'
  BY <1>1, <1>2, <1>3, <1>4, CheckQuiet
<1>5. CASE l \in Tied'
  <2>1. n0 \in Node /\ Acc[l] # n0
    BY <1>1, LinkEndsAssumption DEF KnownInv, Late
  <2>2. \A b \in Link : Est[b] = n0 /\ b # l => phase[b] # "answered" /\ phase[b] # "query"
    BY <1>1 DEF OneCheckPerNode, LockPhase
  <2>3. ASSUME NEW e \in End, At(e) = n0, e.link \in Tied  PROVE FALSE
    <3>1. e.side = "est" => phase[e.link] # "answered"
      BY <1>1, <2>2, <2>3, EndFacts
    <3> QED  BY <1>1, <2>3, <3>1, TiedIsActive
  <2> HIDE DEF n0
  <2>4. Reached(n0, Tied) = {n0}
    BY <2>1, <2>3, TiedTypes, ReachedAlone
  <2>5. ASSUME NEW b \in Asking  PROVE ~ Hears(b, {n0}, {})
    <3>1. b \in Link /\ phase[b] = "query" /\ b # l
      BY <1>2 DEF Asking
    <3>2. Est[b] # n0
      BY <2>2, <3>1
    <3>3. Acc[b] # n0
      BY <1>1, <3>1, LinkFacts, TiedIsActive
    <3> QED  BY <3>2, <3>3 DEF Hears
  <2>6. PICK bef : Order(bef) /\ Flood(bef)
    BY DEF FloodInv
  <2>7. ASSUME NEW a \in Asking \ {l}  PROVE Heeds(bef, Asking, Tied, l, a)
    <3>1. Est[a] # n0 /\ Acc[a] # n0
      BY <2>5 DEF Hears
    <3>2. Later(bef, Asking, Tied, l, a)
      BY <2>4, <2>5, <3>1 DEF Later, Clean, n0
    <3> QED  BY <2>7, <3>2 DEF Heeds
  <2>8. Tied' = Tied \cup {l} /\ Asking' = Asking \ {l}
    <3>1. \A k \in Link : k # l =>
            (k \in Tied' <=> k \in Tied) /\ (k \in Asking' <=> k \in Asking)
      BY <1>1 DEF Tied, Joined, Cleared, Asking
    <3>2. Tied' \in SUBSET Link /\ Asking' \in SUBSET Link
      BY DEF Tied, Joined, Cleared, Asking
    <3> QED  BY <1>2, <1>5, <3>1, <3>2, TiedTypes
  <2>9. IsForest(Tied) /\ phase[l] # "accepted" /\ Acc[l] \notin Reached(Est[l], Tied)
    BY <1>1, <2>1, <2>4 DEF FloodInv, n0
  <2> QED  BY <1>1, <1>2, <1>3, <2>6, <2>7, <2>8, <2>9, TieFlood
<1> QED  BY <1>4, <1>5

-----------------------------------------------------------------------------
(* Every step keeps the answers right.                                       *)

(* Every step of a check is safe ... *)
LEMMA CheckFlood ==
  ASSUME IInv, TypeOK', LifeInv, AskedInv, KnownInv, FlowInv, FloodInv,
         NEW l \in Link, CheckStep(l)
  PROVE  FloodInv'
<1>0. TypeOK /\ OneCheckPerNode /\ OwnQueryInv /\ AskingInv
  BY DEF IInv, Bookkeeping
<1>1. CASE \/ AcquireLock(l) \/ PeerIdentified(l) \/ Retry(l) \/ NextAttempt(l)
           \/ Activate(l)
  BY <1>0, <1>1, PhaseFlood
<1>2. CASE HelloTimeout(l) \/ RefuseKnownPeer(l) \/ RefuseCycle(l) \/ GiveUp(l)
  <2>1. PICK how \in {"refused", "no hello", "undetermined"} : Refuse(l, how)
    BY <1>2 DEF HelloTimeout, RefuseKnownPeer, RefuseCycle, GiveUp
  <2>2. /\ Drop(EstEnd(l)) /\ EstEnd(l) \in End /\ UNCHANGED <<outcome, attempt>>
        /\ phase' = [phase EXCEPT ![l] = how]
    BY <2>1, LinkFacts DEF Refuse
  <2>3. \A k \in Link : phase'[k] = phase[k]
                        \/ phase'[k] \in {"refused", "no hello", "undetermined"}
    BY <1>0, <2>2 DEF TypeOK
  <2> QED  BY <1>0, <2>2, <2>3, DropFlood
<1>3. CASE AbandonCheck(l)
  <2>1. phase'[l] = "lost"
    BY <1>0, <1>3 DEF AbandonCheck, TypeOK
  <2>2. l \notin Tied'
    BY <2>1, OutOfPhase
  <2> QED  BY <1>0, <1>3, <2>2, OverFlood
<1>4. CASE NobodyToAsk(l)
  BY <1>0, <1>4, NobodyFlood
<1>5. CASE AskOwnQuery(l)
  BY <1>0, <1>5, AskFlood
<1>6. CASE OwnQueryDone(l)
  BY <1>0, <1>6, OwnQueryDoneFlood
<1> QED  BY <1>1, <1>2, <1>3, <1>4, <1>5, <1>6 DEF CheckStep

(* ... and every step at all, which takes the assumption PromptDecision. *)
LEMMA NextFlood ==
  ASSUME PromptDecision, IInv, TypeOK', LifeInv, AskedInv, KnownInv, FlowInv, FloodInv,
         [Next]_vars
  PROVE  FloodInv'
<1>0. TypeOK /\ OwnQueryInv /\ AskingInv
  BY DEF IInv, Bookkeeping
<1>1. ASSUME NEW l \in Link, Establish(l) \/ Accept(l) \/ CheckStep(l)  PROVE FloodInv'
  BY <1>0, <1>1, EstablishFlood, AcceptFlood, CheckFlood
<1>2. ASSUME NEW e \in End, Lose(e) \/ NoticeLoss(e)  PROVE FloodInv'
  <2>1. Drop(e) /\ UNCHANGED <<phase, outcome, attempt>>
    BY <1>2 DEF Lose, NoticeLoss
  <2>2. \A k \in Link : phase'[k] = phase[k]
    BY <2>1
  <2> QED  BY <1>0, <2>1, <2>2, DropFlood
<1>3. ASSUME NEW e \in End, ReceiveStep(e)  PROVE FloodInv'
  BY <1>0, <1>3, ReceiveHelloFlood, AnswerFlood, ForwardFlood, ReceiveReplyFlood
     DEF ReceiveStep
<1>4. ASSUME NEW n \in Node, NEW q \in QueryId, ForwardStep(n, q)  PROVE FloodInv'
  BY <1>0, <1>4, SendForwardFlood, ReplyForwardFlood DEF ForwardStep
<1>5. CASE UNCHANGED vars
  <2>1. UNCHANGED <<life, phase, pending, outcome, attempt, chan, queries>>
    BY <1>5 DEF vars
  <2>2. Narrows
    BY <2>1, SameTied
  <2>3. \A n \in Node, q \in QueryId :
          Weakens(Asking', Tied', queries[n][q], queries'[n][q])
    BY <2>1, WeakensSame
  <2> QED  BY <1>0, <2>1, <2>2, <2>3, QuietFlood
<1> QED  BY <1>1, <1>2, <1>3, <1>4, <1>5 DEF Next

(* At the start no check is asking, and the links form a forest. *)
LEMMA InitFlood == Init => FloodInv
<1> SUFFICES ASSUME Init PROVE FloodInv
  OBVIOUS
<1>1. \A l \in Link : phase[l] = IF l \in Initial THEN "accepted" ELSE "idle"
  BY DEF Init
<1>2. Asking = {} /\ Cleared = {}
  BY <1>1 DEF Asking, Cleared
<1>3. Tied \in SUBSET Initial
  BY <1>1, <1>2 DEF Tied, Joined
<1>4. IsForest(Tied)
  BY <1>3, InitialAssumption, SubsetKeepsForest
<1>5. Order({})
  BY DEF Order
<1>6. Flood({})
  BY <1>2 DEF Flood
<1> QED  BY <1>4, <1>5, <1>6 DEF FloodInv

-----------------------------------------------------------------------------
(* The inductive invariant, and what it gives.                               *)

ForestInv == IInv /\ AwaitInv /\ KnownInv /\ FlowInv /\ FloodInv

(* It holds at the start, *)
LEMMA InitForest == Init => ForestInv
BY InitIInv, InitAwait, InitKnown, InitFlow, InitFlood DEF ForestInv

(* and every step keeps it, under the two timing assumptions, *)
LEMMA NextForest ==
  ASSUME PromptHello, PromptDecision, ForestInv, [Next]_vars
  PROVE  ForestInv'
<1>1. IInv /\ AwaitInv /\ KnownInv /\ FlowInv /\ FloodInv /\ TypeOK /\ LifeInv /\ AskedInv
  BY DEF ForestInv, IInv, AwaitInv
<1>2. IInv' /\ TypeOK'
  BY <1>1, NextIInv DEF IInv
<1>3. AwaitInv' /\ KnownInv' /\ FlowInv'
  BY <1>1, <1>2, NextAwait, NextKnown, NextFlow
<1>4. FloodInv'
  BY <1>1, <1>2, NextFlood
<1> QED  BY <1>2, <1>3, <1>4 DEF ForestInv

(* so it always holds. *)
LEMMA ForestHolds ==
  ASSUME PromptHello, PromptDecision
  PROVE  Spec => []ForestInv
<1>1. ForestInv /\ [Next]_vars => ForestInv'
  BY NextForest
<1> QED  BY <1>1, InitForest, PTL DEF Spec

(* The links always form a forest, for any nodes, links, losses and timeouts:
   no interleaving of checks lets two of them close a cycle together.  It takes
   the two timing assumptions; without them CyclePrevention has counterexamples. *)
THEOREM JoinedStaysForest ==
  ASSUME PromptHello, PromptDecision
  PROVE  Spec => []JoinedForest
<1>1. ForestInv => JoinedForest
  <2> SUFFICES ASSUME ForestInv  PROVE IsForest(Joined)
    BY DEF JoinedForest
  <2>1. IsForest(Tied) /\ Joined \in SUBSET Tied /\ Tied \in SUBSET Link
    BY TiedTypes DEF ForestInv, FloodInv, Tied
  <2> QED  BY <2>1, SubsetKeepsForest
<1> QED  BY <1>1, ForestHolds, PTL

-----------------------------------------------------------------------------
(* The refinement: the steps of CyclePrevention as steps of LinkForest.      *)

(* What links are joined depends on the ends that are listed, and on which
   checks have accepted. *)
LEMMA SameJoined ==
  ASSUME UNCHANGED life, \A k \in Link : phase'[k] = "accepted" <=> phase[k] = "accepted"
  PROVE  Joined' = Joined
BY DEF Joined

(* Dropping an end parts its link, if it was joined. *)
LEMMA DropParts ==
  ASSUME TypeOK, NEW d \in End, Drop(d),
         \A k \in Link : phase'[k] = "accepted" <=> phase[k] = "accepted"
  PROVE  Joined' = Joined \/ Tree!Part(d.link)
<1>1. \A e \in End : life'[e] = IF e = d THEN "down" ELSE life[e]
  BY DEF Drop, TypeOK
<1>2. d.link \in Link /\ (d = EstEnd(d.link) \/ d = AccEnd(d.link))
  BY EndFacts
<1>3. \A k \in Link : k # d.link =>
        life'[EstEnd(k)] = life[EstEnd(k)] /\ life'[AccEnd(k)] = life[AccEnd(k)]
  BY <1>1, LinkFacts
<1>4. life'[EstEnd(d.link)] # "up" \/ life'[AccEnd(d.link)] # "up"
  <2>1. life'[d] = "down"
    BY <1>1
  <2> QED  BY <1>2, <2>1
<1>5. Joined' = Joined \ {d.link}
  BY <1>3, <1>4 DEF Joined
<1> QED  BY <1>5 DEF Tree!Part

(* A connection that is accepted late was never joined. *)
LEMMA AcceptJoins ==
  ASSUME TypeOK, KnownInv, FlowInv, NEW l \in Link, Accept(l)
  PROVE  Joined' = Joined
<1>1. /\ \A e \in End : life'[e] = IF e = AccEnd(l) THEN "up" ELSE life[e]
      /\ phase' = phase /\ life[AccEnd(l)] = "none"
  BY DEF Accept, TypeOK
<1>2. EstEnd(l) \notin known
  BY <1>1 DEF KnownInv, FlowInv
<1>3. ~ (phase[l] = "accepted" /\ life[EstEnd(l)] = "up")
  BY <1>2 DEF KnownInv
<1>4. \A k \in Link : k # l => EstEnd(k) # AccEnd(l) /\ AccEnd(k) # AccEnd(l)
                               /\ EstEnd(k) \in End /\ AccEnd(k) \in End
  BY LinkFacts DEF AccEnd
<1>5. life'[EstEnd(l)] = life[EstEnd(l)] /\ life[AccEnd(l)] # "up"
  BY <1>1, LinkFacts
<1>6. \A k \in Link : k # l =>
        life'[EstEnd(k)] = life[EstEnd(k)] /\ life'[AccEnd(k)] = life[AccEnd(k)]
  BY <1>1, <1>4
<1> QED  BY <1>1, <1>3, <1>5, <1>6 DEF Joined

(* A link that is activated joins two parts of the bus that were apart. *)
LEMMA ActivateJoins ==
  ASSUME TypeOK, FloodInv, NEW l \in Link, Activate(l)
  PROVE  Joined' = Joined \/ Tree!Join(l)
<1>1. /\ life' = life /\ phase[l] = "answered" /\ l \in pending /\ outcome[l] = "not_found"
      /\ \A k \in Link : phase'[k] = IF k = l THEN "accepted" ELSE phase[k]
  BY DEF Activate, TypeOK
<1>2. l \notin Joined
  BY <1>1 DEF Joined
<1>3. CASE l \notin Joined'
  BY <1>1, <1>2, <1>3 DEF Joined
<1>4. CASE l \in Joined'
  <2>1. Joined' = Joined \cup {l}
    BY <1>1, <1>4 DEF Joined
  <2>2. l \in Cleared /\ l \in Tied
    BY <1>1, <1>4 DEF Joined, Cleared, Tied
  <2>3. PICK S \in SUBSET Node : Closed(S, Tied \ {l}) /\ Crosses(l, S)
    BY <2>2 DEF FloodInv, IsForest, Separated
  <2>4. Joined \subseteq Tied \ {l}
    BY <1>2 DEF Tied
  <2>5. Separated(l, Joined)
    BY <2>3, <2>4 DEF Closed, Separated
  <2> QED  BY <1>2, <2>1, <2>5 DEF Tree!Join, Tree!Separated, Tree!Closed, Tree!Crosses,
              Separated, Closed, Crosses
<1> QED  BY <1>3, <1>4

(* What one step does to the joined links. *)
Steps == Joined' = Joined \/ \E l \in Link : Tree!Join(l) \/ Tree!Part(l)

(* The steps of a check: only an activation joins. *)
LEMMA CheckJoins ==
  ASSUME TypeOK, FloodInv, NEW l \in Link, CheckStep(l)
  PROVE  Steps
<1>1. CASE Activate(l)
  BY <1>1, ActivateJoins DEF Steps
<1>2. CASE HelloTimeout(l) \/ RefuseKnownPeer(l) \/ RefuseCycle(l) \/ GiveUp(l)
  <2>1. PICK how \in {"refused", "no hello", "undetermined"} : Refuse(l, how)
    BY <1>2 DEF HelloTimeout, RefuseKnownPeer, RefuseCycle, GiveUp
  <2>2. Drop(EstEnd(l)) /\ phase' = [phase EXCEPT ![l] = how] /\ phase[l] # "accepted"
    BY <1>2, <2>1 DEF Refuse, HelloTimeout, RefuseKnownPeer, RefuseCycle, GiveUp
  <2>3. \A k \in Link : phase'[k] = "accepted" <=> phase[k] = "accepted"
    BY <2>2 DEF TypeOK
  <2>4. EstEnd(l) \in End /\ EstEnd(l).link = l
    BY LinkFacts
  <2> QED  BY <2>2, <2>3, <2>4, DropParts DEF Steps
<1>3. CASE \/ AcquireLock(l) \/ PeerIdentified(l) \/ NobodyToAsk(l) \/ AskOwnQuery(l)
           \/ OwnQueryDone(l) \/ Retry(l) \/ NextAttempt(l) \/ AbandonCheck(l)
  <2>1. life' = life /\ phase[l] # "accepted"
        /\ \E p \in Phase \ {"accepted"} : phase' = [phase EXCEPT ![l] = p]
    BY <1>3, PhaseFacts DEF AcquireLock, PeerIdentified, NobodyToAsk, AskOwnQuery,
       OwnQueryDone, Retry, NextAttempt, AbandonCheck, Phase
  <2>2. \A k \in Link : phase'[k] = "accepted" <=> phase[k] = "accepted"
    BY <2>1 DEF TypeOK
  <2> QED  BY <2>1, <2>2, SameJoined DEF Steps
<1> QED  BY <1>1, <1>2, <1>3 DEF CheckStep

(* Every step of CyclePrevention joins one link, parts one link, or neither. *)
LEMMA NextJoins ==
  ASSUME ForestInv, [Next]_vars
  PROVE  Steps
<1>0. TypeOK /\ KnownInv /\ FlowInv /\ FloodInv
  BY DEF ForestInv, IInv
<1>1. ASSUME NEW l \in Link, Establish(l)  PROVE Steps
  <2>1. /\ \A e \in End : e # EstEnd(l) => life'[e] = life[e]
        /\ \A k \in Link : phase'[k] = IF k = l THEN "lock" ELSE phase[k]
        /\ phase[l] = "idle"
    BY <1>0, <1>1 DEF Establish, TypeOK
  <2>2. \A k \in Link : k # l => /\ EstEnd(k) \in End /\ EstEnd(k) # EstEnd(l)
                                 /\ AccEnd(k) \in End /\ AccEnd(k) # EstEnd(l)
    BY LinkFacts DEF EstEnd
  <2>3. Joined' = Joined
    BY <2>1, <2>2 DEF Joined
  <2> QED  BY <2>3 DEF Steps
<1>2. ASSUME NEW l \in Link, Accept(l) \/ CheckStep(l)  PROVE Steps
  BY <1>0, <1>2, AcceptJoins, CheckJoins DEF Steps
<1>3. ASSUME NEW e \in End, Lose(e) \/ NoticeLoss(e)  PROVE Steps
  <2>1. Drop(e) /\ phase' = phase /\ e.link \in Link
    BY <1>3, EndFacts DEF Lose, NoticeLoss
  <2> QED  BY <1>0, <2>1, DropParts DEF Steps
<1>4. ASSUME UNCHANGED <<life, phase>>  PROVE Steps
  BY <1>4, SameJoined DEF Steps
<1>5. ASSUME NEW e \in End, ReceiveStep(e)  PROVE Steps
  BY <1>4, <1>5 DEF ReceiveStep, ReceiveHello, AnswerQuery, ForwardQuery, ReceiveReply
<1>6. ASSUME NEW n \in Node, NEW q \in QueryId, ForwardStep(n, q)  PROVE Steps
  BY <1>4, <1>6 DEF ForwardStep, SendForward, ReplyForward
<1>7. CASE UNCHANGED vars
  BY <1>4, <1>7 DEF vars
<1> QED  BY <1>1, <1>2, <1>3, <1>5, <1>6, <1>7 DEF Next

(* CyclePrevention implements LinkForest: a link is activated only between two
   parts of the bus that are apart, whichever nodes check at the same time and
   whatever fails, and otherwise links are only lost.  This takes the two timing
   assumptions. *)
THEOREM ImplementsLinkForest ==
  ASSUME PromptHello, PromptDecision
  PROVE  Spec => Refinement
<1>1. Init => Tree!Init
  <2> SUFFICES ASSUME Init  PROVE Joined \in SUBSET Link /\ IsForest(Joined)
    BY DEF Tree!Init, Tree!IsForest, Tree!Separated, Tree!Closed, Tree!Crosses,
           IsForest, Separated, Closed, Crosses
  <2>1. IsForest(Tied) /\ Joined \in SUBSET Tied /\ Tied \in SUBSET Link
    BY TiedTypes, InitFlood DEF FloodInv, Tied
  <2> QED  BY <2>1, SubsetKeepsForest
<1>2. ForestInv /\ [Next]_vars => [Tree!Next]_Joined
  BY NextJoins DEF Steps, Tree!Next
<1> QED  BY <1>1, <1>2, ForestHolds, PTL DEF Spec, Refinement, Tree!Spec

(* The forest, in terms of this module. *)
LinksInForest == Joined \in SUBSET Link /\ IsForest(Joined)

(* It is what LinkForest starts from, and what it promises. *)
LEMMA LinksAreForest ==
  /\ Tree!Init => LinksInForest
  /\ LinksInForest => Tree!TypeOK /\ Tree!AlwaysForest
BY DEF LinksInForest, Tree!Init, Tree!TypeOK, Tree!AlwaysForest, Tree!IsForest,
       Tree!Separated, Tree!Closed, Tree!Crosses, IsForest, Separated, Closed, Crosses

(* In LinkForest the links always form a forest: what the routing rules of a
   PubSubNode need of the bus. *)
THEOREM ForestIsInvariant == Tree!Spec => [](Tree!TypeOK /\ Tree!AlwaysForest)
<1>1. LinksInForest /\ [Tree!Next]_Joined => LinksInForest'
  <2> SUFFICES ASSUME LinksInForest, [Tree!Next]_Joined  PROVE LinksInForest'
    OBVIOUS
  <2>1. ASSUME NEW l \in Link, Tree!Join(l)  PROVE LinksInForest'
    <3>1. l \in Link \ Joined /\ Separated(l, Joined) /\ Joined' = Joined \cup {l}
      BY <2>1 DEF Tree!Join, Tree!Separated, Tree!Closed, Tree!Crosses,
         Separated, Closed, Crosses
    <3> HIDE DEF Joined
    <3> QED  BY <3>1, AddKeepsForest DEF LinksInForest
  <2>2. ASSUME NEW l \in Link, Tree!Part(l)  PROVE LinksInForest'
    <3>1. Joined' \in SUBSET Joined
      BY <2>2 DEF Tree!Part
    <3> QED  BY <3>1, SubsetKeepsForest DEF LinksInForest
  <2>3. CASE Joined' = Joined
    BY <2>3 DEF LinksInForest
  <2> QED  BY <2>1, <2>2, <2>3 DEF Tree!Next
<1> QED  BY <1>1, LinksAreForest, PTL DEF Tree!Spec

-----------------------------------------------------------------------------
(* FinalRefusalIsRight.  Without losses an accepted connection stays, and a  *)
(* query is only heard of where accepted connections lead to from the node   *)
(* that asks it, whichever timeouts expire and however late a Hello is read. *)

(* A connection is accepted once its check is over, unless it is dropped; and
   the peer has it that has sent a Hello. *)
MadeInv ==
  /\ \A l \in Link : EstEnd(l) \in known => life[AccEnd(l)] # "none"
  /\ \A l \in Link : life[EstEnd(l)] = "up" /\ l \notin pending => phase[l] = "accepted"
  /\ \A l \in pending : /\ phase[l] \in Unfinished
                        /\ phase[l] \in Late => EstEnd(l) \in known

(* An accepted connection is listed at both ends, and the accepting end is not
   the first to go. *)
StandInv ==
  losses = 0 =>
    \A l \in Link : /\ phase[l] = "accepted" => l \in Joined
                    /\ life[AccEnd(l)] = "down" => life[EstEnd(l)] = "down"

(* The links J lead from a to b, and from one node of l to the other. *)
Linked(J, a, b) == \A S \in SUBSET Node : Closed(S, J) => (a \in S <=> b \in S)
Right(J, l) == Linked(J, Est[l], Acc[l])

(* A query has come from where it was asked, and "found" is right. *)
MessageRight(J, e, x) ==
  /\ x.type = "query" => /\ Linked(J, Est[x.id.link], At(e))
                         /\ e.side = "est" => e.link \in J
  /\ x.type = "reply" /\ x.result = "found" => Right(J, x.id.link)
EntryRight(J, n, q, query) ==
  /\ query.result = "found" => Right(J, q.link)
  /\ query.stage # "none" =>
       /\ Linked(J, Est[q.link], n)
       /\ \A e \in query.waiting : At(e) = n /\ (e.side = "est" => e.link \in J)

RightInv ==
  losses = 0 =>
    /\ \A n \in Node, q \in QueryId : EntryRight(Joined, n, q, queries[n][q])
    /\ \A e \in End : \A x : Under(chan[e], x) => MessageRight(Joined, e, x)
    /\ \A l \in Link : outcome[l] = "found" \/ phase[l] = "refused" => Right(Joined, l)

(* Of links that lead somewhere, more lead there too, *)
LEMMA LinkedMore ==
  ASSUME NEW J, NEW K, J \subseteq K, NEW a, NEW b, Linked(J, a, b)
  PROVE  Linked(K, a, b)
BY DEF Linked, Closed

(* and one link leads to its other end. *)
LEMMA LinkedOn ==
  ASSUME NEW J, NEW a, NEW e \in End, e.link \in J, Linked(J, a, At(Peer(e)))
  PROVE  Linked(J, a, At(e))
<1>1. \/ At(e) = Est[e.link] /\ At(Peer(e)) = Acc[e.link]
      \/ At(e) = Acc[e.link] /\ At(Peer(e)) = Est[e.link]
  BY EndFacts, LinkFacts
<1>2. \A S \in SUBSET Node : Closed(S, J) => (At(e) \in S <=> At(Peer(e)) \in S)
  BY <1>1 DEF Closed, Crosses
<1> QED  BY <1>2 DEF Linked

LEMMA LinkedHere == \A J, a : Linked(J, a, a)
BY DEF Linked

(* Dropping an end keeps what is known of connections. *)
LEMMA DropMade ==
  ASSUME TypeOK, MadeInv, NEW d \in End, Drop(d),
         \A k \in Link : phase'[k] = phase[k] \/ (d = EstEnd(k) /\ phase'[k] # "accepted")
  PROVE  MadeInv'
<1>1. /\ \A e \in End : life'[e] = IF e = d THEN "down" ELSE life[e]
      /\ known' = known \ {d} /\ pending' \subseteq pending /\ pending \subseteq Link
      /\ \A k \in Link : EstEnd(k) = d => k \notin pending'
      /\ \A k \in Link : EstEnd(k) # d /\ k \in pending => k \in pending'
  <2>1. \A k \in Link : (EstEnd(k) = d <=> d.side = "est" /\ d.link = k)
    BY EndFacts, LinkFacts
  <2> QED  BY <2>1 DEF Drop, TypeOK
<1>2. \A k \in Link : EstEnd(k) \in End /\ AccEnd(k) \in End
  BY LinkFacts
<1>3. \A l \in Link : EstEnd(l) \in known' => life'[AccEnd(l)] # "none"
  BY <1>1, <1>2 DEF MadeInv
<1>4. \A l \in Link : life'[EstEnd(l)] = "up" /\ l \notin pending' => phase'[l] = "accepted"
  BY <1>1, <1>2 DEF MadeInv
<1>5. \A l \in pending' : phase'[l] \in Unfinished /\ (phase'[l] \in Late => EstEnd(l) \in known')
  BY <1>1, <1>2 DEF MadeInv
<1> QED  BY <1>3, <1>4, <1>5 DEF MadeInv

(* A step of a check that drops nothing and finishes no check. *)
LEMMA PhaseMade ==
  ASSUME TypeOK, MadeInv, NEW l \in Link, NEW p, phase' = [phase EXCEPT ![l] = p],
         UNCHANGED <<life, known, pending>>, phase[l] \in Unfinished,
         l \in pending => p \in Unfinished,
         l \in pending /\ p \in Late => EstEnd(l) \in known
  PROVE  MadeInv'
<1>1. \A k \in Link : phase'[k] = IF k = l THEN p ELSE phase[k]
  BY DEF TypeOK
<1>2. pending \subseteq Link /\ phase[l] # "accepted"
  BY PhaseFacts DEF TypeOK
<1> QED  BY <1>1, <1>2 DEF MadeInv

(* Every step keeps what is known of connections. *)
LEMMA CheckMade ==
  ASSUME TypeOK, MadeInv, NEW l \in Link, CheckStep(l)
  PROVE  MadeInv'
<1>1. CASE AcquireLock(l) \/ PeerIdentified(l)
  <2>1. phase[l] \in Unfinished /\ "hello" \in Unfinished /\ "ask" \in Unfinished
        /\ "hello" \notin Late
    BY <1>1 DEF AcquireLock, PeerIdentified, Unfinished, Phase, Late
  <2>2. /\ \/ phase' = [phase EXCEPT ![l] = "hello"]
           \/ phase' = [phase EXCEPT ![l] = "ask"] /\ EstEnd(l) \in known
        /\ UNCHANGED <<life, known, pending>>
    BY <1>1 DEF AcquireLock, PeerIdentified
  <2> QED  BY <2>1, <2>2, PhaseMade
<1>2. CASE NobodyToAsk(l) \/ AskOwnQuery(l) \/ OwnQueryDone(l) \/ Retry(l) \/ NextAttempt(l)
  <2>1. phase[l] \in Late
    BY <1>2 DEF NobodyToAsk, AskOwnQuery, OwnQueryDone, Retry, NextAttempt, Late
  <2>2. PICK p \in Late : phase' = [phase EXCEPT ![l] = p]
    <3>1. {"ask", "query", "answered", "delay"} \subseteq Late
      BY DEF Late
    <3>2. \/ phase' = [phase EXCEPT ![l] = "ask"] \/ phase' = [phase EXCEPT ![l] = "query"]
          \/ phase' = [phase EXCEPT ![l] = "answered"] \/ phase' = [phase EXCEPT ![l] = "delay"]
      BY <1>2 DEF NobodyToAsk, AskOwnQuery, OwnQueryDone, Retry, NextAttempt
    <3> QED  BY ONLY <3>1, <3>2
  <2>3. UNCHANGED <<life, known, pending>>
    BY <1>2 DEF NobodyToAsk, AskOwnQuery, OwnQueryDone, Retry, NextAttempt
  <2>4. p \in Unfinished /\ phase[l] \in Unfinished
    BY <2>1, PhaseFacts
  <2>5. l \in pending => EstEnd(l) \in known
    BY <2>1 DEF MadeInv
  <2> QED  BY <2>2, <2>3, <2>4, <2>5, PhaseMade
<1>3. CASE Activate(l)
  <2>1. /\ \A k \in Link : phase'[k] = IF k = l THEN "accepted" ELSE phase[k]
        /\ pending' = pending \ {l} /\ UNCHANGED <<life, known>> /\ pending \subseteq Link
    BY <1>3 DEF Activate, TypeOK
  <2> QED  BY <2>1 DEF MadeInv
<1>4. CASE HelloTimeout(l) \/ RefuseKnownPeer(l) \/ RefuseCycle(l) \/ GiveUp(l)
  <2>1. /\ Drop(EstEnd(l))
        /\ \/ phase' = [phase EXCEPT ![l] = "no hello"]
           \/ phase' = [phase EXCEPT ![l] = "refused"]
           \/ phase' = [phase EXCEPT ![l] = "undetermined"]
    BY <1>4 DEF HelloTimeout, RefuseKnownPeer, RefuseCycle, GiveUp, Refuse
  <2>2. \A k \in Link : phase'[k] = phase[k] \/ (EstEnd(l) = EstEnd(k) /\ phase'[k] # "accepted")
    BY <2>1 DEF TypeOK
  <2> QED  BY <2>1, <2>2, LinkFacts, DropMade
<1>5. CASE AbandonCheck(l)
  <2>1. /\ phase' = [phase EXCEPT ![l] = "lost"] /\ UNCHANGED <<life, known, pending>>
        /\ phase[l] \in Unfinished /\ l \notin pending
    BY <1>5 DEF AbandonCheck
  <2> QED  BY <2>1, PhaseMade
<1> QED  BY <1>1, <1>2, <1>3, <1>4, <1>5 DEF CheckStep

LEMMA NextMade ==
  ASSUME TypeOK, LifeInv, MadeInv, [Next]_vars
  PROVE  MadeInv'
<1>1. ASSUME NEW l \in Link, Establish(l)  PROVE MadeInv'
  <2>1. /\ \A k \in Link : phase'[k] = IF k = l THEN "lock" ELSE phase[k]
        /\ \A e \in End : life'[e] = IF e = EstEnd(l) THEN "up" ELSE life[e]
        /\ pending' = pending \cup {l} /\ known' = known /\ pending \subseteq Link
    BY <1>1 DEF Establish, TypeOK
  <2>2. \A k \in Link : /\ EstEnd(k) \in End /\ AccEnd(k) \in End /\ AccEnd(k) # EstEnd(l)
                        /\ (EstEnd(k) = EstEnd(l) => k = l)
    BY LinkFacts DEF EstEnd, AccEnd
  <2> QED  BY <2>1, <2>2, PhaseFacts DEF MadeInv
<1>2. ASSUME NEW l \in Link, Accept(l)  PROVE MadeInv'
  <2>1. /\ \A e \in End : life'[e] = IF e = AccEnd(l) THEN "up" ELSE life[e]
        /\ UNCHANGED <<pending, known, phase>> /\ pending \subseteq Link
    BY <1>2 DEF Accept, TypeOK
  <2>2. \A k \in Link : EstEnd(k) \in End /\ AccEnd(k) \in End /\ AccEnd(l) # EstEnd(k)
    BY LinkFacts DEF EstEnd, AccEnd
  <2> QED  BY <2>1, <2>2 DEF MadeInv
<1>3. ASSUME NEW e \in End, Lose(e) \/ NoticeLoss(e)  PROVE MadeInv'
  BY <1>3, DropMade DEF Lose, NoticeLoss
<1>4. ASSUME NEW e \in End, ReceiveHello(e)  PROVE MadeInv'
  <2>1. known' = known \cup {e} /\ UNCHANGED <<life, pending, phase>> /\ chan[Peer(e)] # <<>>
    BY <1>4 DEF ReceiveHello, Arrives
  <2>2. life[Peer(e)] # "none"
    BY <2>1, EndFacts DEF LifeInv
  <2>3. \A l \in Link : EstEnd(l) = e => Peer(e) = AccEnd(l)
    BY LinkFacts
  <2> QED  BY <2>1, <2>2, <2>3 DEF MadeInv
<1>5. ASSUME UNCHANGED <<life, known, pending, phase>>  PROVE MadeInv'
  BY <1>5 DEF MadeInv
<1>6. ASSUME NEW e \in End, AnswerQuery(e) \/ ForwardQuery(e) \/ ReceiveReply(e)  PROVE MadeInv'
  BY <1>5, <1>6 DEF AnswerQuery, ForwardQuery, ReceiveReply
<1>7. ASSUME NEW n \in Node, NEW q \in QueryId, ForwardStep(n, q)  PROVE MadeInv'
  BY <1>5, <1>7 DEF ForwardStep, SendForward, ReplyForward
<1> QED  BY <1>1, <1>2, <1>3, <1>4, <1>5, <1>6, <1>7, CheckMade DEF Next, ReceiveStep, vars

(* Losses are counted, so a step that leaves none counted is none. *)
LEMMA NoLoss ==
  ASSUME TypeOK, losses' = 0, [Next]_vars
  PROVE  losses = 0 /\ \A e \in End : ~ Lose(e)
<1>1. losses \in Nat
  BY BoundsAssumption DEF TypeOK
<1>2. \A e \in End : ~ Lose(e)
  BY <1>1 DEF Lose
<1>3. ASSUME NEW l \in Link, CheckStep(l)  PROVE losses' = losses
  BY <1>3 DEF CheckStep, AcquireLock, HelloTimeout, RefuseKnownPeer, PeerIdentified,
     NobodyToAsk, AskOwnQuery, OwnQueryDone, Activate, Retry, NextAttempt, RefuseCycle,
     GiveUp, AbandonCheck, Refuse
<1>4. ASSUME NEW e \in End, NoticeLoss(e) \/ ReceiveStep(e)  PROVE losses' = losses
  BY <1>4 DEF NoticeLoss, ReceiveStep, ReceiveHello, AnswerQuery, ForwardQuery, ReceiveReply
<1>5. ASSUME NEW n \in Node, NEW q \in QueryId, ForwardStep(n, q)  PROVE losses' = losses
  BY <1>5 DEF ForwardStep, SendForward, ReplyForward
<1>6. ASSUME NEW l \in Link, Establish(l) \/ Accept(l)  PROVE losses' = losses
  BY <1>6 DEF Establish, Accept
<1> QED  BY <1>2, <1>3, <1>4, <1>5, <1>6 DEF Next, vars

(* Without losses, what is accepted stays at both ends. *)
LEMMA NextStand ==
  ASSUME TypeOK, LifeInv, MadeInv, StandInv, losses' = 0, [Next]_vars
  PROVE  StandInv'
<1>1. /\ losses = 0 /\ \A e \in End : ~ Lose(e)
      /\ \A l \in Link : phase[l] = "accepted" =>
           life[EstEnd(l)] = "up" /\ life[AccEnd(l)] = "up"
      /\ \A l \in Link : life[AccEnd(l)] = "down" => life[EstEnd(l)] = "down"
  BY NoLoss DEF StandInv, Joined
<1>2. SUFFICES ASSUME NEW l \in Link
      PROVE  /\ phase'[l] = "accepted" => life'[EstEnd(l)] = "up" /\ life'[AccEnd(l)] = "up"
             /\ life'[AccEnd(l)] = "down" => life'[EstEnd(l)] = "down"
  BY DEF StandInv, Joined
<1>3. \A k \in Link : /\ EstEnd(k) \in End /\ AccEnd(k) \in End /\ EstEnd(k) # AccEnd(l)
                      /\ AccEnd(k) # EstEnd(l)
                      /\ (EstEnd(k) = EstEnd(l) => k = l) /\ (AccEnd(k) = AccEnd(l) => k = l)
  BY LinkFacts DEF EstEnd, AccEnd
<1>4. ASSUME NEW k \in Link, Establish(k)
      PROVE  /\ phase'[l] = "accepted" => life'[EstEnd(l)] = "up" /\ life'[AccEnd(l)] = "up"
             /\ life'[AccEnd(l)] = "down" => life'[EstEnd(l)] = "down"
  <2>1. /\ phase'[l] = IF l = k THEN "lock" ELSE phase[l]
        /\ \A e \in End : life'[e] = IF e = EstEnd(k) THEN "up" ELSE life[e]
        /\ phase[k] = "idle"
    BY <1>4 DEF Establish, TypeOK
  <2>2. life[AccEnd(k)] = "none"
    BY <2>1 DEF LifeInv
  <2> QED  BY <1>1, <1>3, <2>1, <2>2
<1>5. ASSUME NEW k \in Link, Accept(k)
      PROVE  /\ phase'[l] = "accepted" => life'[EstEnd(l)] = "up" /\ life'[AccEnd(l)] = "up"
             /\ life'[AccEnd(l)] = "down" => life'[EstEnd(l)] = "down"
  <2>1. /\ phase' = phase
        /\ \A e \in End : life'[e] = IF e = AccEnd(k) THEN "up" ELSE life[e]
    BY <1>5 DEF Accept, TypeOK
  <2> QED  BY <1>1, <1>3, <2>1
<1>6. ASSUME NEW e \in End, NoticeLoss(e)
      PROVE  /\ phase'[l] = "accepted" => life'[EstEnd(l)] = "up" /\ life'[AccEnd(l)] = "up"
             /\ life'[AccEnd(l)] = "down" => life'[EstEnd(l)] = "down"
  <2>1. /\ phase' = phase /\ life[e] = "up" /\ life[Peer(e)] = "down"
        /\ \A d \in End : life'[d] = IF d = e THEN "down" ELSE life[d]
    BY <1>6 DEF NoticeLoss, Drop, TypeOK
  <2>2. PICK k \in Link : \/ e = EstEnd(k) /\ Peer(e) = AccEnd(k)
                          \/ e = AccEnd(k) /\ Peer(e) = EstEnd(k)
    BY EndFacts
  <2>3. e = AccEnd(k) /\ life[EstEnd(k)] = "down"
    BY <1>1, <2>1, <2>2
  <2> QED  BY <1>1, <1>3, <2>1, <2>3
<1>7. ASSUME life' = life, phase'[l] = "accepted" => phase[l] = "accepted"
      PROVE  /\ phase'[l] = "accepted" => life'[EstEnd(l)] = "up" /\ life'[AccEnd(l)] = "up"
             /\ life'[AccEnd(l)] = "down" => life'[EstEnd(l)] = "down"
  BY <1>1, <1>7
<1>8. ASSUME NEW k \in Link, CheckStep(k)
      PROVE  /\ phase'[l] = "accepted" => life'[EstEnd(l)] = "up" /\ life'[AccEnd(l)] = "up"
             /\ life'[AccEnd(l)] = "down" => life'[EstEnd(l)] = "down"
  <2>1. CASE Activate(k)
    <3>1. /\ life' = life /\ phase'[l] = IF l = k THEN "accepted" ELSE phase[l]
          /\ phase[k] \in Late /\ k \in pending
      BY <2>1 DEF Activate, TypeOK, Late
    <3>2. life[EstEnd(k)] = "up" /\ life[AccEnd(k)] # "none"
      BY <3>1 DEF MadeInv, LifeInv
    <3>3. life[AccEnd(k)] \in {"none", "up", "down"}
      BY <1>3 DEF TypeOK
    <3>4. life[AccEnd(k)] = "up"
      BY <1>1, <3>2, <3>3
    <3> QED  BY <1>1, <3>1, <3>2, <3>4
  <2>2. CASE HelloTimeout(k) \/ RefuseKnownPeer(k) \/ RefuseCycle(k) \/ GiveUp(k)
    <3>1. PICK how \in {"refused", "no hello", "undetermined"} : Refuse(k, how)
      BY <2>2 DEF HelloTimeout, RefuseKnownPeer, RefuseCycle, GiveUp
    <3>2. /\ phase'[l] = IF l = k THEN how ELSE phase[l]
          /\ \A d \in End : life'[d] = IF d = EstEnd(k) THEN "down" ELSE life[d]
      BY <3>1 DEF Refuse, Drop, TypeOK
    <3> QED  BY <1>1, <1>3, <3>2
  <2>3. CASE \/ AcquireLock(k) \/ PeerIdentified(k) \/ NobodyToAsk(k) \/ AskOwnQuery(k)
             \/ OwnQueryDone(k) \/ Retry(k) \/ NextAttempt(k) \/ AbandonCheck(k)
    <3>1. life' = life
          /\ \E p \in Phase \ {"accepted"} : phase' = [phase EXCEPT ![k] = p]
      BY <2>3 DEF AcquireLock, PeerIdentified, NobodyToAsk, AskOwnQuery,
         OwnQueryDone, Retry, NextAttempt, AbandonCheck, Phase
    <3>2. phase'[l] = "accepted" => phase[l] = "accepted"
      BY <3>1 DEF TypeOK
    <3> QED  BY <1>7, <3>1, <3>2
  <2> QED  BY <2>1, <2>2, <2>3, <1>8 DEF CheckStep
<1>9. ASSUME NEW e \in End, ReceiveStep(e)  PROVE life' = life /\ phase' = phase
  BY <1>9 DEF ReceiveStep, ReceiveHello, AnswerQuery, ForwardQuery, ReceiveReply
<1>10. ASSUME NEW n \in Node, NEW q \in QueryId, ForwardStep(n, q)
       PROVE  life' = life /\ phase' = phase
  BY <1>10 DEF ForwardStep, SendForward, ReplyForward
<1> QED  BY <1>1, <1>4, <1>5, <1>6, <1>7, <1>8, <1>9, <1>10 DEF Next, vars

(* So a link that is joined stays joined. *)
LEMMA JoinedGrows ==
  ASSUME TypeOK, LifeInv, MadeInv, StandInv, losses' = 0, [Next]_vars
  PROVE  Joined \subseteq Joined'
<1>1. \A l \in Link : phase[l] = "accepted" => phase'[l] = "accepted"
  BY NextOnward DEF Onward
<1>2. \A l \in Link : phase'[l] = "accepted" => l \in Joined'
  BY NextStand DEF StandInv
<1>3. \A l \in Joined : l \in Link /\ phase[l] = "accepted"
  BY DEF Joined
<1> QED  BY <1>1, <1>2, <1>3

(* What is right of fewer links is right of more. *)
LEMMA RightMore ==
  ASSUME NEW J, NEW K, J \subseteq K
  PROVE  /\ \A l : Right(J, l) => Right(K, l)
         /\ \A e, x : MessageRight(J, e, x) => MessageRight(K, e, x)
         /\ \A n, q, query : EntryRight(J, n, q, query) => EntryRight(K, n, q, query)
<1>1. \A a, b : Linked(J, a, b) => Linked(K, a, b)
  BY LinkedMore
<1>2. \A l : Right(J, l) => Right(K, l)
  BY <1>1 DEF Right
<1> QED  BY <1>1, <1>2 DEF MessageRight, EntryRight

(* A query that is waited for as before, or is over. *)
Passes(query, next) ==
  /\ next.result = "found" => query.result = "found"
  /\ next.stage # "none" => query.stage # "none" /\ next.waiting \subseteq query.waiting

LEMMA PassesSame ==
  /\ \A query : Passes(query, query)
  /\ \A query, q : Passes(query, NoQuery(q))
BY DEF Passes, NoQuery, NoResult

LEMMA RepliedPasses ==
  ASSUME NEW query \in Query, NEW e \in End, NEW result \in Result
  PROVE  LET next == Replied(query, e, result)
         IN /\ next.stage # "none" => query.stage # "none" /\ next.waiting \subseteq query.waiting
            /\ next.result = "found" => query.result = "found" \/ result = "found"
BY DEF Replied, Query, Result, NoResult

LEMMA EntryPasses ==
  ASSUME NEW J, NEW n, NEW q, NEW query, NEW next, Passes(query, next), EntryRight(J, n, q, query)
  PROVE  EntryRight(J, n, q, next)
BY DEF EntryRight, Passes

(* A step keeps what is right if what it opens, sends and decides is. *)
LEMMA RightStep ==
  ASSUME RightInv, losses = 0, Joined \subseteq Joined',
         \A n \in Node, q \in QueryId :
           \/ Passes(queries[n][q], queries'[n][q])
           \/ EntryRight(Joined, n, q, queries'[n][q]),
         \A e \in End : \A x : Under(chan'[e], x) =>
           Under(chan[e], x) \/ MessageRight(Joined, e, x),
         \A l \in Link : outcome'[l] = "found" \/ phase'[l] = "refused" =>
           outcome[l] = "found" \/ phase[l] = "refused" \/ Right(Joined, l)
  PROVE  RightInv'
<1>1. \A n \in Node, q \in QueryId : EntryRight(Joined', n, q, queries'[n][q])
  <2> TAKE n \in Node, q \in QueryId
  <2>1. EntryRight(Joined, n, q, queries'[n][q])
    BY EntryPasses DEF RightInv
  <2> QED  BY <2>1, RightMore
<1>2. \A e \in End : \A x : Under(chan'[e], x) => MessageRight(Joined', e, x)
  <2> TAKE e \in End
  <2>1. \A x : Under(chan'[e], x) => MessageRight(Joined, e, x)
    BY DEF RightInv
  <2> QED  BY <2>1, RightMore
<1>3. \A l \in Link : outcome'[l] = "found" \/ phase'[l] = "refused" => Right(Joined', l)
  <2>1. \A l \in Link : outcome'[l] = "found" \/ phase'[l] = "refused" => Right(Joined, l)
    BY DEF RightInv
  <2> QED  BY <2>1, RightMore
<1> QED  BY <1>1, <1>2, <1>3 DEF RightInv

(* What every step starts from. *)
Quietly == TypeOK /\ MadeInv /\ StandInv /\ RightInv /\ losses = 0 /\ Joined \subseteq Joined'

(* Dropping an end. *)
LEMMA DropRight ==
  ASSUME Quietly, NEW d \in End, Drop(d), UNCHANGED outcome,
         \A l \in Link : phase'[l] = "refused" => phase[l] = "refused" \/ Right(Joined, l)
  PROVE  RightInv'
<1>1. /\ \A e \in End : chan'[e] = IF e = Peer(d) THEN <<>> ELSE chan[e]
      /\ \A n \in Node, q \in QueryId :
           queries'[n][q] = IF n = At(d) THEN Replied(queries[n][q], d, "not_found")
                            ELSE queries[n][q]
      /\ \A n \in Node, q \in QueryId : queries[n][q] \in Query
  BY EndTypes DEF Drop, Quietly, TypeOK
<1>2. \A n \in Node, q \in QueryId : Passes(queries[n][q], queries'[n][q])
  <2>1. "not_found" \in Result /\ "not_found" # "found"
    BY DEF Result
  <2>2. \A query \in Query : Passes(query, Replied(query, d, "not_found"))
    BY <2>1, RepliedPasses DEF Passes
  <2> QED  BY <1>1, <2>2, PassesSame
<1>3. \A e \in End : \A x : Under(chan'[e], x) => Under(chan[e], x)
  BY <1>1 DEF Under
<1> QED  BY <1>2, <1>3, RightStep DEF Quietly

(* Nothing is sent or opened. *)
LEMMA SameRight ==
  ASSUME Quietly, UNCHANGED <<chan, queries>>,
         \A l \in Link : outcome'[l] = "found" \/ phase'[l] = "refused" =>
           outcome[l] = "found" \/ phase[l] = "refused" \/ Right(Joined, l)
  PROVE  RightInv'
BY PassesSame, RightStep DEF Quietly

(* A new connection has only its Hello under way. *)
LEMMA ConnectRight ==
  ASSUME Quietly, NEW l \in Link, Establish(l) \/ Accept(l)
  PROVE  RightInv'
<1>1. /\ \A e \in End : chan'[e] \in {chan[e], <<[type |-> "hello"]>>, <<>>}
      /\ UNCHANGED <<queries, outcome>>
      /\ \A k \in Link : phase'[k] = "refused" => phase[k] = "refused"
  BY LinkFacts DEF Establish, Accept, Quietly, TypeOK
<1>2. \A e \in End : \A x : Under(chan'[e], x) => Under(chan[e], x) \/ x = [type |-> "hello"]
  BY <1>1 DEF Under
<1>3. \A x : x = [type |-> "hello"] => \A e : MessageRight(Joined, e, x)
  BY DEF MessageRight
<1> QED  BY <1>1, <1>2, <1>3, PassesSame, RightStep DEF Quietly

(* An accepted connection is one of those that lead somewhere. *)
LEMMA ListedIsJoined ==
  ASSUME Quietly, NEW e \in End, life[e] = "up", e.side = "est", e.link \notin pending
  PROVE  e.link \in Joined
<1>1. e.link \in Link /\ e = EstEnd(e.link)
  BY EndFacts
<1> QED  BY <1>1 DEF Quietly, MadeInv, StandInv

LEMMA ActiveRight ==
  ASSUME Quietly, NEW n, NEW e \in ActiveNodeEnds(n)
  PROVE  e \in End /\ At(e) = n /\ (e.side = "est" => e.link \in Joined)
BY ListedIsJoined DEF ActiveNodeEnds

(* What an active connection, or its peer, is asked has come there. *)
LEMMA QueryLinked ==
  ASSUME Quietly, NEW f \in End, QueryArrives(f), ~ (f.side = "est" /\ f.link \in pending)
  PROVE  LET q == Head(chan[Peer(f)]).id
         IN /\ f.link \in Joined
            /\ Linked(Joined, Est[q.link], At(f))
<1> DEFINE m == Head(chan[Peer(f)])
<1>1. /\ Under(chan[Peer(f)], m) /\ m.type = "query"
      /\ Peer(f) \in End /\ life[f] = "up"
  BY ArrivedUnder DEF QueryArrives, Quietly
<1> HIDE DEF m
<1>2. MessageRight(Joined, Peer(f), m)
  BY <1>1 DEF Quietly, RightInv
<1>3. f.link \in Joined
  <2>1. f.side = "est" \/ (f.side = "acc" /\ Peer(f).side = "est" /\ Peer(f).link = f.link)
    BY EndFacts, LinkFacts
  <2> QED  BY <1>1, <1>2, <2>1, ListedIsJoined DEF MessageRight
<1>4. Linked(Joined, Est[m.id.link], At(Peer(f)))
  BY <1>1, <1>2 DEF MessageRight
<1> QED  BY <1>3, <1>4, LinkedOn DEF m

(* An own query goes to the active connections of the node that asks. *)
LEMMA AskRight ==
  ASSUME Quietly, NEW l \in Link, AskOwnQuery(l)
  PROVE  RightInv'
<1> DEFINE n0 == Est[l]
           q0 == [link |-> l, attempt |-> attempt[l]]
           t == ActiveNodeEnds(n0)
           m == [type |-> "query", id |-> q0]
           opened == OpenQuery("sent", TRUE, EstEnd(l), t)
<1>1. /\ queries' = [queries EXCEPT ![n0][q0] = opened] /\ chan' = Sent(t, m)
      /\ UNCHANGED outcome /\ phase' = [phase EXCEPT ![l] = "query"]
  BY DEF AskOwnQuery
<1>2. q0 \in QueryId /\ n0 \in Node /\ m \in Message /\ q0.link = l /\ m.type = "query" /\ m.id = q0
  BY OwnQueryId, LinkEndsAssumption DEF Message, Quietly
<1>3. opened.waiting = t /\ opened.result # "found"
  BY DEF OpenQuery, NoResult
<1>4. \A e \in t : At(e) = n0 /\ (e.side = "est" => e.link \in Joined)
  BY ActiveRight
<1>5. Linked(Joined, Est[q0.link], n0)
  BY <1>2, LinkedHere
<1> HIDE DEF q0, n0, t, opened, m
<1>6. \A n \in Node, q \in QueryId :
        queries'[n][q] = IF n = n0 /\ q = q0 THEN opened ELSE queries[n][q]
  BY <1>1, <1>2 DEF Quietly, TypeOK
<1>7. EntryRight(Joined, n0, q0, opened)
  BY <1>3, <1>4, <1>5 DEF EntryRight
<1>8. \A n \in Node, q \in QueryId :
           \/ Passes(queries[n][q], queries'[n][q])
           \/ EntryRight(Joined, n, q, queries'[n][q])
  BY <1>6, <1>7, PassesSame
<1>9. ASSUME NEW e \in End, NEW x, Under(chan'[e], x)
      PROVE  Under(chan[e], x) \/ MessageRight(Joined, e, x)
  <2>1. CASE chan'[e] = chan[e]
    BY <1>9, <2>1
  <2>2. CASE e \in t /\ chan'[e] = Append(chan[e], m)
    <3>1. Under(chan[e], x) \/ x = m
      BY <1>2, <1>9, <2>2, UnderAppended DEF Quietly, TypeOK
    <3> QED  BY <1>2, <1>4, <1>5, <2>2, <3>1 DEF MessageRight
  <2> QED  BY <1>1, <2>1, <2>2 DEF Sent
<1>10. \A k \in Link : phase'[k] = "refused" => phase[k] = "refused"
  BY <1>1 DEF Quietly, TypeOK
<1> QED  BY <1>1, <1>8, <1>9, <1>10, RightStep DEF Quietly

(* A query that is answered with "found" has come to the node it looks for. *)
LEMMA AnswerRight ==
  ASSUME Quietly, NEW f \in End, AnswerQuery(f)
  PROVE  RightInv'
<1> DEFINE g == Peer(f)
           q0 == Head(chan[g]).id
<1>1. QueryArrives(f) /\ Arrives(f, "query") /\ UNCHANGED <<queries, outcome, phase>>
  BY DEF AnswerQuery, QueryArrives
<1>2. PICK result \in Result :
        /\ chan' = [Sent({f}, [type |-> "reply", id |-> q0, result |-> result])
                      EXCEPT ![g] = Tail(@)]
        /\ result = "found" => AnswerNow(f, q0) = "found"
  BY DEF AnswerQuery, AnswerNow, Result, NoResult
<1> DEFINE m == [type |-> "reply", id |-> q0, result |-> result]
           s == Sent({f}, m)
<1>3. Head(chan[g]) \in Message /\ Head(chan[g]).type = "query" /\ g \in End /\ g # f
      /\ chan[g] # <<>>
  BY <1>1, ArrivedUnder, EndFacts DEF Quietly
<1>4. q0 \in QueryId /\ m \in Message /\ m.type = "reply" /\ m.id = q0 /\ m.result = result
  BY <1>3 DEF Message
<1>5. m.result = "found" => Right(Joined, q0.link)
  <2> SUFFICES ASSUME result = "found"  PROVE Right(Joined, q0.link)
    OBVIOUS
  <2>1. Acc[q0.link] = At(f) /\ ~ (f.side = "est" /\ f.link \in pending)
    BY <1>2 DEF AnswerNow, NoResult
  <2>2. Linked(Joined, Est[q0.link], At(f))
    BY <1>1, <2>1, QueryLinked
  <2> QED  BY <2>1, <2>2 DEF Right
<1>6. /\ s \in [End -> Seq(Message)] /\ chan \in [End -> Seq(Message)]
      /\ chan' = [s EXCEPT ![g] = Tail(@)]
      /\ \A e \in End : s[e] = chan[e] \/ s[e] = Append(chan[e], m)
      /\ s[g] = chan[g]
  <2>1. chan \in [End -> Seq(Message)]
    BY DEF Quietly, TypeOK
  <2>2. s \in [End -> Seq(Message)]
    BY <1>4, <2>1, SentType
  <2> QED  BY <1>2, <1>3, <2>1, <2>2 DEF Sent
<1> HIDE DEF s, m, q0, g
<1>7. ASSUME NEW e \in End, NEW x, Under(chan'[e], x)
      PROVE  Under(chan[e], x) \/ x = m
  <2>1. CASE e = g
    <3>1. chan'[e] = Tail(chan[e]) /\ chan[e] \in Seq(Message) /\ chan[e] # <<>>
      BY <1>3, <1>6, <2>1
    <3> QED  BY <1>7, <3>1, UnderTaken
  <2>2. CASE e # g
    <3>1. chan'[e] = s[e] /\ chan[e] \in Seq(Message)
      BY <1>6, <2>2
    <3> QED  BY <1>4, <1>6, <1>7, <3>1, UnderAppended
  <2> QED  BY <2>1, <2>2
<1>8. \A e : MessageRight(Joined, e, m)
  BY <1>4, <1>5 DEF MessageRight
<1> QED  BY <1>1, <1>7, <1>8, PassesSame, RightStep DEF Quietly

(* A query that is registered has come there. *)
LEMMA ForwardRight ==
  ASSUME Quietly, NEW f \in End, ForwardQuery(f)
  PROVE  RightInv'
<1> DEFINE n0 == At(f)
           q0 == Head(chan[Peer(f)]).id
           t == ActiveNodeEnds(n0) \ {f}
           opened == OpenQuery("opened", FALSE, f, t)
<1>1. /\ QueryArrives(f) /\ UNCHANGED <<outcome, phase>> /\ Arrives(f, "query")
      /\ queries' = [queries EXCEPT ![n0][q0] = opened] /\ chan' = Taken(f)
      /\ AnswerNow(f, q0) = NoResult
  BY DEF ForwardQuery, QueryArrives, Taken
<1>2. q0 \in QueryId /\ n0 \in Node
  <2>1. Head(chan[Peer(f)]) \in Message /\ Head(chan[Peer(f)]).type = "query"
    BY <1>1, ArrivedUnder DEF Quietly
  <2> QED  BY <2>1, EndFacts DEF Message
<1>3. Linked(Joined, Est[q0.link], n0)
  <2>1. ~ (f.side = "est" /\ f.link \in pending)
    BY <1>1 DEF AnswerNow, NoResult
  <2> QED  BY <1>1, <2>1, QueryLinked
<1>4. opened.waiting = t /\ opened.result # "found"
  BY DEF OpenQuery, NoResult
<1>5. \A e \in t : At(e) = n0 /\ (e.side = "est" => e.link \in Joined)
  BY ActiveRight
<1> HIDE DEF q0, t, opened, n0
<1>6. EntryRight(Joined, n0, q0, opened)
  BY <1>3, <1>4, <1>5 DEF EntryRight
<1>7. \A n \in Node, q \in QueryId :
        queries'[n][q] = IF n = n0 /\ q = q0 THEN opened ELSE queries[n][q]
  BY <1>1, <1>2 DEF Quietly, TypeOK
<1>8. \A n \in Node, q \in QueryId :
           \/ Passes(queries[n][q], queries'[n][q])
           \/ EntryRight(Joined, n, q, queries'[n][q])
  BY <1>6, <1>7, PassesSame
<1>9. \A e \in End : \A x : Under(chan'[e], x) => Under(chan[e], x)
  BY <1>1, TakenKeeps DEF Quietly
<1> QED  BY <1>1, <1>8, <1>9, RightStep DEF Quietly

(* A reply that arrives is right. *)
LEMMA ReceiveReplyRight ==
  ASSUME Quietly, NEW f \in End, ReceiveReply(f)
  PROVE  RightInv'
<1> DEFINE m == Head(chan[Peer(f)])
           n0 == At(f)
<1>1. /\ Arrives(f, "reply") /\ chan' = Taken(f) /\ UNCHANGED <<outcome, phase>>
      /\ queries' = [queries EXCEPT ![n0][m.id] = Replied(@, f, m.result)]
  BY DEF ReceiveReply, Taken
<1>2. m \in Message /\ m.type = "reply" /\ Under(chan[Peer(f)], m) /\ Peer(f) \in End
  BY <1>1, ArrivedUnder DEF Quietly
<1>3. m.id \in QueryId /\ m.result \in Result /\ n0 \in Node
  BY <1>2, EndFacts DEF Message
<1> HIDE DEF m, n0
<1>4. m.result = "found" => Right(Joined, m.id.link)
  BY <1>2 DEF Quietly, RightInv, MessageRight
<1>5. \A n \in Node, q \in QueryId :
        queries'[n][q] = IF n = n0 /\ q = m.id THEN Replied(queries[n][q], f, m.result)
                         ELSE queries[n][q]
  BY <1>1, <1>3 DEF Quietly, TypeOK
<1>6. ASSUME NEW n \in Node, NEW q \in QueryId, n = n0, q = m.id
      PROVE  EntryRight(Joined, n, q, queries'[n][q])
  <2>1. queries[n][q] \in Query /\ EntryRight(Joined, n, q, queries[n][q])
    BY DEF Quietly, TypeOK, RightInv
  <2>2. queries'[n][q] = Replied(queries[n][q], f, m.result)
    BY <1>5, <1>6
  <2> QED  BY <1>3, <1>4, <1>6, <2>1, <2>2, RepliedPasses DEF EntryRight
<1>7. \A n \in Node, q \in QueryId :
           \/ Passes(queries[n][q], queries'[n][q])
           \/ EntryRight(Joined, n, q, queries'[n][q])
  BY <1>5, <1>6, PassesSame
<1>8. \A e \in End : \A x : Under(chan'[e], x) => Under(chan[e], x)
  BY <1>1, TakenKeeps DEF Quietly
<1> QED  BY <1>1, <1>7, <1>8, RightStep DEF Quietly

(* A query that is forwarded goes on from where it has come. *)
LEMMA SendForwardRight ==
  ASSUME Quietly, NEW n0 \in Node, NEW q0 \in QueryId, SendForward(n0, q0)
  PROVE  RightInv'
<1> DEFINE old == queries[n0][q0]
           m == [type |-> "query", id |-> q0]
           t == old.waiting
           sent == [old EXCEPT !.stage = "sent"]
<1>1. /\ UNCHANGED <<outcome, phase>> /\ chan' = Sent(t, m)
      /\ queries' = [queries EXCEPT ![n0][q0] = sent] /\ old.stage = "opened"
  BY DEF SendForward
<1>2. old \in Query /\ m \in Message /\ m.type = "query" /\ m.id = q0
      /\ EntryRight(Joined, n0, q0, old)
  BY DEF Quietly, TypeOK, Message, RightInv
<1>3. Passes(old, sent)
  BY <1>1, <1>2 DEF Passes, Query
<1>4. /\ Linked(Joined, Est[q0.link], n0)
      /\ \A e \in t : At(e) = n0 /\ (e.side = "est" => e.link \in Joined)
  BY <1>1, <1>2 DEF EntryRight
<1> HIDE DEF old, m, t, sent
<1>5. \A n \in Node, q \in QueryId :
        queries'[n][q] = IF n = n0 /\ q = q0 THEN sent ELSE queries[n][q]
  BY <1>1 DEF Quietly, TypeOK
<1>6. \A n \in Node, q \in QueryId : Passes(queries[n][q], queries'[n][q])
  BY <1>3, <1>5, PassesSame DEF old
<1>7. ASSUME NEW e \in End, NEW x, Under(chan'[e], x)
      PROVE  Under(chan[e], x) \/ MessageRight(Joined, e, x)
  <2>1. CASE chan'[e] = chan[e]
    BY <1>7, <2>1
  <2>2. CASE e \in t /\ chan'[e] = Append(chan[e], m)
    <3>1. Under(chan[e], x) \/ x = m
      BY <1>2, <1>7, <2>2, UnderAppended DEF Quietly, TypeOK
    <3> QED  BY <1>2, <1>4, <2>2, <3>1 DEF MessageRight
  <2> QED  BY <1>1, <2>1, <2>2 DEF Sent
<1> QED  BY <1>1, <1>6, <1>7, RightStep DEF Quietly

(* Its result is passed on as it is. *)
LEMMA ReplyForwardRight ==
  ASSUME Quietly, NEW n0 \in Node, NEW q0 \in QueryId, ReplyForward(n0, q0)
  PROVE  RightInv'
<1> DEFINE old == queries[n0][q0]
<1>1. /\ UNCHANGED <<outcome, phase>>
      /\ queries' = [queries EXCEPT ![n0][q0] = NoQuery(q0)]
  BY DEF ReplyForward
<1>2. PICK result : /\ chan' = Sent({old.source},
                                    [type |-> "reply", id |-> q0, result |-> result])
                    /\ result \in Result /\ (result = "found" => old.result = "found")
  <2>1. old.result \in Result \cup {NoResult}
    BY DEF Quietly, TypeOK, Query
  <2> QED  BY <2>1 DEF ReplyForward, Result, NoResult
<1> DEFINE m == [type |-> "reply", id |-> q0, result |-> result]
<1>3. EntryRight(Joined, n0, q0, old) /\ m \in Message /\ m.type = "reply" /\ m.id = q0
      /\ m.result = result
  BY <1>2 DEF Quietly, RightInv, Message
<1>4. chan' = Sent({old.source}, m)
  BY <1>2
<1> HIDE DEF m
<1>5. \A e : MessageRight(Joined, e, m)
  BY <1>2, <1>3 DEF MessageRight, EntryRight
<1>6. \A n \in Node, q \in QueryId :
        queries'[n][q] = IF n = n0 /\ q = q0 THEN NoQuery(q0) ELSE queries[n][q]
  BY <1>1 DEF Quietly, TypeOK
<1>7. \A n \in Node, q \in QueryId : Passes(queries[n][q], queries'[n][q])
  BY <1>6, PassesSame
<1>8. ASSUME NEW e \in End, NEW x, Under(chan'[e], x)
      PROVE  Under(chan[e], x) \/ x = m
  <2>1. CASE chan'[e] = chan[e]
    BY <1>8, <2>1
  <2>2. CASE chan'[e] = Append(chan[e], m)
    BY <1>3, <1>8, <2>2, UnderAppended DEF Quietly, TypeOK
  <2> QED  BY <1>4, <2>1, <2>2 DEF Sent
<1> QED  BY <1>1, <1>5, <1>7, <1>8, RightStep DEF Quietly

(* No two nodes establish connections to each other.  Two that do may each refuse
   their own because of the other's, which is then refused too. *)
NotMutual ==
  \A k, l \in Link \ Initial : Est[k] = Acc[l] /\ Acc[k] = Est[l] => Est[k] = Acc[k]

InitialStay == \A l \in Initial : phase[l] = "accepted"

(* So a peer that is known is connected over a link that was accepted. *)
LEMMA KnownPeerRight ==
  ASSUME NotMutual, InitialStay, Quietly, NEW l \in Link, phase[l] = "hello", KnownPeer(l)
  PROVE  Right(Joined, l)
<1>1. CASE Acc[l] = Est[l]
  BY <1>1, LinkedHere DEF Right
<1>2. ASSUME NEW e \in ActiveNodeEnds(Est[l]), At(Peer(e)) = Acc[l], Acc[l] # Est[l]
      PROVE  Right(Joined, l)
  <2>1. e \in End /\ At(e) = Est[l] /\ (e.side = "est" => e.link \in Joined)
    BY ActiveRight
  <2>2. ASSUME e.side = "acc"  PROVE e.link \in Joined
    <3>1. e.link \in Link /\ Acc[e.link] = Est[l] /\ Est[e.link] = Acc[l]
      BY <1>2, <2>1, <2>2, EndFacts, LinkFacts
    <3>2. l \notin Initial
      BY DEF InitialStay
    <3>3. e.link \in Initial
      BY <1>2, <3>1, <3>2 DEF NotMutual
    <3> QED  BY <3>1, <3>3 DEF InitialStay, Quietly, StandInv
  <2>3. e.side = "est" \/ e.side = "acc"
    BY <2>1, EndFacts
  <2>4. e.link \in Joined
    BY <2>1, <2>2, <2>3
  <2>5. Peer(e) \in End /\ Peer(e).link = e.link /\ Peer(Peer(e)) = e
    BY <2>1, EndFacts
  <2>6. Linked(Joined, Est[l], At(Peer(Peer(e))))
    BY <2>1, <2>5, LinkedHere
  <2>7. Linked(Joined, Est[l], At(Peer(e)))
    BY <2>4, <2>5, <2>6, LinkedOn
  <2> QED  BY <1>2, <2>7 DEF Right
<1> QED  BY <1>1, <1>2 DEF KnownPeer

(* Every step of a check decides rightly, *)
LEMMA CheckRight ==
  ASSUME NotMutual, InitialStay, Quietly, NEW l \in Link, CheckStep(l)
  PROVE  RightInv'
<1>1. \A k \in Link : k # l => phase'[k] = phase[k]
  BY DEF CheckStep, AcquireLock, HelloTimeout, RefuseKnownPeer, PeerIdentified,
     NobodyToAsk, AskOwnQuery, OwnQueryDone, Activate, Retry, NextAttempt, RefuseCycle,
     GiveUp, AbandonCheck, Refuse, Quietly, TypeOK
<1>2. CASE AcquireLock(l) \/ PeerIdentified(l) \/ Activate(l) \/ Retry(l) \/ NextAttempt(l)
  <2>1. UNCHANGED <<chan, queries, outcome>> /\ phase'[l] # "refused"
    BY <1>2 DEF AcquireLock, PeerIdentified, Activate, Retry, NextAttempt, Quietly, TypeOK
  <2> QED  BY <1>1, <2>1, SameRight
<1>3. CASE NobodyToAsk(l)
  <2>1. UNCHANGED <<chan, queries>> /\ phase'[l] # "refused"
        /\ \A k \in Link : outcome'[k] = "found" => outcome[k] = "found"
    BY <1>3 DEF NobodyToAsk, Quietly, TypeOK
  <2> QED  BY <1>1, <2>1, SameRight
<1>4. CASE OwnQueryDone(l) \/ AbandonCheck(l)
  <2> DEFINE n0 == Est[l]
             q0 == [link |-> l, attempt |-> attempt[l]]
  <2>1. n0 \in Node /\ q0 \in QueryId /\ q0.link = l
    BY OwnQueryId, LinkEndsAssumption DEF Quietly
  <2>2. /\ UNCHANGED chan /\ phase'[l] # "refused"
        /\ queries' = queries \/ queries' = [queries EXCEPT ![n0][q0] = NoQuery(q0)]
        /\ \A k \in Link : outcome'[k] = "found" =>
             outcome[k] = "found" \/ (k = l /\ queries[n0][q0].result = "found")
    BY <1>4 DEF OwnQueryDone, AbandonCheck, Quietly, TypeOK
  <2> HIDE DEF n0, q0
  <2>3. queries[n0][q0].result = "found" => Right(Joined, l)
    BY <2>1 DEF Quietly, RightInv, EntryRight
  <2>4. \A n \in Node, q \in QueryId :
          queries'[n][q] = queries[n][q] \/ queries'[n][q] = NoQuery(q0)
    <3>1. queries \in [Node -> [QueryId -> Query]]
      BY DEF Quietly, TypeOK
    <3>2. CASE queries' = queries
      BY <3>2
    <3>3. CASE queries' = [queries EXCEPT ![n0][q0] = NoQuery(q0)]
      BY <2>1, <3>1, <3>3
    <3> QED  BY <2>2, <3>2, <3>3
  <2>5. \A n \in Node, q \in QueryId : Passes(queries[n][q], queries'[n][q])
    BY <2>4, PassesSame
  <2> QED  BY <1>1, <2>2, <2>3, <2>5, RightStep DEF Quietly
<1>5. ASSUME NEW how \in {"refused", "no hello", "undetermined"}, Refuse(l, how),
             how = "refused" => Right(Joined, l)
      PROVE  RightInv'
  <2>1. /\ Drop(EstEnd(l)) /\ EstEnd(l) \in End /\ UNCHANGED outcome
        /\ phase'[l] = "refused" => Right(Joined, l)
    BY <1>5, LinkFacts DEF Refuse, Quietly, TypeOK
  <2> QED  BY <1>1, <2>1, DropRight
<1>6. RefuseKnownPeer(l) => RightInv'
  BY <1>5, KnownPeerRight DEF RefuseKnownPeer
<1>7. RefuseCycle(l) => RightInv'
  BY <1>5 DEF RefuseCycle, Quietly, RightInv
<1>8. HelloTimeout(l) \/ GiveUp(l) => RightInv'
  BY <1>5 DEF HelloTimeout, GiveUp
<1> QED  BY <1>2, <1>3, <1>4, <1>6, <1>7, <1>8, AskRight DEF CheckStep

(* and so does every step. *)
LEMMA NextRight ==
  ASSUME NotMutual, InitialStay, TypeOK, LifeInv, MadeInv, StandInv, RightInv, losses' = 0,
         [Next]_vars
  PROVE  RightInv'
<1>1. Quietly /\ \A e \in End : ~ Lose(e)
  BY NoLoss, JoinedGrows DEF Quietly
<1>2. ASSUME NEW l \in Link, Establish(l) \/ Accept(l) \/ CheckStep(l)  PROVE RightInv'
  BY <1>1, <1>2, ConnectRight, CheckRight
<1>3. ASSUME NEW e \in End, NoticeLoss(e)  PROVE RightInv'
  BY <1>1, <1>3, DropRight DEF NoticeLoss
<1>4. ASSUME NEW e \in End, ReceiveStep(e)  PROVE RightInv'
  <2>1. ReceiveHello(e) => RightInv'
    <3> SUFFICES ASSUME ReceiveHello(e)  PROVE RightInv'
      OBVIOUS
    <3>1. Arrives(e, "hello") /\ chan' = Taken(e) /\ UNCHANGED <<queries, outcome, phase>>
      BY DEF ReceiveHello, Taken
    <3>2. \A d \in End : \A x : Under(chan'[d], x) => Under(chan[d], x)
      BY <1>1, <3>1, TakenKeeps DEF Quietly
    <3> QED  BY <1>1, <3>1, <3>2, PassesSame, RightStep DEF Quietly
  <2> QED  BY <1>1, <1>4, <2>1, AnswerRight, ForwardRight, ReceiveReplyRight DEF ReceiveStep
<1>5. ASSUME NEW n \in Node, NEW q \in QueryId, ForwardStep(n, q)  PROVE RightInv'
  BY <1>1, <1>5, SendForwardRight, ReplyForwardRight DEF ForwardStep
<1>6. CASE UNCHANGED vars
  BY <1>1, <1>6, SameRight DEF vars
<1> QED  BY <1>1, <1>2, <1>3, <1>4, <1>5, <1>6 DEF Next

RefusalInv ==
  IInv /\ AwaitInv /\ MadeInv /\ InitialStay /\ StandInv /\ RightInv

LEMMA InitRefusal == Init => RefusalInv
<1> SUFFICES ASSUME Init  PROVE RefusalInv
  OBVIOUS
<1>1. \A l \in Link : /\ EstEnd(l) \in End /\ AccEnd(l) \in End
                      /\ EstEnd(l).link = l /\ AccEnd(l).link = l
  BY LinkFacts
<1>2. MadeInv /\ InitialStay /\ StandInv
  BY <1>1, InitialAssumption DEF Init, MadeInv, InitialStay, StandInv, Joined
<1>3. \A n \in Node, q \in QueryId :
        queries[n][q].stage = "none" /\ queries[n][q].result # "found"
  BY DEF Init, NoQuery, NoResult
<1>4. \A n \in Node, q \in QueryId : EntryRight(Joined, n, q, queries[n][q])
  BY <1>3 DEF EntryRight
<1>5. \A e \in End : \A x : ~ Under(chan[e], x)
  BY DEF Init, Under
<1>6. \A l \in Link : outcome[l] # "found" /\ phase[l] # "refused"
  BY DEF Init
<1>7. RightInv
  BY <1>4, <1>5, <1>6 DEF RightInv
<1> QED  BY <1>2, <1>7, InitIInv, InitAwait DEF RefusalInv

LEMMA NextRefusal ==
  ASSUME NotMutual, RefusalInv, [Next]_vars
  PROVE  RefusalInv'
<1>1. TypeOK /\ LifeInv /\ IInv /\ AwaitInv /\ MadeInv /\ InitialStay /\ StandInv /\ RightInv
  BY DEF RefusalInv, IInv, AwaitInv
<1>2. IInv' /\ AwaitInv' /\ MadeInv'
  BY <1>1, NextIInv, NextAwait, NextMade
<1>3. InitialStay'
  BY <1>1, NextOnward, InitialAssumption DEF Onward, InitialStay
<1>4. losses' = 0 => StandInv' /\ RightInv'
  BY <1>1, NextStand, NextRight
<1>5. losses' # 0 => StandInv' /\ RightInv'
  BY DEF StandInv, RightInv
<1> QED  BY <1>2, <1>3, <1>4, <1>5 DEF RefusalInv

(* A check that refuses a connection because of the tree is right, as long as no
   connection was lost: the two nodes are connected already.  This holds however
   many nodes and links there are, whatever times out and without the timing
   assumptions, on every bus in which no two nodes connect to each other; where two
   do, it may fail (CycleMutual.cfg). *)
THEOREM RefusalsAreRight ==
  ASSUME NotMutual
  PROVE  Spec => []FinalRefusalIsRight
<1>1. RefusalInv /\ [Next]_vars => RefusalInv'
  BY NextRefusal
<1>2. RefusalInv => FinalRefusalIsRight
  <2> SUFFICES ASSUME RefusalInv, losses = 0, NEW l \in Link, phase[l] = "refused"
               PROVE  ~ Separated(l, Joined)
    BY DEF FinalRefusalIsRight
  <2>1. Right(Joined, l)
    BY DEF RefusalInv, RightInv
  <2> QED  BY <2>1 DEF Right, Linked, Separated, Crosses
<1> QED  BY <1>1, <1>2, InitRefusal, PTL DEF Spec

=============================================================================
