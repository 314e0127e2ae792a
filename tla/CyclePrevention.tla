--------------------------- MODULE CyclePrevention ---------------------------
(***************************************************************************)
(* The cycle check of PubSubNode (pubsub.py): every node runs the check on *)
(* the connections it establishes, asking the nodes it is connected to     *)
(* whether the new peer can be reached through them already.               *)
(*                                                                         *)
(* A node is one asyncio thread, so code between two suspension points is  *)
(* one action.                                                             *)
(* Node stands for the PubSubNodes, and for their Node IDs; each link of    *)
(* Link is established at most once, by Est[l] to Acc[l].                  *)
(* Subscriptions and publishes are left out: they touch none of this state *)
(* (PubSubNode holds them back until the check is over).                   *)
(***************************************************************************)
EXTENDS Integers, Sequences, Ends

CONSTANTS
  Initial,      \* the links that passed their check before the start
  MaxAttempts,  \* PubSubNode.max_check_attempts
  MaxLosses,    \* bound: how many ends fail, or are closed, on their own
  Timeouts,     \* whether check_timeout may expire
  PromptHello,  \* timing assumption, see ReceiveHello
  PromptDecision \* timing assumption, see QueryArrives

ASSUME InitialAssumption == Initial \subseteq Link /\ IsForest(Initial)
ASSUME BoundsAssumption == MaxAttempts \in Nat \ {0} /\ MaxLosses \in Nat
ASSUME SwitchesAssumption ==
  /\ Timeouts \in BOOLEAN
  /\ PromptHello \in BOOLEAN
  /\ PromptDecision \in BOOLEAN

(* ReachabilityResult, and the state of a query that has none yet. *)
Result  == {"found", "not_found", "unknown"}
NoResult == "none"

(* Query IDs are never reused, so the check and its attempt identify a query. *)
QueryId == [link: Link, attempt: 0 .. MaxAttempts - 1]

Message ==
  [type: {"hello"}]
    \cup [type: {"query"}, id: QueryId]
    \cup [type: {"reply"}, id: QueryId, result: Result]

(* Where the cycle check of a link is.  From "hello" to "delay" it holds the
   check lock of its node.  "refused" and "no hello" are a CycleCheckRefused
   that is final, "undetermined" is one that is retryable. *)
Phase == {"idle", "lock", "hello", "ask", "query", "answered", "delay",
          "accepted", "refused", "no hello", "undetermined", "lost"}
Unfinished ==
  Phase \ {"idle", "accepted", "refused", "no hello", "undetermined", "lost"}
LockPhase == {"hello", "ask", "query", "answered", "delay"}

(* Entries of PubSubNode._queries: "opened" until the query has been sent; own
   if the node asks it for a check of its own, else source asked it. *)
Query == [stage: {"none", "opened", "sent"}, own: BOOLEAN, source: End,
          waiting: SUBSET End, unknown: BOOLEAN, result: Result \cup {NoResult}]

VARIABLES
  life,      \* life[e]: "none", then "up" while listed by its node, then "down"
  chan,      \* chan[e]: messages sent from e and not yet received, in order
  known,     \* PubSubNode._peer_node_ids: the ends that received a Hello
  pending,   \* PubSubNode._pending: links whose establishing end is pending
  phase,     \* phase[l]: progress of the check of l
  attempt,   \* attempt[l]: the loop variable of _run_check
  outcome,   \* outcome[l]: the result _ask_own_query returned
  checking,  \* PubSubNode._checking of each node
  queries,   \* queries[n][q]: PubSubNode._queries of n
  losses     \* how many ends failed on their own so far

vars == <<life, chan, known, pending, phase, attempt, outcome, checking,
          queries, losses>>

-----------------------------------------------------------------------------
(* PubSubNode._active_node_connections. *)
ActiveNodeEnds(n) ==
  { e \in End : At(e) = n /\ life[e] = "up" /\ e \in known
                /\ ~ (e.side = "est" /\ e.link \in pending) }

(* Mutant of Replied: "unknown" counts like "not found". *)
RepliedNeverUnknown(query, e, result) ==
  IF query.stage = "none" \/ query.result # NoResult \/ e \notin query.waiting
  THEN query
  ELSE LET left == query.waiting \ {e}
       IN [query EXCEPT
             !.waiting = left,
             !.result  = IF result = "found" THEN "found"
                         ELSE IF left # {} THEN NoResult ELSE "not_found"]

(* _Query.reply: one connection's reply, combined with those before it. *)
Replied(query, e, result) ==
  IF query.stage = "none" \/ query.result # NoResult \/ e \notin query.waiting
  THEN query
  ELSE LET left    == query.waiting \ {e}
           unknown == query.unknown \/ result = "unknown"
       IN [query EXCEPT
             !.waiting = left,
             !.unknown = unknown,
             !.result  = IF result = "found" THEN "found"
                         ELSE IF left # {} THEN NoResult
                         ELSE IF unknown THEN "unknown" ELSE "not_found"]

NoQuery(q) ==
  [stage |-> "none", own |-> FALSE, source |-> EstEnd(q.link),
   waiting |-> {}, unknown |-> FALSE, result |-> NoResult]

(* _open_query: the query waits for every end of targets. *)
OpenQuery(stage, own, source, targets) ==
  [stage |-> stage, own |-> own, source |-> source,
   waiting |-> targets, unknown |-> FALSE, result |-> NoResult]

(* chan once m has been queued on every end of targets.  Nothing sent on a
   connection that its peer has dropped is ever received. *)
Sent(targets, m) ==
  [e \in End |-> IF e \in targets /\ life[e] = "up" /\ life[Peer(e)] # "down"
                 THEN Append(chan[e], m) ELSE chan[e]]

(* Mutant of Drop: queries go on waiting for the connection. *)
DropStillAwaited(e) ==
  /\ life'    = [life EXCEPT ![e] = "down"]
  /\ known'   = known \ {e}
  /\ pending' = IF e.side = "est" THEN pending \ {e.link} ELSE pending
  /\ chan'    = [chan EXCEPT ![Peer(e)] = <<>>]
  /\ UNCHANGED queries

(* The node of e takes e off its list (_handle_connection_error, or
   close_connection) and forgets it (_forget_connection): a pending check ends,
   and every query that waits for e counts it as not found.  The peer may
   still receive what e sent before; what is under way to e is lost. *)
Drop(e) ==
  /\ life'    = [life EXCEPT ![e] = "down"]
  /\ known'   = known \ {e}
  /\ pending' = IF e.side = "est" THEN pending \ {e.link} ELSE pending
  /\ chan'    = [chan EXCEPT ![Peer(e)] = <<>>]
  /\ queries' = [queries EXCEPT ![At(e)] =
                   [q \in QueryId |-> Replied(@[q], e, "not_found")]]

-----------------------------------------------------------------------------
Init ==
  /\ life     = [e \in End |-> IF e.link \in Initial THEN "up" ELSE "none"]
  /\ chan     = [e \in End |-> <<>>]
  /\ known    = { e \in End : e.link \in Initial }
  /\ pending  = {}
  /\ phase    = [l \in Link |-> IF l \in Initial THEN "accepted" ELSE "idle"]
  /\ attempt  = [l \in Link |-> 0]
  /\ outcome  = [l \in Link |-> "unknown"]
  /\ checking = [n \in Node |-> FALSE]
  /\ queries  = [n \in Node |-> [q \in QueryId |-> NoQuery(q)]]
  /\ losses   = 0

-----------------------------------------------------------------------------
(* Connections: made, accepted, lost.                                      *)

(* establish_connection: the TCP connection is made, is pending before
   anything else happens, and gets this node's Hello; the check then queues
   for the node's check lock. *)
Establish(l) ==
  /\ phase[l] = "idle"
  /\ life'    = [life EXCEPT ![EstEnd(l)] = "up"]
  /\ pending' = pending \cup {l}
  /\ chan'    = [chan EXCEPT ![EstEnd(l)] = <<[type |-> "hello"]>>]
  /\ phase'   = [phase EXCEPT ![l] = "lock"]
  /\ UNCHANGED <<known, attempt, outcome, checking, queries, losses>>

(* _on_downstream_connected at the accepting node, maybe after the peer has
   given up: it is active from the start and gets this node's Hello. *)
Accept(l) ==
  /\ life[EstEnd(l)] # "none"
  /\ life[AccEnd(l)] = "none"
  /\ life' = [life EXCEPT ![AccEnd(l)] = "up"]
  /\ chan' = [chan EXCEPT ![AccEnd(l)] =
                IF life[EstEnd(l)] = "up" THEN <<[type |-> "hello"]>> ELSE <<>>]
  /\ UNCHANGED <<known, pending, phase, attempt, outcome, checking, queries,
                 losses>>

(* An end fails, is dropped for being too slow, or is closed on purpose. *)
Lose(e) ==
  /\ life[e] = "up"
  /\ losses < MaxLosses
  /\ Drop(e)
  /\ losses' = losses + 1
  /\ UNCHANGED <<phase, attempt, outcome, checking>>

(* The relay loop or a send of e finds that the peer has closed. *)
NoticeLoss(e) ==
  /\ life[e] = "up"
  /\ life[Peer(e)] = "down"
  /\ Drop(e)
  /\ UNCHANGED <<phase, attempt, outcome, checking, losses>>

-----------------------------------------------------------------------------
(* The check of an established link (_check_new_connection, _run_check).   *)

(* Mutant of AcquireLock: no lock. *)
AcquireNoLock(l) ==
  /\ phase[l] = "lock"
  /\ l \in pending
  /\ phase' = [phase EXCEPT ![l] = "hello"]
  /\ UNCHANGED <<life, chan, known, pending, attempt, outcome, checking,
                 queries, losses>>

(* _check_lock.acquire(): one check at a time per node. *)
AcquireLock(l) ==
  /\ phase[l] = "lock"
  /\ l \in pending
  /\ \A k \in Link : Est[k] = Est[l] => phase[k] \notin LockPhase
  /\ phase' = [phase EXCEPT ![l] = "hello"]
  /\ UNCHANGED <<life, chan, known, pending, attempt, outcome, checking,
                 queries, losses>>

(* The check releases the lock, closes the connection and reports why. *)
Refuse(l, how) ==
  /\ Drop(EstEnd(l))
  /\ phase' = [phase EXCEPT ![l] = how]
  /\ UNCHANGED <<attempt, outcome, checking, losses>>

(* No Hello within check_timeout. *)
HelloTimeout(l) ==
  /\ Timeouts
  /\ phase[l] = "hello"
  /\ l \in pending
  /\ EstEnd(l) \notin known
  /\ Refuse(l, "no hello")

(* The peer is this node itself, or one it is already connected to. *)
KnownPeer(l) ==
  \/ Acc[l] = Est[l]
  \/ \E e \in ActiveNodeEnds(Est[l]) : At(Peer(e)) = Acc[l]

RefuseKnownPeer(l) ==
  /\ phase[l] = "hello"
  /\ l \in pending
  /\ EstEnd(l) \in known
  /\ KnownPeer(l)
  /\ Refuse(l, "refused")

(* Any other peer: the first attempt is scheduled. *)
PeerIdentified(l) ==
  /\ phase[l] = "hello"
  /\ l \in pending
  /\ EstEnd(l) \in known
  /\ ~ KnownPeer(l)
  /\ phase' = [phase EXCEPT ![l] = "ask"]
  /\ UNCHANGED <<life, chan, known, pending, attempt, outcome, checking,
                 queries, losses>>

(* _ask_own_query in a node without other node connections. *)
NobodyToAsk(l) ==
  /\ phase[l] = "ask"
  /\ l \in pending
  /\ ActiveNodeEnds(Est[l]) = {}
  /\ outcome' = [outcome EXCEPT ![l] = "not_found"]
  /\ phase'   = [phase EXCEPT ![l] = "answered"]
  /\ UNCHANGED <<life, chan, known, pending, attempt, checking, queries, losses>>

(* _ask_own_query, up to where it waits for the replies. *)
AskOwnQuery(l) ==
  LET n       == Est[l]
      q       == [link |-> l, attempt |-> attempt[l]]
      targets == ActiveNodeEnds(n)
  IN /\ phase[l] = "ask"
     /\ l \in pending
     /\ targets # {}
     /\ checking' = [checking EXCEPT ![n] = TRUE]
     /\ queries'  = [queries EXCEPT ![n][q] =
                       OpenQuery("sent", TRUE, EstEnd(l), targets)]
     /\ chan'     = Sent(targets, [type |-> "query", id |-> q])
     /\ phase'    = [phase EXCEPT ![l] = "query"]
     /\ UNCHANGED <<life, known, pending, attempt, outcome, losses>>

(* The own query is answered, or times out: _collect forgets it and the node
   is not checking any more; _run_check has yet to be resumed. *)
OwnQueryDone(l) ==
  LET n      == Est[l]
      q      == [link |-> l, attempt |-> attempt[l]]
      result == queries[n][q].result
  IN /\ phase[l] = "query"
     /\ result # NoResult \/ Timeouts
     /\ outcome'  = [outcome EXCEPT ![l] =
                      IF result = NoResult THEN "unknown" ELSE result]
     /\ phase'    = [phase EXCEPT ![l] = "answered"]
     /\ checking' = [checking EXCEPT ![n] = FALSE]
     /\ queries'  = [queries EXCEPT ![n][q] = NoQuery(q)]
     /\ UNCHANGED <<life, chan, known, pending, attempt, losses>>

(* _run_check resumes on "not found": the link is active from here on, and the
   lock is released (by the end of _activate, which only delays the node's
   next check). *)
Activate(l) ==
  /\ phase[l] = "answered"
  /\ l \in pending
  /\ outcome[l] = "not_found"
  /\ pending' = pending \ {l}
  /\ phase'   = [phase EXCEPT ![l] = "accepted"]
  /\ UNCHANGED <<life, chan, known, attempt, outcome, checking, queries, losses>>

(* Mutant of Retry: one attempt too many. *)
RetryOnceMore(l) ==
  /\ phase[l] = "answered"
  /\ l \in pending
  /\ outcome[l] = "unknown"
  /\ attempt[l] <= MaxAttempts - 1
  /\ phase' = [phase EXCEPT ![l] = "delay"]
  /\ UNCHANGED <<life, chan, known, pending, attempt, outcome, checking,
                 queries, losses>>

(* _run_check resumes on "unknown", with attempts left: a random delay. *)
Retry(l) ==
  /\ phase[l] = "answered"
  /\ l \in pending
  /\ outcome[l] = "unknown"
  /\ attempt[l] < MaxAttempts - 1
  /\ phase' = [phase EXCEPT ![l] = "delay"]
  /\ UNCHANGED <<life, chan, known, pending, attempt, outcome, checking,
                 queries, losses>>

(* The delay is over: the next attempt is scheduled. *)
NextAttempt(l) ==
  /\ phase[l] = "delay"
  /\ l \in pending
  /\ attempt' = [attempt EXCEPT ![l] = @ + 1]
  /\ phase'   = [phase EXCEPT ![l] = "ask"]
  /\ UNCHANGED <<life, chan, known, pending, outcome, checking, queries, losses>>

(* _run_check resumes on "found". *)
RefuseCycle(l) ==
  /\ phase[l] = "answered"
  /\ l \in pending
  /\ outcome[l] = "found"
  /\ Refuse(l, "refused")

(* Mutant of GiveUp: the refusal is reported as final. *)
GiveUpForGood(l) ==
  /\ phase[l] = "answered"
  /\ l \in pending
  /\ outcome[l] = "unknown"
  /\ attempt[l] = MaxAttempts - 1
  /\ Refuse(l, "refused")

(* _run_check resumes on "unknown" after its last attempt. *)
GiveUp(l) ==
  /\ phase[l] = "answered"
  /\ l \in pending
  /\ outcome[l] = "unknown"
  /\ attempt[l] = MaxAttempts - 1
  /\ Refuse(l, "undetermined")

(* Mutant of AbandonCheck: the node is left checking. *)
AbandonStillChecking(l) ==
  LET n == Est[l]
      q == [link |-> l, attempt |-> attempt[l]]
  IN /\ phase[l] \in Unfinished
     /\ l \notin pending
     /\ phase' = [phase EXCEPT ![l] = "lost"]
     /\ IF phase[l] = "query"
        THEN queries' = [queries EXCEPT ![n][q] = NoQuery(q)]
        ELSE UNCHANGED queries
     /\ UNCHANGED <<life, chan, known, pending, attempt, outcome, checking, losses>>

(* Mutant of AbandonCheck: not while the check waits for its turn. *)
AbandonUnlessQueued(l) ==
  /\ phase[l] \in LockPhase
  /\ l \notin pending
  /\ phase' = [phase EXCEPT ![l] = "lost"]
  /\ checking' = [checking EXCEPT ![Est[l]] = FALSE]
  /\ queries' = [queries EXCEPT ![Est[l]] =
                   [q \in QueryId |-> IF @[q].own THEN NoQuery(q) ELSE @[q]]]
  /\ UNCHANGED <<life, chan, known, pending, attempt, outcome, losses>>

(* _unless_lost, whatever step the check is at: the connection failed, so the
   check ends; an own query is forgotten and the node is not checking. *)
AbandonCheck(l) ==
  LET n == Est[l]
      q == [link |-> l, attempt |-> attempt[l]]
  IN /\ phase[l] \in Unfinished
     /\ l \notin pending
     /\ phase' = [phase EXCEPT ![l] = "lost"]
     /\ IF phase[l] = "query"
        THEN /\ checking' = [checking EXCEPT ![n] = FALSE]
             /\ queries'  = [queries EXCEPT ![n][q] = NoQuery(q)]
        ELSE UNCHANGED <<checking, queries>>
     /\ UNCHANGED <<life, chan, known, pending, attempt, outcome, losses>>

-----------------------------------------------------------------------------
(* Messages: each action receives the first message under way to end e.    *)

Arrives(e, type) ==
  /\ life[e] = "up"
  /\ chan[Peer(e)] # <<>>
  /\ Head(chan[Peer(e)]).type = type

(* Timing assumption PromptHello: the peer has read this node's Hello by the
   time this node acts on the peer's. *)
ReceiveHello(e) ==
  /\ Arrives(e, "hello")
  /\ PromptHello /\ e.side = "est" =>
       Peer(e) \in known \/ life[Peer(e)] = "down"
  /\ known' = known \cup {e}
  /\ chan'  = [chan EXCEPT ![Peer(e)] = Tail(@)]
  /\ UNCHANGED <<life, pending, phase, attempt, outcome, checking, queries,
                 losses>>

(* Mutant of AnswerNow: queries are forwarded by a node that is checking. *)
AnswerWhileChecking(e, q) ==
  LET n == At(e)
  IN IF e.side = "est" /\ e.link \in pending
     THEN "not_found"
     ELSE IF Acc[q.link] = n THEN "found"
     ELSE IF queries[n][q].stage # "none" THEN "unknown"
     ELSE NoResult

(* _answer_now: the reply to a query that needs no forwarding. *)
AnswerNow(e, q) ==
  LET n == At(e)
  IN IF e.side = "est" /\ e.link \in pending
     THEN IF checking[n] THEN "unknown" ELSE "not_found"
     ELSE IF Acc[q.link] = n THEN "found"
     ELSE IF checking[n] \/ queries[n][q].stage # "none" THEN "unknown"
     ELSE NoResult

(* Timing assumption PromptDecision: no query is received in the few turns of
   the event loop between the end of a node's own query and the decision. *)
QueryArrives(e) ==
  /\ Arrives(e, "query")
  /\ PromptDecision =>
       \A l \in Link : Est[l] = At(e) => phase[l] # "answered"

(* _handle_query: replied to at once ... *)
AnswerQuery(e) ==
  /\ QueryArrives(e)
  /\ LET q       == Head(chan[Peer(e)]).id
         forward == /\ AnswerNow(e, q) = NoResult
                    /\ ActiveNodeEnds(At(e)) \ {e} # {}
         result  == IF AnswerNow(e, q) = NoResult THEN "not_found"
                    ELSE AnswerNow(e, q)
         reply   == [type |-> "reply", id |-> q, result |-> result]
     IN /\ ~ forward
        /\ chan' = [Sent({e}, reply) EXCEPT ![Peer(e)] = Tail(@)]
  /\ UNCHANGED <<life, known, pending, phase, attempt, outcome, checking,
                 queries, losses>>

(* ... or registered, to be forwarded by a task of its own. *)
ForwardQuery(e) ==
  /\ QueryArrives(e)
  /\ LET q       == Head(chan[Peer(e)]).id
         targets == ActiveNodeEnds(At(e)) \ {e}
     IN /\ AnswerNow(e, q) = NoResult
        /\ targets # {}
        /\ queries' = [queries EXCEPT ![At(e)][q] =
                        OpenQuery("opened", FALSE, e, targets)]
        /\ chan' = [chan EXCEPT ![Peer(e)] = Tail(@)]
  /\ UNCHANGED <<life, known, pending, phase, attempt, outcome, checking, losses>>

(* A reply counts if the query is still open and still waits for e. *)
ReceiveReply(e) ==
  /\ Arrives(e, "reply")
  /\ LET m == Head(chan[Peer(e)])
     IN queries' = [queries EXCEPT ![At(e)][m.id] = Replied(@, e, m.result)]
  /\ chan' = [chan EXCEPT ![Peer(e)] = Tail(@)]
  /\ UNCHANGED <<life, known, pending, phase, attempt, outcome, checking, losses>>

(* _forward_query starts: the query goes to its targets. *)
SendForward(n, q) ==
  /\ queries[n][q].stage = "opened"
  /\ queries' = [queries EXCEPT ![n][q].stage = "sent"]
  /\ chan' = Sent(queries[n][q].waiting, [type |-> "query", id |-> q])
  /\ UNCHANGED <<life, known, pending, phase, attempt, outcome, checking, losses>>

(* _forward_query ends: its result, or "unknown" on a timeout, goes back to
   where the query came from, if that is still connected. *)
ReplyForward(n, q) ==
  LET query  == queries[n][q]
      result == IF query.result = NoResult THEN "unknown" ELSE query.result
  IN /\ query.stage = "sent"
     /\ ~ query.own
     /\ query.result # NoResult \/ Timeouts
     /\ queries' = [queries EXCEPT ![n][q] = NoQuery(q)]
     /\ chan' = Sent({query.source},
                     [type |-> "reply", id |-> q, result |-> result])
     /\ UNCHANGED <<life, known, pending, phase, attempt, outcome, checking,
                    losses>>

-----------------------------------------------------------------------------
CheckStep(l) ==
  \/ AcquireLock(l) \/ HelloTimeout(l) \/ RefuseKnownPeer(l)
  \/ PeerIdentified(l) \/ NobodyToAsk(l) \/ AskOwnQuery(l)
  \/ OwnQueryDone(l) \/ Activate(l) \/ Retry(l) \/ NextAttempt(l)
  \/ RefuseCycle(l) \/ GiveUp(l) \/ AbandonCheck(l)

ReceiveStep(e) ==
  ReceiveHello(e) \/ AnswerQuery(e) \/ ForwardQuery(e) \/ ReceiveReply(e)

ForwardStep(n, q) == SendForward(n, q) \/ ReplyForward(n, q)

Next ==
  \/ \E l \in Link : Establish(l) \/ Accept(l) \/ CheckStep(l)
  \/ \E e \in End : Lose(e) \/ NoticeLoss(e) \/ ReceiveStep(e)
  \/ \E n \in Node, q \in QueryId : ForwardStep(n, q)

(* Every node keeps running its tasks and the network delivers; nobody has to
   establish a connection, and none has to fail. *)
Fairness ==
  /\ \A l \in Link : WF_vars(Accept(l)) /\ WF_vars(CheckStep(l))
  /\ \A e \in End : WF_vars(NoticeLoss(e)) /\ WF_vars(ReceiveStep(e))
  /\ \A n \in Node, q \in QueryId : WF_vars(ForwardStep(n, q))

Spec == Init /\ [][Next]_vars

FairSpec == Spec /\ Fairness

-----------------------------------------------------------------------------
TypeOK ==
  /\ life \in [End -> {"none", "up", "down"}]
  /\ chan \in [End -> Seq(Message)]
  /\ known \subseteq End
  /\ pending \subseteq Link
  /\ phase \in [Link -> Phase]
  /\ attempt \in [Link -> 0 .. MaxAttempts - 1]
  /\ outcome \in [Link -> Result]
  /\ checking \in [Node -> BOOLEAN]
  /\ queries \in [Node -> [QueryId -> Query]]
  /\ losses \in 0 .. MaxLosses

(* The links that both nodes route subscriptions and publishes over. *)
Joined ==
  { l \in Link : phase[l] = "accepted" /\ life[EstEnd(l)] = "up"
                 /\ life[AccEnd(l)] = "up" }

(* A node never runs two checks at once, whatever fails meanwhile: the lock of
   _check_new_connection is released exactly once by every way out of it. *)
OneCheckPerNode ==
  \A k, l \in Link :
    Est[k] = Est[l] /\ phase[k] \in LockPhase /\ phase[l] \in LockPhase => k = l

(* _checking is set exactly while a query of the node itself is open: clearing
   it late would refuse every other node's check, clearing it early would let
   one pass that depends on the node's pending link. *)
CheckingExact ==
  \A n \in Node :
    checking[n] <=> \E q \in QueryId : queries[n][q].own

(* No reply is waited for in vain: while a sent query waits for a connection,
   the query is on its way to the peer, the peer has it open, its reply is on
   its way back, or the connection is lost at the other end. *)
AwaitedReplyIsComing ==
  \A n \in Node, q \in QueryId :
    queries[n][q].stage = "sent" /\ queries[n][q].result = NoResult =>
      \A e \in queries[n][q].waiting :
        \/ life[Peer(e)] = "down"
        \/ \E i \in DOMAIN chan[e] : chan[e][i] = [type |-> "query", id |-> q]
        \/ LET there == queries[At(Peer(e))][q]
           IN there.stage # "none" /\ ~ there.own /\ there.source = Peer(e)
        \/ \E i \in DOMAIN chan[Peer(e)] :
             chan[Peer(e)][i].type = "reply" /\ chan[Peer(e)][i].id = q

(* The links always form a forest: no interleaving of checks, whichever nodes
   run them, and no loss of links, closes a cycle. *)
JoinedForest == IsForest(Joined)

(* Every activation joins two separate parts of the bus. *)
Tree == INSTANCE LinkForest WITH links <- Joined
Refinement == Tree!Spec

(* A refusal that is final because of the tree is right: once every check is
   over, and if no connection was lost, the two nodes are indeed connected,
   whatever timed out. *)
FinalRefusalIsRight ==
  (\A l \in Link : phase[l] \notin Unfinished) /\ losses = 0 =>
    \A l \in Link : phase[l] = "refused" => ~ Separated(l, Joined)

(* Every connection that is established ends up accepted, refused or lost: no
   check waits forever, for its lock, a Hello, a reply or a delay. *)
EveryCheckEnds ==
  \A l \in Link : phase[l] \in Unfinished ~> phase[l] \notin Unfinished

=============================================================================
