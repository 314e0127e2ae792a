------------------------- MODULE RequestReply_proofs -------------------------
(***************************************************************************)
(* Proofs about RequestReply, for any number of requests and connections,   *)
(* and any bounds on failures, replies and calls of close().                *)
(***************************************************************************)
EXTENDS RequestReply, TLAPS, WellFoundedInduction

-----------------------------------------------------------------------------
(* The next request of a loop is in its list, and no other is before it. *)
LEMMA SmallestIsFirst ==
  ASSUME NEW S, S \subseteq Request, S # {}
  PROVE  Smallest(S) \in S /\ \A k \in S : Smallest(S) <= k
<1>1. S \subseteq Nat
  BY RequestAssumption DEF Request
<1>2. IsWellFoundedOn(OpToRel(<, Nat), Nat)
  BY NatLessThanWellFounded
<1>3. PICK r \in S : \A k \in S : <<k, r>> \notin OpToRel(<, Nat)
  BY <1>1, <1>2, WFMin
<1>4. ASSUME NEW k \in S  PROVE r <= k
  <2>1. CASE k < r
    <3>1. <<k, r>> \in OpToRel(<, Nat)
      BY <1>1, <2>1 DEF OpToRel
    <3> QED  BY <1>3, <3>1
  <2> QED  BY <1>1, <2>1
<1> QED  BY <1>4 DEF Smallest

(* What the proofs use of the constants. *)
LEMMA Numbers ==
  /\ Conn \subseteq Nat \ {0} /\ Request \subseteq Nat \ {0}
  /\ MaxFailures \in Nat /\ MaxReplies \in Nat /\ MaxCloses \in Nat
BY RequestAssumption, RequestBoundsAssumption DEF Request, Conn

USE DEF TypeOK

LEMMA EndWaitType ==
  ASSUME EndsTyped, NEW r \in Request, NEW reason \in Reason,
         NEW c \in Conn \cup {NoConn},
         NEW frames \in [Task -> Conn \cup {NoConn}],
         EndWait(r, reason, c, frames)
  PROVE  EndsTyped'
<1>1. why' \in [Request -> Reason \cup {"none"}]
  BY DEF EndsTyped, EndWait
<1>2. wait' \in [Request -> {"none", "open", "telling", "calling", "over"}]
  BY DEF EndsTyped, EndWait
<1>3. told' \in [Conn -> SUBSET Request]
  BY DEF EndsTyped, EndWait
<1>4. sending' \in [Task -> Conn \cup {NoConn}]
  BY DEF EndsTyped, EndWait, Task
<1>5. timers' \subseteq WithTimeout /\ registered' \subseteq Request
  BY DEF EndsTyped, EndWait
<1> QED  BY <1>1, <1>2, <1>3, <1>4, <1>5 DEF EndsTyped

USE DEF sends, links, ends, sweeps, replies

(* A loop of _end_all_without_reply with S left finds nothing more to end, ... *)
SweepEnds(p, S, status) ==
  /\ \A r \in S : wait[r] = "open" => Sending(r)
  /\ meanwhile' = Marked(S, status)
  /\ sweep' = [sweep EXCEPT ![p] = [left |-> {}, at |-> NoRequest]]
  /\ UNCHANGED ends

(* ... or goes on to end the wait of r, which is open and not being sent. *)
SweepGoesTo(p, S, status, c, r) ==
  /\ r \in S /\ wait[r] = "open" /\ ~ Sending(r)
  /\ \A k \in S : wait[k] = "open" /\ k < r => Sending(k)
  /\ meanwhile' = Marked({ k \in S : k < r }, status)
  /\ sweep' = [sweep EXCEPT ![p] = [left |-> { k \in S : k > r }, at |-> r]]
  /\ EndWait(r, status, c, sending)

LEMMA SweepCases ==
  ASSUME NEW p \in Sweeper, NEW S \in SUBSET Request, NEW status, NEW c, NEW phases,
         SweepOn(p, S, status, c, sending, phases)
  PROVE  \/ SweepEnds(p, S, status)
         \/ \E r \in Request : SweepGoesTo(p, S, status, c, r)
<1> DEFINE live == { r \in S : wait[r] = "open" /\ ~ Sending(r) }
           next == Smallest(live)
<1>1. CASE live = {}
  BY <1>1 DEF SweepOn, SweepEnds
<1>2. CASE live # {}
  <2>1. next \in live /\ \A k \in live : next <= k
    BY <1>2, SmallestIsFirst
  <2>2. /\ meanwhile' = Marked({ r \in S : r < next }, status)
        /\ sweep' = [sweep EXCEPT ![p] =
                       [left |-> { r \in S : r > next }, at |-> next]]
        /\ EndWait(next, status, c, sending)
    BY <1>2 DEF SweepOn
  <2> HIDE DEF next
  <2>3. \A r \in S : wait[r] = "open" /\ r < next => Sending(r)
    BY <2>1, Numbers
  <2> QED  BY <2>1, <2>2, <2>3 DEF SweepGoesTo
<1> QED  BY <1>1, <1>2

LEMMA SweepType ==
  ASSUME EndsTyped, SweepsTyped, NEW p \in Sweeper, NEW S \in SUBSET Request,
         NEW status \in {"closed", "connection_lost"}, NEW c \in Conn \cup {NoConn},
         NEW phases \in [Conn -> Phases],
         SweepOn(p, S, status, c, sending, phases)
  PROVE  EndsTyped' /\ SweepsTyped' /\ phase' \in [Conn -> Phases]
<1>1. /\ phase' \in [Conn -> Phases]
      /\ closing' \in {"no", "ending", "flushing"}
      /\ flushed' \in Conn \cup {NoConn}
  BY DEF SweepsTyped, SweepOn, Phases
<1>2. status \in Status /\ status \in Reason
  BY DEF Status, Reason
<1>3. sending \in [Task -> Conn \cup {NoConn}]
  BY DEF EndsTyped
<1>4. \A T \in SUBSET Request :
        Marked(T, status) \in [Request -> Status \cup {"none"}]
  BY <1>2 DEF SweepsTyped, Marked
<1>5. CASE SweepEnds(p, S, status)
  BY <1>1, <1>4, <1>5 DEF SweepEnds, EndsTyped, SweepsTyped
<1>6. ASSUME NEW r \in Request, SweepGoesTo(p, S, status, c, r)
      PROVE  EndsTyped' /\ SweepsTyped'
  <2>1. sweep' \in [Sweeper -> [left: SUBSET Request, at: Request \cup {NoRequest}]]
    BY <1>6 DEF SweepGoesTo, SweepsTyped
  <2>2. meanwhile' \in [Request -> Status \cup {"none"}]
    BY <1>4, <1>6 DEF SweepGoesTo
  <2>3. EndsTyped'
    BY <1>2, <1>3, <1>6, EndWaitType DEF SweepGoesTo
  <2> QED  BY <1>1, <2>1, <2>2, <2>3 DEF SweepsTyped
<1> QED  BY <1>1, <1>5, <1>6, SweepCases

(* The initial states are typed, *)
LEMMA InitType == Init => TypeOK
<1> SUFFICES ASSUME Init  PROVE TypeOK
  OBVIOUS
<1>1. EndsTyped
  BY DEF Init, EndsTyped
<1>2. LinksTyped
  BY Numbers DEF Init, LinksTyped, Phases
<1>3. SweepsTyped
  BY DEF Init, SweepsTyped
<1>4. OthersTyped
  BY Numbers DEF Init, OthersTyped
<1> QED  BY <1>1, <1>2, <1>3, <1>4

LEMMA DoneType ==
  ASSUME EndsTyped, NEW t
  PROVE  Done(t) \in [Task -> Conn \cup {NoConn}]
BY DEF EndsTyped, Done

LEMMA ResendType ==
  ASSUME EndsTyped, LinksTyped, NEW c \in Conn, NEW S \in SUBSET Request,
         NEW now \in Conn \cup {NoConn},
         NEW frames \in [Task -> Conn \cup {NoConn}],
         ResendFrom(c, S, now, frames)
  PROVE  /\ resending' \in [Conn -> SUBSET Request]
         /\ told' \in [Conn -> SUBSET Request]
         /\ sending' \in [Task -> Conn \cup {NoConn}]
<1> DEFINE left == S \cap registered
           next == Smallest(left)
<1>1. CASE left = {} \/ now = NoConn
  BY <1>1 DEF ResendFrom, EndsTyped, LinksTyped
<1>2. CASE left # {} /\ now # NoConn
  <2>1. next \in Request
    BY <1>2, SmallestIsFirst
  <2>2. told' = [told EXCEPT ![now] = @ \cup {next}]
    BY <1>2 DEF ResendFrom
  <2>3. resending' = [resending EXCEPT ![c] = { r \in S : r > next }]
    BY <1>2 DEF ResendFrom
  <2>4. sending' = [frames EXCEPT ![<<"connect", c>>] = now]
    BY <1>2 DEF ResendFrom
  <2> HIDE DEF next
  <2> QED  BY <2>1, <2>2, <2>3, <2>4 DEF EndsTyped, LinksTyped
<1> QED  BY <1>1, <1>2

(* The error handler keeps the types. *)
LEMMA FailType ==
  ASSUME TypeOK, NEW c \in Conn, NEW t \in Task \cup {NoTask}, Fail(c, t),
         failures' \in 0 .. MaxFailures
  PROVE  TypeOK'
<1>1. [phase EXCEPT ![c] = "failing"] \in [Conn -> Phases]
  BY DEF LinksTyped, Phases
<1>2. c \in Sweeper /\ Pending \in SUBSET Request
  BY DEF Sweeper, Pending
<1>3. EndsTyped' /\ SweepsTyped' /\ phase' \in [Conn -> Phases]
  BY <1>1, <1>2, SweepType DEF Fail
<1>4. LinksTyped' /\ OthersTyped'
  BY <1>3 DEF Fail, LinksTyped, OthersTyped
<1> QED  BY <1>3, <1>4

(* Every step keeps the types: what connections do, *)
LEMMA ConnType ==
  ASSUME TypeOK, NEW c \in Conn, Connect(c) \/ ConnStep(c) \/ ReceiveFails(c)
  PROVE  TypeOK'
<1>1. CASE Connect(c)
  <2>1. LinksTyped'
    BY <1>1 DEF Connect, LinksTyped, Phases
  <2>2. EndsTyped' /\ SweepsTyped' /\ OthersTyped'
    BY <1>1 DEF Connect, EndsTyped, SweepsTyped, OthersTyped
  <2> QED  BY <2>1, <2>2
<1>2. CASE Opened(c)
  <2>1. EndsTyped' /\ LinksTyped'
    BY <1>2, ResendType DEF Opened, EndsTyped, LinksTyped, Phases
  <2>2. OthersTyped' /\ SweepsTyped'
    BY <1>2 DEF Opened, SweepsTyped, OthersTyped
  <2> QED  BY <2>1, <2>2
<1>3. CASE OpenFails(c)
  BY <1>3 DEF OpenFails, EndsTyped, LinksTyped, SweepsTyped, OthersTyped, Phases
<1>4. CASE Resent(c)
  <2>1. /\ resending' \in [Conn -> SUBSET Request]
        /\ told' \in [Conn -> SUBSET Request]
        /\ sending' \in [Task -> Conn \cup {NoConn}]
    <3>1. Done(<<"connect", c>>) \in [Task -> Conn \cup {NoConn}]
      BY DoneType
    <3>2. CASE ResendFrom(c, resending[c], connection, Done(<<"connect", c>>))
      <4>1. resending[c] \in SUBSET Request /\ connection \in Conn \cup {NoConn}
        BY DEF LinksTyped
      <4> QED  BY <3>1, <3>2, <4>1, ResendType
    <3>3. CASE /\ resending' = [resending EXCEPT ![c] = {}]
               /\ sending' = Done(<<"connect", c>>)
               /\ UNCHANGED told
      BY <3>1, <3>3 DEF EndsTyped, LinksTyped
    <3> QED  BY <1>4, <3>2, <3>3 DEF Resent
  <2>3. EndsTyped' /\ LinksTyped'
    BY <1>4, <2>1 DEF Resent, EndsTyped, LinksTyped
  <2>2. OthersTyped' /\ SweepsTyped'
    BY <1>4 DEF Resent, SweepsTyped, OthersTyped
  <2> QED  BY <2>2, <2>3
<1>5. CASE FailureReported(c)
  BY <1>5 DEF FailureReported, EndsTyped, LinksTyped, SweepsTyped, OthersTyped, Phases
<1>6. CASE SweepNext(c)
  <2>1. EndsTyped' /\ SweepsTyped' /\ phase' \in [Conn -> Phases]
    BY <1>6, SweepType DEF SweepNext, LinksTyped, SweepsTyped, Sweeper, Closer
  <2>2. LinksTyped' /\ OthersTyped'
    BY <1>6, <2>1 DEF SweepNext, LinksTyped, OthersTyped
  <2> QED  BY <2>1, <2>2
<1>7. CASE ReceiveFails(c)
  <2>1. failures' \in 0 .. MaxFailures
    BY <1>7, Numbers DEF ReceiveFails, LinksTyped
  <2> QED  BY <1>7, <2>1, FailType DEF ReceiveFails
<1> QED  BY <1>1, <1>2, <1>3, <1>4, <1>5, <1>6, <1>7 DEF ConnStep

(* close(), *)
LEMMA CloseType ==
  ASSUME TypeOK, Close \/ SweepNext(Closer) \/ Closed
  PROVE  TypeOK'
<1>1. CASE Close
  <2>1. EndsTyped' /\ SweepsTyped' /\ phase' \in [Conn -> Phases]
    BY <1>1, SweepType DEF Close, LinksTyped, Sweeper, Pending
  <2>2. LinksTyped' /\ OthersTyped'
    BY <1>1, <2>1, Numbers DEF Close, LinksTyped, OthersTyped
  <2> QED  BY <2>1, <2>2
<1>2. CASE SweepNext(Closer)
  <2>1. EndsTyped' /\ SweepsTyped' /\ phase' \in [Conn -> Phases]
    BY <1>2, SweepType DEF SweepNext, LinksTyped, SweepsTyped, Sweeper
  <2>2. LinksTyped' /\ OthersTyped'
    BY <1>2, <2>1 DEF SweepNext, LinksTyped, OthersTyped
  <2> QED  BY <2>1, <2>2
<1>3. CASE Closed
  BY <1>3 DEF Closed, EndsTyped, LinksTyped, SweepsTyped, OthersTyped, Phases
<1> QED  BY <1>1, <1>2, <1>3

(* sends that fail, *)
LEMMA SendFailsType ==
  ASSUME TypeOK, NEW t \in Task, SendFails(t)
  PROVE  TypeOK'
<1>1. failures' \in 0 .. MaxFailures
  BY Numbers DEF SendFails, LinksTyped
<1>2. sending[t] \in Conn
  BY DEF SendFails, EndsTyped
<1> QED  BY <1>1, <1>2, FailType DEF SendFails

(* send_request, *)
LEMMA SendType ==
  ASSUME TypeOK, NEW r \in Request, SendRequest(r) \/ SendStep(r)
  PROVE  TypeOK'
<1>0. "failed" \in Reason /\ \A s \in Status : s \in Reason
  BY DEF Reason
<1>1. CASE SendRequest(r)
  <2>1. EndsTyped'
    BY <1>1, <1>0 DEF SendRequest, EndsTyped, LinksTyped
  <2>2. LinksTyped' /\ SweepsTyped' /\ OthersTyped'
    BY <1>1 DEF SendRequest, LinksTyped, SweepsTyped, OthersTyped
  <2> QED  BY <2>1, <2>2
<1>2. CASE Subscribed(r)
  <2>1. EndsTyped'
    BY <1>2, <1>0, EndWaitType, DoneType DEF Subscribed, EndsTyped, LinksTyped, Timed
  <2>2. LinksTyped' /\ SweepsTyped' /\ OthersTyped'
    BY <1>2 DEF Subscribed, LinksTyped, SweepsTyped, OthersTyped
  <2> QED  BY <2>1, <2>2
<1>3. CASE SubscribeFailed(r)
  <2>1. EndsTyped'
    BY <1>3, <1>0, DoneType DEF SubscribeFailed, EndsTyped
  <2>2. LinksTyped' /\ SweepsTyped' /\ OthersTyped'
    BY <1>3 DEF SubscribeFailed, LinksTyped, SweepsTyped, OthersTyped
  <2> QED  BY <2>1, <2>2
<1>4. CASE Published(r)
  <2>1. EndsTyped'
    BY <1>4, DoneType DEF Published, EndsTyped
  <2>2. LinksTyped' /\ SweepsTyped' /\ OthersTyped'
    BY <1>4 DEF Published, LinksTyped, SweepsTyped, OthersTyped
  <2> QED  BY <2>1, <2>2
<1>5. CASE PublishFailed(r)
  <2>1. EndsTyped'
    BY <1>5, <1>0, DoneType, EndWaitType DEF PublishFailed, EndsTyped, LinksTyped
  <2>2. LinksTyped' /\ SweepsTyped' /\ OthersTyped'
    BY <1>5 DEF PublishFailed, LinksTyped, SweepsTyped, OthersTyped
  <2> QED  BY <2>1, <2>2
<1>6. CASE Undone(r) \/ Returned(r)
  BY <1>6
  DEF Undone, Returned, EndsTyped, LinksTyped, SweepsTyped, OthersTyped
<1>7. CASE Delivered(r)
  <2>1. EndsTyped'
    BY <1>7, <1>0, EndWaitType DEF Delivered, EndsTyped, LinksTyped, SweepsTyped
  <2>2. LinksTyped' /\ SweepsTyped' /\ OthersTyped'
    BY <1>7 DEF Delivered, LinksTyped, SweepsTyped, OthersTyped
  <2> QED  BY <2>1, <2>2
<1> QED  BY <1>1, <1>2, <1>3, <1>4, <1>5, <1>6, <1>7 DEF SendStep

(* and what ends waits, or may. *)
LEMMA EndType ==
  ASSUME TypeOK, NEW r \in Request,
         \/ EndStep(r) \/ TimerFires(r) \/ CancelRequest(r)
         \/ ReplyArrives(r) \/ ReplyHandled(r)
  PROVE  TypeOK'
<1>1. CASE Unsubscribed(r)
  BY <1>1, DoneType
  DEF Unsubscribed, EndsTyped, LinksTyped, SweepsTyped, OthersTyped
<1>2. CASE CallbackReturns(r)
  BY <1>2 DEF CallbackReturns, EndsTyped, LinksTyped, SweepsTyped, OthersTyped
<1>3. CASE ReplyArrives(r)
  BY <1>3, Numbers
  DEF ReplyArrives, EndsTyped, LinksTyped, SweepsTyped, OthersTyped
<1>4. ASSUME NEW reason \in Reason, EndWait(r, reason, connection, sending)
      PROVE  EndsTyped'
  BY <1>4, EndWaitType DEF EndsTyped, LinksTyped
<1>5. CASE TimerFires(r) \/ CancelRequest(r) \/ ReplyHandled(r)
  <2>1. EndsTyped'
    BY <1>4, <1>5
    DEF TimerFires, CancelRequest, ReplyHandled, Reason, Status, EndsTyped
  <2>2. LinksTyped' /\ SweepsTyped' /\ OthersTyped'
    BY <1>5
    DEF TimerFires, CancelRequest, ReplyHandled, LinksTyped, SweepsTyped, OthersTyped
  <2> QED  BY <2>1, <2>2
<1> QED  BY <1>1, <1>2, <1>3, <1>5 DEF EndStep

LEMMA TypeStep == TypeOK /\ [Next]_vars => TypeOK'
<1> SUFFICES ASSUME TypeOK, [Next]_vars  PROVE TypeOK'
  OBVIOUS
<1>1. CASE UNCHANGED vars
  BY <1>1 DEF vars, EndsTyped, LinksTyped, SweepsTyped, OthersTyped
<1> QED  BY <1>1, ConnType, CloseType, SendFailsType, SendType, EndType DEF Next

-----------------------------------------------------------------------------
(* The steps of send_request and those of the end of the wait go together. *)
StepsMatch ==
  \A r \in Request :
    /\ step[r] = "none" => wait[r] = "none"
    /\ wait[r] = "none" => step[r] = "none"
    /\ step[r] = "subscribing" => wait[r] = "open"
    /\ step[r] \in {"undoing", "ending", "raised"} => wait[r] # "open"

(* What ended the wait, by what send_request is doing. *)
ReasonsMatch ==
  \A r \in Request :
    /\ wait[r] \in {"none", "open"} <=> why[r] = "none"
    /\ wait[r] = "calling" => why[r] \in Status
    /\ step[r] \in {"publishing", "delivering", "undoing", "raised"} =>
         why[r] \notin {"closed", "connection_lost"}

(* Timers run, and replies are handled, only after the request is published. *)
Later ==
  /\ \A r \in timers : wait[r] = "open" /\ step[r] # "subscribing"
  /\ \A r \in replying : step[r] \notin {"none", "subscribing"}

(* The callback has been called with the reason exactly when it should. *)
SaidExactly ==
  \A r \in Request :
    said[r] = IF wait[r] = "over" /\ why[r] \in Status THEN 1 ELSE 0

EndInv == StepsMatch /\ ReasonsMatch /\ Later /\ SaidExactly

LEMMA InitEnd == Init => EndInv
BY DEF Init, EndInv, StepsMatch, ReasonsMatch, Later, SaidExactly

(* Whoever ends a wait, and with whatever step of send_request. *)
LEMMA EndWaitEnd ==
  ASSUME TypeOK, EndInv, NEW r \in Request, NEW reason \in Reason, NEW c, NEW frames,
         wait[r] = "open", EndWait(r, reason, c, frames),
         NEW s, step' = [step EXCEPT ![r] = s], s \notin {"none", "subscribing"},
         s \in {"publishing", "delivering", "undoing", "raised"} =>
           reason \notin {"closed", "connection_lost"},
         said' = said, replying' \subseteq replying
  PROVE  EndInv'
<1> DEFINE w == IF r \in registered /\ c # NoConn THEN "telling"
                ELSE IF reason \in Status THEN "calling" ELSE "over"
<1>1. /\ wait' = [wait EXCEPT ![r] = w] /\ w \in {"telling", "calling", "over"}
      /\ w = "calling" => reason \in Status
      /\ w = "over" => reason \notin Status
  BY DEF EndWait
<1>2. why' = [why EXCEPT ![r] = reason] /\ timers' = timers \ {r} /\ reason # "none"
  BY DEF EndWait, Reason, Status
<1> HIDE DEF w
<1>3. StepsMatch'
  BY <1>1 DEF EndInv, StepsMatch, EndsTyped, OthersTyped
<1>4. ReasonsMatch'
  BY <1>1, <1>2 DEF EndInv, ReasonsMatch, EndsTyped, OthersTyped
<1>5. Later'
  BY <1>1, <1>2 DEF EndInv, Later, EndsTyped, OthersTyped
<1>6. SaidExactly'
  BY <1>1, <1>2 DEF EndInv, SaidExactly, EndsTyped, OthersTyped
<1> QED  BY <1>3, <1>4, <1>5, <1>6 DEF EndInv

(* send_request goes on, and may start the timer. *)
LEMMA AdvanceEnd ==
  ASSUME TypeOK, EndInv, NEW r \in Request,
         NEW s \in {"publishing", "delivering", "undoing", "ending", "returned",
                   "raised"},
         step' = [step EXCEPT ![r] = s],
         wait[r] # "none", UNCHANGED <<wait, why, replying, said>>,
         s \in {"undoing", "ending", "raised"} => wait[r] # "open",
         s \in {"publishing", "delivering", "undoing", "raised"} =>
           why[r] \notin {"closed", "connection_lost"},
         timers' \subseteq timers \cup {r}, r \in timers' => wait[r] = "open"
  PROVE  EndInv'
<1>1. StepsMatch'
  BY DEF EndInv, StepsMatch, OthersTyped
<1>2. ReasonsMatch' /\ SaidExactly'
  BY DEF EndInv, ReasonsMatch, SaidExactly, OthersTyped
<1>3. Later'
  <2>1. \A k \in timers' : wait'[k] = "open" /\ step'[k] # "subscribing"
    BY RequestAssumption DEF EndInv, Later, OthersTyped, EndsTyped
  <2>2. \A k \in replying' : step'[k] \notin {"none", "subscribing"}
    BY DEF EndInv, Later, OthersTyped
  <2> QED  BY <2>1, <2>2 DEF Later
<1> QED  BY <1>1, <1>2, <1>3 DEF EndInv

(* Loops of close() and of error handlers. *)
LEMMA SweepEnd ==
  ASSUME TypeOK, EndInv, NEW p \in Sweeper, NEW S \in SUBSET Request,
         NEW status \in {"closed", "connection_lost"}, NEW c, NEW phases,
         SweepOn(p, S, status, c, sending, phases), UNCHANGED <<sends, replies>>
  PROVE  EndInv'
<1>1. CASE SweepEnds(p, S, status)
  BY <1>1 DEF SweepEnds, EndInv, StepsMatch, ReasonsMatch, Later, SaidExactly
<1>2. ASSUME NEW r \in Request, SweepGoesTo(p, S, status, c, r)  PROVE EndInv'
  <2>1. step' = [step EXCEPT ![r] = step[r]]
    BY DEF OthersTyped
  <2>2. step[r] \notin {"none", "subscribing", "publishing", "delivering",
                       "undoing", "raised"}
    BY <1>2 DEF SweepGoesTo, Sending, EndInv, StepsMatch
  <2>3. status \in Reason
    BY DEF Reason, Status
  <2> QED  BY <1>2, <2>1, <2>2, <2>3, EndWaitEnd DEF SweepGoesTo
<1> QED  BY <1>1, <1>2, SweepCases

LEMMA FailEnd ==
  ASSUME TypeOK, EndInv, NEW c \in Conn, NEW t, Fail(c, t)
  PROVE  EndInv'
BY SweepEnd DEF Fail, Sweeper, Pending

(* What connections do, *)
LEMMA SweepNextEnd ==
  ASSUME TypeOK, EndInv, NEW p \in Sweeper, SweepNext(p)
  PROVE  EndInv'
<1>1. sweep[p].left \in SUBSET Request
  BY DEF SweepsTyped
<1> QED  BY <1>1, SweepEnd DEF SweepNext

LEMMA UnchangedEnd ==
  ASSUME EndInv, UNCHANGED <<step, wait, why, timers, replying, said>>
  PROVE  EndInv'
BY DEF EndInv, StepsMatch, ReasonsMatch, Later, SaidExactly

(* Connections and their errors, *)
LEMMA ConnEnd ==
  ASSUME TypeOK, EndInv, NEW c \in Conn, Connect(c) \/ ConnStep(c) \/ ReceiveFails(c)
  PROVE  EndInv'
<1>1. CASE SweepNext(c)
  BY <1>1, SweepNextEnd DEF Sweeper
<1>2. CASE ReceiveFails(c)
  BY <1>2, FailEnd DEF ReceiveFails
<1>3. CASE Connect(c) \/ Opened(c) \/ OpenFails(c) \/ Resent(c) \/ FailureReported(c)
  BY <1>3, UnchangedEnd DEF Connect, Opened, OpenFails, Resent, FailureReported
<1> QED  BY <1>1, <1>2, <1>3 DEF ConnStep

(* close(), *)
LEMMA CloseEnd ==
  ASSUME TypeOK, EndInv, Close \/ SweepNext(Closer) \/ Closed
  PROVE  EndInv'
<1>1. CASE Close
  BY <1>1, SweepEnd DEF Close, Sweeper, Pending
<1>2. CASE SweepNext(Closer)
  BY <1>2, SweepNextEnd DEF Sweeper
<1>3. CASE Closed
  BY <1>3, UnchangedEnd DEF Closed
<1> QED  BY <1>1, <1>2, <1>3

(* send_request, *)
LEMMA SendEnd ==
  ASSUME TypeOK, EndInv, NEW r \in Request, SendRequest(r) \/ SendStep(r)
  PROVE  EndInv'
<1>0. "failed" \in Reason
  BY DEF Reason
<1>1. CASE SendRequest(r)
  <2>1. /\ step[r] = "none" /\ wait[r] = "none" /\ why[r] = "none"
        /\ r \notin timers /\ r \notin replying /\ said[r] = 0
    BY <1>1
    DEF SendRequest, EndInv, StepsMatch, ReasonsMatch, Later, SaidExactly, OthersTyped
  <2>2. CASE connection = NoConn
    <3>1. /\ step' = [step EXCEPT ![r] = "raised"]
          /\ wait' = [wait EXCEPT ![r] = "over"]
          /\ why' = [why EXCEPT ![r] = "failed"]
          /\ UNCHANGED <<timers, replying, said>>
      BY <1>1, <2>2 DEF SendRequest
    <3>2. StepsMatch' /\ ReasonsMatch'
      BY <3>1 DEF EndInv, StepsMatch, ReasonsMatch, EndsTyped, OthersTyped
    <3>3. Later' /\ SaidExactly'
      BY <2>1, <3>1 DEF EndInv, Later, SaidExactly, EndsTyped, OthersTyped, Status
    <3> QED  BY <3>2, <3>3 DEF EndInv
  <2>3. CASE connection # NoConn
    <3>1. /\ step' = [step EXCEPT ![r] = "subscribing"]
          /\ wait' = [wait EXCEPT ![r] = "open"]
          /\ UNCHANGED <<why, timers, replying, said>>
      BY <1>1, <2>3 DEF SendRequest
    <3>2. StepsMatch' /\ ReasonsMatch'
      BY <2>1, <3>1 DEF EndInv, StepsMatch, ReasonsMatch, EndsTyped, OthersTyped
    <3>3. Later' /\ SaidExactly'
      BY <2>1, <3>1 DEF EndInv, Later, SaidExactly, EndsTyped, OthersTyped
    <3> QED  BY <3>2, <3>3 DEF EndInv
  <2> QED  BY <2>2, <2>3
<1>2. CASE Subscribed(r)
  <2>1. wait[r] = "open"
    BY <1>2 DEF Subscribed, EndInv, StepsMatch
  <2>2. CASE connection = NoConn
    BY <1>0, <1>2, <2>1, <2>2, EndWaitEnd DEF Subscribed
  <2>3. CASE connection # NoConn
    BY <1>2, <2>1, <2>3, AdvanceEnd DEF Subscribed, Timed, EndInv, ReasonsMatch
  <2> QED  BY <2>2, <2>3
<1>3. CASE SubscribeFailed(r)
  <2>1. StepsMatch'
    BY <1>3 DEF SubscribeFailed, EndInv, StepsMatch, EndsTyped, OthersTyped
  <2>2. ReasonsMatch'
    BY <1>3 DEF SubscribeFailed, EndInv, ReasonsMatch, EndsTyped, OthersTyped
  <2>3. Later'
    BY <1>3 DEF SubscribeFailed, EndInv, Later, EndsTyped, OthersTyped
  <2>4. SaidExactly'
    BY <1>3
    DEF SubscribeFailed, EndInv, SaidExactly, StepsMatch, EndsTyped, Status
  <2> QED  BY <2>1, <2>2, <2>3, <2>4 DEF EndInv
<1>4. CASE Published(r)
  <2>1. /\ wait[r] # "none" /\ why[r] \notin {"closed", "connection_lost"}
        /\ r \in timers => wait[r] = "open"
    BY <1>4 DEF Published, EndInv, StepsMatch, ReasonsMatch, Later
  <2>2. step' = [step EXCEPT ![r] = "delivering"]
    BY <1>4 DEF Published
  <2>3. UNCHANGED <<wait, why, timers, replying, said>>
    BY <1>4 DEF Published
  <2> QED  BY <2>1, <2>2, <2>3, AdvanceEnd
<1>5. CASE PublishFailed(r)
  <2>1. CASE wait[r] = "open"
    BY <1>0, <1>5, <2>1, EndWaitEnd DEF PublishFailed
  <2>2. CASE wait[r] # "open"
    BY <1>5, <2>2, AdvanceEnd
    DEF PublishFailed, EndInv, StepsMatch, ReasonsMatch, Later
  <2> QED  BY <2>1, <2>2
<1>6. CASE Undone(r)
  <2>1. why[r] \notin {"closed", "connection_lost"} /\ r \notin timers
    BY <1>6 DEF Undone, EndInv, ReasonsMatch, Later
  <2>2. wait[r] = "over" /\ step' = [step EXCEPT ![r] = "raised"]
    BY <1>6 DEF Undone
  <2>3. UNCHANGED <<wait, why, timers, replying, said>>
    BY <1>6 DEF Undone
  <2> QED  BY <2>1, <2>2, <2>3, AdvanceEnd
<1>8. CASE Returned(r)
  <2>1. r \notin timers
    BY <1>8 DEF Returned, EndInv, Later
  <2>2. wait[r] = "over" /\ step' = [step EXCEPT ![r] = "returned"]
    BY <1>8 DEF Returned
  <2>3. UNCHANGED <<wait, why, timers, replying, said>>
    BY <1>8 DEF Returned
  <2> QED  BY <2>1, <2>2, <2>3, AdvanceEnd
<1>7. CASE Delivered(r)
  <2>1. CASE meanwhile[r] # "none" /\ wait[r] = "open"
    <3>1. meanwhile[r] \in Reason
      BY <2>1 DEF SweepsTyped, Reason
    <3> QED  BY <1>7, <2>1, <3>1, EndWaitEnd, ZenonT(60) DEF Delivered
  <2>2. CASE ~ (meanwhile[r] # "none" /\ wait[r] = "open")
    BY <1>7, <2>2, AdvanceEnd
    DEF Delivered, EndInv, StepsMatch, ReasonsMatch, Later
  <2> QED  BY <2>1, <2>2
<1> QED  BY <1>1, <1>2, <1>3, <1>4, <1>5, <1>6, <1>7, <1>8 DEF SendStep

(* and what ends waits, or may. *)
LEMMA FinishEnd ==
  ASSUME TypeOK, EndInv, NEW r \in Request,
         \/ EndStep(r) \/ TimerFires(r) \/ CancelRequest(r)
         \/ ReplyArrives(r) \/ ReplyHandled(r)
  PROVE  EndInv'
<1>1. CASE Unsubscribed(r)
  <2>1. StepsMatch' /\ ReasonsMatch' /\ Later'
    BY <1>1
    DEF Unsubscribed, EndInv, StepsMatch, ReasonsMatch, Later, EndsTyped, OthersTyped
  <2>2. SaidExactly'
    BY <1>1 DEF Unsubscribed, EndInv, SaidExactly, EndsTyped, OthersTyped
  <2> QED  BY <2>1, <2>2 DEF EndInv
<1>2. CASE CallbackReturns(r)
  <2>1. StepsMatch' /\ ReasonsMatch' /\ Later'
    BY <1>2
    DEF CallbackReturns, EndInv, StepsMatch, ReasonsMatch, Later, EndsTyped
  <2>2. SaidExactly'
    BY <1>2
    DEF CallbackReturns, EndInv, SaidExactly, ReasonsMatch, EndsTyped, OthersTyped
  <2> QED  BY <2>1, <2>2 DEF EndInv
<1>3. CASE ReplyArrives(r)
  <2>1. step[r] \notin {"none", "subscribing"}
    BY <1>3 DEF ReplyArrives, Reachable
  <2> QED
    BY <1>3, <2>1
    DEF ReplyArrives, EndInv, StepsMatch, ReasonsMatch, Later, SaidExactly
<1>4. ASSUME NEW reason \in {"timed_out", "cancelled", "replied"},
             wait[r] = "open", EndWait(r, reason, connection, sending),
             step[r] \notin {"none", "subscribing"},
             UNCHANGED <<step, said>>, replying' \subseteq replying
      PROVE  EndInv'
  <2>1. step' = [step EXCEPT ![r] = step[r]]
    BY <1>4 DEF OthersTyped
  <2>2. reason \in Reason
    BY DEF Reason, Status
  <2> QED  BY <1>4, <2>1, <2>2, EndWaitEnd
<1>5. CASE TimerFires(r)
  BY <1>4, <1>5 DEF TimerFires, EndInv, Later, StepsMatch
<1>6. CASE CancelRequest(r)
  BY <1>4, <1>6 DEF CancelRequest, Reachable
<1>7. CASE ReplyHandled(r)
  <2>1. CASE wait[r] = "open" /\ EndWait(r, "replied", connection, sending)
    BY <1>4, <1>7, <2>1 DEF ReplyHandled, EndInv, Later
  <2>2. CASE UNCHANGED ends
    BY <1>7, <2>2
    DEF ReplyHandled, EndInv, StepsMatch, ReasonsMatch, Later, SaidExactly
  <2> QED  BY <1>7, <2>1, <2>2 DEF ReplyHandled
<1> QED  BY <1>1, <1>2, <1>3, <1>5, <1>6, <1>7 DEF EndStep

LEMMA EndInvStep == TypeOK /\ EndInv /\ [Next]_vars => EndInv'
<1> SUFFICES ASSUME TypeOK, EndInv, [Next]_vars  PROVE EndInv'
  OBVIOUS
<1>1. CASE UNCHANGED vars
  BY <1>1 DEF vars, EndInv, StepsMatch, ReasonsMatch, Later, SaidExactly
<1>2. ASSUME NEW t \in Task, SendFails(t)  PROVE EndInv'
  BY <1>2, FailEnd DEF SendFails, EndsTyped
<1> QED  BY <1>1, <1>2, ConnEnd, CloseEnd, SendEnd, FinishEnd DEF Next

-----------------------------------------------------------------------------
(* The steps of RequestWait that steps of a client are. *)
LEMMA EndWaitIsEnd ==
  ASSUME TypeOK, NEW r \in Request, NEW reason \in Waits!Reason, NEW c, NEW frames,
         wait[r] = "open", EndWait(r, reason, c, frames), UNCHANGED <<replying, said>>
  PROVE  Waits!Next
<1>1. Waits!End(r, reason)
  BY DEF Waits!End, EndWait, EndsTyped
<1> QED  BY <1>1 DEF Waits!Next

LEMMA SameWaits ==
  ASSUME UNCHANGED <<wait, why, replying, said>>
  PROVE  UNCHANGED Waits!vars
BY DEF Waits!vars

LEMMA SweepWaits ==
  ASSUME TypeOK, NEW p \in Sweeper, NEW S \in SUBSET Request,
         NEW status \in {"closed", "connection_lost"}, NEW c, NEW phases,
         SweepOn(p, S, status, c, sending, phases), UNCHANGED replies
  PROVE  [Waits!Next]_(Waits!vars)
<1>1. CASE SweepEnds(p, S, status)
  BY <1>1, SameWaits DEF SweepEnds
<1>2. ASSUME NEW r \in Request, SweepGoesTo(p, S, status, c, r)
      PROVE  Waits!Next
  BY <1>2, EndWaitIsEnd DEF SweepGoesTo, Waits!Reason, Waits!Status
<1> QED  BY <1>1, <1>2, SweepCases

LEMMA FailWaits ==
  ASSUME TypeOK, NEW c \in Conn, NEW t, Fail(c, t)
  PROVE  [Waits!Next]_(Waits!vars)
BY SweepWaits DEF Fail, Sweeper, Pending

LEMMA SweepNextWaits ==
  ASSUME TypeOK, NEW p \in Sweeper, SweepNext(p)
  PROVE  [Waits!Next]_(Waits!vars)
<1>1. sweep[p].left \in SUBSET Request
  BY DEF SweepsTyped
<1> QED  BY <1>1, SweepWaits DEF SweepNext

LEMMA ConnWaits ==
  ASSUME TypeOK, NEW c \in Conn, Connect(c) \/ ConnStep(c) \/ ReceiveFails(c)
  PROVE  [Waits!Next]_(Waits!vars)
<1>1. CASE SweepNext(c)
  BY <1>1, SweepNextWaits DEF Sweeper
<1>2. CASE ReceiveFails(c)
  BY <1>2, FailWaits DEF ReceiveFails
<1>3. CASE Connect(c) \/ Opened(c) \/ OpenFails(c) \/ Resent(c) \/ FailureReported(c)
  BY <1>3, SameWaits DEF Connect, Opened, OpenFails, Resent, FailureReported
<1> QED  BY <1>1, <1>2, <1>3 DEF ConnStep

LEMMA CloseWaits ==
  ASSUME TypeOK, Close \/ SweepNext(Closer) \/ Closed
  PROVE  [Waits!Next]_(Waits!vars)
<1>1. CASE Close
  BY <1>1, SweepWaits DEF Close, Sweeper, Pending
<1>2. CASE SweepNext(Closer)
  BY <1>2, SweepNextWaits DEF Sweeper
<1>3. CASE Closed
  BY <1>3, SameWaits DEF Closed
<1> QED  BY <1>1, <1>2, <1>3

LEMMA SendWaits ==
  ASSUME TypeOK, EndInv, NEW r \in Request, SendRequest(r) \/ SendStep(r)
  PROVE  [Waits!Next]_(Waits!vars)
<1>0. "failed" \in Waits!Reason
  BY DEF Waits!Reason
<1>1. CASE SendRequest(r)
  <2>1. wait[r] = "none"
    BY <1>1 DEF SendRequest, EndInv, StepsMatch
  <2>2. CASE connection = NoConn
    <3>1. Waits!End(r, "failed")
      BY <1>1, <2>1, <2>2 DEF SendRequest, Waits!End, EndsTyped
    <3> QED  BY <1>0, <3>1 DEF Waits!Next
  <2>3. CASE connection # NoConn
    <3>1. Waits!Begin(r)
      BY <1>1, <2>1, <2>3 DEF SendRequest, Waits!Begin, EndsTyped
    <3> QED  BY <3>1 DEF Waits!Next
  <2> QED  BY <2>2, <2>3
<1>2. CASE Subscribed(r)
  <2>1. wait[r] = "open"
    BY <1>2 DEF Subscribed, EndInv, StepsMatch
  <2> QED  BY <1>0, <1>2, <2>1, EndWaitIsEnd, SameWaits DEF Subscribed
<1>3. CASE SubscribeFailed(r)
  <2>1. Waits!End(r, "failed")
    BY <1>3 DEF SubscribeFailed, Waits!End, EndsTyped, EndInv, StepsMatch
  <2> QED  BY <1>0, <2>1 DEF Waits!Next
<1>4. CASE Published(r) \/ Undone(r) \/ Returned(r)
  BY <1>4, SameWaits DEF Published, Undone, Returned
<1>5. CASE PublishFailed(r)
  BY <1>0, <1>5, EndWaitIsEnd, SameWaits DEF PublishFailed
<1>6. CASE Delivered(r)
  <2>1. meanwhile[r] # "none" => meanwhile[r] \in Waits!Reason
    BY DEF SweepsTyped, Waits!Reason, Waits!Status, Status
  <2> QED  BY <1>6, <2>1, EndWaitIsEnd, SameWaits DEF Delivered
<1> QED  BY <1>1, <1>2, <1>3, <1>4, <1>5, <1>6 DEF SendStep

LEMMA FinishWaits ==
  ASSUME TypeOK, EndInv, NEW r \in Request,
         \/ EndStep(r) \/ TimerFires(r) \/ CancelRequest(r)
         \/ ReplyArrives(r) \/ ReplyHandled(r)
  PROVE  [Waits!Next]_(Waits!vars)
<1>1. CASE Unsubscribed(r)
  BY <1>1 DEF Unsubscribed, Waits!vars, EndsTyped
<1>2. CASE CallbackReturns(r)
  <2>1. said[r] = 0 /\ why[r] \in Status
    BY <1>2 DEF CallbackReturns, EndInv, SaidExactly, ReasonsMatch
  <2>2. Waits!Say(r)
    BY <1>2, <2>1
    DEF CallbackReturns, Waits!Say, EndsTyped, OthersTyped, Status, Waits!Status
  <2> QED  BY <2>2 DEF Waits!Next
<1>3. CASE TimerFires(r)
  <2>1. wait[r] = "open"
    BY <1>3 DEF TimerFires, EndInv, Later
  <2> QED
    BY <1>3, <2>1, EndWaitIsEnd DEF TimerFires, Waits!Reason, Waits!Status
<1>4. CASE CancelRequest(r)
  BY <1>4, EndWaitIsEnd DEF CancelRequest, Waits!Reason
<1>5. CASE ReplyArrives(r)
  <2>1. Waits!Answer(r)
    BY <1>5 DEF ReplyArrives, Waits!Answer
  <2> QED  BY <2>1 DEF Waits!Next
<1>6. CASE ReplyHandled(r)
  <2>1. Waits!Answered(r)
    BY <1>6 DEF ReplyHandled, Waits!Answered, EndWait, EndsTyped
  <2> QED  BY <2>1 DEF Waits!Next
<1> QED  BY <1>1, <1>2, <1>3, <1>4, <1>5, <1>6 DEF EndStep

LEMMA WaitsStep == TypeOK /\ EndInv /\ [Next]_vars => [Waits!Next]_(Waits!vars)
<1> SUFFICES ASSUME TypeOK, EndInv, [Next]_vars  PROVE [Waits!Next]_(Waits!vars)
  OBVIOUS
<1>1. CASE UNCHANGED vars
  BY <1>1, SameWaits DEF vars
<1>2. ASSUME NEW t \in Task, SendFails(t)  PROVE [Waits!Next]_(Waits!vars)
  BY <1>2, FailWaits DEF SendFails, EndsTyped
<1> QED  BY <1>1, <1>2, ConnWaits, CloseWaits, SendWaits, FinishWaits DEF Next

LEMMA WaitsInit == Init => Waits!Init
BY DEF Init, Waits!Init

LEMMA EndInvariant == Spec => [](TypeOK /\ EndInv)
<1> HIDE DEF TypeOK
<1> QED  BY InitType, TypeStep, InitEnd, EndInvStep, PTL DEF Spec

-----------------------------------------------------------------------------
(* What close() is closing is not open, and connected again it is only to what
   was made meanwhile. *)
FlushedIsClosed ==
  closing = "flushing" =>
    /\ flushed \in Conn
    /\ phase[flushed] \notin {"new", "opening", "open"}
    /\ connection \in {NoConn, flushed} \cup during.conns

ConnectionIsUp == connection # NoConn => phase[connection] \in {"open", "closing"}

ConnInv == FlushedIsClosed /\ ConnectionIsUp /\ OneConnection

(* What a loop of _end_all_without_reply does to the connections: when that of
   close() has come to its end, close() goes on to flush the connection. *)
LEMMA SweepLinks ==
  ASSUME TypeOK, NEW p \in Sweeper, NEW S \in SUBSET Request, NEW status, NEW c,
         NEW phases, SweepOn(p, S, status, c, sending, phases)
  PROVE  \/ /\ phase' = phases /\ flushed' = flushed
            /\ IF p = Closer THEN closing' \in {"no", "ending"}
                             ELSE closing' = closing
         \/ /\ p = Closer /\ c # NoConn /\ SweepEnds(p, S, status)
            /\ phase' = [phases EXCEPT ![c] = "closing"]
            /\ flushed' = c /\ closing' = "flushing"
BY DEF SweepOn, SweepEnds

LEMMA InitConn == Init => ConnInv
BY DEF Init, ConnInv, FlushedIsClosed, ConnectionIsUp, OneConnection

LEMMA UnchangedConn ==
  ASSUME ConnInv, UNCHANGED <<connection, phase, closing, flushed, during>>
  PROVE  ConnInv'
BY DEF ConnInv, FlushedIsClosed, ConnectionIsUp, OneConnection

LEMMA SweepConn ==
  ASSUME TypeOK, ConnInv, NEW p \in Sweeper, NEW S \in SUBSET Request, NEW status,
         SweepOn(p, S, status, connection, sending, phase),
         UNCHANGED <<connection, during>>
  PROVE  ConnInv'
<1>1. CASE phase' = phase /\ flushed' = flushed /\ closing' \in {"no", "ending", closing}
  BY <1>1 DEF ConnInv, FlushedIsClosed, ConnectionIsUp, OneConnection
<1>2. CASE /\ connection # NoConn /\ phase' = [phase EXCEPT ![connection] = "closing"]
           /\ flushed' = connection
  BY <1>2 DEF ConnInv, FlushedIsClosed, ConnectionIsUp, OneConnection, LinksTyped
<1>3. \/ /\ phase' = phase /\ flushed' = flushed
         /\ closing' \in {"no", "ending", closing}
      \/ /\ connection # NoConn
         /\ phase' = [phase EXCEPT ![connection] = "closing"]
         /\ flushed' = connection
  BY SweepLinks
<1> QED  BY <1>1, <1>2, <1>3

LEMMA FailConn ==
  ASSUME TypeOK, ConnInv, NEW c \in Conn, NEW t, Fail(c, t)
  PROVE  ConnInv'
<1>1. c # Closer /\ c \in Sweeper /\ Pending \in SUBSET Request
  BY Numbers DEF Closer, Sweeper, Pending
<1>2. /\ phase' = [phase EXCEPT ![c] = "failing"] /\ connection = c
      /\ connection' = NoConn /\ UNCHANGED <<closing, flushed, during>>
  BY <1>1, SweepLinks DEF Fail
<1> QED
  BY <1>2 DEF ConnInv, FlushedIsClosed, ConnectionIsUp, OneConnection, LinksTyped

LEMMA OpenedConn ==
  ASSUME TypeOK, ConnInv, NEW c \in Conn, Opened(c)
  PROVE  ConnInv'
<1>1. /\ during.conns \subseteq during'.conns
      /\ closing # "no" => c \in during'.conns
      /\ phase[c] = "opening" /\ UNCHANGED <<closing, flushed>>
  BY DEF Opened, OthersTyped
<1>2. CASE connection = NoConn
  <2>1. phase' = [phase EXCEPT ![c] = "open"] /\ connection' = c
    BY <1>2 DEF Opened
  <2>2. FlushedIsClosed'
    BY <1>1, <2>1 DEF ConnInv, FlushedIsClosed, LinksTyped
  <2>3. ConnectionIsUp'
    BY <2>1 DEF ConnectionIsUp, LinksTyped
  <2>4. ASSUME NEW k \in Conn, k # c, phase[k] = "open"  PROVE k \in during.conns
    BY <1>2, <2>4, Numbers DEF ConnInv, OneConnection, NoConn
  <2>5. OneConnection'
    BY <1>1, <2>1, <2>4 DEF OneConnection, LinksTyped
  <2> QED  BY <2>2, <2>3, <2>5 DEF ConnInv
<1>3. CASE connection # NoConn
  <2>1. phase' = [phase EXCEPT ![c] = "lost"] /\ connection' = connection
    BY <1>3 DEF Opened
  <2>2. FlushedIsClosed'
    BY <1>1, <2>1 DEF ConnInv, FlushedIsClosed, LinksTyped
  <2>3. ConnectionIsUp'
    BY <1>1, <2>1 DEF ConnInv, ConnectionIsUp, LinksTyped
  <2>4. OneConnection'
    BY <1>1, <2>1 DEF ConnInv, OneConnection, LinksTyped
  <2> QED  BY <2>2, <2>3, <2>4 DEF ConnInv
<1> QED  BY <1>2, <1>3

LEMMA ConnConn ==
  ASSUME TypeOK, ConnInv, NEW c \in Conn, Connect(c) \/ ConnStep(c) \/ ReceiveFails(c)
  PROVE  ConnInv'
<1>1. CASE SweepNext(c)
  <2>1. sweep[c].left \in SUBSET Request /\ c \in Sweeper
    BY DEF SweepsTyped, Sweeper
  <2> QED  BY <1>1, <2>1, SweepConn DEF SweepNext
<1>2. CASE ReceiveFails(c)
  BY <1>2, FailConn DEF ReceiveFails
<1>3. CASE Opened(c)
  BY <1>3, OpenedConn
<1>4. CASE Connect(c) \/ OpenFails(c) \/ FailureReported(c)
  <2>1. \E q \in {"opening", "lost"} :
          /\ phase' = [phase EXCEPT ![c] = q]
          /\ phase[c] \in {"new", "opening", "failing"}
          /\ phase[c] = "failing" => q = "lost"
          /\ UNCHANGED <<connection, closing, flushed, during>>
    BY <1>4 DEF Connect, OpenFails, FailureReported
  <2> QED
    BY <2>1 DEF ConnInv, FlushedIsClosed, ConnectionIsUp, OneConnection, LinksTyped
<1>5. CASE Resent(c)
  BY <1>5, UnchangedConn DEF Resent
<1> QED  BY <1>1, <1>2, <1>3, <1>4, <1>5 DEF ConnStep

LEMMA CloseConn ==
  ASSUME TypeOK, ConnInv, Close \/ SweepNext(Closer) \/ Closed
  PROVE  ConnInv'
<1>1. CASE Close
  BY <1>1, SweepConn DEF Close, Sweeper, Pending
<1>2. CASE SweepNext(Closer)
  <2>1. sweep[Closer].left \in SUBSET Request /\ Closer \in Sweeper
    BY DEF SweepsTyped, Sweeper
  <2> QED  BY <1>2, <2>1, SweepConn DEF SweepNext
<1>3. CASE Closed
  BY <1>3, Numbers
  DEF Closed, ConnInv, FlushedIsClosed, ConnectionIsUp, OneConnection, LinksTyped
<1> QED  BY <1>1, <1>2, <1>3

LEMMA ConnInvStep == TypeOK /\ ConnInv /\ [Next]_vars => ConnInv'
<1> SUFFICES ASSUME TypeOK, ConnInv, [Next]_vars  PROVE ConnInv'
  OBVIOUS
<1>1. CASE UNCHANGED vars
  BY <1>1, UnchangedConn DEF vars
<1>2. ASSUME NEW t \in Task, SendFails(t)  PROVE ConnInv'
  BY <1>2, FailConn DEF SendFails, EndsTyped
<1>3. ASSUME NEW r \in Request, SendRequest(r)  PROVE ConnInv'
  BY <1>3
  DEF SendRequest, ConnInv, FlushedIsClosed, ConnectionIsUp, OneConnection, OthersTyped
<1>4. ASSUME NEW r \in Request,
             \/ SendStep(r) \/ EndStep(r) \/ TimerFires(r)
             \/ CancelRequest(r) \/ ReplyArrives(r) \/ ReplyHandled(r)
      PROVE  ConnInv'
  BY <1>4, UnchangedConn
  DEF SendStep, Subscribed, SubscribeFailed, Published, PublishFailed, Undone,
      Delivered, Returned, EndStep, Unsubscribed, CallbackReturns, TimerFires,
      CancelRequest, ReplyArrives, ReplyHandled
<1> QED  BY <1>1, <1>2, <1>3, <1>4, ConnConn, CloseConn DEF Next

-----------------------------------------------------------------------------
(* Nothing is sent before there is a connection. *)
Fresh ==
  \A c \in Conn :
    phase[c] \in {"new", "opening"} =>
      told[c] = {} /\ resending[c] = {} /\ sending[<<"connect", c>>] = NoConn

(* connect() sends again what the node does not know, on its own connection
   while that is the client's. *)
Resending ==
  connection # NoConn =>
    /\ registered \subseteq told[connection] \cup resending[connection]
    /\ \A r \in told[connection] \ registered : step[r] = "raised"
    /\ sending[<<"connect", connection>>] \in {NoConn, connection}
    /\ sending[<<"connect", connection>>] = NoConn => resending[connection] = {}

ToldInv == Fresh /\ Resending

LEMMA InitTold == Init => ToldInv
BY DEF Init, ToldInv, Fresh, Resending, Task

LEMMA UnchangedTold ==
  ASSUME TypeOK, ToldInv, UNCHANGED <<connection, phase, told, registered, resending>>,
         \A c \in Conn : sending'[<<"connect", c>>] = sending[<<"connect", c>>],
         \A r \in Request : step[r] = "raised" => step'[r] = "raised"
  PROVE  ToldInv'
<1>1. Fresh'
  BY DEF ToldInv, Fresh
<1>2. Resending'
  BY DEF ToldInv, Resending, LinksTyped, EndsTyped
<1> QED  BY <1>1, <1>2 DEF ToldInv

(* A wait ends on the connection of the client. *)
LEMMA EndWaitTold ==
  ASSUME TypeOK, ToldInv, NEW r \in Request, NEW reason,
         NEW frames \in [Task -> Conn \cup {NoConn}],
         EndWait(r, reason, connection, frames),
         \A c \in Conn : frames[<<"connect", c>>] = sending[<<"connect", c>>],
         \A k \in Request : step[k] = "raised" => step'[k] = "raised",
         \A c \in Conn : phase'[c] \in {"new", "opening"} =>
                             phase[c] \in {"new", "opening"},
         UNCHANGED <<connection, resending>>
  PROVE  ToldInv'
<1>1. \A c \in Conn : sending'[<<"connect", c>>] = sending[<<"connect", c>>]
  BY DEF EndWait, Task
<1>2. \A c \in Conn : told'[c] \subseteq told[c]
  BY DEF EndWait, EndsTyped
<1>3. Fresh'
  BY <1>1, <1>2 DEF ToldInv, Fresh
<1>4. CASE r \in registered /\ connection # NoConn
  <2>1. registered' = registered \ {r} /\ told'[connection] = told[connection] \ {r}
    BY <1>4 DEF EndWait, EndsTyped, LinksTyped
  <2>2. Resending'
    BY <1>1, <2>1 DEF ToldInv, Resending, LinksTyped, EndsTyped
  <2> QED  BY <1>3, <2>2 DEF ToldInv
<1>5. CASE ~ (r \in registered /\ connection # NoConn)
  <2>1. connection # NoConn => UNCHANGED <<registered, told>>
    BY <1>5 DEF EndWait
  <2>2. Resending'
    BY <1>1, <2>1 DEF ToldInv, Resending, LinksTyped, EndsTyped
  <2> QED  BY <1>3, <2>2 DEF ToldInv
<1> QED  BY <1>4, <1>5

LEMMA SweepTold ==
  ASSUME TypeOK, ToldInv, NEW p \in Sweeper, NEW S \in SUBSET Request, NEW status,
         SweepOn(p, S, status, connection, sending, phase),
         UNCHANGED <<connection, resending, step>>
  PROVE  ToldInv'
<1>1. \A c \in Conn : phase'[c] \in {"new", "opening"} =>
                          phase[c] \in {"new", "opening"}
  BY SweepLinks DEF LinksTyped
<1>2. CASE SweepEnds(p, S, status)
  BY <1>1, <1>2 DEF SweepEnds, ToldInv, Fresh, Resending
<1>3. ASSUME NEW r \in Request, SweepGoesTo(p, S, status, connection, r)
      PROVE  ToldInv'
  BY <1>1, <1>3, EndWaitTold DEF SweepGoesTo, EndsTyped
<1> QED  BY <1>2, <1>3, SweepCases

(* A connection that has failed is not that of the client any more. *)
LEMMA FailTold ==
  ASSUME TypeOK, ToldInv, NEW c \in Conn, NEW t, Fail(c, t)
  PROVE  ToldInv'
<1>1. c # Closer /\ c \in Sweeper /\ Pending \in SUBSET Request
  BY Numbers DEF Closer, Sweeper, Pending
<1>2. phase' = [phase EXCEPT ![c] = "failing"] /\ connection' = NoConn
      /\ UNCHANGED resending
  BY <1>1, SweepLinks DEF Fail
<1>3. /\ UNCHANGED told
      /\ \A k \in Conn : sending'[<<"connect", k>>] = sending[<<"connect", k>>]
  <2>1. CASE SweepEnds(c, Pending, "connection_lost")
    BY <2>1 DEF SweepEnds
  <2>2. ASSUME NEW r \in Request,
               SweepGoesTo(c, Pending, "connection_lost", NoConn, r)
        PROVE  UNCHANGED <<told, sending>>
    BY <2>2 DEF SweepGoesTo, EndWait
  <2> QED  BY <1>1, <2>1, <2>2, SweepCases DEF Fail
<1> QED  BY <1>2, <1>3 DEF ToldInv, Fresh, Resending, LinksTyped

(* connect() has nothing more to send again, ... *)
NothingToResend(c, S, frames) ==
  /\ S \cap registered = {}
  /\ resending' = [resending EXCEPT ![c] = {}]
  /\ sending' = frames /\ told' = told

(* ... or goes on with r, on the connection that the client has now. *)
ResendsNext(c, S, now, frames, r) ==
  /\ now # NoConn /\ r \in S /\ r \in registered
  /\ \A k \in S : k \in registered => k = r \/ k > r
  /\ resending' = [resending EXCEPT ![c] = { k \in S : k > r }]
  /\ sending' = [frames EXCEPT ![<<"connect", c>>] = now]
  /\ told' = [told EXCEPT ![now] = @ \cup {r}]

LEMMA ResendCases ==
  ASSUME NEW c, NEW S \in SUBSET Request, NEW now, now # NoConn, NEW frames,
         ResendFrom(c, S, now, frames)
  PROVE  \/ NothingToResend(c, S, frames)
         \/ \E r \in Request : ResendsNext(c, S, now, frames, r)
<1> DEFINE left == S \cap registered
           next == Smallest(left)
<1>1. CASE left = {}
  BY <1>1 DEF ResendFrom, NothingToResend
<1>2. CASE left # {}
  <2>1. next \in left /\ \A k \in left : next <= k
    BY <1>2, SmallestIsFirst
  <2>2. /\ resending' = [resending EXCEPT ![c] = { r \in S : r > next }]
        /\ sending' = [frames EXCEPT ![<<"connect", c>>] = now]
        /\ told' = [told EXCEPT ![now] = @ \cup {next}]
    BY <1>2 DEF ResendFrom
  <2> HIDE DEF next
  <2>3. \A k \in left : k = next \/ k > next
    BY <2>1, Numbers
  <2> QED  BY <2>1, <2>2, <2>3 DEF ResendsNext
<1> QED  BY <1>1, <1>2

LEMMA OpenedTold ==
  ASSUME TypeOK, ConnInv, ToldInv, NEW c \in Conn, Opened(c)
  PROVE  ToldInv'
<1>1. /\ phase[c] = "opening" /\ told[c] = {} /\ resending[c] = {}
      /\ sending[<<"connect", c>>] = NoConn /\ UNCHANGED <<registered, step>>
  BY DEF Opened, ToldInv, Fresh
<1>2. CASE connection = NoConn
  <2>1. /\ ResendFrom(c, registered, c, sending)
        /\ phase' = [phase EXCEPT ![c] = "open"] /\ connection' = c
    BY <1>2 DEF Opened
  <2>2. CASE NothingToResend(c, registered, sending)
    <3>1. Fresh'
      BY <2>1, <2>2 DEF NothingToResend, ToldInv, Fresh, LinksTyped
    <3>2. Resending'
      BY <1>1, <2>1, <2>2 DEF NothingToResend, Resending, LinksTyped, EndsTyped
    <3> QED  BY <3>1, <3>2 DEF ToldInv
  <2>3. ASSUME NEW r \in Request, ResendsNext(c, registered, c, sending, r)
        PROVE  ToldInv'
    <3>1. Fresh'
      BY <2>1, <2>3 DEF ResendsNext, ToldInv, Fresh, LinksTyped, EndsTyped, Task
    <3>2. /\ told'[c] = {r} /\ resending'[c] = { k \in registered : k > r }
          /\ sending'[<<"connect", c>>] = c
      BY <1>1, <2>3 DEF ResendsNext, LinksTyped, EndsTyped, Task
    <3>3. c # NoConn
      BY Numbers DEF NoConn
    <3>4. Resending'
      BY <1>1, <2>1, <2>3, <3>2, <3>3 DEF ResendsNext, Resending
    <3> QED  BY <3>1, <3>4 DEF ToldInv
  <2>4. registered \in SUBSET Request /\ c # NoConn
    BY Numbers DEF EndsTyped, NoConn
  <2> QED  BY <2>1, <2>2, <2>3, <2>4, ResendCases
<1>3. CASE connection # NoConn
  <2>1. /\ phase' = [phase EXCEPT ![c] = "lost"]
        /\ UNCHANGED <<connection, resending, sending, told>>
    BY <1>3 DEF Opened
  <2> QED  BY <1>1, <2>1 DEF ToldInv, Fresh, Resending, LinksTyped
<1> QED  BY <1>2, <1>3

LEMMA ResentTold ==
  ASSUME TypeOK, ConnInv, ToldInv, NEW c \in Conn, Resent(c)
  PROVE  ToldInv'
<1> DEFINE t == <<"connect", c>>
<1>1. /\ t \in Task /\ sending[t] # NoConn
      /\ UNCHANGED <<connection, phase, registered, step>>
  BY DEF Resent, Taken, Failed, Task
<1>2. phase[c] \notin {"new", "opening"}
  BY <1>1 DEF ToldInv, Fresh
<1>3. connection # NoConn =>
        connection \in Conn /\ phase[connection] \notin {"new", "opening"}
  BY DEF ConnInv, ConnectionIsUp, LinksTyped
<1>4. CASE /\ connection # NoConn => connection # c
           /\ resending' = [resending EXCEPT ![c] = {}]
           /\ sending' = Done(t) /\ told' = told
  <2>1. Fresh'
    BY <1>1, <1>2, <1>4 DEF ToldInv, Fresh, Done, LinksTyped, EndsTyped
  <2>2. Resending'
    BY <1>1, <1>3, <1>4 DEF ToldInv, Resending, Done, LinksTyped, EndsTyped
  <2> QED  BY <2>1, <2>2 DEF ToldInv
<1>5. CASE ResendFrom(c, resending[c], connection, Done(t))
  <2>0. resending[c] \in SUBSET Request /\ Done(t) \in [Task -> Conn \cup {NoConn}]
    BY DoneType DEF LinksTyped
  <2>1. CASE connection = NoConn
    BY <1>4, <1>5, <2>1 DEF ResendFrom
  <2>2. CASE connection # NoConn /\ NothingToResend(c, resending[c], Done(t))
    <3>1. Fresh'
      BY <1>1, <1>2, <2>2
      DEF NothingToResend, ToldInv, Fresh, Done, LinksTyped, EndsTyped
    <3>2. Resending'
      BY <1>1, <1>3, <2>2
      DEF NothingToResend, ToldInv, Resending, Done, LinksTyped, EndsTyped
    <3> QED  BY <3>1, <3>2 DEF ToldInv
  <2>3. ASSUME NEW r \in Request, ResendsNext(c, resending[c], connection, Done(t), r)
        PROVE  ToldInv'
    <3>1. Fresh'
      BY <1>1, <1>2, <1>3, <2>3
      DEF ResendsNext, ToldInv, Fresh, Done, LinksTyped, EndsTyped
    <3>2. sending'[<<"connect", connection>>] \in {NoConn, connection}
      BY <1>1, <1>3, <2>3
      DEF ResendsNext, ToldInv, Resending, Done, EndsTyped
    <3>3. told'[connection] = told[connection] \cup {r}
      BY <1>3, <2>3 DEF ResendsNext, EndsTyped
    <3>4. CASE connection = c
      BY <1>1, <2>3, <3>1, <3>2, <3>3, <3>4
      DEF ResendsNext, ToldInv, Resending, Done, LinksTyped, EndsTyped
    <3>5. CASE connection # c
      BY <1>1, <1>3, <2>3, <3>1, <3>2, <3>3, <3>5
      DEF ResendsNext, ToldInv, Resending, Done, LinksTyped, EndsTyped
    <3> QED  BY <3>4, <3>5
  <2> QED  BY <1>3, <1>5, <2>0, <2>1, <2>2, <2>3, ResendCases
<1>6. CASE /\ Failed(t) /\ resending' = [resending EXCEPT ![c] = {}]
           /\ sending' = Done(t) /\ UNCHANGED told
  BY <1>1, <1>4, <1>6 DEF Failed, ToldInv, Resending
<1> QED  BY <1>5, <1>6 DEF Resent

LEMMA ConnTold ==
  ASSUME TypeOK, ConnInv, ToldInv, NEW c \in Conn,
         Connect(c) \/ ConnStep(c) \/ ReceiveFails(c)
  PROVE  ToldInv'
<1>1. CASE SweepNext(c)
  <2>1. sweep[c].left \in SUBSET Request /\ c \in Sweeper
    BY DEF SweepsTyped, Sweeper
  <2> QED  BY <1>1, <2>1, SweepTold DEF SweepNext
<1>2. CASE ReceiveFails(c)
  BY <1>2, FailTold DEF ReceiveFails
<1>3. CASE Connect(c)
  BY <1>3 DEF Connect, ToldInv, Fresh, Resending, LinksTyped
<1>4. CASE OpenFails(c)
  BY <1>4 DEF OpenFails, ToldInv, Fresh, Resending, LinksTyped
<1>5. CASE FailureReported(c)
  <2>1. connection # c
    BY <1>5, Numbers DEF FailureReported, ConnInv, ConnectionIsUp, NoConn
  <2> QED
    BY <1>5, <2>1 DEF FailureReported, ToldInv, Fresh, Resending, LinksTyped, EndsTyped
<1> QED  BY <1>1, <1>2, <1>3, <1>4, <1>5, OpenedTold, ResentTold DEF ConnStep

LEMMA CloseTold ==
  ASSUME TypeOK, ToldInv, Close \/ SweepNext(Closer) \/ Closed
  PROVE  ToldInv'
<1>1. CASE Close
  BY <1>1, SweepTold DEF Close, Sweeper, Pending
<1>2. CASE SweepNext(Closer)
  <2>1. sweep[Closer].left \in SUBSET Request /\ Closer \in Sweeper
    BY DEF SweepsTyped, Sweeper
  <2> QED  BY <1>2, <2>1, SweepTold DEF SweepNext
<1>3. CASE Closed
  BY <1>3 DEF Closed, ToldInv, Fresh, Resending, LinksTyped, EndsTyped
<1> QED  BY <1>1, <1>2, <1>3

LEMMA SendTold ==
  ASSUME TypeOK, ConnInv, EndInv, ToldInv, NEW r \in Request, SendRequest(r) \/ SendStep(r)
  PROVE  ToldInv'
<1> DEFINE t == <<"send", r>>
<1>0. /\ t \in Task /\ Done(t) \in [Task -> Conn \cup {NoConn}]
      /\ \A c \in Conn : Done(t)[<<"connect", c>>] = sending[<<"connect", c>>]
  BY DEF Task, Done, EndsTyped
<1>1. CASE SendRequest(r)
  <2>1. CASE connection = NoConn
    BY <1>1, <2>1, UnchangedTold DEF SendRequest, OthersTyped
  <2>2. CASE connection # NoConn
    <3>1. /\ registered' = registered \cup {r}
          /\ told' = [told EXCEPT ![connection] = @ \cup {r}]
          /\ sending' = [sending EXCEPT ![t] = connection]
          /\ step' = [step EXCEPT ![r] = "subscribing"] /\ step[r] = "none"
          /\ UNCHANGED <<connection, phase, resending>>
      BY <1>1, <2>2 DEF SendRequest
    <3>2. phase[connection] \notin {"new", "opening"}
      BY <2>2 DEF ConnInv, ConnectionIsUp
    <3>3. Fresh'
      BY <3>1, <3>2 DEF ToldInv, Fresh, EndsTyped, Task
    <3>4. told'[connection] = told[connection] \cup {r}
      BY <2>2, <3>1 DEF LinksTyped, EndsTyped
    <3>5. sending'[<<"connect", connection>>] = sending[<<"connect", connection>>]
      BY <3>1 DEF EndsTyped
    <3>6. \A k \in Request : step[k] = "raised" => step'[k] = "raised"
      BY <3>1 DEF OthersTyped
    <3>7. told[connection] \subseteq Request
      BY <2>2 DEF LinksTyped, EndsTyped
    <3>8. Resending'
      BY <3>1, <3>4, <3>5, <3>6, <3>7 DEF ToldInv, Resending
    <3> QED  BY <3>3, <3>8 DEF ToldInv
  <2> QED  BY <2>1, <2>2
<1>2. CASE Subscribed(r)
  <2>1. CASE connection = NoConn
    <3>1. /\ EndWait(r, "failed", connection, Done(t))
          /\ UNCHANGED <<connection, phase, resending>>
          /\ \A k \in Request : step[k] = "raised" => step'[k] = "raised"
      BY <1>2, <2>1 DEF Subscribed, OthersTyped
    <3> QED  BY <1>0, <3>1, EndWaitTold
  <2>2. CASE connection # NoConn
    <3>1. \A c \in Conn : sending'[<<"connect", c>>] = sending[<<"connect", c>>]
      <4>1. sending' = [sending EXCEPT ![t] = connection]
        BY <1>2, <2>2 DEF Subscribed
      <4> QED  BY <4>1 DEF EndsTyped
    <3>2. \A k \in Request : step[k] = "raised" => step'[k] = "raised"
      BY <1>2, <2>2 DEF Subscribed, OthersTyped
    <3> QED  BY <1>2, <2>2, <3>1, <3>2, UnchangedTold DEF Subscribed
  <2> QED  BY <2>1, <2>2
<1>3. CASE SubscribeFailed(r)
  <2>1. /\ registered' = registered \ {r} /\ step' = [step EXCEPT ![r] = "raised"]
        /\ sending' = Done(t) /\ UNCHANGED <<connection, phase, told, resending>>
    BY <1>3 DEF SubscribeFailed
  <2>2. Fresh'
    BY <1>0, <2>1 DEF ToldInv, Fresh
  <2>3. \A k \in Request : k = r \/ step[k] = "raised" => step'[k] = "raised"
    BY <2>1 DEF OthersTyped
  <2>4. Resending'
    BY <1>0, <2>1, <2>3 DEF ToldInv, Resending, LinksTyped, EndsTyped
  <2> QED  BY <2>2, <2>4 DEF ToldInv
<1>4. CASE Published(r)
  BY <1>0, <1>4, UnchangedTold DEF Published, OthersTyped
<1>5. CASE PublishFailed(r)
  <2>1. \A k \in Request : step[k] = "raised" => step'[k] = "raised"
    BY <1>5 DEF PublishFailed, OthersTyped
  <2>2. CASE wait[r] = "open"
    BY <1>0, <1>5, <2>1, <2>2, EndWaitTold DEF PublishFailed
  <2>3. CASE wait[r] # "open"
    BY <1>0, <1>5, <2>1, <2>3, UnchangedTold DEF PublishFailed
  <2> QED  BY <2>2, <2>3
<1>6. CASE Undone(r)
  BY <1>6, UnchangedTold DEF Undone, OthersTyped
<1>7. CASE Delivered(r)
  <2>1. \A k \in Request : step[k] = "raised" => step'[k] = "raised"
    BY <1>7 DEF Delivered, OthersTyped
  <2>2. CASE meanwhile[r] # "none" /\ wait[r] = "open"
    BY <1>7, <2>1, <2>2, EndWaitTold DEF Delivered, EndsTyped
  <2>3. CASE ~ (meanwhile[r] # "none" /\ wait[r] = "open")
    BY <1>7, <2>1, <2>3, UnchangedTold DEF Delivered
  <2> QED  BY <2>2, <2>3
<1>8. CASE Returned(r)
  BY <1>8, UnchangedTold DEF Returned, OthersTyped
<1> QED  BY <1>1, <1>2, <1>3, <1>4, <1>5, <1>6, <1>7, <1>8 DEF SendStep

LEMMA FinishTold ==
  ASSUME TypeOK, ToldInv, NEW r \in Request,
         \/ EndStep(r) \/ TimerFires(r) \/ CancelRequest(r)
         \/ ReplyArrives(r) \/ ReplyHandled(r)
  PROVE  ToldInv'
<1>1. CASE Unsubscribed(r)
  BY <1>1, UnchangedTold DEF Unsubscribed, Done, EndsTyped
<1>2. CASE CallbackReturns(r) \/ ReplyArrives(r)
  BY <1>2, UnchangedTold DEF CallbackReturns, ReplyArrives
<1>3. ASSUME NEW reason, EndWait(r, reason, connection, sending),
             UNCHANGED <<links, step>>
      PROVE  ToldInv'
  BY <1>3, EndWaitTold DEF EndsTyped
<1>4. CASE TimerFires(r) \/ CancelRequest(r)
  BY <1>3, <1>4 DEF TimerFires, CancelRequest
<1>5. CASE ReplyHandled(r)
  BY <1>3, <1>5, UnchangedTold DEF ReplyHandled
<1> QED  BY <1>1, <1>2, <1>4, <1>5 DEF EndStep

LEMMA ToldInvStep == TypeOK /\ EndInv /\ ConnInv /\ ToldInv /\ [Next]_vars => ToldInv'
<1> SUFFICES ASSUME TypeOK, EndInv, ConnInv, ToldInv, [Next]_vars  PROVE ToldInv'
  OBVIOUS
<1>1. CASE UNCHANGED vars
  BY <1>1, UnchangedTold DEF vars
<1>2. ASSUME NEW t \in Task, SendFails(t)  PROVE ToldInv'
  BY <1>2, FailTold DEF SendFails, EndsTyped
<1> QED  BY <1>1, <1>2, ConnTold, CloseTold, SendTold, FinishTold DEF Next

-----------------------------------------------------------------------------
(* What close() or an error handler marks is done by send_request. *)
MarksAreHeeded ==
  \A r \in Request :
    /\ step[r] = "returned" /\ wait[r] = "open" => meanwhile[r] = "none"
    /\ sentOn[r] # NoConn => step[r] \notin {"none", "subscribing"}
    /\ step[r] \in {"publishing", "delivering"} => sentOn[r] # NoConn
    /\ step[r] = "returned" /\ wait[r] = "open" => sentOn[r] # NoConn

(* Who waits on a connection that is gone, is marked or left to somebody. *)
Cared ==
  \A r \in Request \ during.requests :
    /\ wait[r] = "open" /\ sentOn[r] \notin {NoConn, connection} =>
         meanwhile[r] # "none" \/ \E p \in Sweeper : r \in sweep[p].left
    /\ wait[r] = "open" /\ closing # "no" =>
         meanwhile[r] # "none" \/ r \in sweep[Closer].left

(* Only while it ends waits has close() a list of them. *)
SweepsEnd ==
  closing # "ending" => sweep[Closer] = [left |-> {}, at |-> NoRequest]

WaitInv == MarksAreHeeded /\ Cared /\ SweepsEnd

LEMMA InitWait == Init => WaitInv
BY DEF Init, WaitInv, MarksAreHeeded, Cared, SweepsEnd, Sweeper

LEMMA UnchangedWait ==
  ASSUME WaitInv, UNCHANGED <<step, sentOn, wait, meanwhile, sweep, connection,
                              closing, during>>
  PROVE  WaitInv'
BY DEF WaitInv, MarksAreHeeded, Cared, SweepsEnd

(* Steps that neither begin a wait nor end a loop. *)
LEMMA ProgressWait ==
  ASSUME TypeOK, WaitInv, UNCHANGED <<meanwhile, sweep, closing, during>>,
         \A r \in Request : wait'[r] = "open" => wait[r] = "open",
         \/ UNCHANGED connection
         \/ connection = NoConn,
         \/ UNCHANGED sends
         \/ \E r \in Request, s \in {"delivering", "undoing", "ending", "returned",
                                    "raised"} :
              /\ step' = [step EXCEPT ![r] = s] /\ sentOn' = sentOn
              /\ step[r] \notin {"none", "subscribing"} \/ (s = "raised" /\ sentOn[r] = NoConn)
              /\ s = "delivering" => step[r] = "publishing"
              /\ s = "returned" /\ wait'[r] = "open" =>
                   step[r] = "delivering" /\ meanwhile[r] = "none"
  PROVE  WaitInv'
<1>1. MarksAreHeeded'
  <2>1. CASE UNCHANGED sends
    BY <2>1 DEF WaitInv, MarksAreHeeded
  <2>2. ASSUME NEW r \in Request,
               NEW s \in {"delivering", "undoing", "ending", "returned", "raised"},
               step' = [step EXCEPT ![r] = s], sentOn' = sentOn,
               step[r] \notin {"none", "subscribing"} \/ (s = "raised" /\ sentOn[r] = NoConn),
               s = "delivering" => step[r] = "publishing",
               s = "returned" /\ wait'[r] = "open" =>
                 step[r] = "delivering" /\ meanwhile[r] = "none"
        PROVE  MarksAreHeeded'
    BY <2>2 DEF WaitInv, MarksAreHeeded, OthersTyped
  <2> QED  BY <2>1, <2>2
<1>2. sentOn' = sentOn
  OBVIOUS
<1>3. Cared' /\ SweepsEnd'
  BY <1>2 DEF WaitInv, Cared, SweepsEnd, OthersTyped
<1> QED  BY <1>1, <1>3 DEF WaitInv

(* Whatever a loop has in its list when it goes on is ended, marked or left. *)
LEMMA SweepCares ==
  ASSUME TypeOK, WaitInv, NEW p \in Sweeper, NEW S \in SUBSET Request,
         NEW status \in {"closed", "connection_lost"}, NEW c, NEW phases,
         SweepOn(p, S, status, c, sending, phases), UNCHANGED sends
  PROVE  /\ MarksAreHeeded'
         /\ \A r \in Request : wait'[r] = "open" => wait[r] = "open"
         /\ \A r \in Request : meanwhile[r] # "none" => meanwhile'[r] # "none"
         /\ \A r \in S : wait'[r] = "open" =>
              meanwhile'[r] # "none" \/ r \in sweep'[p].left
         /\ \A q \in Sweeper \ {p} : sweep'[q] = sweep[q]
         /\ SweepEnds(p, S, status) => sweep'[p] = [left |-> {}, at |-> NoRequest]
<1>1. CASE SweepEnds(p, S, status)
  <2>1. meanwhile' = [r \in Request |-> IF r \in S /\ wait[r] = "open" THEN status
                                                              ELSE meanwhile[r]]
    BY <1>1 DEF SweepEnds, Marked
  <2>2. MarksAreHeeded'
    BY <1>1, <2>1 DEF SweepEnds, Sending, WaitInv, MarksAreHeeded
  <2>3. \A q \in Sweeper \ {p} : sweep'[q] = sweep[q]
    BY <1>1 DEF SweepEnds, SweepsTyped
  <2>4. sweep'[p] = [left |-> {}, at |-> NoRequest]
    BY <1>1 DEF SweepEnds, SweepsTyped
  <2> QED  BY <1>1, <2>1, <2>2, <2>3, <2>4 DEF SweepEnds
<1>2. ASSUME NEW n \in Request, SweepGoesTo(p, S, status, c, n),
             ~ SweepEnds(p, S, status)
      PROVE  /\ MarksAreHeeded'
             /\ \A r \in Request : wait'[r] = "open" => wait[r] = "open"
             /\ \A r \in Request : meanwhile[r] # "none" => meanwhile'[r] # "none"
             /\ \A r \in S : wait'[r] = "open" =>
                  meanwhile'[r] # "none" \/ r \in sweep'[p].left
             /\ \A q \in Sweeper \ {p} : sweep'[q] = sweep[q]
  <2>1. meanwhile' = [r \in Request |->
                        IF r \in S /\ r < n /\ wait[r] = "open" THEN status
                                                              ELSE meanwhile[r]]
    BY <1>2 DEF SweepGoesTo, Marked
  <2>2. /\ \A r \in Request : wait'[r] = "open" => wait[r] = "open"
        /\ wait'[n] # "open"
    BY <1>2 DEF SweepGoesTo, EndWait, EndsTyped, Status
  <2>3. MarksAreHeeded'
    BY <1>2, <2>1, <2>2 DEF SweepGoesTo, Sending, WaitInv, MarksAreHeeded
  <2>4. \A q \in Sweeper \ {p} : sweep'[q] = sweep[q]
    BY <1>2 DEF SweepGoesTo, SweepsTyped
  <2>5. sweep'[p].left = { k \in S : k > n }
    BY <1>2 DEF SweepGoesTo, SweepsTyped
  <2>6. \A r \in S : r = n \/ r < n \/ r > n
    BY Numbers
  <2>7. \A r \in S : wait'[r] = "open" =>
          meanwhile'[r] # "none" \/ r \in sweep'[p].left
    BY <2>1, <2>2, <2>5, <2>6
  <2> QED  BY <2>1, <2>2, <2>3, <2>4, <2>7
<1> QED  BY <1>1, <1>2, SweepCases

(* close() is ending waits still, or has come to the end of its list. *)
LEMMA SweepCloses ==
  ASSUME TypeOK, NEW S \in SUBSET Request, NEW status, NEW c, NEW phases,
         SweepOn(Closer, S, status, c, sending, phases)
  PROVE  closing' = "ending" \/ SweepEnds(Closer, S, status)
BY DEF SweepOn, SweepEnds

LEMMA SweepNextWait ==
  ASSUME TypeOK, WaitInv, NEW p \in Sweeper, SweepNext(p)
  PROVE  WaitInv'
<1> DEFINE S == sweep[p].left
           status == IF p = Closer THEN "closed" ELSE "connection_lost"
<1>1. /\ S \in SUBSET Request /\ status \in {"closed", "connection_lost"}
      /\ SweepOn(p, S, status, connection, sending, phase)
      /\ UNCHANGED <<sends, connection, during>> /\ sweep[p].at # NoRequest
  BY DEF SweepNext, SweepsTyped
<1> HIDE DEF status
<1>2. /\ MarksAreHeeded'
      /\ \A r \in Request : wait'[r] = "open" => wait[r] = "open"
      /\ \A r \in Request : meanwhile[r] # "none" => meanwhile'[r] # "none"
      /\ \A r \in S : wait'[r] = "open" =>
           meanwhile'[r] # "none" \/ r \in sweep'[p].left
      /\ \A q \in Sweeper \ {p} : sweep'[q] = sweep[q]
      /\ SweepEnds(p, S, status) => sweep'[p] = [left |-> {}, at |-> NoRequest]
  BY <1>1, SweepCares
<1>3. p # Closer => closing' = closing
  BY <1>1 DEF SweepOn
<1>4. p = Closer =>
        closing = "ending" /\ (closing' = "ending" \/ SweepEnds(p, S, status))
  BY <1>1, SweepCloses DEF WaitInv, SweepsEnd
<1>5. Closer \in Sweeper
  BY DEF Sweeper
<1>6. ASSUME NEW r \in Request \ during.requests, wait'[r] = "open"
      PROVE  /\ sentOn[r] \notin {NoConn, connection} =>
                  \/ meanwhile'[r] # "none"
                  \/ \E q \in Sweeper : r \in sweep'[q].left
             /\ closing' # "no" =>
                  meanwhile'[r] # "none" \/ r \in sweep'[Closer].left
  <2>1. /\ sentOn[r] \notin {NoConn, connection} =>
             meanwhile[r] # "none" \/ \E q \in Sweeper : r \in sweep[q].left
        /\ closing # "no" => meanwhile[r] # "none" \/ r \in sweep[Closer].left
    BY <1>2, <1>6 DEF WaitInv, Cared
  <2>2. \A q \in Sweeper : r \in sweep[q].left =>
          meanwhile'[r] # "none" \/ r \in sweep'[q].left
    BY <1>2, <1>6
  <2> QED  BY <1>2, <1>3, <1>4, <1>5, <2>1, <2>2
<1>7. Cared'
  BY <1>1, <1>6 DEF Cared
<1>8. SweepsEnd'
  BY <1>2, <1>3, <1>4, <1>5 DEF WaitInv, SweepsEnd
<1> QED  BY <1>2, <1>7, <1>8 DEF WaitInv

(* A new loop has every request that waits in its list. *)
LEMMA StartSweepWait ==
  ASSUME TypeOK, WaitInv, NEW p \in Sweeper,
         NEW status \in {"closed", "connection_lost"}, NEW c, NEW phases,
         SweepOn(p, Pending, status, c, sending, phases), UNCHANGED <<sends, during>>
  PROVE  WaitInv'
<1>0. Pending \in SUBSET Request /\ Closer \in Sweeper
  BY DEF Pending, Sweeper
<1>1. /\ MarksAreHeeded'
      /\ \A r \in Request : wait'[r] = "open" => wait[r] = "open"
      /\ \A r \in Request : meanwhile[r] # "none" => meanwhile'[r] # "none"
      /\ \A r \in Pending : wait'[r] = "open" =>
           meanwhile'[r] # "none" \/ r \in sweep'[p].left
      /\ \A q \in Sweeper \ {p} : sweep'[q] = sweep[q]
      /\ SweepEnds(p, Pending, status) => sweep'[p] = [left |-> {}, at |-> NoRequest]
  BY <1>0, SweepCares
<1>2. p # Closer => closing' = closing
  BY DEF SweepOn
<1>3. p = Closer => closing' = "ending" \/ SweepEnds(p, Pending, status)
  BY <1>0, SweepCloses
<1>4. \A r \in Request : wait'[r] = "open" =>
        meanwhile'[r] # "none" \/ r \in sweep'[p].left
  BY <1>1 DEF Pending
<1>5. Cared'
  <2>1. CASE p = Closer
    BY <1>0, <1>4, <2>1 DEF Cared
  <2>2. CASE p # Closer
    BY <1>0, <1>1, <1>2, <1>4, <2>2 DEF WaitInv, Cared
  <2> QED  BY <2>1, <2>2
<1>6. SweepsEnd'
  BY <1>0, <1>1, <1>2, <1>3 DEF WaitInv, SweepsEnd
<1> QED  BY <1>1, <1>5, <1>6 DEF WaitInv

LEMMA ConnWait ==
  ASSUME TypeOK, WaitInv, NEW c \in Conn, Connect(c) \/ ConnStep(c) \/ ReceiveFails(c)
  PROVE  WaitInv'
<1>1. CASE SweepNext(c)
  BY <1>1, SweepNextWait DEF Sweeper
<1>2. CASE ReceiveFails(c)
  BY <1>2, StartSweepWait DEF ReceiveFails, Fail, Sweeper
<1>3. CASE Opened(c)
  <2>1. during'.requests = during.requests
    BY <1>3 DEF Opened, OthersTyped
  <2>2. /\ UNCHANGED <<step, sentOn, wait, meanwhile, sweep, closing>>
        /\ connection' = connection \/ connection = NoConn
    BY <1>3 DEF Opened
  <2> QED  BY <2>1, <2>2 DEF WaitInv, MarksAreHeeded, Cared, SweepsEnd
<1>4. CASE Connect(c) \/ OpenFails(c) \/ Resent(c) \/ FailureReported(c)
  BY <1>4, UnchangedWait DEF Connect, OpenFails, Resent, FailureReported
<1> QED  BY <1>1, <1>2, <1>3, <1>4 DEF ConnStep

LEMMA CloseWait ==
  ASSUME TypeOK, WaitInv, Close \/ SweepNext(Closer) \/ Closed
  PROVE  WaitInv'
<1>1. CASE Close
  BY <1>1, StartSweepWait DEF Close, Sweeper
<1>2. CASE SweepNext(Closer)
  BY <1>2, SweepNextWait DEF Sweeper
<1>3. CASE Closed
  BY <1>3
  DEF Closed, WaitInv, MarksAreHeeded, Cared, SweepsEnd, Sweeper
<1> QED  BY <1>1, <1>2, <1>3

LEMMA SendWait ==
  ASSUME TypeOK, EndInv, WaitInv, NEW r \in Request, SendRequest(r) \/ SendStep(r)
  PROVE  WaitInv'
<1>1. CASE SendRequest(r)
  <2>1. /\ sentOn[r] = NoConn
        /\ during.requests \subseteq during'.requests
        /\ closing # "no" => r \in during'.requests
    BY <1>1 DEF SendRequest, WaitInv, MarksAreHeeded, OthersTyped
  <2>2. /\ \E s \in {"raised", "subscribing"} : step' = [step EXCEPT ![r] = s]
        /\ \E w : wait' = [wait EXCEPT ![r] = w]
        /\ UNCHANGED <<connection, sentOn, meanwhile, sweep, closing>>
    BY <1>1 DEF SendRequest
  <2>3. MarksAreHeeded'
    BY <2>1, <2>2 DEF WaitInv, MarksAreHeeded, OthersTyped, EndsTyped
  <2>4. Cared'
    BY <2>1, <2>2 DEF WaitInv, Cared, EndsTyped
  <2>5. SweepsEnd'
    BY <2>2 DEF WaitInv, SweepsEnd
  <2> QED  BY <2>3, <2>4, <2>5 DEF WaitInv
<1>2. CASE Subscribed(r)
  <2>1. step[r] = "subscribing" /\ sentOn[r] = NoConn
    BY <1>2 DEF Subscribed, WaitInv, MarksAreHeeded, LinksTyped, OthersTyped
  <2>2. CASE connection = NoConn
    <3>1. step' = [step EXCEPT ![r] = "raised"]
      BY <1>2, <2>2 DEF Subscribed
    <3>2. \A k \in Request : wait'[k] = "open" => wait[k] = "open"
      BY <1>2, <2>2 DEF Subscribed, EndWait, EndsTyped, Status
    <3> QED  BY <1>2, <2>1, <2>2, <3>1, <3>2, ProgressWait DEF Subscribed
  <2>3. CASE connection # NoConn
    <3>1. /\ step' = [step EXCEPT ![r] = "publishing"]
          /\ sentOn' = [sentOn EXCEPT ![r] = connection]
          /\ UNCHANGED <<connection, wait, meanwhile, sweep, closing, during>>
      BY <1>2, <2>3 DEF Subscribed
    <3>2. MarksAreHeeded'
      BY <2>3, <3>1 DEF WaitInv, MarksAreHeeded, OthersTyped
    <3>3. Cared'
      BY <3>1 DEF WaitInv, Cared, OthersTyped
    <3>4. SweepsEnd'
      BY <3>1 DEF WaitInv, SweepsEnd
    <3> QED  BY <3>2, <3>3, <3>4 DEF WaitInv
  <2> QED  BY <2>2, <2>3
<1>3. CASE SubscribeFailed(r)
  <2>1. step' = [step EXCEPT ![r] = "raised"] /\ sentOn[r] = NoConn
    BY <1>3 DEF SubscribeFailed, WaitInv, MarksAreHeeded
  <2>2. \A k \in Request : wait'[k] = "open" => wait[k] = "open"
    BY <1>3 DEF SubscribeFailed, EndsTyped
  <2> QED  BY <1>3, <2>1, <2>2, ProgressWait DEF SubscribeFailed
<1>4. CASE Published(r)
  BY <1>4, ProgressWait DEF Published
<1>5. CASE PublishFailed(r)
  <2>1. \A k \in Request : wait'[k] = "open" => wait[k] = "open"
    BY <1>5 DEF PublishFailed, EndWait, EndsTyped, Status
  <2>2. step[r] = "publishing" /\ \E s \in {"undoing", "raised"} :
          step' = [step EXCEPT ![r] = s]
    BY <1>5 DEF PublishFailed
  <2> QED  BY <1>5, <2>1, <2>2, ProgressWait DEF PublishFailed
<1>6. CASE Undone(r)
  BY <1>6, ProgressWait DEF Undone
<1>7. CASE Delivered(r)
  <2>1. \A k \in Request : wait'[k] = "open" => wait[k] = "open"
    BY <1>7 DEF Delivered, EndWait, EndsTyped, Status
  <2>2. CASE meanwhile[r] # "none" /\ wait[r] = "open"
    BY <1>7, <2>1, <2>2, ProgressWait DEF Delivered
  <2>3. CASE ~ (meanwhile[r] # "none" /\ wait[r] = "open")
    BY <1>7, <2>1, <2>3, ProgressWait DEF Delivered
  <2> QED  BY <2>2, <2>3
<1>8. CASE Returned(r)
  BY <1>8, ProgressWait DEF Returned
<1> QED  BY <1>1, <1>2, <1>3, <1>4, <1>5, <1>6, <1>7, <1>8 DEF SendStep

LEMMA FinishWait ==
  ASSUME TypeOK, WaitInv, NEW r \in Request,
         \/ EndStep(r) \/ TimerFires(r) \/ CancelRequest(r)
         \/ ReplyArrives(r) \/ ReplyHandled(r)
  PROVE  WaitInv'
<1>1. \A k \in Request : wait'[k] = "open" => wait[k] = "open"
  <2>1. CASE EndStep(r)
    BY <2>1 DEF EndStep, Unsubscribed, CallbackReturns, EndsTyped
  <2>2. ASSUME NEW reason, EndWait(r, reason, connection, sending)
        PROVE  \A k \in Request : wait'[k] = "open" => wait[k] = "open"
    BY <2>2 DEF EndWait, EndsTyped
  <2>3. CASE TimerFires(r) \/ CancelRequest(r) \/ ReplyHandled(r)
    BY <2>2, <2>3 DEF TimerFires, CancelRequest, ReplyHandled
  <2>4. CASE ReplyArrives(r)
    BY <2>4 DEF ReplyArrives
  <2> QED  BY <2>1, <2>3, <2>4
<1>2. UNCHANGED <<connection, sends, meanwhile, sweep, closing, during>>
  BY DEF EndStep, Unsubscribed, CallbackReturns, TimerFires, CancelRequest,
         ReplyArrives, ReplyHandled
<1> QED  BY <1>1, <1>2, ProgressWait

LEMMA WaitInvStep == TypeOK /\ EndInv /\ WaitInv /\ [Next]_vars => WaitInv'
<1> SUFFICES ASSUME TypeOK, EndInv, WaitInv, [Next]_vars  PROVE WaitInv'
  OBVIOUS
<1>1. CASE UNCHANGED vars
  BY <1>1, UnchangedWait DEF vars
<1>2. ASSUME NEW t \in Task, SendFails(t)  PROVE WaitInv'
  BY <1>2, StartSweepWait DEF SendFails, Fail, EndsTyped, Sweeper
<1> QED  BY <1>1, <1>2, ConnWait, CloseWait, SendWait, FinishWait DEF Next

-----------------------------------------------------------------------------
(* The variables keep their types; in particular only requests with a timeout
   have a timer. *)
THEOREM TypeCorrect == Spec => []TypeOK
<1> HIDE DEF TypeOK
<1> QED  BY EndInvariant, PTL

(* Whoever ends the wait of a request, and in whatever order, its callback is
   called with the reason at most once, and not with one that send_request has
   raised for. *)
THEOREM ReportedOnce == Spec => []NotReportedTwice
<1>1. TypeOK /\ EndInv => NotReportedTwice
  BY DEF EndInv, SaidExactly, ReasonsMatch, NotReportedTwice
<1> HIDE DEF TypeOK
<1> QED  BY <1>1, EndInvariant, PTL

(* Each wait is one of RequestWait, up to its fairness: it begins, is answered
   and ends once, for one reason, which is said once if it is a status. *)
THEOREM WaitsImplemented == Spec => Waits!Init /\ [][Waits!Next]_(Waits!vars)
<1> HIDE DEF TypeOK
<1> QED  BY WaitsInit, WaitsStep, EndInvariant, PTL DEF Spec

LEMMA Invariant == Spec => [](TypeOK /\ EndInv /\ ConnInv /\ ToldInv /\ WaitInv)
<1> HIDE DEF TypeOK
<1> QED
  BY InitType, InitEnd, InitConn, InitTold, InitWait,
     TypeStep, EndInvStep, ConnInvStep, ToldInvStep, WaitInvStep, PTL DEF Spec

(* At most one connection is open at a time, unless it was made while the client
   was being closed. *)
THEOREM OneConnectionOpen == Spec => []OneConnection
<1>1. ConnInv => OneConnection
  BY DEF ConnInv
<1> QED  BY <1>1, Invariant, PTL

(* Once connect() has returned, the node knows what is registered, whatever was
   subscribed, unsubscribed or lost while it was sent again. *)
THEOREM NodeIsTold == Spec => []RegistrationsTold
<1>1. ToldInv => RegistrationsTold
  BY DEF ToldInv, Resending, RegistrationsTold
<1> QED  BY <1>1, Invariant, PTL

(* No request waits for a connection that is gone, unless it was sent while the
   client was being closed. *)
THEOREM NoneWaitsInVain == Spec => []NoneLeftWaiting
<1>1. TypeOK /\ WaitInv => NoneLeftWaiting
  BY DEF WaitInv, MarksAreHeeded, Cared, NoneLeftWaiting, LeftWaiting, OthersTyped
<1> HIDE DEF TypeOK
<1> QED  BY <1>1, Invariant, PTL
=============================================================================
