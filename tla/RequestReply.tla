----------------------------- MODULE RequestReply -----------------------------
(***************************************************************************)
(* The requests of one RequestReplyClient (request_reply.py), with the      *)
(* registrations of its PubSubClient (pubsub.py) and the connection of its  *)
(* BaseLayerClient (client.py).                                             *)
(*                                                                         *)
(* The client is one asyncio thread, and many tasks: callers of its         *)
(* operations, timers, the receive loop.  A task suspends where it sends to *)
(* the node (BaseLayerClient.send awaits the frame being taken), awaits a   *)
(* callback of the user, or closes a connection; what it does in between is *)
(* one action.  While a callback of the user is awaited anything may be     *)
(* called, also by that callback.  Frames reach the node in the order of    *)
(* the calls of send.                                                       *)
(*                                                                         *)
(* Requests and connections are numbered in the order in which the client   *)
(* starts them.  A request's reply subject is the request itself.  Left     *)
(* out: acceptors (see Acceptors), callers that cancel their own task, and  *)
(* that the receive loop does nothing else while a callback runs in it (so  *)
(* that here more can happen meanwhile; a callback that is cancelled never  *)
(* returns).                                                                *)
(***************************************************************************)
EXTENDS Naturals, FiniteSets

CONSTANTS
  Requests,     \* how many requests are sent, at most
  Conns,        \* how often the client connects, at most
  WithTimeout,  \* the requests whose timeout is not 0
  MaxFailures,  \* bound: how many connections fail on their own
  MaxReplies,   \* bound: how many replies the requests get
  MaxCloses     \* bound: how often the client is closed

Request == 1 .. Requests
Conn == 1 .. Conns
NoConn == 0

ASSUME RequestAssumption ==
  Requests \in Nat /\ Conns \in Nat /\ WithTimeout \subseteq Request
ASSUME RequestBoundsAssumption ==
  MaxFailures \in Nat /\ MaxReplies \in Nat /\ MaxCloses \in Nat

Status == {"timed_out", "closed", "connection_lost"}
Reason == Status \cup {"replied", "cancelled", "failed"}

(* What awaits a frame being taken: Send Request of a request, the end of its
   wait (whichever task runs it), connect(). *)
Task == ({"send", "end"} \X Request) \cup ({"connect"} \X Conn)
NoTask == <<"receive_loop", 0>>

(* Who ends the waits of a list of requests, one after another: close() is 0,
   the error handler of a connection is that connection. *)
Closer == 0
Sweeper == {Closer} \cup Conn
NoRequest == 0

VARIABLES
  connection,  \* BaseLayerClient.connection
  phase,       \* phase[c]: what has become of connection c
  reporter,    \* reporter[c]: the task that reports the failure of c
  told,        \* told[c]: what the node knows as subscribed by c
  registered,  \* keys of PubSubClient._subscribe_callbacks
  resending,   \* resending[c]: subjects connect() has still to send again
  sending,     \* sending[t]: the connection on which a frame of t is under way
  step,        \* step[r]: progress of send_request
  sentOn,      \* history: sentOn[r]: the connection it was published on
  wait,        \* wait[r]: "open" while in _requests, then the steps of its end
  why,         \* why[r]: the reason of the end
  timers,      \* the requests whose timer runs
  meanwhile,   \* _PendingRequest.closed_meanwhile
  sweep,       \* sweep[p]: the requests left to p, and the one it is ending
  closing,     \* progress of close(): "no", "ending", then "flushing"
  flushed,     \* the connection that close() is closing
  replying,    \* the requests whose callback is handling a reply
  answers,     \* counter of the bound: how many replies have come
  said,        \* history: how often it was called with the reason, and returned
  during,      \* history: requests and connections started during a close()
  failures, closes  \* counters of the bounds

vars == <<connection, phase, reporter, told, registered, resending, sending,
          step, sentOn, wait, why, timers, meanwhile, sweep, closing, flushed,
          replying, answers, said, during, failures, closes>>
replies == <<replying, answers, said>>
sends == <<step, sentOn>>
sweeps == <<meanwhile, sweep, closing, flushed>>
ends == <<wait, why, timers, registered, told, sending>>
links == <<connection, phase, reporter, resending, failures>>

Smallest(S) == CHOOSE r \in S : \A k \in S : r <= k

-----------------------------------------------------------------------------
(* Parts of actions.  "c" is the connection of the client at that moment, and
   "frames" what is under way besides the frame that is sent.              *)

(* Mutant of Sending: close() and error handlers do not look at it. *)
SendingIgnored(r) == FALSE

(* _PendingRequest.sending: Send Request has not returned yet. *)
Sending(r) == step[r] \in {"subscribing", "publishing", "delivering", "undoing"}

Pending == { r \in Request : wait[r] = "open" }

(* _end_wait, up to where the node has been told to unsubscribe; it is not when
   the client is not connected, or when r is not registered any more.  Then
   _end_without_reply goes on to the callback. *)
EndWait(r, reason, c, frames) ==
  LET tell == r \in registered /\ c # NoConn
  IN /\ wait' = [wait EXCEPT ![r] = IF tell THEN "telling"
                                    ELSE IF reason \in Status THEN "calling"
                                    ELSE "over"]
     /\ why' = [why EXCEPT ![r] = reason]
     /\ timers' = timers \ {r}
     /\ registered' = registered \ {r}
     /\ IF tell
        THEN /\ sending' = [frames EXCEPT ![<<"end", r>>] = c]
             /\ told' = [told EXCEPT ![c] = @ \ {r}]
        ELSE sending' = frames /\ UNCHANGED told

(* Requests that _end_all_without_reply passes over, when it has S left and
   goes on to the next that it ends. *)
Marked(S, status) ==
  [r \in Request |-> IF r \in S /\ wait[r] = "open" THEN status
                                                    ELSE meanwhile[r]]

(* The loop of _end_all_without_reply from S on, up to its next await; close()
   then goes on to close the connection. *)
SweepOn(p, S, status, c, frames, phases) ==
  LET live == { r \in S : wait[r] = "open" /\ ~ Sending(r) }
      next == Smallest(live)
      last == p = Closer /\ live = {}
      flush == last /\ c # NoConn
  IN /\ IF live = {}
        THEN /\ meanwhile' = Marked(S, status)
             /\ sweep' = [sweep EXCEPT ![p] = [left |-> {}, at |-> NoRequest]]
             /\ UNCHANGED <<wait, why, timers, registered, told>>
             /\ sending' = frames
        ELSE /\ meanwhile' = Marked({ r \in S : r < next }, status)
             /\ sweep' = [sweep EXCEPT ![p] =
                            [left |-> { r \in S : r > next }, at |-> next]]
             /\ EndWait(next, status, c, frames)
     /\ phase' = IF flush THEN [phases EXCEPT ![c] = "closing"] ELSE phases
     /\ flushed' = IF flush THEN c ELSE flushed
     /\ closing' = IF p # Closer THEN closing
                   ELSE IF flush THEN "flushing"
                   ELSE IF last THEN "no" ELSE "ending"

(* A frame of t has been taken; *)
Taken(t) == sending[t] # NoConn /\ phase[sending[t]] \in {"open", "closing"}

(* it is not going to be, and the failure of the connection was reported. *)
Failed(t) ==
  LET c == sending[t]
  IN /\ c # NoConn
     /\ connection # c
     /\ phase[c] \notin {"open", "closing"}
     /\ reporter[c] = t => phase[c] = "lost"

Done(t) == [sending EXCEPT ![t] = NoConn]

-----------------------------------------------------------------------------
Init ==
  /\ connection = NoConn
  /\ phase = [c \in Conn |-> "new"]
  /\ reporter = [c \in Conn |-> NoTask]
  /\ told = [c \in Conn |-> {}]
  /\ registered = {}
  /\ resending = [c \in Conn |-> {}]
  /\ sending = [t \in Task |-> NoConn]
  /\ step = [r \in Request |-> "none"]
  /\ sentOn = [r \in Request |-> NoConn]
  /\ wait = [r \in Request |-> "none"]
  /\ why = [r \in Request |-> "none"]
  /\ timers = {}
  /\ meanwhile = [r \in Request |-> "none"]
  /\ sweep = [p \in Sweeper |-> [left |-> {}, at |-> NoRequest]]
  /\ closing = "no" /\ flushed = NoConn
  /\ replying = {} /\ answers = 0
  /\ said = [r \in Request |-> 0]
  /\ during = [requests |-> {}, conns |-> {}]
  /\ failures = 0 /\ closes = 0

-----------------------------------------------------------------------------
(* The connection: connect, failures, close.                               *)

(* connect() of a client that is not connected. *)
Connect(c) ==
  /\ connection = NoConn
  /\ phase[c] = "new" /\ \A k \in Conn : k < c => phase[k] # "new"
  /\ phase' = [phase EXCEPT ![c] = "opening"]
  /\ UNCHANGED <<connection, reporter, resending, failures, ends, sends, sweeps,
                 replies, during, closes>>

(* Mutant of ResendFrom: what is not registered any more is sent again. *)
ResendAllFrom(c, S, now, frames) ==
  LET next == Smallest(S)
  IN IF S = {} \/ now = NoConn
     THEN /\ resending' = [resending EXCEPT ![c] = {}]
          /\ sending' = frames
          /\ UNCHANGED told
     ELSE /\ resending' = [resending EXCEPT ![c] = { r \in S : r > next }]
          /\ sending' = [frames EXCEPT ![<<"connect", c>>] = now]
          /\ told' = [told EXCEPT ![now] = @ \cup {next}]

(* The loop of PubSubClient.connect from S on: the next subject that is still
   registered is sent on the connection that the client has, if any. *)
ResendFrom(c, S, now, frames) ==
  LET left == S \cap registered
      next == Smallest(left)
  IN IF left = {} \/ now = NoConn
     THEN /\ resending' = [resending EXCEPT ![c] = {}]
          /\ sending' = frames
          /\ UNCHANGED told
     ELSE /\ resending' = [resending EXCEPT ![c] = { r \in S : r > next }]
          /\ sending' = [frames EXCEPT ![<<"connect", c>>] = now]
          /\ told' = [told EXCEPT ![now] = @ \cup {next}]

(* Mutant of Opened: connect() does not look again. *)
OpenedAnyway(c) ==
  /\ phase[c] = "opening"
  /\ connection' = c
  /\ phase' = [phase EXCEPT ![c] = "open"]
  /\ ResendFrom(c, registered, c, sending)
  /\ during' = IF closing = "no" THEN during
               ELSE [during EXCEPT !.conns = @ \cup {c}]
  /\ UNCHANGED <<reporter, failures, registered, wait, why, timers, sends,
                 sweeps, replies, closes>>

(* The TCP connection is made; another connect() may have been faster. *)
Opened(c) ==
  /\ phase[c] = "opening"
  /\ IF connection = NoConn
     THEN /\ connection' = c
          /\ phase' = [phase EXCEPT ![c] = "open"]
          /\ ResendFrom(c, registered, c, sending)
     ELSE /\ phase' = [phase EXCEPT ![c] = "lost"]
          /\ UNCHANGED <<connection, resending, sending, told>>
  /\ during' = IF closing = "no" THEN during
               ELSE [during EXCEPT !.conns = @ \cup {c}]
  /\ UNCHANGED <<reporter, failures, registered, wait, why, timers, sends,
                 sweeps, replies, closes>>

(* The TCP connection cannot be made. *)
OpenFails(c) ==
  /\ phase[c] = "opening"
  /\ phase' = [phase EXCEPT ![c] = "lost"]
  /\ UNCHANGED <<connection, reporter, resending, failures, ends, sends, sweeps,
                 replies, during, closes>>

(* One subject has been sent again, or could not be. *)
Resent(c) ==
  LET t == <<"connect", c>>
  IN /\ \/ Taken(t) /\ ResendFrom(c, resending[c], connection, Done(t))
        \/ /\ Failed(t)
           /\ resending' = [resending EXCEPT ![c] = {}]
           /\ sending' = Done(t)
           /\ UNCHANGED told
     /\ UNCHANGED <<connection, phase, reporter, failures, registered, wait,
                    why, timers, sends, sweeps, replies, during, closes>>

(* _handle_connection_error: the client forgets c, and ends the waits of all
   requests before it calls the user's error callback. *)
Fail(c, t) ==
  /\ connection = c
  /\ connection' = NoConn
  /\ reporter' = [reporter EXCEPT ![c] = t]
  /\ SweepOn(c, Pending, "connection_lost", NoConn, sending,
             [phase EXCEPT ![c] = "failing"])
  /\ UNCHANGED <<resending, sends, replies, during, closes>>

(* The receive loop finds that c has failed, ... *)
ReceiveFails(c) ==
  /\ phase[c] = "open"
  /\ failures < MaxFailures
  /\ failures' = failures + 1
  /\ Fail(c, NoTask)

(* ... or a send does: for too long, or on a connection being closed. *)
SendFails(t) ==
  /\ sending[t] # NoConn
  /\ \/ phase[sending[t]] = "open" /\ failures < MaxFailures
        /\ failures' = failures + 1
     \/ phase[sending[t]] = "closing" /\ UNCHANGED failures
  /\ Fail(sending[t], t)

(* The user's error callback has returned; the connection is closed. *)
FailureReported(c) ==
  /\ phase[c] = "failing"
  /\ sweep[c] = [left |-> {}, at |-> NoRequest]
  /\ phase' = [phase EXCEPT ![c] = "lost"]
  /\ reporter' = [reporter EXCEPT ![c] = NoTask]
  /\ told' = [told EXCEPT ![c] = {}]
  /\ UNCHANGED <<connection, resending, failures, registered, sending, wait,
                 why, timers, sends, sweeps, replies, during, closes>>

(* close(): the waits first. *)
Close ==
  /\ closing = "no" /\ closes < MaxCloses
  /\ closes' = closes + 1
  /\ SweepOn(Closer, Pending, "closed", connection, sending, phase)
  /\ UNCHANGED <<connection, reporter, resending, failures, sends, replies,
                 during>>

(* The wait that p was ending is over: its loop goes on. *)
SweepNext(p) ==
  /\ sweep[p].at # NoRequest
  /\ wait[sweep[p].at] = "over"
  /\ SweepOn(p, sweep[p].left,
             IF p = Closer THEN "closed" ELSE "connection_lost",
             connection, sending, phase)
  /\ UNCHANGED <<connection, reporter, resending, failures, sends, replies,
                 during, closes>>

(* The end of BaseLayerClient.close: the connection has been flushed, or too
   much time has passed. *)
Closed ==
  /\ closing = "flushing"
  /\ closing' = "no"
  /\ connection' = NoConn
  /\ phase' = [phase EXCEPT ![flushed] = IF @ = "closing" THEN "lost" ELSE @]
  /\ told' = [told EXCEPT ![flushed] = {}]
  /\ flushed' = NoConn
  /\ UNCHANGED <<reporter, resending, failures, registered, sending, wait, why,
                 timers, sends, meanwhile, sweep, replies, during, closes>>

-----------------------------------------------------------------------------
(* Requests.                                                               *)

(* send_request, up to its first await; not connected, it has failed. *)
SendRequest(r) ==
  /\ step[r] = "none" /\ \A k \in Request : k < r => step[k] # "none"
  /\ IF connection = NoConn
     THEN /\ step' = [step EXCEPT ![r] = "raised"]
          /\ wait' = [wait EXCEPT ![r] = "over"]
          /\ why' = [why EXCEPT ![r] = "failed"]
          /\ UNCHANGED <<registered, told, sending>>
     ELSE /\ step' = [step EXCEPT ![r] = "subscribing"]
          /\ wait' = [wait EXCEPT ![r] = "open"]
          /\ registered' = registered \cup {r}
          /\ told' = [told EXCEPT ![connection] = @ \cup {r}]
          /\ sending' = [sending EXCEPT ![<<"send", r>>] = connection]
          /\ UNCHANGED why
  /\ during' = IF closing = "no" THEN during
               ELSE [during EXCEPT !.requests = @ \cup {r}]
  /\ UNCHANGED <<sentOn, links, timers, sweeps, replies, closes>>

(* Mutants of Timed: a timeout of 0 counts too; no timer is started. *)
TimedAlways(r) == {r}
TimedNever(r) == {}

(* The timer that send_request starts for r, if any. *)
Timed(r) == {r} \cap WithTimeout

(* The node has been subscribed: the timer starts, and the request is
   published. *)
Subscribed(r) ==
  LET t == <<"send", r>>
  IN /\ step[r] = "subscribing"
     /\ Taken(t)
     /\ IF connection = NoConn
        THEN /\ step' = [step EXCEPT ![r] = "raised"]
             /\ EndWait(r, "failed", NoConn, Done(t))
             /\ UNCHANGED sentOn
        ELSE /\ step' = [step EXCEPT ![r] = "publishing"]
             /\ timers' = timers \cup Timed(r)
             /\ sending' = [sending EXCEPT ![t] = connection]
             /\ sentOn' = [sentOn EXCEPT ![r] = connection]
             /\ UNCHANGED <<wait, why, registered, told>>
     /\ UNCHANGED <<links, sweeps, replies, during, closes>>

(* It could not be: subscribe has removed its callback itself. *)
SubscribeFailed(r) ==
  LET t == <<"send", r>>
  IN /\ step[r] = "subscribing"
     /\ Failed(t)
     /\ step' = [step EXCEPT ![r] = "raised"]
     /\ wait' = [wait EXCEPT ![r] = "over"]
     /\ why' = [why EXCEPT ![r] = "failed"]
     /\ registered' = registered \ {r}
     /\ sending' = Done(t)
     /\ UNCHANGED <<sentOn, told, timers, links, sweeps, replies, during,
                    closes>>

(* The request is published; the client's own acceptors get it now. *)
Published(r) ==
  /\ step[r] = "publishing"
  /\ Taken(<<"send", r>>)
  /\ step' = [step EXCEPT ![r] = "delivering"]
  /\ sending' = Done(<<"send", r>>)
  /\ UNCHANGED <<sentOn, wait, why, timers, registered, told, links, sweeps,
                 replies, during, closes>>

PublishFailed(r) ==
  LET t == <<"send", r>>
  IN /\ step[r] = "publishing"
     /\ Failed(t)
     /\ IF wait[r] = "open"
        THEN /\ EndWait(r, "failed", connection, Done(t))
             /\ step' = [step EXCEPT ![r] =
                           IF connection = NoConn THEN "raised" ELSE "undoing"]
        ELSE /\ step' = [step EXCEPT ![r] = "raised"]
             /\ sending' = Done(t)
             /\ UNCHANGED <<wait, why, timers, registered, told>>
     /\ UNCHANGED <<sentOn, links, sweeps, replies, during, closes>>

(* The failed request is unsubscribed. *)
Undone(r) ==
  /\ step[r] = "undoing" /\ wait[r] = "over"
  /\ step' = [step EXCEPT ![r] = "raised"]
  /\ UNCHANGED <<sentOn, ends, links, sweeps, replies, during, closes>>

(* Mutant of Delivered: closed_meanwhile is not looked at. *)
DeliveredOnly(r) ==
  /\ step[r] = "delivering"
  /\ step' = [step EXCEPT ![r] = "returned"]
  /\ UNCHANGED <<sentOn, ends, links, sweeps, replies, during, closes>>

(* send_request has sent everything; what close() or an error handler left to
   it is done now. *)
Delivered(r) ==
  /\ step[r] = "delivering"
  /\ IF meanwhile[r] # "none" /\ wait[r] = "open"
     THEN /\ step' = [step EXCEPT ![r] = "ending"]
          /\ EndWait(r, meanwhile[r], connection, sending)
     ELSE /\ step' = [step EXCEPT ![r] = "returned"]
          /\ UNCHANGED ends
  /\ UNCHANGED <<sentOn, links, sweeps, replies, during, closes>>

Returned(r) ==
  /\ step[r] = "ending" /\ wait[r] = "over"
  /\ step' = [step EXCEPT ![r] = "returned"]
  /\ UNCHANGED <<sentOn, ends, links, sweeps, replies, during, closes>>

(* The timer of r is over. *)
TimerFires(r) ==
  /\ r \in timers
  /\ EndWait(r, "timed_out", connection, sending)
  /\ UNCHANGED <<links, sends, sweeps, replies, during, closes>>

(* Replies can arrive, and the request is known to whom it has reached. *)
Reachable(r) ==
  \/ step[r] = "delivering"
  \/ /\ step[r] \in {"publishing", "returned"}
     /\ \E c \in Conn : phase[c] = "open" /\ r \in told[c]

CancelRequest(r) ==
  /\ wait[r] = "open"
  /\ step[r] = "returned" \/ Reachable(r)
  /\ EndWait(r, "cancelled", connection, sending)
  /\ UNCHANGED <<links, sends, sweeps, replies, during, closes>>

(* on_reply, up to the return of the callback, ... *)
ReplyArrives(r) ==
  /\ wait[r] = "open" /\ Reachable(r)
  /\ r \notin replying /\ answers < MaxReplies
  /\ replying' = replying \cup {r}
  /\ answers' = answers + 1
  /\ UNCHANGED <<ends, links, sends, sweeps, said, during, closes>>

(* Mutant of ReplyHandled: the wait may have ended while the callback ran. *)
ReplyHandledAnyway(r) ==
  /\ r \in replying
  /\ replying' = replying \ {r}
  /\ EndWait(r, "replied", connection, sending)
  /\ UNCHANGED <<links, sends, sweeps, answers, said, during, closes>>

(* ... and after it: it may have been enough. *)
ReplyHandled(r) ==
  /\ r \in replying
  /\ replying' = replying \ {r}
  /\ \/ wait[r] = "open" /\ EndWait(r, "replied", connection, sending)
     \/ UNCHANGED ends
  /\ UNCHANGED <<links, sends, sweeps, answers, said, during, closes>>

(* The node has been told that r is not subscribed any more, or cannot be; the
   callback is called with the status, if there is one. *)
Unsubscribed(r) ==
  LET t == <<"end", r>>
  IN /\ wait[r] = "telling"
     /\ Taken(t) \/ Failed(t)
     /\ wait' = [wait EXCEPT ![r] =
                   IF why[r] \in Status THEN "calling" ELSE "over"]
     /\ sending' = Done(t)
     /\ UNCHANGED <<why, timers, registered, told, links, sends, sweeps,
                    replies, during, closes>>

CallbackReturns(r) ==
  /\ wait[r] = "calling"
  /\ wait' = [wait EXCEPT ![r] = "over"]
  /\ said' = [said EXCEPT ![r] = @ + 1]
  /\ UNCHANGED <<why, timers, registered, told, sending, links, sends, sweeps,
                 replying, answers, during, closes>>

-----------------------------------------------------------------------------
ConnStep(c) ==
  Opened(c) \/ OpenFails(c) \/ Resent(c) \/ FailureReported(c) \/ SweepNext(c)

SendStep(r) ==
  \/ Subscribed(r) \/ SubscribeFailed(r) \/ Published(r) \/ PublishFailed(r)
  \/ Undone(r) \/ Delivered(r) \/ Returned(r)

EndStep(r) == Unsubscribed(r) \/ CallbackReturns(r)

Next ==
  \/ \E c \in Conn : Connect(c) \/ ConnStep(c) \/ ReceiveFails(c)
  \/ \E t \in Task : SendFails(t)
  \/ Close \/ SweepNext(Closer) \/ Closed
  \/ \E r \in Request :
       \/ SendRequest(r) \/ SendStep(r) \/ EndStep(r) \/ TimerFires(r)
       \/ CancelRequest(r) \/ ReplyArrives(r) \/ ReplyHandled(r)

(* What was started goes on: frames are taken or time out, timers fire, a
   connection is flushed or given up, and callbacks return.  Nobody has to
   connect, send, cancel or close. *)
Fairness ==
  /\ \A c \in Conn : WF_vars(ConnStep(c))
  /\ WF_vars(SweepNext(Closer) \/ Closed)
  /\ \A r \in Request :
       WF_vars(SendStep(r)) /\ WF_vars(EndStep(r)) /\ WF_vars(TimerFires(r))

Spec == Init /\ [][Next]_vars

FairSpec == Spec /\ Fairness

-----------------------------------------------------------------------------
(* Types, by the groups of variables that actions leave alone. *)
EndsTyped ==
  /\ wait \in [Request -> {"none", "open", "telling", "calling", "over"}]
  /\ why \in [Request -> Reason \cup {"none"}]
  /\ timers \subseteq WithTimeout
  /\ registered \subseteq Request
  /\ told \in [Conn -> SUBSET Request]
  /\ sending \in [Task -> Conn \cup {NoConn}]

Phases == {"new", "opening", "open", "closing", "failing", "lost"}

LinksTyped ==
  /\ connection \in Conn \cup {NoConn}
  /\ phase \in [Conn -> Phases]
  /\ reporter \in [Conn -> Task \cup {NoTask}]
  /\ resending \in [Conn -> SUBSET Request]
  /\ failures \in 0 .. MaxFailures

SweepsTyped ==
  /\ meanwhile \in [Request -> Status \cup {"none"}]
  /\ sweep \in [Sweeper -> [left: SUBSET Request, at: Request \cup {NoRequest}]]
  /\ closing \in {"no", "ending", "flushing"}
  /\ flushed \in Conn \cup {NoConn}

OthersTyped ==
  /\ step \in [Request -> {"none", "subscribing", "publishing", "delivering",
                           "undoing", "ending", "returned", "raised"}]
  /\ sentOn \in [Request -> Conn \cup {NoConn}]
  /\ replying \subseteq Request
  /\ answers \in 0 .. MaxReplies
  /\ said \in [Request -> Nat]
  /\ during \in [requests: SUBSET Request, conns: SUBSET Conn]
  /\ closes \in 0 .. MaxCloses

TypeOK == EndsTyped /\ LinksTyped /\ SweepsTyped /\ OthersTyped

(* "This keeps a single failure from being reported twice": a send_request that
   raises has not had its callback called with "closed" or "connection_lost",
   although close(), error handlers, timers and the sending itself may all be
   ending the same wait. *)
NotReportedTwice ==
  \A r \in Request :
    /\ said[r] <= 1
    /\ step[r] = "raised" => why[r] \notin {"closed", "connection_lost"}

(* "Pending requests don't carry over: close and a lost connection end them":
   a request that was sent waits on the connection it was sent on, or somebody
   is about to end it; unless it was sent while the client was being closed. *)
LeftWaiting(r) ==
  /\ step[r] = "returned" /\ wait[r] = "open"
  /\ connection # sentOn[r]
  /\ \A p \in Sweeper : r \notin sweep[p].left

NoneLeftWaiting ==
  \A r \in Request \ during.requests : ~ LeftWaiting(r)

(* The same of every request. *)
CloseEndsEveryWait == \A r \in Request : ~ LeftWaiting(r)

(* At most one connection is open, and it is the one the client sends on: no
   connect() that runs at the same time as another, an error or a reconnection
   leaves one behind; unless it was made while the client was being closed. *)
OneConnection ==
  \A c \in Conn \ during.conns : phase[c] = "open" => connection = c

(* Once connect() has returned, the node knows every subject that is registered,
   and no other but those of requests that could not be sent. *)
RegistrationsTold ==
  connection # NoConn /\ phase[connection] = "open"
  /\ sending[<<"connect", connection>>] = NoConn
  => /\ registered \subseteq told[connection]
     /\ \A r \in told[connection] \ registered : step[r] = "raised"

(* What was started ends: a wait with a timeout, Send Request, Close. *)
EverythingEnds ==
  /\ \A r \in WithTimeout : wait[r] = "open" ~> wait[r] = "over"
  /\ \A r \in Request :
       step[r] = "subscribing" ~> step[r] \in {"returned", "raised"}
  /\ closing # "no" ~> closing = "no"

(* Each wait is one of RequestWait. *)
Waits == INSTANCE RequestWait WITH
  wait <- [r \in Request |->
             IF wait[r] \in {"none", "open"} THEN wait[r] ELSE "over"],
  said <- { r \in Request : said[r] > 0 }

Implements == Waits!Spec
=============================================================================
