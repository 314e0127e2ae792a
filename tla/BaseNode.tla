------------------------------- MODULE BaseNode -------------------------------
(***************************************************************************)
(* One BaseLayerNode (base_layer.py) with its default receive callbacks:    *)
(* its lists of connections, the relay loop and the send queue of each, and *)
(* the errors, drops and closings that race each other.                     *)
(*                                                                         *)
(* The node is one asyncio thread.  Its tasks are a relay loop and at most  *)
(* one send task per connection, the handlers of new connections, and the   *)
(* user's task in close().  A task suspends in a read, in a send, in a      *)
(* connection error callback, or where it waits for a transport to be       *)
(* closed; what it does in between is one action.  A task that is           *)
(* cancelled while it reads or sends is over at once; if it is busy with an *)
(* error, that is interrupted when the task next runs: see cancelled.       *)
(*                                                                         *)
(* A frame is a number, counted as they arrive, and counts 1 in a queue.    *)
(* The peers are not modelled: data, failures and timeouts come at any      *)
(* time.  Left out: callbacks for new connections (nothing follows them),   *)
(* receive callbacks other than the default ones, payloads that are too     *)
(* long to send, and close() called by a callback of the node.              *)
(***************************************************************************)
EXTENDS Naturals, Sequences, FiniteSets, SequencesExt

CONSTANTS
  Down, Up,      \* the connections accepted and established
  Initially,     \* those of Up that are there from the start
  Talkers,       \* the connections on which frames arrive
  Unwanted,      \* the connections that the user may close
  MaxFrames,     \* bound: how many frames arrive at the node
  MaxFaults,     \* bound: how many peers go away or stop reading
  QueueLimit,    \* send_queue_limit
  ServerWaits,   \* Server.wait_closed() waits for connections (Python 3.12.1)
  ListenLate     \* close() may be called while accept_connection() is running

Conn == Down \cup Up
Frame == 1 .. MaxFrames
NoConn == "no connection"
NoRelay == [frame |-> 0, target |-> NoConn, rest |-> <<>>]

ASSUME BaseNodeAssumption ==
  /\ Down \cap Up = {} /\ NoConn \notin Conn
  /\ Initially \subseteq Up /\ IsFiniteSet(Initially)
  /\ Talkers \subseteq Conn /\ Unwanted \subseteq Conn
  /\ MaxFrames \in Nat /\ MaxFaults \in Nat /\ QueueLimit \in Nat \ {0}
  /\ ServerWaits \in BOOLEAN /\ ListenLate \in BOOLEAN

VARIABLES
  server,      \* the listening socket: "off", "starting", "listening", "closed"
  downstream,  \* downstream_connections
  upstream,    \* upstream_connections
  arriving,    \* connections made, whose handler has not run yet
  writer,      \* writer[c]: "none", "open", "closing" or "closed"
  gone,        \* connections that the peer has closed, or broken
  loop,        \* loop[c]: what its relay loop is doing
  relay,       \* relay[c]: a relay by the loop of c that closes a target first
  sender,      \* sender[c]: its send task: "idle" (or done), "sending", "failing"
  queue,       \* queue[c]: Connection.send_queue
  handler,     \* handler[c]: progress of _handle_connection_error for c
  cancelled,   \* tasks busy with an error, cancelled and not run since
  closing,     \* progress of close()
  left,        \* the connections that close() has still to close
  awaited,     \* the one whose closing it awaits
  received, faults,  \* counters of the bounds
  given, sent, \* history: the frames put into the queue of c, taken by the peer
  reports,     \* history: how often the error callback was called for c
  purpose      \* history: "user" or "node", if c was closed on purpose

vars == <<server, downstream, upstream, arriving, writer, gone, loop, relay,
          sender, queue, handler, cancelled, closing, left, awaited, received,
          faults, given, sent, reports, purpose>>
lists == <<downstream, upstream>>
close == <<closing, left, awaited>>
bounds == <<received, faults>>
history == <<given, sent, reports, purpose>>

LoopOf(c) == <<"relay loop", c>>
SenderOf(c) == <<"send task", c>>
Nobody == <<"user", NoConn>>
Task == ({"relay loop", "send task"} \X Conn)

-----------------------------------------------------------------------------
(* Parts of actions. *)

All == downstream \o upstream
Listed(c) == c \in ToSet(All)

(* _peers_except: no list holds a connection twice, see TypeOK. *)
Peers(c) == RemoveFirst(All, c)

(* Tasks of c that are busy with an error. *)
Busy(c) == { t \in {LoopOf(c), SenderOf(c)} :
               \/ t = LoopOf(c) /\ loop[c] \in {"relaying", "failing", "dying"}
               \/ t = SenderOf(c) /\ sender[c] = "failing" }

(* Connection.close(discard_unsent = True) of each connection in S by task t, up
   to where it awaits the transport: a loop that reads, and a send, are over. *)
Discard(S, t, loops) ==
  /\ queue' = [c \in Conn |-> IF c \in S THEN <<>> ELSE queue[c]]
  /\ writer' = [c \in Conn |-> IF c \in S /\ writer[c] = "open" THEN "closing"
                                                              ELSE writer[c]]
  /\ loop' = [c \in Conn |-> IF c \in S /\ loops[c] = "reading" THEN "over"
                                                             ELSE loops[c]]
  /\ sender' = [c \in Conn |-> IF c \in S /\ sender[c] = "sending" THEN "idle"
                                                                ELSE sender[c]]
  /\ cancelled' = (cancelled \cup UNION { Busy(c) : c \in S }) \ {t}

Unlist(c) ==
  /\ downstream' = RemoveFirst(downstream, c)
  /\ upstream' = RemoveFirst(upstream, c)

(* _handle_connection_error of a listed connection, up to the callback. *)
Fail(c) ==
  /\ Unlist(c)
  /\ handler' = [handler EXCEPT ![c] = "callback"]
  /\ reports' = [reports EXCEPT ![c] = @ + 1]

(* Mutant of Full: the frame itself is not counted. *)
FullAlready(c) == Len(queue[c]) > QueueLimit

Full(c) == Len(queue[c]) + 1 > QueueLimit

(* _relay_to from these targets on, in the loop of c, up to the first target
   that is listed and full: that one fails, and the rest waits for it. *)
RelayOn(c, frame, targets) ==
  LET stops == { i \in DOMAIN targets : Full(targets[i]) /\ Listed(targets[i]) }
      first == CHOOSE i \in stops : \A j \in stops : i <= j
      passed == IF stops = {} THEN DOMAIN targets ELSE 1 .. first - 1
      served == { t \in { targets[i] : i \in passed } : ~ Full(t) }
  IN /\ queue' = [t \in Conn |-> IF t \in served THEN Append(queue[t], frame)
                                                 ELSE queue[t]]
     /\ given' = [t \in Conn |-> IF t \in served THEN Append(given[t], frame)
                                                 ELSE given[t]]
     /\ sender' = [t \in Conn |-> IF t \in served /\ sender[t] = "idle"
                                  THEN "sending" ELSE sender[t]]
     /\ IF stops = {}
        THEN /\ loop' = [loop EXCEPT ![c] = "reading"]
             /\ relay' = [relay EXCEPT ![c] = NoRelay]
             /\ UNCHANGED reports
             /\ UNCHANGED lists
        ELSE /\ loop' = [loop EXCEPT ![c] = "relaying"]
             /\ relay' = [relay EXCEPT ![c] =
                            [frame |-> frame, target |-> targets[first],
                             rest |-> SubSeq(targets, first + 1, Len(targets))]]
             /\ Unlist(targets[first])
             /\ reports' = [reports EXCEPT ![targets[first]] = @ + 1]

Init ==
  /\ server = "off"
  /\ downstream = <<>> /\ upstream = SetToSeq(Initially)
  /\ arriving = {} /\ gone = {} /\ cancelled = {}
  /\ writer = [c \in Conn |-> IF c \in Initially THEN "open" ELSE "none"]
  /\ loop = [c \in Conn |-> IF c \in Initially THEN "reading" ELSE "none"]
  /\ relay = [c \in Conn |-> NoRelay]
  /\ sender = [c \in Conn |-> "idle"]
  /\ queue = [c \in Conn |-> <<>>]
  /\ handler = [c \in Conn |-> "none"]
  /\ closing = "no" /\ left = <<>> /\ awaited = NoConn
  /\ received = 0 /\ faults = 0
  /\ given = [c \in Conn |-> <<>>] /\ sent = [c \in Conn |-> <<>>]
  /\ reports = [c \in Conn |-> 0]
  /\ purpose = [c \in Conn |-> "no"]

-----------------------------------------------------------------------------
(* Connections come. *)

(* accept_connection, up to where start_server suspends, and the rest. *)
AcceptBegin ==
  /\ server = "off" /\ closing = "no"
  /\ server' = "starting"
  /\ UNCHANGED <<lists, arriving, writer, gone, loop, relay, sender, queue,
                 handler, cancelled, close, bounds, history>>

AcceptEnd ==
  /\ server = "starting"
  /\ server' = "listening"
  /\ UNCHANGED <<lists, arriving, writer, gone, loop, relay, sender, queue,
                 handler, cancelled, close, bounds, history>>

(* A peer connects; or an open_connection, begun before the node is closed,
   succeeds: its caller goes on later. *)
Arrive(c) ==
  /\ writer[c] = "none"
  /\ c \in Down => server = "listening"
  /\ writer' = [writer EXCEPT ![c] = "open"]
  /\ arriving' = arriving \cup {c}
  /\ UNCHANGED <<server, lists, gone, loop, relay, sender, queue, handler,
                 cancelled, close, bounds, history>>

(* Mutant of StartConnection: nobody asks whether the node is closed. *)
StartConnectionAnyway(c) ==
  /\ IF c \in Down THEN downstream' = Append(downstream, c) /\ UNCHANGED upstream
                   ELSE upstream' = Append(upstream, c) /\ UNCHANGED downstream
  /\ loop' = [loop EXCEPT ![c] = "reading"]
  /\ UNCHANGED writer

(* _on_downstream_connected, and establish_connection after its await. *)
StartConnection(c) ==
  IF closing # "no"
  THEN /\ writer' = [writer EXCEPT ![c] = IF @ = "open" THEN "closing" ELSE @]
       /\ UNCHANGED <<lists, loop>>
  ELSE /\ IF c \in Down
          THEN downstream' = Append(downstream, c) /\ UNCHANGED upstream
          ELSE upstream' = Append(upstream, c) /\ UNCHANGED downstream
       /\ loop' = [loop EXCEPT ![c] = "reading"]
       /\ UNCHANGED writer

Connected(c) ==
  /\ c \in arriving
  /\ arriving' = arriving \ {c}
  /\ StartConnection(c)
  /\ UNCHANGED <<server, gone, relay, sender, queue, handler, cancelled, close,
                 bounds, history>>

(* The peer closes (the transport stays open), or the connection breaks. *)
PeerGoes(c) ==
  /\ writer[c] = "open" /\ c \notin gone
  /\ gone' = gone \cup {c}
  /\ faults < MaxFaults /\ faults' = faults + 1 /\ UNCHANGED received
  /\ \/ UNCHANGED writer
     \/ writer' = [writer EXCEPT ![c] = "closed"]
  /\ UNCHANGED <<server, lists, arriving, loop, relay, sender, queue, handler,
                 cancelled, close, history>>

(* The event loop tells a transport that was closed or aborted. *)
TransportClosed(c) ==
  /\ writer[c] = "closing"
  /\ writer' = [writer EXCEPT ![c] = "closed"]
  /\ UNCHANGED <<server, lists, arriving, gone, loop, relay, sender, queue,
                 handler, cancelled, close, bounds, history>>

-----------------------------------------------------------------------------
(* Relay loops and send tasks. *)

(* A frame comes in and is relayed to all other connections. *)
Receive(c) ==
  /\ loop[c] = "reading" /\ writer[c] = "open"
  /\ c \in Talkers /\ received < MaxFrames
  /\ received' = received + 1
  /\ RelayOn(c, received + 1, Peers(c))
  /\ handler' = [t \in Conn |-> IF relay'[c].target = t THEN "callback"
                                                       ELSE handler[t]]
  /\ UNCHANGED <<server, arriving, writer, gone, cancelled, close, faults,
                 sent, purpose>>

(* Mutant of LoopFails: the loop ends as if it had been cancelled. *)
LoopFailsQuietly(c) ==
  /\ loop[c] = "reading" /\ (c \in gone \/ writer[c] = "closed")
  /\ loop' = [loop EXCEPT ![c] = "over"]
  /\ UNCHANGED <<server, lists, arriving, writer, gone, relay, sender, queue,
                 handler, cancelled, close, bounds, history>>

(* The loop of c finds the connection broken, or closed by its peer. *)
LoopFails(c) ==
  /\ loop[c] = "reading"
  /\ c \in gone \/ writer[c] = "closed"
  /\ IF Listed(c)
     THEN loop' = [loop EXCEPT ![c] = "failing"] /\ Fail(c)
     ELSE /\ loop' = [loop EXCEPT ![c] = "over"]
          /\ UNCHANGED <<handler, reports>>
          /\ UNCHANGED lists
  /\ UNCHANGED <<server, arriving, writer, gone, relay, sender, queue, cancelled,
                 close, bounds, given, sent, purpose>>

(* Mutant of Sent: the task sends one frame only. *)
SentOne(c) ==
  /\ sender[c] = "sending" /\ writer[c] = "open"
  /\ sent' = [sent EXCEPT ![c] = Append(@, Head(queue[c]))]
  /\ queue' = [queue EXCEPT ![c] = Tail(@)]
  /\ sender' = [sender EXCEPT ![c] = "idle"]
  /\ UNCHANGED <<server, lists, arriving, writer, gone, loop, relay, handler,
                 cancelled, close, bounds, given, reports, purpose>>

(* The peer's side takes a frame. *)
Sent(c) ==
  /\ sender[c] = "sending" /\ writer[c] = "open"
  /\ sent' = [sent EXCEPT ![c] = Append(@, Head(queue[c]))]
  /\ queue' = [queue EXCEPT ![c] = Tail(@)]
  /\ sender' = [sender EXCEPT ![c] = IF Len(queue[c]) = 1 THEN "idle" ELSE @]
  /\ UNCHANGED <<server, lists, arriving, writer, gone, loop, relay, handler,
                 cancelled, close, bounds, given, reports, purpose>>

(* A send on a transport that is being closed returns, and the task ends. *)
SendSkipped(c) ==
  /\ sender[c] = "sending" /\ writer[c] = "closing"
  /\ sender' = [sender EXCEPT ![c] = "idle"]
  /\ UNCHANGED <<server, lists, arriving, writer, gone, loop, relay, queue,
                 handler, cancelled, close, bounds, history>>

(* The send times out, or raises because the transport is closed. *)
SendFails(c) ==
  /\ sender[c] = "sending" /\ writer[c] \in {"open", "closed"}
  /\ writer[c] = "open" => faults < MaxFaults
  /\ faults' = IF writer[c] = "open" THEN faults + 1 ELSE faults
  /\ IF Listed(c)
     THEN sender' = [sender EXCEPT ![c] = "failing"] /\ Fail(c)
     ELSE /\ sender' = [sender EXCEPT ![c] = "idle"]
          /\ UNCHANGED <<handler, reports>>
          /\ UNCHANGED lists
  /\ UNCHANGED <<server, arriving, writer, gone, loop, relay, queue, cancelled,
                 close, received, given, sent, purpose>>

-----------------------------------------------------------------------------
(* Reporting an error: the task that found it awaits the callback, closes the
   connection, and goes on with what it was doing. *)

Handling(c) == handler[c] \in {"callback", "closing", "left"}

(* The task that runs _handle_connection_error for c. *)
Runner(c) ==
  CASE loop[c] = "failing"   -> LoopOf(c)
    [] sender[c] = "failing" -> SenderOf(c)
    [] OTHER -> LoopOf(CHOOSE d \in Conn : relay[d].target = c)

(* The task of the loop of d, or the send task of d, is done. *)
LoopEnds(d) ==
  /\ loop' = [loop EXCEPT ![d] = "over"]
  /\ relay' = [relay EXCEPT ![d] = NoRelay]
  /\ UNCHANGED <<sender, queue, given, reports>>
  /\ UNCHANGED lists

SenderEnds(d) ==
  /\ sender' = [sender EXCEPT ![d] = "idle"]
  /\ UNCHANGED <<loop, relay, queue, given, reports>>
  /\ UNCHANGED lists

(* Mutant of CallbackEnds: no finally, so that a callback that is interrupted
   leaves the connection open. *)
CallbackEndsUnclosed(c) ==
  LET t == Runner(c)
  IN /\ handler[c] = "callback"
     /\ \/ /\ t \in cancelled
           /\ handler' = [handler EXCEPT ![c] = "over"]
           /\ cancelled' = cancelled \ {t}
           /\ IF t[1] = "relay loop" THEN LoopEnds(t[2]) ELSE SenderEnds(t[2])
           /\ UNCHANGED writer
        \/ /\ t \notin cancelled
           /\ handler' = [handler EXCEPT ![c] =
                            IF writer[c] = "open" THEN "closing" ELSE "left"]
           /\ Discard({c}, t, loop)
           /\ UNCHANGED <<lists, relay, given, reports>>
     /\ UNCHANGED <<server, arriving, gone, close, bounds, sent, purpose>>

(* The callback returns, or is interrupted; then the connection is closed, if it
   is not yet, and the task waits for that. *)
CallbackEnds(c) ==
  LET t == Runner(c)
  IN /\ handler[c] = "callback"
     /\ handler' = [handler EXCEPT ![c] =
                      IF writer[c] = "open" THEN "closing" ELSE "left"]
     /\ Discard({c}, t, IF t \in cancelled /\ loop[t[2]] = "relaying"
                        THEN [loop EXCEPT ![t[2]] = "dying"] ELSE loop)
     /\ UNCHANGED <<server, lists, arriving, gone, relay, close, bounds, history>>

HandlerEnds(c) ==
  /\ handler[c] = "left" \/ (handler[c] = "closing" /\ writer[c] = "closed")
  /\ Runner(c) \notin cancelled
  /\ LET t == Runner(c)
         d == t[2]
     IN /\ \/ t[1] = "send task" /\ SenderEnds(d)
           \/ t[1] = "relay loop" /\ loop[d] \in {"failing", "dying"} /\ LoopEnds(d)
           \/ /\ t[1] = "relay loop" /\ loop[d] = "relaying"
              /\ RelayOn(d, relay[d].frame, relay[d].rest)
        /\ handler' = [k \in Conn |->
                         IF k = c THEN "over"
                         ELSE IF relay'[d].target = k /\ relay[d].target # k
                              THEN "callback"
                         ELSE handler[k]]
  /\ UNCHANGED <<server, arriving, writer, gone, cancelled, close, bounds, sent,
                 purpose>>

(* CancelledError in a task that waits for a failed connection to be closed. *)
Interrupted(c) ==
  LET t == Runner(c)
  IN /\ handler[c] \in {"closing", "left"} /\ t \in cancelled
     /\ handler' = [handler EXCEPT ![c] = "over"]
     /\ cancelled' = cancelled \ {t}
     /\ IF t[1] = "relay loop" THEN LoopEnds(t[2]) ELSE SenderEnds(t[2])
     /\ UNCHANGED <<server, arriving, writer, gone, close, bounds, sent, purpose>>

-----------------------------------------------------------------------------
(* Closing on purpose. *)

(* Mutant of CloseConnection: the connection stays in its list. *)
CloseConnectionListed(c) ==
  /\ Listed(c) /\ c \in Unwanted /\ closing = "no"
  /\ Discard({c}, Nobody, loop)
  /\ purpose' = [purpose EXCEPT ![c] = "user"]
  /\ UNCHANGED <<server, lists, arriving, gone, relay, handler, close, bounds,
                 given, sent, reports>>

CloseConnection(c) ==
  /\ Listed(c) /\ c \in Unwanted /\ closing = "no"
  /\ Unlist(c)
  /\ Discard({c}, Nobody, loop)
  /\ purpose' = [purpose EXCEPT ![c] = "user"]
  /\ UNCHANGED <<server, arriving, gone, relay, handler, close, bounds, given,
                 sent, reports>>

(* The loop of close() over these connections, up to the first whose closing
   takes a while, or to the end of the loop. *)
CloseOn(connections) ==
  LET opens == { i \in DOMAIN connections : writer[connections[i]] = "open" }
      first == CHOOSE i \in opens : \A j \in opens : i <= j
      last == IF opens = {} THEN Len(connections) ELSE first
      now == { connections[i] : i \in 1 .. last }
  IN /\ Discard(now, Nobody, loop)
     /\ purpose' = [c \in Conn |-> IF c \in now \ gone /\ Listed(c)
                                   THEN "node" ELSE purpose[c]]
     /\ left' = SubSeq(connections, last + 1, Len(connections))
     /\ IF opens = {}
        THEN /\ downstream' = <<>> /\ upstream' = <<>>
             /\ closing' = "servers" /\ awaited' = NoConn
        ELSE /\ UNCHANGED lists
             /\ closing' = "connections" /\ awaited' = connections[first]

CloseBegin ==
  /\ closing = "no"
  /\ ListenLate \/ server # "starting"
  /\ server' = IF server = "listening" THEN "closed" ELSE server
  /\ CloseOn(All)
  /\ UNCHANGED <<arriving, gone, relay, handler, bounds, given, sent, reports>>

CloseNext ==
  /\ closing = "connections"
  /\ writer[awaited] = "closed"
  /\ CloseOn(left)
  /\ UNCHANGED <<server, arriving, gone, relay, handler, bounds, given, sent,
                 reports>>

(* wait_closed() of the server: it returns once what was accepted is closed. *)
CloseEnd ==
  /\ closing = "servers"
  /\ ServerWaits => /\ server # "listening"
                    /\ \A c \in Down : writer[c] \in {"none", "closed"}
  /\ closing' = "done"
  /\ UNCHANGED <<server, lists, arriving, writer, gone, loop, relay, sender,
                 queue, handler, cancelled, left, awaited, bounds, history>>

-----------------------------------------------------------------------------
(* What the event loop does by itself with the connection c. *)
Advance(c) ==
  \/ Connected(c) \/ TransportClosed(c)
  \/ LoopFails(c) \/ Sent(c) \/ SendSkipped(c) \/ SendFails(c)
  \/ CallbackEnds(c) \/ HandlerEnds(c) \/ Interrupted(c)

EventLoop ==
  \/ AcceptEnd \/ CloseNext \/ CloseEnd
  \/ \E c \in Conn : Advance(c)

Next ==
  \/ AcceptBegin \/ CloseBegin
  \/ \E c \in Conn :
       Arrive(c) \/ PeerGoes(c) \/ Receive(c) \/ CloseConnection(c)
  \/ EventLoop

(* The event loop does not stop while a task can run.  This takes for granted
   that callbacks return; nobody has to connect, to send or to close. *)
Spec == Init /\ [][Next]_vars /\ WF_vars(EventLoop)

-----------------------------------------------------------------------------
(* Properties. *)

TypeOK ==
  /\ server \in {"off", "starting", "listening", "closed"}
  /\ ToSet(downstream) \subseteq Down /\ ToSet(upstream) \subseteq Up
  /\ Len(All) = Cardinality(ToSet(All))
  /\ arriving \subseteq Conn /\ gone \subseteq Conn /\ cancelled \subseteq Task
  /\ writer \in [Conn -> {"none", "open", "closing", "closed"}]
  /\ loop \in [Conn -> {"none", "reading", "relaying", "failing", "dying", "over"}]
  /\ sender \in [Conn -> {"idle", "sending", "failing"}]
  /\ handler \in [Conn -> {"none", "callback", "closing", "left", "over"}]
  /\ \A c \in Conn : Len(queue[c]) <= QueueLimit /\ ToSet(queue[c]) \subseteq Frame
  /\ closing \in {"no", "connections", "servers", "done"}
  /\ received \in 0 .. MaxFrames
  /\ purpose \in [Conn -> {"no", "user", "node"}]

(* A connection is reported to the error callback once at most, whichever of
   its relay loop, its send task, and relay loops of others finds its errors
   (_handle_connection_error), and never if close_connection closed it. *)
ReportedOnce ==
  \A c \in Conn : reports[c] <= 1 /\ (purpose[c] = "user" => reports[c] = 0)

(* What waits in the queue of an open connection has a task that sends it
   (_relay_to starts one only if the last is done), and what has been put into
   the queue is what has been sent and what waits, in that order. *)
QueuesAreServed ==
  \A c \in Conn :
    writer[c] = "open" =>
      /\ Listed(c) /\ queue[c] # <<>> => sender[c] = "sending"
      /\ given[c] = sent[c] \o queue[c]

(* When close() has returned, the lists are empty, and a connection is open
   only if its error is still being reported, or its handler has not run. *)
NothingLeftOpen ==
  closing = "done" =>
    /\ downstream = <<>> /\ upstream = <<>>
    /\ \A c \in Conn :
         writer[c] = "open" => c \in arriving \/ handler[c] = "callback"

(* close() returns, and in the end every connection is closed: also those that
   arrive late, and those whose error is being reported meanwhile. *)
CloseReturns ==
  <>[](closing # "no" =>
         closing = "done" /\ \A c \in Conn : writer[c] \in {"none", "closed"})

(* A connection that the peer has closed is removed and closed in the end,
   whatever its relay loop was waiting for, and so are those that it dropped. *)
FailuresAreNoticed ==
  <>[](\A c \in Conn : c \in gone \/ reports[c] > 0 =>
                         ~ Listed(c) /\ writer[c] = "closed")

(* What docs/design/base-layer.md says of Close: closing the node does not call
   the connection error callbacks for the connections that it closes. *)
CloseIsNoError == \A c \in Conn : purpose[c] = "node" => reports[c] = 0
=============================================================================
