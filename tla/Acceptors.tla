------------------------------- MODULE Acceptors -------------------------------
(***************************************************************************)
(* Accepting requests in a RequestReplyClient (request_reply.py): the table *)
(* of the acceptors of one request subject, and the subscriptions of their  *)
(* on_request functions in the PubSubClient below.                          *)
(*                                                                         *)
(* Each accept_request that registers makes an on_request function of its   *)
(* own; it is a number here.  Subscribing suspends for the first of a       *)
(* subject, which tells the node.  Whether the node knows the subject is in *)
(* ClientSubscriptions; a connection is only there, or not.  A request is   *)
(* valid, or else malformed or with a reply subject of another subject.     *)
(***************************************************************************)
EXTENDS Naturals, Sequences, FiniteSets

CONSTANTS
  Callback,     \* the received request callbacks
  MaxAccepts,   \* bounds: how many on_request functions are made,
  MaxStops,     \*   how often an acceptor is stopped,
  MaxLosses,    \*   how often the connection is lost,
  MaxRequests   \*   how many requests arrive

ASSUME AcceptorsAssumption ==
  MaxAccepts \in Nat /\ MaxStops \in Nat /\ MaxLosses \in Nat
  /\ MaxRequests \in Nat

None == 0
Function == 1 .. MaxAccepts

VARIABLES
  connected,   \* is the client connected
  made,        \* made[f]: the callback that the function f calls
  acceptors,   \* _acceptors: the function of each callback, or None
  subscribed,  \* the functions registered to the derived request subject
  sending,     \* the functions whose accept_request is telling the node
  deliveries,  \* the requests being delivered
  accepted,    \* history: the callbacks accepting as far as callers were told
  overlapped,  \* history: callbacks with calls during one's accept_request
  stops, losses, requests  \* counters of the bounds

table == <<made, acceptors, subscribed, sending>>
counters == <<stops, losses, requests>>
vars == <<connected, table, deliveries, accepted, overlapped, counters>>

-----------------------------------------------------------------------------
Init ==
  /\ connected = TRUE
  /\ made = <<>> /\ acceptors = [k \in Callback |-> None]
  /\ subscribed = {} /\ sending = {}
  /\ deliveries = <<>> /\ accepted = {} /\ overlapped = {}
  /\ stops = 0 /\ losses = 0 /\ requests = 0

Telling(k) == \E f \in sending : made[f] = k

(* A call for k: does it overlap an accept_request that has not returned? *)
Called(k) ==
  overlapped' = IF Telling(k) THEN overlapped \cup {k} ELSE overlapped

(* What callers know now, for the deliveries that go on. *)
Promise(now) ==
  /\ accepted' = now
  /\ deliveries' = [d \in DOMAIN deliveries |->
       [deliveries[d] EXCEPT
          !.always = @ \cap now,
          !.ever = @ \cup now \cup { made'[f] : f \in sending' }]]

-----------------------------------------------------------------------------
(* Mutant of Known: the table is not looked at. *)
KnownIgnored(k) == FALSE

Known(k) == acceptors[k] # None

(* accept_request of a callback that is accepting already: nothing to do. *)
AcceptAgain(k) ==
  /\ Known(k)
  /\ Called(k)
  /\ UNCHANGED <<connected, table, counters>>
  /\ Promise(accepted \cup {k})

(* accept_request: remembered, subscribed; the first tells the node. *)
Accept(k) ==
  LET f == Len(made) + 1
  IN /\ ~ Known(k) /\ f \in Function
     /\ Called(k)
     /\ made' = Append(made, k)
     /\ acceptors' = [acceptors EXCEPT ![k] = f]
     /\ subscribed' = subscribed \cup {f}
     /\ \/ /\ subscribed # {}
           /\ UNCHANGED sending
           /\ Promise(accepted \cup {k})
        \/ /\ subscribed = {} /\ connected
           /\ sending' = sending \cup {f}
           /\ Promise(accepted)
     /\ UNCHANGED <<connected, counters>>

(* The node has been told. *)
AcceptReturns(f) ==
  /\ f \in sending
  /\ sending' = sending \ {f}
  /\ UNCHANGED <<made, acceptors, subscribed>>
  /\ Promise(accepted \cup {made[f]})
  /\ UNCHANGED <<connected, overlapped, counters>>

(* It has not, or the caller was cancelled: the callback is forgotten.  The
   entry may be of another function by now (or gone: a KeyError). *)
AcceptRaises(f) ==
  /\ f \in sending
  /\ sending' = sending \ {f}
  /\ subscribed' = subscribed \ {f}
  /\ acceptors' = [acceptors EXCEPT ![made[f]] = None]
  /\ UNCHANGED made
  /\ Promise(accepted)
  /\ UNCHANGED <<connected, overlapped, counters>>

(* stop_accept_request; it may raise when the node cannot be told, and the
   function is not subscribed any more all the same. *)
Stop(k) ==
  /\ Known(k)
  /\ stops < MaxStops /\ stops' = stops + 1
  /\ Called(k)
  /\ subscribed' = subscribed \ {acceptors[k]}
  /\ acceptors' = [acceptors EXCEPT ![k] = None]
  /\ UNCHANGED <<made, sending>>
  /\ Promise(accepted \ {k})
  /\ UNCHANGED <<connected, losses, requests>>

-----------------------------------------------------------------------------
(* Requests: from the receive loop, or from a send_request of the client
   itself.  _deliver calls a copy of what is subscribed. *)
Arrive ==
  /\ connected
  /\ requests < MaxRequests /\ requests' = requests + 1
  /\ \E valid \in BOOLEAN :
       deliveries' = Append(deliveries,
         [valid |-> valid, left |-> subscribed,
          calls |-> [k \in Callback |-> 0],
          always |-> accepted,
          ever |-> accepted \cup { made[f] : f \in sending }])
  /\ UNCHANGED <<connected, table, accepted, overlapped, stops, losses>>

(* Mutant of Heeds: any request is handed on. *)
HeedsAny(request) == TRUE

Heeds(request) == request.valid

(* The next on_request: it awaits its callback, which may fail, and may call
   any operation of the client meanwhile. *)
Serve(d, f) ==
  /\ f \in deliveries[d].left
  /\ deliveries' = [deliveries EXCEPT
       ![d].left = @ \ {f},
       ![d].calls[made[f]] = IF Heeds(deliveries[d]) THEN @ + 1 ELSE @]
  /\ UNCHANGED <<connected, table, accepted, overlapped, counters>>

Complete(d) == deliveries[d].left = {}

(* All have been called, or the task that delivers is cancelled. *)
Leave(d) ==
  /\ deliveries' = [i \in 1 .. Len(deliveries) - 1 |->
                      deliveries[IF i < d THEN i ELSE i + 1]]
  /\ UNCHANGED <<connected, table, accepted, overlapped, counters>>

(* The connection is lost; the client connects again.  What is accepted stays,
   "Acceptors belong to the client, not to a connection". *)
Lose ==
  /\ connected /\ losses < MaxLosses
  /\ connected' = FALSE /\ losses' = losses + 1
  /\ UNCHANGED <<table, deliveries, accepted, overlapped, stops, requests>>

Connect ==
  /\ ~ connected /\ connected' = TRUE
  /\ UNCHANGED <<table, deliveries, accepted, overlapped, counters>>

-----------------------------------------------------------------------------
Next ==
  \/ Lose \/ Connect \/ Arrive
  \/ \E k \in Callback : AcceptAgain(k) \/ Accept(k) \/ Stop(k)
  \/ \E f \in sending : AcceptReturns(f) \/ AcceptRaises(f)
  \/ \E d \in DOMAIN deliveries :
       Leave(d) \/ \E f \in deliveries[d].left : Serve(d, f)

Spec == Init /\ [][Next]_vars

-----------------------------------------------------------------------------
(* A request that has been delivered called each callback as callers of the
   client expect, K being those callbacks that they can rely on: never twice,
   once if it accepted requests all the time, and not at all if it never did,
   or if the request is not one for this subject. *)
Served(K) ==
  \A d \in DOMAIN deliveries : Complete(d) =>
    \A k \in K :
      LET n == deliveries[d].calls[k]
      IN /\ n <= 1
         /\ k \in deliveries[d].always /\ deliveries[d].valid => n = 1
         /\ k \notin deliveries[d].ever \/ ~ deliveries[d].valid => n = 0

(* "The callback is called once per request, not once per registration", whatever
   fails, is lost and stops meanwhile; for callbacks that nobody accepted or
   stopped during an accept_request of the same callback that had not returned. *)
CalledOncePerRequest == Served(Callback \ overlapped)

(* The same for every callback. *)
CalledOncePerRequestAlways == Served(Callback)
=============================================================================
