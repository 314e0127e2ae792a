------------------------- MODULE ClientSubscriptions -------------------------
(***************************************************************************)
(* The subscriptions of a PubSubClient (pubsub.py) with several callbacks   *)
(* per subject, used by several tasks: subscribe, unsubscribe, publish,     *)
(* reconnecting, and the delivery of publishes to the callbacks, with the   *)
(* matching of subjects (subject_matcher.py).                               *)
(*                                                                         *)
(* A subject is the sequence of its parts.  A frame is written when send is *)
(* called, and send may suspend after that; what connects, loses and closes *)
(* the connection itself is in RequestReply, here a connection is a number. *)
(* Dicts are iterated in any order.  Left out: subjects and payloads that   *)
(* are too long (refused before anything changes), a cancelled connect().   *)
(***************************************************************************)
EXTENDS Naturals, Sequences, FiniteSets, SequencesExt, FiniteSetsExt

CONSTANTS
  Part,            \* the literal parts of subjects
  Wildcard,        \* "*"
  Subject,         \* the subjects that are subscribed to
  Given,           \* the subjects that a user publishes to, or tries to
  Callback,
  MaxSubscribes,   \* bounds: how many calls of subscribe, of unsubscribe,
  MaxUnsubscribes, \*   of connect,
  MaxConnects,
  MaxPublishes     \*   and how many publishes, received and sent

ASSUME ClientAssumption ==
  /\ Wildcard \notin Part
  /\ Subject \cup Given \subseteq Seq(Part \cup {Wildcard})
  /\ MaxSubscribes \in Nat /\ MaxUnsubscribes \in Nat
  /\ MaxConnects \in Nat /\ MaxPublishes \in Nat

VARIABLES
  connection,  \* the current connection, 0 if there is none
  connects,    \* how many there have been
  callbacks,   \* _subscribe_callbacks: the list of each subject, <<>> if none
  list,        \* list[s]: which list object that is: it is new after a pop
  told,        \* the subjects the node has for the current connection
  resend,      \* resend[n]: what the n-th connect() has still to send again
  sending,     \* sending[s][k]: the calls of subscribe that are in send,
  returned,    \*   that returned,
  raised,      \*   and the subjects of those that raised on this connection
  subscribes,  \* counters of the bounds
  publishes,
  delivery,    \* the publishes handled by _deliver or on their way to it
  unsubscribed \* history: how often unsubscribe removed (s, k)

calls == <<sending, returned, raised, subscribes>>
registry == <<callbacks, list, calls, unsubscribed>>
node == <<connection, connects, told, resend>>
vars == <<node, registry, delivery, publishes>>

-----------------------------------------------------------------------------
(* Subject matching. *)

HasWildcard(subject) == Wildcard \in ToSet(subject)

(* Mutant of Match: the lengths are not compared; zip stops at the shorter. *)
MatchPrefix(given, target) ==
  \A i \in DOMAIN given \cap DOMAIN target :
    target[i] = Wildcard \/ given[i] = target[i]

Match(given, target) ==
  /\ Len(given) = Len(target)
  /\ \A i \in DOMAIN given : target[i] = Wildcard \/ given[i] = target[i]

(* check_publish_subject *)
Publishable(subject) == ~ HasWildcard(subject)

-----------------------------------------------------------------------------
(* Registrations. *)

Registered == { s \in Subject : callbacks[s] # <<>> }
Nothing == [s \in Subject |-> [k \in Callback |-> 0]]
Count(seq, k) == Cardinality({ i \in DOMAIN seq : seq[i] = k })

(* Mutant of Without: all registrations of k are deleted. *)
WithoutAll(seq, k) == Remove(seq, k)

(* The first registration of k is deleted, if there is one. *)
Without(seq, k) == RemoveFirst(seq, k)

(* The fewest and most registrations of each callback since a delivery began. *)
Watch(now) ==
  [d \in DOMAIN delivery |->
    IF delivery[d].sending THEN delivery[d]
    ELSE [delivery[d] EXCEPT
           !.low = [s \in Subject |-> [k \in Callback |->
                     Min({@[s][k], Count(now[s], k)})]],
           !.high = [s \in Subject |-> [k \in Callback |->
                      Max({@[s][k], Count(now[s], k)})]]]]

Register(s, k) ==
  /\ callbacks' = [callbacks EXCEPT ![s] = Append(@, k)]
  /\ delivery' = Watch(callbacks')

(* _remove_registration *)
RemoveRegistration(s, k) ==
  /\ callbacks' = [callbacks EXCEPT ![s] = Without(@, k)]
  /\ list' = [list EXCEPT ![s] = IF callbacks[s] # <<>> /\ callbacks'[s] = <<>>
                                 THEN @ + 1 ELSE @]
  /\ delivery' = Watch(callbacks')

-----------------------------------------------------------------------------
Init ==
  /\ connection = 0 /\ connects = 0
  /\ callbacks = [s \in Subject |-> <<>>]
  /\ list = [s \in Subject |-> 0]
  /\ told = {}
  /\ resend = [n \in 1 .. MaxConnects |-> {}]
  /\ sending = Nothing /\ returned = Nothing /\ raised = {}
  /\ subscribes = 0 /\ publishes = 0
  /\ delivery = <<>>
  /\ unsubscribed = Nothing

(* BaseLayerClient.connect returns; the loop of PubSubClient.connect begins. *)
Connect ==
  /\ connection = 0 /\ connects < MaxConnects
  /\ connects' = connects + 1 /\ connection' = connects + 1
  /\ told' = {}
  /\ resend' = [resend EXCEPT ![connects + 1] = Registered]
  /\ UNCHANGED <<registry, delivery, publishes>>

(* Mutant of Resend: without the test. *)
ResendAlways(n, s) ==
  /\ s \in resend[n] /\ connection # 0
  /\ resend' = [resend EXCEPT ![n] = @ \ {s}]
  /\ told' = told \cup {s}
  /\ UNCHANGED <<connection, connects, registry, delivery, publishes>>

(* Its next send, on the connection there is now, if s is still registered. *)
Resend(n, s) ==
  /\ s \in resend[n] /\ connection # 0
  /\ resend' = [resend EXCEPT ![n] = @ \ {s}]
  /\ told' = IF s \in Registered THEN told \cup {s} ELSE told
  /\ UNCHANGED <<connection, connects, registry, delivery, publishes>>

(* A send of it fails, with its connection; or the next one finds none. *)
ResendFails(n) ==
  /\ resend[n] # {} /\ connection # n
  /\ resend' = [resend EXCEPT ![n] = {}]
  /\ UNCHANGED <<connection, connects, told, registry, delivery, publishes>>

(* The connection is lost, or closed. *)
Lose ==
  /\ connection # 0
  /\ connection' = 0 /\ told' = {} /\ raised' = {}
  /\ UNCHANGED <<connects, resend, callbacks, list, sending, returned, subscribes,
                 unsubscribed, delivery, publishes>>

-----------------------------------------------------------------------------
(* subscribe: the first callback of a subject tells the node, and waits.  When
   not connected, that one is removed again at once. *)
Subscribe(s, k) ==
  /\ subscribes < MaxSubscribes /\ subscribes' = subscribes + 1
  /\ Register(s, k)
  /\ \/ /\ s \in Registered
        /\ returned' = [returned EXCEPT ![s][k] = @ + 1]
        /\ UNCHANGED <<told, sending>>
     \/ /\ s \notin Registered /\ connection # 0
        /\ told' = told \cup {s}
        /\ sending' = [sending EXCEPT ![s][k] = @ + 1]
        /\ UNCHANGED returned
  /\ UNCHANGED <<connection, connects, list, resend, raised, publishes,
                 unsubscribed>>

SubscribeSent(s, k) ==
  /\ sending[s][k] > 0
  /\ sending' = [sending EXCEPT ![s][k] = @ - 1]
  /\ returned' = [returned EXCEPT ![s][k] = @ + 1]
  /\ UNCHANGED <<node, callbacks, list, raised, subscribes, delivery, publishes,
                 unsubscribed>>

(* The send fails with its connection, or the task is cancelled. *)
SubscribeRaises(s, k) ==
  /\ sending[s][k] > 0
  /\ sending' = [sending EXCEPT ![s][k] = @ - 1]
  /\ raised' = IF connection = 0 THEN raised ELSE raised \cup {s}
  /\ RemoveRegistration(s, k)
  /\ UNCHANGED <<node, returned, subscribes, publishes, unsubscribed>>

Unsubscribe(s, k) ==
  /\ MapThenSumSet(LAMBDA p : unsubscribed[p[1]][p[2]], Subject \X Callback)
       < MaxUnsubscribes
  /\ Count(callbacks[s], k) > 0
  /\ RemoveRegistration(s, k)
  /\ told' = IF callbacks'[s] = <<>> THEN told \ {s} ELSE told
  /\ unsubscribed' = [unsubscribed EXCEPT ![s][k] = @ + 1]
  /\ UNCHANGED <<connection, connects, resend, calls, publishes>>

-----------------------------------------------------------------------------
(* Deliveries. *)

Counts == [s \in Subject |-> [k \in Callback |-> Count(callbacks[s], k)]]

(* _deliver begins: items() with the list objects, copied. *)
Begin(s, on) ==
  [subject |-> s, on |-> on, sending |-> FALSE,
   items |-> { <<t, list[t]>> : t \in Registered },
   now |-> <<>>, rest |-> <<>>,
   calls |-> Nothing, low |-> Counts, high |-> Counts]

(* publish: sends, and suspends. *)
Publish(s) ==
  /\ publishes < MaxPublishes /\ publishes' = publishes + 1
  /\ connection # 0 /\ Publishable(s)
  /\ delivery' = Append(delivery,
       [subject |-> s, on |-> 0, sending |-> TRUE, items |-> {},
        now |-> <<>>, rest |-> <<>>,
        calls |-> Nothing, low |-> Nothing, high |-> Nothing])
  /\ UNCHANGED <<node, registry>>

PublishSent(d) ==
  /\ delivery[d].sending
  /\ delivery' = [delivery EXCEPT ![d] = Begin(@.subject, 0)]
  /\ UNCHANGED <<node, registry, publishes>>

(* The receive loop gets a publish: not before the delivery of the last one. *)
Receive(s) ==
  /\ publishes < MaxPublishes /\ publishes' = publishes + 1
  /\ connection # 0 /\ ~ HasWildcard(s)
  /\ \A d \in DOMAIN delivery : delivery[d].on # connection
  /\ delivery' = Append(delivery, Begin(s, connection))
  /\ UNCHANGED <<node, registry>>

(* The next subject; its callbacks are copied, from the list of the snapshot. *)
Reach(d) ==
  /\ delivery[d].rest = <<>>
  /\ \E item \in delivery[d].items :
       LET s == item[1]
           copy == IF list[s] = item[2] THEN callbacks[s] ELSE <<>>
       IN delivery' = [delivery EXCEPT
            ![d].items = @ \ {item}, ![d].now = s,
            ![d].rest = IF Match(delivery[d].subject, s) THEN copy ELSE <<>>]
  /\ UNCHANGED <<node, registry, publishes>>

(* The next callback is called, and awaited; it may fail. *)
Call(d) ==
  /\ delivery[d].rest # <<>>
  /\ delivery' = [delivery EXCEPT
       ![d].rest = Tail(@),
       ![d].calls[delivery[d].now][Head(delivery[d].rest)] = @ + 1]
  /\ UNCHANGED <<node, registry, publishes>>

(* All callbacks of the snapshot have been called. *)
Complete(d) ==
  ~ delivery[d].sending /\ delivery[d].rest = <<>> /\ delivery[d].items = {}

Delivered(d) ==
  /\ Complete(d)
  /\ delivery' = RemoveAt(delivery, d)
  /\ UNCHANGED <<node, registry, publishes>>

(* The publish fails or is cancelled; the receive loop is, with its connection. *)
Stop(d) ==
  /\ delivery[d].on = 0 \/ delivery[d].on # connection
  /\ delivery' = RemoveAt(delivery, d)
  /\ UNCHANGED <<node, registry, publishes>>

-----------------------------------------------------------------------------
Next ==
  \/ Connect \/ Lose
  \/ \E n \in 1 .. MaxConnects :
       ResendFails(n) \/ \E s \in Subject : Resend(n, s)
  \/ \E s \in Given : Publish(s) \/ Receive(s)
  \/ \E s \in Subject, k \in Callback :
       \/ Subscribe(s, k) \/ SubscribeSent(s, k) \/ SubscribeRaises(s, k)
       \/ Unsubscribe(s, k)
  \/ \E d \in DOMAIN delivery :
       PublishSent(d) \/ Reach(d) \/ Call(d) \/ Delivered(d) \/ Stop(d)

Spec == Init /\ [][Next]_vars

-----------------------------------------------------------------------------
(* Properties. *)

Tally == [Subject -> [Callback -> 0 .. MaxSubscribes]]

(* Types of the state; in particular only literal subjects are published. *)
TypeOK ==
  /\ connects \in 0 .. MaxConnects /\ connection \in {0, connects}
  /\ \A s \in Subject : /\ callbacks[s] \in Seq(Callback)
                        /\ list[s] \in Nat
  /\ told \subseteq Subject
  /\ resend \in [1 .. MaxConnects -> SUBSET Subject]
  /\ sending \in Tally /\ returned \in Tally /\ raised \subseteq Subject
  /\ subscribes \in 0 .. MaxSubscribes /\ publishes \in 0 .. MaxPublishes
  /\ \A d \in DOMAIN delivery :
       LET v == delivery[d]
       IN /\ v.subject \in Seq(Part) /\ v.now \in Subject \cup {<<>>}
          /\ v.sending \in BOOLEAN /\ v.on \in {0} \cup 1 .. connects
          /\ v.rest \in Seq(Callback)
          /\ v.calls \in Tally /\ v.low \in Tally /\ v.high \in Tally
  /\ unsubscribed \in Tally

(* The literal subjects a target stands for: any part in place of a wild card. *)
Instances(target) ==
  { [i \in DOMAIN target |-> IF target[i] = Wildcard THEN f[i] ELSE target[i]] :
      f \in [DOMAIN target -> Part] }

(* A publish that is delivered to the end calls each callback exactly as often
   as it is registered to a subject that stands for the published one; if that
   changes meanwhile, as often as at some moment of the delivery. *)
DeliveredExactly ==
  \A d \in DOMAIN delivery : Complete(d) =>
    \A s \in Subject, k \in Callback :
      LET n == delivery[d].calls[s][k]
      IN IF delivery[d].subject \in Instances(s)
         THEN delivery[d].low[s][k] <= n /\ n <= delivery[d].high[s][k]
         ELSE n = 0

(* While connected, the node has each subject that has a callback, or connect()
   is about to send it; and it has no other, except one whose subscribe raised
   after it was sent. *)
TellsExactly ==
  connection # 0 =>
    /\ Registered \subseteq told \cup resend[connection]
    /\ told \subseteq Registered \cup raised

(* A subscribe that raises takes back its own registration and no other, and an
   unsubscribe takes one: what is registered is what the calls that returned, or
   are still sending, have left. *)
StaysRegistered ==
  \A s \in Subject, k \in Callback :
    LET live == sending[s][k] + returned[s][k]
    IN /\ Count(callbacks[s], k) + unsubscribed[s][k] >= live
       /\ Count(callbacks[s], k) <= live
=============================================================================
