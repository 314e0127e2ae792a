--------------------------- MODULE Acceptors_proofs ---------------------------
(***************************************************************************)
(* Proofs about Acceptors, for any callbacks, and any bounds on the calls,  *)
(* losses and requests.                                                    *)
(***************************************************************************)
EXTENDS Acceptors, TLAPS, SequenceTheorems

-----------------------------------------------------------------------------
(* Types. *)

Delivery ==
  [valid: BOOLEAN, left: SUBSET Function, calls: [Callback -> Nat],
   always: SUBSET Callback, ever: SUBSET Callback]

TableTyped ==
  /\ made \in Seq(Callback) /\ Len(made) <= MaxAccepts
  /\ acceptors \in [Callback -> Nat]
  /\ subscribed \subseteq DOMAIN made /\ sending \subseteq DOMAIN made
  /\ \A k \in Callback : Known(k) =>
       acceptors[k] \in DOMAIN made /\ made[acceptors[k]] = k
DeliveriesTyped ==
  /\ deliveries \in Seq(Delivery)
  /\ \A d \in DOMAIN deliveries : deliveries[d].left \subseteq DOMAIN made
  /\ accepted \subseteq Callback /\ overlapped \subseteq Callback
TypeInv == TableTyped /\ DeliveriesTyped

-----------------------------------------------------------------------------
(* The inductive invariant, for the callbacks that nobody accepted or stopped
   during an accept_request of theirs. *)

(* Only the function in the table is subscribed, or is being told of; callers
   know that a callback accepts once the node knows. *)
TableOK(k) ==
  /\ \A f \in subscribed : made[f] = k <=> f = acceptors[k]
  /\ Known(k) => acceptors[k] \in subscribed
  /\ \A f \in sending : made[f] = k => f = acceptors[k]
  /\ k \in accepted <=> Known(k) /\ acceptors[k] \notin sending

(* What a delivery v has done about k, and has yet to do. *)
Owed(v, k) ==
  /\ v.calls[k] \in {0, 1}
  /\ \A f, g \in v.left : made[f] = k /\ made[g] = k => f = g /\ v.calls[k] = 0
  /\ v.valid /\ k \in v.always => v.calls[k] = 1 \/ \E f \in v.left : made[f] = k
  /\ k \notin v.ever => v.calls[k] = 0 /\ \A f \in v.left : made[f] # k
  /\ ~ v.valid => v.calls[k] = 0

Inv ==
  \A k \in Callback \ overlapped :
    TableOK(k) /\ \A d \in DOMAIN deliveries : Owed(deliveries[d], k)

-----------------------------------------------------------------------------
(* What callers know changes. *)

LEMMA PromiseFacts ==
  ASSUME DeliveriesTyped, NEW now \in SUBSET Callback, Promise(now),
         made' \in Seq(Callback), sending' \subseteq DOMAIN made',
         DOMAIN made \subseteq DOMAIN made', overlapped' \subseteq Callback
  PROVE  /\ DeliveriesTyped'
         /\ DOMAIN deliveries' = DOMAIN deliveries
         /\ \A d \in DOMAIN deliveries :
              LET v == deliveries[d]
                  w == deliveries'[d]
              IN /\ w.valid = v.valid /\ w.left = v.left /\ w.calls = v.calls
                 /\ w.always = v.always \cap now
                 /\ v.ever \subseteq w.ever
<1> DEFINE told == { made'[f] : f \in sending' }
<1>1. told \in SUBSET Callback
  BY ElementOfSeq
<1>2. /\ deliveries' = [d \in DOMAIN deliveries |->
           [deliveries[d] EXCEPT !.always = @ \cap now, !.ever = @ \cup now \cup told]]
      /\ accepted' = now
  BY DEF Promise
<1> HIDE DEF told
<1>3. /\ deliveries \in Seq(Delivery) /\ Len(deliveries) \in Nat
      /\ DOMAIN deliveries = 1 .. Len(deliveries)
      /\ \A d \in DOMAIN deliveries : deliveries[d] \in Delivery
  BY LenProperties, ElementOfSeq DEF DeliveriesTyped
<1>4. ASSUME NEW d \in DOMAIN deliveries
      PROVE  /\ deliveries'[d] \in Delivery
             /\ deliveries'[d].valid = deliveries[d].valid
             /\ deliveries'[d].left = deliveries[d].left
             /\ deliveries'[d].calls = deliveries[d].calls
             /\ deliveries'[d].always = deliveries[d].always \cap now
             /\ deliveries[d].ever \subseteq deliveries'[d].ever
  BY <1>1, <1>2, <1>3 DEF Delivery
<1>5. DOMAIN deliveries' = DOMAIN deliveries
  BY <1>2
<1>6. deliveries' \in Seq(Delivery)
  <2>1. deliveries' \in [1 .. Len(deliveries) -> Delivery]
    BY <1>2, <1>3, <1>4
  <2> QED  BY <1>3, <2>1, IsASeq
<1>7. \A d \in DOMAIN deliveries' : deliveries'[d].left \subseteq DOMAIN made'
  BY <1>4, <1>5 DEF DeliveriesTyped
<1>8. DeliveriesTyped'
  BY <1>2, <1>6, <1>7 DEF DeliveriesTyped
<1> QED  BY <1>4, <1>5, <1>8

LEMMA PromiseOwed ==
  ASSUME DeliveriesTyped, Inv, NEW now \in SUBSET Callback, Promise(now),
         made' \in Seq(Callback), sending' \subseteq DOMAIN made',
         DOMAIN made \subseteq DOMAIN made', overlapped' \subseteq Callback,
         \A f \in DOMAIN made : made'[f] = made[f],
         NEW k \in Callback \ overlapped, NEW d \in DOMAIN deliveries'
  PROVE  Owed(deliveries[d], k)'
<1>1. Owed(deliveries[d], k) /\ d \in DOMAIN deliveries
  BY PromiseFacts DEF Inv
<1>2. deliveries[d].left \subseteq DOMAIN made
  BY <1>1 DEF DeliveriesTyped
<1> DEFINE v == deliveries[d]
           w == deliveries'[d]
<1>3. /\ w.valid = v.valid /\ w.left = v.left /\ w.calls = v.calls
      /\ w.always = v.always \cap now /\ v.ever \subseteq w.ever
  BY <1>1, PromiseFacts
<1> QED  BY <1>1, <1>2, <1>3 DEF Owed

(* The table changes: what is owed stays owed. *)
LEMMA TableStep ==
  ASSUME TypeInv, Inv, NEW now \in SUBSET Callback, Promise(now), TableTyped',
         DOMAIN made \subseteq DOMAIN made', \A f \in DOMAIN made : made'[f] = made[f],
         overlapped \subseteq overlapped', overlapped' \subseteq Callback,
         \A k \in Callback \ overlapped' : TableOK(k)'
  PROVE  TypeInv' /\ Inv'
<1>1. made' \in Seq(Callback) /\ sending' \subseteq DOMAIN made'
  BY DEF TableTyped
<1>2. DeliveriesTyped'
  BY <1>1, PromiseFacts DEF TypeInv
<1>3. ASSUME NEW k \in Callback \ overlapped', NEW d \in DOMAIN deliveries'
      PROVE  Owed(deliveries[d], k)'
  BY <1>1, <1>3, PromiseOwed DEF TypeInv
<1> QED  BY <1>2, <1>3 DEF TypeInv, Inv

-----------------------------------------------------------------------------
(* The operations of callers. *)

LEMMA AcceptAgainStep ==
  ASSUME TypeInv, Inv, NEW k \in Callback, AcceptAgain(k)
  PROVE  TypeInv' /\ Inv'
<1>1. /\ Known(k) /\ Promise(accepted \cup {k})
      /\ UNCHANGED <<made, acceptors, subscribed, sending>>
      /\ overlapped' = IF Telling(k) THEN overlapped \cup {k} ELSE overlapped
  BY DEF AcceptAgain, Called, table
<1>2. /\ accepted \cup {k} \in SUBSET Callback /\ accepted' = accepted \cup {k}
      /\ overlapped \subseteq overlapped' /\ overlapped' \subseteq Callback
  BY <1>1 DEF TypeInv, DeliveriesTyped, Promise
<1>3. TableTyped'
  BY <1>1 DEF TypeInv, TableTyped, Known
<1>4. ASSUME NEW j \in Callback \ overlapped'  PROVE TableOK(j)'
  <2>1. TableOK(j)
    BY <1>2, <1>4 DEF Inv
  <2>2. CASE j = k
    <3>1. acceptors[k] \notin sending
      BY <1>1, <1>4, <2>2 DEF Telling, TypeInv, TableTyped
    <3> QED  BY <1>1, <1>2, <2>1, <2>2, <3>1 DEF TableOK, Known
  <2>3. CASE j # k
    BY <1>1, <1>2, <2>1, <2>3 DEF TableOK, Known
  <2> QED  BY <2>2, <2>3
<1> QED  BY <1>1, <1>2, <1>3, <1>4, TableStep

LEMMA AcceptStep ==
  ASSUME TypeInv, Inv, NEW k \in Callback, Accept(k)
  PROVE  TypeInv' /\ Inv'
<1> DEFINE f == Len(made) + 1
<1>1. /\ ~ Known(k) /\ f \in Function
      /\ made' = Append(made, k)
      /\ acceptors' = [acceptors EXCEPT ![k] = f]
      /\ subscribed' = subscribed \cup {f}
      /\ overlapped' = IF Telling(k) THEN overlapped \cup {k} ELSE overlapped
      /\ \/ UNCHANGED sending /\ Promise(accepted \cup {k})
         \/ sending' = sending \cup {f} /\ Promise(accepted)
  BY DEF Accept, Called
<1>2. /\ made \in Seq(Callback) /\ Len(made) \in Nat /\ DOMAIN made = 1 .. Len(made)
      /\ acceptors \in [Callback -> Nat] /\ accepted \in SUBSET Callback
      /\ subscribed \subseteq DOMAIN made /\ sending \subseteq DOMAIN made
      /\ \A j \in Callback : Known(j) => acceptors[j] \in DOMAIN made /\ made[acceptors[j]] = j
  BY LenProperties DEF TypeInv, TableTyped, DeliveriesTyped
<1>3. /\ made' \in Seq(Callback) /\ Len(made') = f /\ DOMAIN made' = DOMAIN made \cup {f}
      /\ \A g \in DOMAIN made : made'[g] = made[g]
      /\ made'[f] = k /\ f \notin DOMAIN made /\ f \in Nat /\ f # None /\ f <= MaxAccepts
  BY <1>1, <1>2, AppendProperties DEF None, Function
<1>4. overlapped \subseteq overlapped' /\ overlapped' \subseteq Callback
  BY <1>1 DEF TypeInv, DeliveriesTyped
<1> HIDE DEF f
<1>5. \A j \in Callback : acceptors'[j] = IF j = k THEN f ELSE acceptors[j]
  BY <1>1, <1>2
<1>6. TableTyped'
  <2>1. \A j \in Callback : Known(j)' =>
          acceptors'[j] \in DOMAIN made' /\ made'[acceptors'[j]] = j
    BY <1>2, <1>3, <1>5 DEF Known
  <2>2. acceptors' \in [Callback -> Nat]
    BY <1>1, <1>2, <1>3
  <2>3. subscribed' \subseteq DOMAIN made' /\ sending' \subseteq DOMAIN made'
    BY <1>1, <1>2, <1>3
  <2> QED  BY <1>3, <2>1, <2>2, <2>3 DEF TableTyped
<1>7. /\ sending' \in {sending, sending \cup {f}}
      /\ accepted' = IF f \in sending' THEN accepted ELSE accepted \cup {k}
  BY <1>1, <1>2, <1>3 DEF Promise
<1>8. ASSUME NEW j \in Callback \ overlapped'  PROVE TableOK(j)'
  <2>1. TableOK(j)
    BY <1>4, <1>8 DEF Inv
  <2>2. CASE j = k
    <3>1. \A g \in sending : made[g] # k
      BY <1>1, <1>8, <2>2 DEF Telling
    <3>2. \A g \in subscribed : made[g] # k
      BY <1>1, <1>2, <2>1, <2>2 DEF TableOK, Known, None
    <3>3. k \notin accepted
      BY <1>1, <2>1, <2>2 DEF TableOK
    <3> QED  BY <1>1, <1>2, <1>3, <1>5, <1>7, <2>2, <3>1, <3>2, <3>3 DEF TableOK, Known
  <2>3. CASE j # k
    BY <1>1, <1>2, <1>3, <1>5, <1>7, <2>1, <2>3 DEF TableOK, Known
  <2> QED  BY <2>2, <2>3
<1>9. ASSUME NEW now \in SUBSET Callback, Promise(now)  PROVE TypeInv' /\ Inv'
  BY <1>3, <1>4, <1>6, <1>8, <1>9, TableStep
<1> QED  BY <1>1, <1>2, <1>9

LEMMA AcceptReturnsStep ==
  ASSUME TypeInv, Inv, NEW f \in sending, AcceptReturns(f)
  PROVE  TypeInv' /\ Inv'
<1>1. /\ sending' = sending \ {f} /\ UNCHANGED <<made, acceptors, subscribed, overlapped>>
      /\ Promise(accepted \cup {made[f]})
  BY DEF AcceptReturns
<1>2. f \in DOMAIN made /\ made[f] \in Callback
  BY ElementOfSeq, LenProperties DEF TypeInv, TableTyped
<1>3. /\ accepted \cup {made[f]} \in SUBSET Callback /\ accepted' = accepted \cup {made[f]}
      /\ overlapped' \subseteq Callback
  BY <1>1, <1>2 DEF TypeInv, DeliveriesTyped, Promise
<1>4. TableTyped'
  BY <1>1 DEF TypeInv, TableTyped, Known
<1>5. ASSUME NEW j \in Callback \ overlapped'  PROVE TableOK(j)'
  <2>1. TableOK(j)
    BY <1>1, <1>5 DEF Inv
  <2>2. CASE j = made[f]
    <3>1. f = acceptors[j] /\ Known(j)
      BY <2>1, <2>2, <1>2, LenProperties DEF TableOK, Known, TypeInv, TableTyped, None
    <3> QED  BY <1>1, <1>3, <2>1, <2>2, <3>1 DEF TableOK, Known
  <2>3. CASE j # made[f]
    <3>1. Known(j) => acceptors[j] # f
      BY <2>3, <1>5 DEF TypeInv, TableTyped
    <3> QED  BY <1>1, <1>3, <2>1, <2>3, <3>1 DEF TableOK, Known
  <2> QED  BY <2>2, <2>3
<1> QED  BY <1>1, <1>3, <1>4, <1>5, TableStep

LEMMA AcceptRaisesStep ==
  ASSUME TypeInv, Inv, NEW f \in sending, AcceptRaises(f)
  PROVE  TypeInv' /\ Inv'
<1> DEFINE k == made[f]
<1>1. /\ sending' = sending \ {f} /\ subscribed' = subscribed \ {f}
      /\ acceptors' = [acceptors EXCEPT ![k] = None]
      /\ UNCHANGED <<made, overlapped>> /\ Promise(accepted)
  BY DEF AcceptRaises
<1>2. f \in DOMAIN made /\ k \in Callback
  BY ElementOfSeq, LenProperties DEF TypeInv, TableTyped
<1>3. /\ accepted \in SUBSET Callback /\ accepted' = accepted /\ overlapped' \subseteq Callback
      /\ acceptors \in [Callback -> Nat]
      /\ \A j \in Callback : Known(j) => acceptors[j] \in DOMAIN made /\ made[acceptors[j]] = j
  BY <1>1 DEF TypeInv, TableTyped, DeliveriesTyped, Promise
<1>4. k = made[f]
  OBVIOUS
<1> HIDE DEF k
<1>5. \A j \in Callback : acceptors'[j] = IF j = k THEN None ELSE acceptors[j]
  BY <1>1, <1>3
<1>6. TableTyped'
  <2>1. acceptors' \in [Callback -> Nat]
    BY <1>1, <1>3 DEF None
  <2> QED  BY <1>1, <1>5, <2>1 DEF TypeInv, TableTyped, Known
<1>7. ASSUME NEW j \in Callback \ overlapped'  PROVE TableOK(j)'
  <2>1. TableOK(j)
    BY <1>1, <1>7 DEF Inv
  <2>2. CASE j = k
    <3>1. f = acceptors[k]
      BY <1>4, <2>1, <2>2 DEF TableOK
    <3>2. \A g \in subscribed' : made[g] # k /\ g # None
      BY <1>1, <2>1, <2>2, <3>1, LenProperties DEF TableOK, TypeInv, TableTyped, None
    <3>3. \A g \in sending' : made[g] # k
      BY <1>1, <2>1, <2>2, <3>1 DEF TableOK
    <3>4. k \notin accepted
      BY <2>1, <2>2, <3>1 DEF TableOK
    <3> QED  BY <1>1, <1>3, <1>5, <2>2, <3>2, <3>3, <3>4 DEF TableOK, Known
  <2>3. CASE j # k
    <3>1. Known(j) => acceptors[j] # f
      BY <1>3, <1>4, <1>7, <2>3
    <3> QED  BY <1>1, <1>3, <1>5, <2>1, <2>3, <3>1 DEF TableOK, Known
  <2> QED  BY <2>2, <2>3
<1> QED  BY <1>1, <1>3, <1>6, <1>7, TableStep

LEMMA StopStep ==
  ASSUME TypeInv, Inv, NEW k \in Callback, Stop(k)
  PROVE  TypeInv' /\ Inv'
<1>1. /\ Known(k) /\ subscribed' = subscribed \ {acceptors[k]}
      /\ acceptors' = [acceptors EXCEPT ![k] = None]
      /\ UNCHANGED <<made, sending>> /\ Promise(accepted \ {k})
      /\ overlapped' = IF Telling(k) THEN overlapped \cup {k} ELSE overlapped
  BY DEF Stop, Called
<1>2. /\ accepted \ {k} \in SUBSET Callback /\ accepted' = accepted \ {k}
      /\ overlapped' \subseteq Callback /\ overlapped \subseteq overlapped'
      /\ acceptors \in [Callback -> Nat]
      /\ \A j \in Callback : Known(j) => acceptors[j] \in DOMAIN made /\ made[acceptors[j]] = j
  BY <1>1 DEF TypeInv, TableTyped, DeliveriesTyped, Promise
<1>3. \A j \in Callback : acceptors'[j] = IF j = k THEN None ELSE acceptors[j]
  BY <1>1, <1>2
<1>4. TableTyped'
  <2>1. acceptors' \in [Callback -> Nat]
    BY <1>1, <1>2 DEF None
  <2> QED  BY <1>1, <1>3, <2>1 DEF TypeInv, TableTyped, Known
<1>5. ASSUME NEW j \in Callback \ overlapped'  PROVE TableOK(j)'
  <2>1. TableOK(j)
    BY <1>2, <1>5 DEF Inv
  <2>2. CASE j = k
    <3>1. \A g \in subscribed' : made[g] # k /\ g # None
      BY <1>1, <2>1, <2>2, LenProperties DEF TableOK, TypeInv, TableTyped, None
    <3>2. \A g \in sending : made[g] # k
      BY <1>1, <1>5, <2>2 DEF Telling
    <3> QED  BY <1>1, <1>2, <1>3, <2>2, <3>1, <3>2 DEF TableOK, Known
  <2>3. CASE j # k
    <3>1. Known(j) => acceptors[j] # acceptors[k]
      BY <1>1, <1>2, <1>5, <2>3
    <3> QED  BY <1>1, <1>2, <1>3, <2>1, <2>3, <3>1 DEF TableOK, Known
  <2> QED  BY <2>2, <2>3
<1> QED  BY <1>1, <1>2, <1>4, <1>5, TableStep

-----------------------------------------------------------------------------
(* Requests. *)

LEMMA DeliveriesAre ==
  ASSUME TypeInv
  PROVE  /\ deliveries \in Seq(Delivery) /\ Len(deliveries) \in Nat
         /\ DOMAIN deliveries = 1 .. Len(deliveries)
         /\ \A d \in DOMAIN deliveries :
              deliveries[d] \in Delivery /\ deliveries[d].left \subseteq DOMAIN made
BY LenProperties, ElementOfSeq DEF TypeInv, DeliveriesTyped

(* The table stays. *)
LEMMA DeliveryStep ==
  ASSUME TypeInv, Inv, UNCHANGED <<table, accepted, overlapped>>,
         deliveries' \in Seq(Delivery),
         \A d \in DOMAIN deliveries' :
           /\ deliveries'[d].left \subseteq DOMAIN made
           /\ \A k \in Callback \ overlapped : Owed(deliveries'[d], k)
  PROVE  TypeInv' /\ Inv'
<1>1. UNCHANGED <<made, acceptors, subscribed, sending>>
  BY DEF table
<1>2. TypeInv'
  BY <1>1 DEF TypeInv, TableTyped, DeliveriesTyped, Known
<1>3. \A k \in Callback \ overlapped : TableOK(k)'
  BY <1>1 DEF Inv, TableOK, Known
<1>4. \A k \in Callback \ overlapped, d \in DOMAIN deliveries' : Owed(deliveries[d], k)'
  BY <1>1 DEF Owed
<1> QED  BY <1>2, <1>3, <1>4 DEF Inv

LEMMA ArriveStep ==
  ASSUME TypeInv, Inv, Arrive
  PROVE  TypeInv' /\ Inv'
<1>1. PICK valid \in BOOLEAN :
        deliveries' = Append(deliveries,
          [valid |-> valid, left |-> subscribed,
           calls |-> [k \in Callback |-> 0],
           always |-> accepted,
           ever |-> accepted \cup { made[f] : f \in sending }])
  BY DEF Arrive
<1> DEFINE told == { made[f] : f \in sending }
           v == [valid |-> valid, left |-> subscribed, calls |-> [k \in Callback |-> 0],
                 always |-> accepted, ever |-> accepted \cup told]
<1>2. /\ made \in Seq(Callback) /\ Len(made) \in Nat /\ DOMAIN made = 1 .. Len(made)
      /\ Len(made) <= MaxAccepts /\ subscribed \subseteq DOMAIN made
      /\ sending \subseteq DOMAIN made /\ accepted \subseteq Callback
      /\ \A k \in Callback : Known(k) => made[acceptors[k]] = k
  BY LenProperties DEF TypeInv, TableTyped, DeliveriesTyped
<1>3. told \in SUBSET Callback /\ \A f \in sending : made[f] \in told
  BY <1>2, ElementOfSeq
<1>4. subscribed \in SUBSET Function
  BY <1>2, AcceptorsAssumption DEF Function
<1> HIDE DEF told
<1>5. v \in Delivery
  BY <1>2, <1>3, <1>4 DEF Delivery
<1>6. /\ v.valid = valid /\ v.left = subscribed /\ v.always = accepted
      /\ v.ever = accepted \cup told /\ \A k \in Callback : v.calls[k] = 0
  OBVIOUS
<1>7. deliveries' = Append(deliveries, v)
  BY <1>1 DEF told
<1> HIDE DEF v
<1>8. ASSUME NEW k \in Callback \ overlapped  PROVE Owed(v, k)
  <2>1. TableOK(k)
    BY DEF Inv
  <2>2. k \notin v.ever => ~ Known(k)
    BY <1>2, <1>3, <1>6, <2>1 DEF TableOK
  <2>3. ~ Known(k) => \A f \in v.left : made[f] # k
    BY <1>2, <1>6, <2>1 DEF TableOK, Known, None
  <2>4. k \in v.always => Known(k)
    BY <1>6, <2>1 DEF TableOK
  <2> QED  BY <1>2, <1>6, <2>1, <2>2, <2>3, <2>4 DEF Owed, TableOK
<1>9. /\ deliveries' \in Seq(Delivery)
      /\ \A d \in DOMAIN deliveries' :
           \/ d \in DOMAIN deliveries /\ deliveries'[d] = deliveries[d]
           \/ deliveries'[d] = v
  BY <1>5, <1>7, DeliveriesAre, AppendProperties, LenProperties
<1>10. \A d \in DOMAIN deliveries' :
         /\ deliveries'[d].left \subseteq DOMAIN made
         /\ \A k \in Callback \ overlapped : Owed(deliveries'[d], k)
  BY <1>2, <1>6, <1>8, <1>9, DeliveriesAre DEF Inv
<1>11. UNCHANGED <<table, accepted, overlapped>>
  BY DEF Arrive
<1> QED  BY <1>9, <1>10, <1>11, DeliveryStep

LEMMA ServeStep ==
  ASSUME TypeInv, Inv, NEW d \in DOMAIN deliveries, NEW f \in deliveries[d].left, Serve(d, f)
  PROVE  TypeInv' /\ Inv'
<1> DEFINE v == deliveries[d]
           w == [v EXCEPT !.left = @ \ {f},
                          !.calls[made[f]] = IF v.valid THEN @ + 1 ELSE @]
<1>1. /\ deliveries \in Seq(Delivery) /\ v \in Delivery /\ f \in DOMAIN made
      /\ v.left \subseteq DOMAIN made /\ made[f] \in Callback
      /\ \A i \in DOMAIN deliveries : deliveries[i].left \subseteq DOMAIN made
      /\ Len(deliveries) \in Nat /\ DOMAIN deliveries = 1 .. Len(deliveries)
  BY DeliveriesAre, ElementOfSeq DEF TypeInv, TableTyped
<1>2. deliveries' = [deliveries EXCEPT ![d] = w] /\ UNCHANGED <<table, accepted, overlapped>>
  BY DEF Serve, Heeds
<1>3. /\ w.valid = v.valid /\ w.left = v.left \ {f} /\ w.always = v.always
      /\ w.ever = v.ever /\ w \in Delivery
      /\ \A k \in Callback :
           w.calls[k] = IF k = made[f] /\ v.valid THEN v.calls[k] + 1 ELSE v.calls[k]
  <2> DEFINE n == IF v.valid THEN v.calls[made[f]] + 1 ELSE v.calls[made[f]]
             c == [v.calls EXCEPT ![made[f]] = n]
  <2>1. v.calls \in [Callback -> Nat] /\ n \in Nat
    BY <1>1 DEF Delivery
  <2>2. w = [v EXCEPT !.left = v.left \ {f}, !.calls = c]
    OBVIOUS
  <2>3. /\ c \in [Callback -> Nat]
        /\ \A k \in Callback : c[k] = IF k = made[f] THEN n ELSE v.calls[k]
    BY <2>1
  <2> HIDE DEF c, w
  <2>4. /\ w.valid = v.valid /\ w.left = v.left \ {f} /\ w.always = v.always
        /\ w.ever = v.ever /\ w.calls = c /\ w \in Delivery
    BY <1>1, <2>2, <2>3 DEF Delivery
  <2> QED  BY <2>3, <2>4
<1> HIDE DEF w
<1>4. ASSUME NEW k \in Callback \ overlapped  PROVE Owed(w, k)
  <2>1. Owed(v, k)
    BY DEF Inv
  <2>2. CASE k = made[f]
    <3>1. /\ v.calls[k] = 0 /\ k \in v.ever
          /\ \A g \in w.left : made[g] # k
      BY <1>3, <2>1, <2>2 DEF Owed
    <3>2. w.calls[k] = IF v.valid THEN 1 ELSE 0
      BY <1>3, <2>2, <3>1
    <3> QED  BY <1>3, <3>1, <3>2 DEF Owed
  <2>3. CASE k # made[f]
    BY <1>3, <2>1, <2>3 DEF Owed
  <2> QED  BY <2>2, <2>3
<1>5. /\ deliveries' \in Seq(Delivery) /\ DOMAIN deliveries' = DOMAIN deliveries
      /\ \A i \in DOMAIN deliveries : deliveries'[i] = IF i = d THEN w ELSE deliveries[i]
  BY <1>1, <1>2, <1>3, ExceptSeq
<1>6. \A i \in DOMAIN deliveries' :
        /\ deliveries'[i].left \subseteq DOMAIN made
        /\ \A k \in Callback \ overlapped : Owed(deliveries'[i], k)
  BY <1>1, <1>3, <1>4, <1>5 DEF Inv
<1> QED  BY <1>2, <1>5, <1>6, DeliveryStep

LEMMA LeaveStep ==
  ASSUME TypeInv, Inv, NEW d \in DOMAIN deliveries, Leave(d)
  PROVE  TypeInv' /\ Inv'
<1>1. /\ deliveries \in Seq(Delivery) /\ Len(deliveries) \in Nat
      /\ DOMAIN deliveries = 1 .. Len(deliveries)
      /\ \A i \in DOMAIN deliveries :
           deliveries[i] \in Delivery /\ deliveries[i].left \subseteq DOMAIN made
  BY DeliveriesAre
<1>2. /\ deliveries' = [i \in 1 .. Len(deliveries) - 1 |->
                          deliveries[IF i < d THEN i ELSE i + 1]]
      /\ UNCHANGED <<table, accepted, overlapped>>
  BY DEF Leave
<1>3. \A i \in 1 .. Len(deliveries) - 1 :
        \E j \in DOMAIN deliveries : deliveries'[i] = deliveries[j]
  <2>1. ASSUME NEW i \in 1 .. Len(deliveries) - 1
        PROVE  (IF i < d THEN i ELSE i + 1) \in DOMAIN deliveries
    BY <1>1
  <2> QED  BY <1>2, <2>1
<1>4. /\ Len(deliveries) - 1 \in Nat /\ DOMAIN deliveries' = 1 .. Len(deliveries) - 1
      /\ deliveries' \in [1 .. Len(deliveries) - 1 -> Delivery]
  BY <1>1, <1>2, <1>3
<1>5. deliveries' \in Seq(Delivery)
  BY <1>4, IsASeq
<1>6. \A i \in DOMAIN deliveries' :
        /\ deliveries'[i].left \subseteq DOMAIN made
        /\ \A k \in Callback \ overlapped : Owed(deliveries'[i], k)
  BY <1>1, <1>3, <1>4 DEF Inv
<1> QED  BY <1>2, <1>5, <1>6, DeliveryStep

-----------------------------------------------------------------------------
(* Any steps, by any number of callers, and any losses: a request that has been
   delivered called every callback as its callers expect, if they did not accept
   or stop it during an accept_request of it that had not returned. *)
THEOREM CalledOnce == Spec => []CalledOncePerRequest
<1>1. Init => TypeInv /\ Inv
  <2> SUFFICES ASSUME Init PROVE TypeInv /\ Inv
    OBVIOUS
  <2>1. /\ made = <<>> /\ deliveries = <<>> /\ subscribed = {} /\ sending = {}
        /\ accepted = {} /\ overlapped = {} /\ acceptors = [k \in Callback |-> None]
    BY DEF Init
  <2>2. /\ made \in Seq(Callback) /\ deliveries \in Seq(Delivery)
        /\ Len(made) = 0 /\ DOMAIN deliveries = {}
    BY <2>1
  <2> QED
    BY <2>1, <2>2, AcceptorsAssumption
       DEF TypeInv, TableTyped, DeliveriesTyped, Inv, TableOK, Known, None
<1>2. TypeInv /\ Inv /\ [Next]_vars => (TypeInv /\ Inv)'
  <2> SUFFICES ASSUME TypeInv, Inv, [Next]_vars PROVE TypeInv' /\ Inv'
    OBVIOUS
  <2>1. CASE UNCHANGED <<table, deliveries, accepted, overlapped>>
    BY <2>1, DeliveriesAre, DeliveryStep DEF Inv, Owed
  <2>2. CASE UNCHANGED vars \/ Lose \/ Connect
    BY <2>1, <2>2 DEF vars, Lose, Connect
  <2>3. ASSUME NEW k \in Callback, AcceptAgain(k) \/ Accept(k) \/ Stop(k)
        PROVE  TypeInv' /\ Inv'
    BY <2>3, AcceptAgainStep, AcceptStep, StopStep
  <2>4. ASSUME NEW f \in sending, AcceptReturns(f) \/ AcceptRaises(f)
        PROVE  TypeInv' /\ Inv'
    BY <2>4, AcceptReturnsStep, AcceptRaisesStep
  <2>5. ASSUME NEW d \in DOMAIN deliveries,
               Leave(d) \/ \E f \in deliveries[d].left : Serve(d, f)
        PROVE  TypeInv' /\ Inv'
    BY <2>5, LeaveStep, ServeStep
  <2> QED  BY <2>2, <2>3, <2>4, <2>5, ArriveStep DEF Next
<1>3. TypeInv /\ Inv => CalledOncePerRequest
  <2> SUFFICES ASSUME Inv, NEW d \in DOMAIN deliveries, Complete(d),
                      NEW k \in Callback \ overlapped
               PROVE  /\ deliveries[d].calls[k] <= 1
                      /\ k \in deliveries[d].always /\ deliveries[d].valid
                           => deliveries[d].calls[k] = 1
                      /\ k \notin deliveries[d].ever \/ ~ deliveries[d].valid
                           => deliveries[d].calls[k] = 0
    BY DEF CalledOncePerRequest, Served
  <2> QED  BY DEF Inv, Owed, Complete
<1> QED  BY <1>1, <1>2, <1>3, PTL DEF Spec

===============================================================================
