--------------------------- MODULE Scripts_proofs ---------------------------
(***************************************************************************)
(* Proofs about the command line scripts: Server, for any number of         *)
(* upstreams and addresses, any delays, and upstreams that change and are   *)
(* lost as often as they like; and BusCheck, for any machines.              *)
(***************************************************************************)
EXTENDS Server, BusCheck, TLAPS, FiniteSetTheorems, SequenceTheorems,
        WellFoundedInduction

(* A set of numbers has a smallest one. *)
LEMMA Smallest ==
  ASSUME NEW S \in SUBSET Nat, S # {}
  PROVE  \E n \in S : \A k \in S : n <= k
<1>1. PICK r \in S : \A k \in S : <<k, r>> \notin OpToRel(<, Nat)
  BY NatLessThanWellFounded, WFMin
<1>2. ASSUME NEW k \in S  PROVE r <= k
  <2>1. CASE k < r
    <3>1. <<k, r>> \in OpToRel(<, Nat)
      BY <2>1 DEF OpToRel
    <3> QED  BY <1>1, <3>1
  <2> QED  BY <2>1
<1> QED  BY <1>2

-----------------------------------------------------------------------------
(* Server. *)

(* Without --reconnect, one upstream is attempted at a time, the next, and no
   task waits for another attempt. *)
OneAfterTheOther ==
  ~ reconnect =>
    \A u \in Upstream :
      /\ task[u] # "sleeping"
      /\ task[u] \in {"attempting", "checking"} =>
           tried < Len(Upstreams) /\ u = Upstreams[tried + 1]

(* With it, no task has begun before the server listens. *)
NotBegun ==
  reconnect =>
    /\ stage # "connecting"
    /\ stage = "listening" => \A u \in Upstream : task[u] = "none"

(* What the node has of each upstream, by what its task is doing. *)
LinksExact ==
  \A u \in Upstream :
    /\ links[u] <= 1
    /\ task[u] = "checking" => links[u] = 1
    /\ task[u] \in {"none", "attempting", "sleeping", "abandoned", "raised"} =>
         links[u] = 0

(* A task raises for its first answer only, when that is final. *)
RaisedForGood ==
  reconnect =>
    \A u \in Upstream :
      task[u] = "raised" => refused[u] = "cycle" /\ u \in first

IInv ==
  /\ TypeOK
  /\ OneAfterTheOther
  /\ NotBegun
  /\ LinksExact
  /\ RaisedForGood
  /\ FinalMeansFinal

-----------------------------------------------------------------------------
(* The initial states satisfy the invariant. *)
LEMMA InitInv == Init => IInv
BY ServerAssumption
DEF Init, IInv, TypeOK, OneAfterTheOther, NotBegun, LinksExact, RaisedForGood,
    FinalMeansFinal, ServerAssumption, Door, Done

(* The upstream that is attempted is not one of those done. *)
LEMMA NextUpstream ==
  ASSUME tried \in Nat, tried < Len(Upstreams)
  PROVE  tried + 1 \in DOMAIN Upstreams /\ Upstreams[tried + 1] \in Upstream
BY ServerAssumption DEF ServerAssumption, Upstream

(* What the proofs use of the constants. *)
LEMMA Numbers ==
  /\ Listens \in Nat /\ MaxChanges \in Nat /\ WaitsCap \in Nat
  /\ FirstDelay \in Nat \ {0} /\ MaxDelay \in Nat /\ FirstDelay <= MaxDelay
  /\ Len(Upstreams) \in Nat
BY ServerAssumption DEF ServerAssumption

USE DEF IInv, Done, Door

(* What the upstreams do preserves the invariant. *)
LEMMA WorldInv ==
  ASSUME IInv, NEW u \in Upstream, Change(u) \/ Lose(u)
  PROVE  IInv'
<1>1. CASE Change(u)
  <2> USE <1>1 DEF Change, keeper
  <2>1. TypeOK'
    BY DEF TypeOK
  <2>2. (OneAfterTheOther /\ NotBegun /\ LinksExact
         /\ RaisedForGood /\ FinalMeansFinal)'
    BY DEF OneAfterTheOther, NotBegun, LinksExact, RaisedForGood, FinalMeansFinal
  <2> QED  BY <2>1, <2>2
<1>2. CASE Lose(u)
  <2> USE <1>2 DEF Lose, keeper
  <2>1. TypeOK'
    BY DEF TypeOK
  <2>2. LinksExact'
    BY DEF TypeOK, LinksExact
  <2>3. (OneAfterTheOther /\ NotBegun /\ RaisedForGood /\ FinalMeansFinal)'
    BY DEF OneAfterTheOther, NotBegun, RaisedForGood, FinalMeansFinal
  <2> QED  BY <2>1, <2>2, <2>3
<1> QED  BY <1>1, <1>2

(* So does an attempt that fails, before or during the check. *)
LEMMA FailInv ==
  ASSUME IInv, NEW u \in Upstream, NEW d \in Door \ {"open"},
         task[u] \in {"attempting", "checking"},
         Fail(u, d),
         UNCHANGED <<stage, tried, listened, outcome, world>>,
         links' = [links EXCEPT ![u] = 0]
  PROVE  IInv'
<1>1. ASSUME reconnect, d # "cycle"  PROVE IInv'
  <2> USE <1>1 DEF Fail, Wait, world
  <2>1. TypeOK'
    <3>1. links' \in [Upstream -> 0 .. 2]
      BY DEF TypeOK
    <3>2. refused' \in [Upstream -> Door \cup {"none"}]
      BY DEF TypeOK
    <3>3. waits' \in [Upstream -> 0 .. WaitsCap]
      <4>1. WaitsCap \in Nat /\ waits \in [Upstream -> 0 .. WaitsCap]
        BY Numbers DEF TypeOK
      <4>2. waits' = [waits EXCEPT ![u] = IF @ < WaitsCap THEN @ + 1 ELSE @]
        OBVIOUS
      <4> HIDE <1>1 DEF IInv, Fail, Wait
      <4> QED  BY <4>1, <4>2
    <3> QED  BY <3>1, <3>2, <3>3, SMTT(30) DEF TypeOK
  <2>2. LinksExact'
    BY DEF TypeOK, LinksExact
  <2>3. RaisedForGood'
    BY DEF TypeOK, RaisedForGood
  <2>4. FinalMeansFinal'
    BY DEF TypeOK, FinalMeansFinal, NotBegun, RaisedForGood
  <2>5. (OneAfterTheOther /\ NotBegun)'
    BY DEF OneAfterTheOther, NotBegun
  <2> QED  BY <2>1, <2>2, <2>3, <2>4, <2>5
<1>2. ASSUME ~ (reconnect /\ d # "cycle")  PROVE IInv'
  <2> USE <1>2 DEF Fail, world
  <2>1. TypeOK'
    <3>1. links' \in [Upstream -> 0 .. 2]
      BY DEF TypeOK
    <3>2. refused' \in [Upstream -> Door \cup {"none"}]
      BY DEF TypeOK
    <3>3. waits' \in [Upstream -> 0 .. WaitsCap]
      BY DEF TypeOK
    <3>4. task' \in [Upstream -> Done \cup {"attempting", "checking", "connected",
                                           "sleeping"}]
      BY DEF TypeOK
    <3> QED  BY <3>1, <3>2, <3>3, <3>4 DEF TypeOK
  <2>2. OneAfterTheOther'
    BY DEF TypeOK, OneAfterTheOther
  <2>3. LinksExact'
    BY DEF TypeOK, LinksExact
  <2>4. RaisedForGood'
    BY DEF TypeOK, RaisedForGood
  <2>5. FinalMeansFinal'
    BY SMTT(30) DEF TypeOK, FinalMeansFinal, NotBegun, RaisedForGood
  <2>6. NotBegun'
    BY DEF NotBegun
  <2> QED  BY <2>1, <2>2, <2>3, <2>4, <2>5, <2>6
<1> QED  BY <1>1, <1>2

(* So does each step of a task, *)
LEMMA KeeperInv ==
  ASSUME IInv, NEW u \in Upstream, Keeper(u)
  PROVE  IInv'
<1>1. CASE CancelTask(u)
  <2> USE <1>1 DEF CancelTask, keeper, world
  <2>1. TypeOK'
    BY DEF TypeOK
  <2>2. (OneAfterTheOther /\ NotBegun /\ LinksExact
         /\ RaisedForGood /\ FinalMeansFinal)'
    BY DEF OneAfterTheOther, NotBegun, LinksExact, RaisedForGood, FinalMeansFinal
  <2> QED  BY <2>1, <2>2
<1>2. CASE Opens(u)
  <2> USE <1>2 DEF Opens, keeper, world
  <2>1. TypeOK'
    BY DEF TypeOK, LinksExact
  <2>2. LinksExact'
    BY DEF TypeOK, LinksExact
  <2>3. (OneAfterTheOther /\ NotBegun /\ RaisedForGood /\ FinalMeansFinal)'
    BY DEF OneAfterTheOther, NotBegun, RaisedForGood, FinalMeansFinal
  <2> QED  BY <2>1, <2>2, <2>3
<1>3. CASE Unreachable(u)
  <2>1. links' = [links EXCEPT ![u] = 0]
    BY <1>3 DEF Unreachable, TypeOK, LinksExact
  <2> QED  BY <1>3, <2>1, FailInv DEF Unreachable
<1>4. CASE Refused(u)
  <2>1. links' = [links EXCEPT ![u] = 0]
    <3>1. links[u] = 1
      BY <1>4 DEF Refused, LinksExact
    <3> QED  BY <1>4, <3>1 DEF Refused
  <2>2. door[u] \in Door \ {"open"}
    BY <1>4 DEF Refused, TypeOK
  <2> QED  BY <1>4, <2>1, <2>2, FailInv DEF Refused
<1>5. CASE Accepted(u)
  <2> USE <1>5 DEF Accepted, world
  <2>1. TypeOK'
    BY Numbers DEF TypeOK, OneAfterTheOther
  <2>2. OneAfterTheOther'
    BY DEF TypeOK, OneAfterTheOther
  <2>3. (NotBegun /\ LinksExact /\ RaisedForGood /\ FinalMeansFinal)'
    BY DEF NotBegun, LinksExact, RaisedForGood, FinalMeansFinal
  <2> QED  BY <2>1, <2>2, <2>3
<1>6. CASE Ended(u)
  <2> USE <1>6 DEF Ended, Wait, world
  <2>1. TypeOK'
    BY Numbers DEF TypeOK
  <2>2. (OneAfterTheOther /\ NotBegun /\ LinksExact
         /\ RaisedForGood /\ FinalMeansFinal)'
    BY DEF OneAfterTheOther, NotBegun, LinksExact, RaisedForGood, FinalMeansFinal
  <2> QED  BY <2>1, <2>2
<1>7. CASE Wake(u)
  <2> USE <1>7 DEF Wake, world
  <2>1. TypeOK'
    BY Numbers DEF TypeOK
  <2>2. (OneAfterTheOther /\ NotBegun /\ LinksExact
         /\ RaisedForGood /\ FinalMeansFinal)'
    BY DEF OneAfterTheOther, NotBegun, LinksExact, RaisedForGood, FinalMeansFinal
  <2> QED  BY <2>1, <2>2
<1> QED  BY <1>1, <1>2, <1>3, <1>4, <1>5, <1>6, <1>7 DEF Keeper

(* and of run_server. *)
LEMMA MainInv ==
  ASSUME IInv, Main \/ Interrupt
  PROVE  IInv'
<1>1. CASE ConnectNext
  <2> USE <1>1, NextUpstream DEF ConnectNext, keeper, world
  <2>1. TypeOK'
    BY Numbers DEF TypeOK, LinksExact, OneAfterTheOther
  <2>2. (OneAfterTheOther /\ NotBegun /\ LinksExact
         /\ RaisedForGood /\ FinalMeansFinal)'
    BY DEF OneAfterTheOther, NotBegun, LinksExact, RaisedForGood, FinalMeansFinal
  <2> QED  BY <2>1, <2>2
<1>2. CASE ConnectedToAll
  <2> USE <1>2 DEF ConnectedToAll, keeper, world
  <2>1. TypeOK'
    BY DEF TypeOK
  <2>2. (OneAfterTheOther /\ NotBegun /\ LinksExact
         /\ RaisedForGood /\ FinalMeansFinal)'
    BY DEF OneAfterTheOther, NotBegun, LinksExact, RaisedForGood, FinalMeansFinal
  <2> QED  BY <2>1, <2>2
<1>3. CASE Listen
  <2> USE <1>3 DEF Listen, Stop, keeper, world
  <2>1. TypeOK'
    BY Numbers DEF TypeOK
  <2>2. (OneAfterTheOther /\ NotBegun /\ LinksExact
         /\ RaisedForGood /\ FinalMeansFinal)'
    BY DEF OneAfterTheOther, NotBegun, LinksExact, RaisedForGood, FinalMeansFinal
  <2> QED  BY <2>1, <2>2
<1>4. CASE Run
  <2> USE <1>4 DEF Run, keeper, world
  <2>1. TypeOK'
    BY DEF TypeOK
  <2>2. LinksExact'
    BY DEF LinksExact, NotBegun
  <2>3. FinalMeansFinal'
    BY DEF FinalMeansFinal, NotBegun
  <2>4. (OneAfterTheOther /\ NotBegun /\ RaisedForGood)'
    BY DEF OneAfterTheOther, NotBegun, RaisedForGood
  <2> QED  BY <2>1, <2>2, <2>3, <2>4
<1>5. CASE CloseNode
  <2> USE <1>5 DEF CloseNode, keeper, world
  <2>1. TypeOK'
    BY DEF TypeOK
  <2>2. (OneAfterTheOther /\ NotBegun /\ LinksExact
         /\ RaisedForGood /\ FinalMeansFinal)'
    BY DEF OneAfterTheOther, NotBegun, LinksExact, RaisedForGood, FinalMeansFinal
  <2> QED  BY <2>1, <2>2
<1>6. ASSUME NEW u \in Upstream, Raise(u)  PROVE IInv'
  <2> USE <1>6 DEF Raise, Stop, keeper, world
  <2>1. TypeOK'
    BY DEF TypeOK
  <2>2. NotBegun'
    BY DEF TypeOK, NotBegun
  <2>3. FinalMeansFinal'
    BY DEF FinalMeansFinal, RaisedForGood
  <2>4. (OneAfterTheOther /\ LinksExact /\ RaisedForGood)'
    BY DEF OneAfterTheOther, LinksExact, RaisedForGood
  <2> QED  BY <2>1, <2>2, <2>3, <2>4
<1>7. CASE Interrupt
  <2> USE <1>7 DEF Interrupt, Stop, keeper, world
  <2>1. TypeOK'
    BY DEF TypeOK
  <2>2. (OneAfterTheOther /\ NotBegun /\ LinksExact
         /\ RaisedForGood /\ FinalMeansFinal)'
    BY DEF OneAfterTheOther, NotBegun, LinksExact, RaisedForGood, FinalMeansFinal
  <2> QED  BY <2>1, <2>2
<1> QED  BY <1>1, <1>2, <1>3, <1>4, <1>5, <1>6, <1>7 DEF Main

(* IInv is inductive, *)
LEMMA StepInv == IInv /\ [Next]_vars => IInv'
<1> SUFFICES ASSUME IInv, [Next]_vars  PROVE IInv'
  OBVIOUS
<1> HIDE DEF IInv
<1>1. CASE Main \/ Interrupt
  BY <1>1, MainInv
<1>2. ASSUME NEW u \in Upstream, Keeper(u)  PROVE IInv'
  BY <1>2, KeeperInv
<1>3. ASSUME NEW u \in Upstream, Change(u) \/ Lose(u)  PROVE IInv'
  BY <1>3, WorldInv
<1>4. CASE UNCHANGED vars
  BY <1>4 DEF vars, IInv, TypeOK, OneAfterTheOther, NotBegun, LinksExact,
              RaisedForGood, FinalMeansFinal
<1> QED  BY <1>1, <1>2, <1>3, <1>4 DEF Next

(* so it holds in every reachable state. *)
LEMMA Invariant == Spec => []IInv
BY InitInv, StepInv, PTL DEF Spec

-----------------------------------------------------------------------------
(* The variables keep their types; in particular a delay never exceeds
   MaxDelay, and no upstream is attempted that was not given. *)
THEOREM TypeCorrect == Spec => []TypeOK
<1>1. IInv => TypeOK
  BY DEF IInv
<1> QED  BY <1>1, Invariant, PTL

(* The node never has two connections to an upstream, and _keep_connected never
   waits, gives up or raises while it has one. *)
THEOREM OneConnection == Spec => []OneConnectionEach
<1>1. IInv => OneConnectionEach
  BY DEF IInv, LinksExact, OneConnectionEach
<1> QED  BY <1>1, Invariant, PTL

(* Whatever the upstreams do, a final refusal is heeded, and nothing else makes
   a server give an upstream up, or stop. *)
THEOREM FinalIsFinal == Spec => []FinalMeansFinal
<1>1. IInv => FinalMeansFinal
  BY DEF IInv
<1> QED  BY <1>1, Invariant, PTL
-----------------------------------------------------------------------------
(* The first n doublings, as a sequence that starts at 0. *)
Doublings(n) ==
  { f \in [0 .. n -> Nat] :
      f[0] = FirstDelay /\ \A k \in 1 .. n : f[k] = 2 * f[k - 1] }

(* There is one for each n, *)
LEMMA DoublingsExist == \A n \in Nat : Doublings(n) # {}
<1> DEFINE S == { n \in Nat : Doublings(n) = {} }
<1> SUFFICES ASSUME S # {}  PROVE FALSE
  OBVIOUS
<1>1. PICK n \in S : \A k \in S : n <= k
  BY Smallest
<1>2. n \in Nat /\ Doublings(n) = {}
  OBVIOUS
<1>3. CASE n = 0
  <2>1. [k \in 0 .. 0 |-> FirstDelay] \in Doublings(0)
    BY Numbers DEF Doublings
  <2> QED  BY <1>2, <1>3, <2>1
<1>4. CASE n # 0
  <2>1. n - 1 \in Nat /\ n - 1 \notin S
    BY <1>1, <1>2, <1>4
  <2>2. PICK f : f \in Doublings(n - 1)
    BY <2>1
  <2> DEFINE h == [k \in 0 .. n |-> IF k = n THEN 2 * f[n - 1] ELSE f[k]]
  <2>3. /\ f \in [0 .. n - 1 -> Nat] /\ f[0] = FirstDelay
        /\ \A k \in 1 .. n - 1 : f[k] = 2 * f[k - 1]
    BY <2>2 DEF Doublings
  <2>4. h \in [0 .. n -> Nat]
    BY <1>2, <1>4, <2>3
  <2>5. h[0] = FirstDelay
    BY <1>2, <1>4, <2>3
  <2>6. ASSUME NEW k \in 1 .. n  PROVE h[k] = 2 * h[k - 1]
    <3>1. CASE k = n
      BY <1>2, <1>4, <3>1
    <3>2. CASE k # n
      <4>1. k \in 1 .. n - 1 /\ k \in 0 .. n /\ k - 1 \in 0 .. n /\ k - 1 # n
        BY <1>2, <2>6, <3>2
      <4> QED  BY <2>3, <3>2, <4>1
    <3> QED  BY <3>1, <3>2
  <2> HIDE DEF h
  <2>7. h \in Doublings(n)
    BY <2>4, <2>5, <2>6 DEF Doublings
  <2> QED  BY <1>2, <2>7
<1> QED  BY <1>3, <1>4

(* and they agree. *)
LEMMA DoublingsAgree ==
  ASSUME NEW n \in Nat, NEW m \in Nat, n <= m,
         NEW f \in Doublings(n), NEW h \in Doublings(m)
  PROVE  \A k \in 0 .. n : f[k] = h[k]
<1> DEFINE S == { k \in 0 .. n : f[k] # h[k] }
<1> SUFFICES ASSUME S # {}  PROVE FALSE
  OBVIOUS
<1>1. S \in SUBSET Nat
  OBVIOUS
<1>2. PICK k \in S : \A j \in S : k <= j
  BY <1>1, Smallest
<1>3. k \in 0 .. n /\ f[k] # h[k]
  OBVIOUS
<1>4. k # 0
  BY <1>3 DEF Doublings
<1>5. k - 1 \in 0 .. n /\ k - 1 \notin S
  <2>1. k - 1 \in 0 .. n /\ ~ k <= k - 1
    BY <1>3, <1>4
  <2> QED  BY <1>2, <2>1
<1>6. k \in 1 .. n /\ k \in 1 .. m
  BY <1>3, <1>4
<1> HIDE DEF S
<1>7. f[k] = 2 * f[k - 1] /\ h[k] = 2 * h[k - 1]
  BY <1>6 DEF Doublings
<1> QED  BY <1>3, <1>5, <1>7 DEF S

(* So the recursion has a solution, which is what Doubled is. *)
LEMMA DoubledFacts ==
  /\ Doubled[0] = FirstDelay
  /\ \A n \in Nat : Doubled[n] \in Nat /\ Doubled[n + 1] = 2 * Doubled[n]
<1> DEFINE some(n) == CHOOSE f : f \in Doublings(n)
           g == [n \in Nat |-> some(n)[n]]
<1>1. ASSUME NEW n \in Nat  PROVE some(n) \in Doublings(n)
  BY <1>1, DoublingsExist
<1> HIDE DEF some
<1>2. ASSUME NEW n \in Nat  PROVE g[n] \in Nat
  <2>1. some(n) \in [0 .. n -> Nat] /\ n \in 0 .. n
    BY <1>1 DEF Doublings
  <2> QED  BY <2>1
<1>3. g[0] = FirstDelay
  BY <1>1 DEF Doublings
<1>4. ASSUME NEW n \in Nat  PROVE g[n + 1] = 2 * g[n]
  <2>1. some(n + 1) \in Doublings(n + 1) /\ some(n) \in Doublings(n)
    BY <1>1
  <2>2. some(n)[n] = some(n + 1)[n]
    BY <2>1, DoublingsAgree
  <2>3. n + 1 \in 1 .. n + 1
    OBVIOUS
  <2>4. some(n + 1)[n + 1] = 2 * some(n + 1)[n + 1 - 1]
    BY <2>1, <2>3 DEF Doublings
  <2>5. n + 1 - 1 = n
    OBVIOUS
  <2> QED  BY <2>2, <2>4, <2>5
<1>5. g = [n \in Nat |-> IF n = 0 THEN FirstDelay ELSE 2 * g[n - 1]]
  <2>1. ASSUME NEW n \in Nat
        PROVE  g[n] = IF n = 0 THEN FirstDelay ELSE 2 * g[n - 1]
    <3>1. CASE n # 0
      <4>1. n - 1 \in Nat /\ (n - 1) + 1 = n
        BY <3>1
      <4>2. g[(n - 1) + 1] = 2 * g[n - 1]
        BY <1>4, <4>1
      <4> HIDE DEF g
      <4> QED  BY <3>1, <4>1, <4>2
    <3> QED  BY <1>3, <3>1
  <2>2. g = [n \in Nat |-> g[n]]
    OBVIOUS
  <2> HIDE DEF g
  <2> QED  BY <2>1, <2>2
<1> HIDE DEF g
<1>6. Doubled = [n \in Nat |-> IF n = 0 THEN FirstDelay ELSE 2 * Doubled[n - 1]]
  BY <1>5 DEF Doubled
<1> HIDE DEF Doubled
<1>7. Doubled[0] = FirstDelay
  BY <1>6
<1>8. ASSUME NEW n \in Nat  PROVE Doubled[n + 1] = 2 * Doubled[n]
  <2>1. n + 1 \in Nat /\ n + 1 # 0 /\ n + 1 - 1 = n
    OBVIOUS
  <2>2. Doubled[n + 1] = IF n + 1 = 0 THEN FirstDelay ELSE 2 * Doubled[n + 1 - 1]
    BY <1>6, <2>1
  <2> QED  BY <2>1, <2>2
<1>9. ASSUME NEW n \in Nat  PROVE Doubled[n] \in Nat
  <2> DEFINE S == { k \in Nat : Doubled[k] \notin Nat }
  <2> SUFFICES ASSUME S # {}  PROVE FALSE
    OBVIOUS
  <2>1. PICK k \in S : \A j \in S : k <= j
    BY Smallest
  <2>2. k # 0
    BY <1>7, Numbers
  <2>3. k - 1 \in Nat /\ k - 1 \notin S /\ (k - 1) + 1 = k
    BY <2>1, <2>2
  <2>4. Doubled[(k - 1) + 1] = 2 * Doubled[k - 1]
    BY <1>8, <2>3
  <2> QED  BY <2>1, <2>3, <2>4
<1> QED  BY <1>7, <1>8, <1>9

(* The delay before the next wait, after n of them. *)
Bounded(n) == IF Doubled[n] < MaxDelay THEN Doubled[n] ELSE MaxDelay

LEMMA BoundedFacts ==
  /\ Bounded(0) = FirstDelay
  /\ \A n \in Nat :
       Bounded(n + 1) = IF 2 * Bounded(n) < MaxDelay THEN 2 * Bounded(n) ELSE MaxDelay
<1>1. Bounded(0) = FirstDelay
  BY Numbers, DoubledFacts DEF Bounded
<1>2. ASSUME NEW n \in Nat
      PROVE  Bounded(n + 1) = IF 2 * Bounded(n) < MaxDelay THEN 2 * Bounded(n) ELSE MaxDelay
  <2>1. Doubled[n] \in Nat /\ Doubled[n + 1] = 2 * Doubled[n]
    BY DoubledFacts
  <2> QED  BY <2>1, Numbers DEF Bounded
<1> QED  BY <1>1, <1>2

(* A task has had as many waits in a row as its delay says; asleep, it has not
   doubled it for this one yet. *)
DelayInv ==
  \A u \in Upstream :
    waits[u] < WaitsCap =>
      /\ task[u] \in {"none", "connected"} => waits[u] = 0
      /\ task[u] = "sleeping" => waits[u] > 0 /\ delay[u] = Bounded(waits[u] - 1)
      /\ task[u] \in {"none", "connected", "attempting", "checking"} =>
           delay[u] = Bounded(waits[u])

(* A task that starts another wait has counted it, *)
LEMMA WaitDelay ==
  ASSUME TypeOK, DelayInv, NEW u \in Upstream, Wait(u), UNCHANGED delay,
         task[u] \in {"connected", "attempting", "checking"}
  PROVE  DelayInv'
<1> SUFFICES ASSUME NEW v \in Upstream, waits'[v] < WaitsCap
             PROVE  /\ task'[v] \in {"none", "connected"} => waits'[v] = 0
                    /\ task'[v] = "sleeping" =>
                         waits'[v] > 0 /\ delay'[v] = Bounded(waits'[v] - 1)
                    /\ task'[v] \in {"none", "connected", "attempting", "checking"} =>
                         delay'[v] = Bounded(waits'[v])
  BY DEF DelayInv
<1>0. waits \in [Upstream -> 0 .. WaitsCap] /\ task \in [Upstream -> Done \cup
        {"attempting", "checking", "connected", "sleeping"}]
  BY DEF TypeOK
<1>1. CASE v = u
  <2>1. waits[u] < WaitsCap /\ waits'[u] = waits[u] + 1 /\ task'[u] = "sleeping"
    BY <1>0, <1>1, Numbers DEF Wait
  <2>2. delay'[u] = Bounded(waits[u])
    BY <2>1 DEF DelayInv
  <2>3. waits[u] \in Nat /\ waits[u] + 1 - 1 = waits[u] /\ waits[u] + 1 > 0
    BY <1>0
  <2> QED  BY <1>1, <2>1, <2>2, <2>3
<1>2. CASE v # u
  BY <1>0, <1>2 DEF Wait, DelayInv
<1> QED  BY <1>1, <1>2

(* also for a failed attempt, if it does not end with it. *)
LEMMA FailDelay ==
  ASSUME TypeOK, DelayInv, NEW u \in Upstream, NEW d, Fail(u, d),
         task[u] \in {"attempting", "checking"}
  PROVE  DelayInv'
<1>1. CASE Wait(u)
  BY <1>1, WaitDelay DEF Fail
<1>2. CASE ~ Wait(u)
  <2>1. /\ UNCHANGED <<delay, waits>>
        /\ \/ task' = [task EXCEPT ![u] = "abandoned"]
           \/ task' = [task EXCEPT ![u] = "raised"]
    BY <1>2 DEF Fail
  <2>2. \A v \in Upstream : task'[v] = task[v] \/ task'[v] \in {"abandoned", "raised"}
    BY <2>1 DEF TypeOK
  <2> QED  BY <2>1, <2>2 DEF DelayInv
<1> QED  BY <1>1, <1>2

LEMMA KeeperDelay ==
  ASSUME TypeOK, DelayInv, NEW u \in Upstream, Keeper(u)
  PROVE  DelayInv'
<1>0. /\ waits \in [Upstream -> 0 .. WaitsCap] /\ delay \in [Upstream -> FirstDelay .. MaxDelay]
      /\ task \in [Upstream -> Done \cup {"attempting", "checking", "connected",
                                         "sleeping"}]
  BY DEF TypeOK
<1>1. CASE CancelTask(u)
  BY <1>0, <1>1 DEF CancelTask, keeper, DelayInv
<1>2. CASE Opens(u)
  BY <1>0, <1>2 DEF Opens, keeper, DelayInv
<1>3. CASE Unreachable(u)
  BY <1>3, FailDelay DEF Unreachable
<1>4. CASE Refused(u)
  BY <1>4, FailDelay DEF Refused
<1>5. CASE Accepted(u)
  <2>1. task'[u] = "connected" /\ delay'[u] = Bounded(0) /\ waits'[u] = 0
    BY <1>0, <1>5, BoundedFacts DEF Accepted
  <2>2. \A v \in Upstream \ {u} : /\ task'[v] = task[v] /\ delay'[v] = delay[v]
                                  /\ waits'[v] = waits[v]
    BY <1>0, <1>5 DEF Accepted
  <2> QED  BY <2>1, <2>2 DEF DelayInv
<1>6. CASE Ended(u)
  BY <1>6, WaitDelay DEF Ended
<1>7. CASE Wake(u)
  <2>1. /\ task[u] = "sleeping" /\ task'[u] = "attempting" /\ waits' = waits
        /\ delay'[u] = IF 2 * delay[u] < MaxDelay THEN 2 * delay[u] ELSE MaxDelay
    BY <1>0, <1>7 DEF Wake
  <2>2. \A v \in Upstream \ {u} : task'[v] = task[v] /\ delay'[v] = delay[v]
    BY <1>0, <1>7 DEF Wake
  <2>3. ASSUME waits[u] < WaitsCap  PROVE delay'[u] = Bounded(waits[u])
    <3> DEFINE n == waits[u] - 1
    <3>1. waits[u] > 0 /\ delay[u] = Bounded(n)
      BY <2>1, <2>3 DEF DelayInv
    <3>2. n \in Nat /\ n + 1 = waits[u]
      BY <1>0, <3>1
    <3> HIDE DEF n
    <3>3. Bounded(n + 1) = IF 2 * Bounded(n) < MaxDelay THEN 2 * Bounded(n) ELSE MaxDelay
      BY <3>2, BoundedFacts
    <3> QED  BY <2>1, <3>1, <3>2, <3>3
  <2> QED  BY <2>1, <2>2, <2>3 DEF DelayInv
<1> QED  BY <1>1, <1>2, <1>3, <1>4, <1>5, <1>6, <1>7 DEF Keeper

(* Nothing else touches them, but the first attempts that begin. *)
LEMMA MainDelay ==
  ASSUME IInv, DelayInv, Main \/ Interrupt
  PROVE  DelayInv'
<1>0. /\ UNCHANGED <<delay, waits>> /\ task \in [Upstream -> Done \cup
           {"attempting", "checking", "connected", "sleeping"}]
  BY DEF Main, Interrupt, ConnectNext, ConnectedToAll, Listen, Run, CloseNode, Raise,
         keeper, TypeOK
<1>1. \A u \in Upstream : \/ task'[u] = task[u]
                          \/ task[u] = "none" /\ task'[u] = "attempting"
  <2>1. CASE ConnectNext
    BY <1>0, <2>1 DEF ConnectNext
  <2>2. CASE Run
    BY <2>2 DEF Run, NotBegun
  <2>3. CASE UNCHANGED task
    BY <2>3
  <2> QED
    BY <2>1, <2>2, <2>3 DEF Main, Interrupt, ConnectedToAll, Listen, CloseNode, Raise
<1> QED  BY <1>0, <1>1 DEF DelayInv

(* The n-th wait in a row takes FirstDelay, doubled n - 1 times, or MaxDelay if
   that is less, whatever happens to the upstreams. *)
THEOREM DelaysAreExact == Spec => []DelayIsExact
<1>1. Init => DelayInv
  BY BoundedFacts DEF Init, DelayInv
<1>2. IInv /\ DelayInv /\ [Next]_vars => DelayInv'
  <2> SUFFICES ASSUME IInv, DelayInv, [Next]_vars  PROVE DelayInv'
    OBVIOUS
  <2>1. ASSUME NEW u \in Upstream, Change(u) \/ Lose(u)  PROVE DelayInv'
    BY <2>1 DEF Change, Lose, keeper, DelayInv
  <2>2. ASSUME NEW u \in Upstream, Keeper(u)  PROVE DelayInv'
    BY <2>2, KeeperDelay
  <2>3. CASE UNCHANGED vars
    BY <2>3 DEF vars, DelayInv
  <2> HIDE DEF IInv
  <2> QED  BY <2>1, <2>2, <2>3, MainDelay DEF Next
<1>3. DelayInv => DelayIsExact
  BY DEF DelayInv, DelayIsExact, Bounded
<1> QED  BY <1>1, <1>2, <1>3, Invariant, PTL DEF Spec

-----------------------------------------------------------------------------
(* BusCheck. *)

(* What a loop returns that goes from x to T[x] until it is in Halt.  Such a
   recursion has a solution, even if the loop does not end. *)
HasValue(X, Halt, T, v) ==
  \E g : g = [x \in X |-> IF x \in Halt THEN v[x] ELSE g[T[x]]]

LEMMA LoopHasValue ==
  ASSUME NEW X, NEW Halt, NEW T \in [X -> X], NEW v
  PROVE  HasValue(X, Halt, T, v)
<1> DEFINE Onward(S) == S \in SUBSET X /\ \A z \in S \ Halt : T[z] \in S
           Met(x) == { y \in X : \A S \in SUBSET X : x \in S /\ Onward(S) => y \in S }
           Ends(x) == Met(x) \cap Halt
           value(E) == CHOOSE w : \E z \in E : w = v[z]
           g == [x \in X |-> value(Ends(x))]
<1>1. ASSUME NEW x \in X, x \in Halt  PROVE g[x] = v[x]
  <2>1. Onward({x}) /\ x \in {x}
    BY <1>1
  <2>2. Ends(x) = {x}
    BY <1>1, <2>1
  <2> HIDE DEF Ends
  <2>3. value({x}) = v[x]
    OBVIOUS
  <2> QED  BY <2>2, <2>3
<1>2. ASSUME NEW x \in X, x \notin Halt  PROVE g[x] = g[T[x]]
  <2>1. T[x] \in X
    OBVIOUS
  <2>2. ASSUME NEW y \in Met(x), y # x  PROVE y \in Met(T[x])
    <3> SUFFICES ASSUME NEW S \in SUBSET X, T[x] \in S, Onward(S)  PROVE y \in S
      OBVIOUS
    <3>1. Onward(S \cup {x}) /\ S \cup {x} \in SUBSET X
      OBVIOUS
    <3> QED  BY <2>2, <3>1
  <2>3. ASSUME NEW y \in Met(T[x])  PROVE y \in Met(x)
    <3> SUFFICES ASSUME NEW S \in SUBSET X, x \in S, Onward(S)  PROVE y \in S
      OBVIOUS
    <3>1. T[x] \in S
      BY <1>2
    <3> QED  BY <2>3, <3>1
  <2> HIDE DEF Met
  <2>4. Ends(x) = Ends(T[x])
    BY <1>2, <2>2, <2>3
  <2> HIDE DEF Ends
  <2> QED  BY <2>1, <2>4
<1>3. g = [x \in X |-> g[x]]
  OBVIOUS
<1> HIDE DEF g
<1>4. g = [x \in X |-> IF x \in Halt THEN v[x] ELSE g[T[x]]]
  BY <1>1, <1>2, <1>3
<1> QED  BY <1>4 DEF HasValue

-----------------------------------------------------------------------------
(* Root and Halved, with the nodes as a parameter. *)
RootOf(N, q, p) ==
  LET root[r \in N] == IF q[r] = r THEN r ELSE root[q[r]]
  IN root[p]

HalvedOf(N, q, p) ==
  LET halved[x \in [N -> N] \X N] ==
        LET r == x[1]
            n == x[2]
        IN IF r[n] = n THEN r
           ELSE halved[<<[r EXCEPT ![n] = r[r[n]]], r[r[n]]>>]
  IN halved[<<q, p>>]

(* r, when the loop has halved the way from n. *)
Shorter(r, n) == [r EXCEPT ![n] = r[r[n]]]

(* The parents q make trees of the nodes N: d falls towards the root. *)
Falls(N, q, d) ==
  /\ q \in [N -> N] /\ d \in [N -> Nat]
  /\ \A n \in N : q[n] # n => d[q[n]] < d[n]

LEMMA NodesAsParameter ==
  /\ \A q, p : Root(q, p) = RootOf(nodes, q, p)
  /\ \A q, p : Halved(q, p) = HalvedOf(nodes, q, p)
BY DEF Root, RootOf, Halved, HalvedOf

LEMMA RootEquation ==
  ASSUME NEW N, NEW q \in [N -> N]
  PROVE  \A n \in N : RootOf(N, q, n) = IF q[n] = n THEN n ELSE RootOf(N, q, q[n])
<1> DEFINE Halt == { r \in N : q[r] = r }
           v == [r \in N |-> r]
<1>1. PICK g : g = [r \in N |-> IF r \in Halt THEN v[r] ELSE g[q[r]]]
  <2> HIDE DEF Halt, v
  <2>1. HasValue(N, Halt, q, v)
    BY LoopHasValue
  <2> QED  BY <2>1 DEF HasValue
<1>2. g = [r \in N |-> IF q[r] = r THEN r ELSE g[q[r]]]
  BY <1>1
<1>3. PICK h : /\ h = [r \in N |-> IF q[r] = r THEN r ELSE h[q[r]]]
               /\ \A n : RootOf(N, q, n) = h[n]
  BY <1>2 DEF RootOf
<1> QED  BY <1>3

LEMMA HalvedEquation ==
  ASSUME NEW N, NEW r \in [N -> N], NEW n \in N
  PROVE  HalvedOf(N, r, n) = IF r[n] = n THEN r
                             ELSE HalvedOf(N, Shorter(r, n), r[r[n]])
<1> DEFINE X == [N -> N] \X N
           Halt == { x \in X : x[1][x[2]] = x[2] }
           T == [x \in X |-> <<Shorter(x[1], x[2]), x[1][x[1][x[2]]]>>]
           v == [x \in X |-> x[1]]
<1>1. T \in [X -> X]
  <2>1. ASSUME NEW x \in X  PROVE <<Shorter(x[1], x[2]), x[1][x[1][x[2]]]>> \in X
    BY DEF Shorter
  <2> QED  BY <2>1
<1>2. PICK g : g = [x \in X |-> IF x \in Halt THEN v[x] ELSE g[T[x]]]
  <2> HIDE DEF X, Halt, v, T
  <2>1. HasValue(X, Halt, T, v)
    BY <1>1, LoopHasValue
  <2> QED  BY <2>1 DEF HasValue
<1>3. g = [x \in [N -> N] \X N |->
             IF x[1][x[2]] = x[2] THEN x[1]
             ELSE g[<<[x[1] EXCEPT ![x[2]] = x[1][x[1][x[2]]]], x[1][x[1][x[2]]]>>]]
  BY <1>2 DEF Shorter
<1>4. PICK h : /\ h = [x \in [N -> N] \X N |->
                  IF x[1][x[2]] = x[2] THEN x[1]
                  ELSE h[<<[x[1] EXCEPT ![x[2]] = x[1][x[1][x[2]]]], x[1][x[1][x[2]]]>>]]
               /\ \A q, p : HalvedOf(N, q, p) = h[<<q, p>>]
  BY <1>3 DEF HalvedOf
<1>5. <<r, n>> \in [N -> N] \X N /\ <<r, n>>[1] = r /\ <<r, n>>[2] = n
  OBVIOUS
<1>6. h[<<r, n>>] = IF r[n] = n THEN r ELSE h[<<Shorter(r, n), r[r[n]]>>]
  BY <1>4, <1>5 DEF Shorter
<1>7. \A q, p : HalvedOf(N, q, p) = h[<<q, p>>]
  BY <1>4
<1> HIDE DEF X, Halt, v, T
<1> QED  BY <1>6, <1>7

-----------------------------------------------------------------------------
(* What holds of a node if it holds of its parent, holds of all nodes. *)
LEMMA FromTheRoots ==
  ASSUME NEW N, NEW q, NEW d, Falls(N, q, d), NEW S \in SUBSET N,
         \A n \in N : q[n] = n \/ q[n] \in S => n \in S
  PROVE  S = N
<1> DEFINE D == { d[n] : n \in N \ S }
<1> SUFFICES ASSUME S # N  PROVE FALSE
  OBVIOUS
<1>1. D \in SUBSET Nat /\ D # {}
  BY DEF Falls
<1>2. PICK k \in D : \A j \in D : k <= j
  BY <1>1, Smallest
<1>3. PICK n \in N \ S : d[n] = k
  OBVIOUS
<1>4. q[n] # n /\ q[n] \in N \ S
  BY <1>3 DEF Falls
<1>5. d[q[n]] < d[n] /\ d[q[n]] \in D /\ d[n] \in Nat /\ d[q[n]] \in Nat
  BY <1>4 DEF Falls
<1> QED  BY <1>2, <1>3, <1>5

(* The root of a node is a root, and its parent's. *)
LEMMA RootFacts ==
  ASSUME NEW N, NEW q, NEW d, Falls(N, q, d)
  PROVE  \A n \in N : /\ RootOf(N, q, n) \in N
                      /\ q[RootOf(N, q, n)] = RootOf(N, q, n)
                      /\ q[n] = n => RootOf(N, q, n) = n
                      /\ RootOf(N, q, q[n]) = RootOf(N, q, n)
<1>0. q \in [N -> N]
  BY DEF Falls
<1>1. \A n \in N : RootOf(N, q, n) = IF q[n] = n THEN n ELSE RootOf(N, q, q[n])
  BY <1>0, RootEquation
<1> DEFINE S == { n \in N : RootOf(N, q, n) \in N /\ q[RootOf(N, q, n)] = RootOf(N, q, n) }
<1>2. ASSUME NEW n \in N, q[n] = n \/ q[n] \in S  PROVE n \in S
  <2>1. CASE q[n] = n
    BY <1>1, <2>1
  <2>2. CASE q[n] # n
    BY <1>1, <1>2, <2>2
  <2> QED  BY <2>1, <2>2
<1>3. S = N
  <2>1. S \in SUBSET N
    OBVIOUS
  <2> HIDE DEF S
  <2> QED  BY <1>2, <2>1, FromTheRoots
<1> QED  BY <1>1, <1>3

(* The roots are the only values that the parents pass on. *)
LEMMA RootsAre ==
  ASSUME NEW N, NEW q, NEW d, Falls(N, q, d), NEW f,
         \A n \in N : f[n] = IF q[n] = n THEN n ELSE f[q[n]]
  PROVE  \A n \in N : RootOf(N, q, n) = f[n]
<1>0. q \in [N -> N]
  BY DEF Falls
<1>1. \A n \in N : RootOf(N, q, n) = IF q[n] = n THEN n ELSE RootOf(N, q, q[n])
  BY <1>0, RootEquation
<1> DEFINE S == { n \in N : RootOf(N, q, n) = f[n] }
<1>2. ASSUME NEW n \in N, q[n] = n \/ q[n] \in S  PROVE n \in S
  <2>1. CASE q[n] = n
    BY <1>1, <2>1
  <2>2. CASE q[n] # n
    BY <1>1, <1>2, <2>2
  <2> QED  BY <2>1, <2>2
<1>3. S = N
  <2>1. S \in SUBSET N
    OBVIOUS
  <2> HIDE DEF S
  <2> QED  BY <1>2, <2>1, FromTheRoots
<1> QED  BY <1>3

-----------------------------------------------------------------------------
(* q and r make trees of the same nodes, with the same roots. *)
SameTrees(N, q, r, d) ==
  /\ Falls(N, q, d) /\ Falls(N, r, d)
  /\ \A n \in N : RootOf(N, r, n) = RootOf(N, q, n)

(* A node that becomes a child of its grandparent keeps its root, *)
LEMMA ShorterKeepsTrees ==
  ASSUME NEW N, NEW q, NEW r, NEW d, SameTrees(N, q, r, d), NEW n \in N, r[n] # n
  PROVE  SameTrees(N, q, Shorter(r, n), d) /\ r[r[n]] \in N /\ d[r[r[n]]] < d[n]
<1> DEFINE s == Shorter(r, n)
<1>0. Falls(N, q, d) /\ Falls(N, r, d)
  BY DEF SameTrees
<1>1. r \in [N -> N] /\ d \in [N -> Nat] /\ d[r[n]] < d[n] /\ r[n] \in N /\ r[r[n]] \in N
  BY <1>0 DEF Falls
<1>2. d[r[r[n]]] <= d[r[n]]
  BY <1>0, <1>1 DEF Falls
<1>3. d[r[r[n]]] < d[n]
  BY <1>1, <1>2
<1>4. s \in [N -> N] /\ s[n] = r[r[n]] /\ \A m \in N \ {n} : s[m] = r[m]
  BY <1>1 DEF Shorter
<1> HIDE DEF s
<1>5. Falls(N, s, d)
  BY <1>0, <1>1, <1>3, <1>4 DEF Falls
<1> DEFINE f == [m \in N |-> RootOf(N, r, m)]
<1>6. ASSUME NEW m \in N  PROVE f[m] = IF s[m] = m THEN m ELSE f[s[m]]
  <2>1. s[m] \in N /\ r[m] \in N
    BY <1>1, <1>4
  <2>2. CASE m # n
    BY <1>0, <1>4, <2>1, <2>2, RootFacts
  <2>3. CASE m = n
    <3>1. s[n] # n
      BY <1>1, <1>3, <1>4
    <3>2. RootOf(N, r, r[r[n]]) = RootOf(N, r, n)
      BY <1>0, <1>1, RootFacts
    <3> QED  BY <1>4, <2>1, <2>3, <3>1, <3>2
  <2> QED  BY <2>2, <2>3
<1>7. \A m \in N : RootOf(N, s, m) = f[m]
  <2> HIDE DEF f
  <2> QED  BY <1>5, <1>6, RootsAre
<1>8. SameTrees(N, q, s, d)
  BY <1>0, <1>5, <1>7 DEF SameTrees
<1> QED  BY <1>1, <1>3, <1>8 DEF s

(* so the way can be halved all along. *)
LEMMA HalvedKeepsTrees ==
  ASSUME NEW N, NEW q, NEW d, Falls(N, q, d), NEW p \in N
  PROVE  SameTrees(N, q, HalvedOf(N, q, p), d)
<1> DEFINE Bad == { k \in Nat : \E r \in [N -> N], n \in N :
                      /\ d[n] = k /\ SameTrees(N, q, r, d)
                      /\ ~ SameTrees(N, q, HalvedOf(N, r, n), d) }
<1>1. ASSUME Bad # {}  PROVE FALSE
  <2>1. PICK k \in Bad : \A j \in Bad : k <= j
    <3>1. Bad \in SUBSET Nat
      OBVIOUS
    <3> HIDE DEF Bad
    <3> QED  BY <1>1, <3>1, Smallest
  <2>2. PICK r \in [N -> N], n \in N : /\ d[n] = k /\ SameTrees(N, q, r, d)
                                       /\ ~ SameTrees(N, q, HalvedOf(N, r, n), d)
    OBVIOUS
  <2>3. /\ r[n] # n
        /\ HalvedOf(N, r, n) = HalvedOf(N, Shorter(r, n), r[r[n]])
    BY <2>2, HalvedEquation
  <2>4. SameTrees(N, q, Shorter(r, n), d) /\ r[r[n]] \in N /\ d[r[r[n]]] < d[n]
    BY <2>2, <2>3, ShorterKeepsTrees
  <2>5. Shorter(r, n) \in [N -> N] /\ d[r[r[n]]] \in Nat /\ d[n] \in Nat
    BY <2>4 DEF SameTrees, Falls
  <2>6. d[r[r[n]]] \in Bad
    BY <2>2, <2>3, <2>4, <2>5
  <2> HIDE DEF Bad
  <2> QED  BY <2>1, <2>2, <2>4, <2>5, <2>6
<1>2. q \in [N -> N] /\ d[p] \in Nat /\ SameTrees(N, q, q, d)
  BY DEF Falls, SameTrees
<1> QED  BY <1>1, <1>2

-----------------------------------------------------------------------------
(* The root ra of a tree becomes a child of another root, rb: the trees become
   one, with the root rb. *)
Below(q, ra, rb) == [q EXCEPT ![ra] = rb]

LEMMA JoinedTrees ==
  ASSUME NEW N, NEW q, NEW d, Falls(N, q, d), NEW ra \in N, NEW rb \in N, ra # rb,
         q[ra] = ra, q[rb] = rb
  PROVE  /\ \E e : Falls(N, Below(q, ra, rb), e)
         /\ \A n \in N : RootOf(N, Below(q, ra, rb), n) =
                           IF RootOf(N, q, n) = ra THEN rb ELSE RootOf(N, q, n)
<1> DEFINE j == Below(q, ra, rb)
           e == [n \in N |-> IF RootOf(N, q, n) = ra THEN d[n] + d[rb] + 1 ELSE d[n]]
           f == [n \in N |-> IF RootOf(N, q, n) = ra THEN rb ELSE RootOf(N, q, n)]
<1>1. q \in [N -> N] /\ d \in [N -> Nat] /\ \A n \in N : q[n] # n => d[q[n]] < d[n]
  BY DEF Falls
<1>2. /\ RootOf(N, q, ra) = ra /\ RootOf(N, q, rb) = rb
      /\ \A n \in N : q[n] \in N /\ RootOf(N, q, q[n]) = RootOf(N, q, n)
                      /\ (q[n] = n => RootOf(N, q, n) = n)
  BY <1>1, RootFacts
<1>3. j \in [N -> N] /\ j[ra] = rb /\ \A n \in N \ {ra} : j[n] = q[n]
  BY <1>1 DEF Below
<1>4. e \in [N -> Nat]
  BY <1>1
<1>5. ASSUME NEW n \in N, j[n] # n  PROVE e[j[n]] < e[n]
  <2>1. CASE n = ra
    <3>1. e[rb] = d[rb] /\ e[ra] = d[ra] + d[rb] + 1
      BY <1>2
    <3> QED  BY <1>1, <1>3, <2>1, <3>1
  <2>2. CASE n # ra
    <3>1. j[n] = q[n] /\ q[n] # n /\ q[n] \in N
      BY <1>2, <1>3, <1>5, <2>2
    <3>2. d[q[n]] < d[n] /\ d[q[n]] \in Nat /\ d[n] \in Nat /\ d[rb] \in Nat
      BY <1>1, <3>1
    <3>3. RootOf(N, q, q[n]) = RootOf(N, q, n)
      BY <1>2
    <3> QED  BY <3>1, <3>2, <3>3
  <2> QED  BY <2>1, <2>2
<1>6. ASSUME NEW n \in N  PROVE f[n] = IF j[n] = n THEN n ELSE f[j[n]]
  <2>1. CASE n = ra
    <3>1. f[ra] = rb /\ f[rb] = rb
      BY <1>2
    <3> QED  BY <1>3, <2>1, <3>1
  <2>2. CASE n # ra
    <3>1. j[n] = q[n] /\ q[n] \in N /\ RootOf(N, q, q[n]) = RootOf(N, q, n)
      BY <1>2, <1>3, <2>2
    <3>2. q[n] = n => RootOf(N, q, n) = n
      BY <1>2
    <3> QED  BY <2>2, <3>1, <3>2
  <2> QED  BY <2>1, <2>2
<1> HIDE DEF j, e
<1>7. Falls(N, j, e)
  BY <1>3, <1>4, <1>5 DEF Falls
<1>8. \A n \in N : RootOf(N, j, n) = f[n]
  <2> HIDE DEF f
  <2> QED  BY <1>6, <1>7, RootsAre
<1> QED  BY <1>7, <1>8 DEF j

-----------------------------------------------------------------------------
(* The search for cycles, for links with the ends E, between nodes N: S is a
   union of components of the links L; each link of L is a bridge. *)
Uncut(E, S, L) == \A l \in L : E[l][1] \in S <=> E[l][2] \in S

Bridges(E, L) ==
  \A l \in L : \E S \in SUBSET (Process \cup {Away}) :
    Uncut(E, S, L \ {l}) /\ ~ Uncut(E, S, {l})

(* The parents q make one tree of each component of the links L, which are a
   forest, and the links K lead from a tree to itself. *)
Trees(E, N, q, L, K) ==
  /\ \E d : Falls(N, q, d)
  /\ \A l \in L \cup K : /\ E[l][1] \in N /\ E[l][2] \in N
                         /\ RootOf(N, q, E[l][1]) = RootOf(N, q, E[l][2])
  /\ \A S \in SUBSET N : Uncut(E, S, L) => \A n \in N : n \in S <=> RootOf(N, q, n) \in S
  /\ Bridges(E, L)

LEMMA TreesBegin ==
  ASSUME NEW E, NEW N
  PROVE  Trees(E, N, [p \in N |-> p], {}, {})
<1> DEFINE q == [p \in N |-> p]
           d == [p \in N |-> 0]
<1>1. Falls(N, q, d)
  BY DEF Falls
<1> HIDE DEF d
<1>2. \A n \in N : RootOf(N, q, n) = n
  BY <1>1, RootFacts
<1> HIDE DEF q
<1> QED  BY <1>1, <1>2 DEF Trees, Bridges, q

(* They stay when ways are shortened, *)
LEMMA TreesHalved ==
  ASSUME NEW E, NEW N, NEW q, NEW L, NEW K, Trees(E, N, q, L, K), NEW p \in N
  PROVE  /\ Trees(E, N, HalvedOf(N, q, p), L, K)
         /\ \A n \in N : RootOf(N, HalvedOf(N, q, p), n) = RootOf(N, q, n)
<1>1. PICK d : Falls(N, q, d)
  BY DEF Trees
<1>2. SameTrees(N, q, HalvedOf(N, q, p), d)
  BY <1>1, HalvedKeepsTrees
<1>3. /\ Falls(N, HalvedOf(N, q, p), d)
      /\ \A n \in N : RootOf(N, HalvedOf(N, q, p), n) = RootOf(N, q, n)
  BY <1>2 DEF SameTrees
<1> QED  BY <1>3 DEF Trees

(* when a link is found to close a cycle, *)
LEMMA TreesClosed ==
  ASSUME NEW E, NEW N, NEW q, NEW L, NEW K, Trees(E, N, q, L, K), NEW c,
         E[c][1] \in N, E[c][2] \in N,
         RootOf(N, q, E[c][1]) = RootOf(N, q, E[c][2])
  PROVE  Trees(E, N, q, L, K \cup {c})
BY DEF Trees

(* and when two become one. *)
LEMMA BridgesJoined ==
  ASSUME NEW E, NEW L, Bridges(E, L), NEW c, c \notin L,
         NEW S \in SUBSET (Process \cup {Away}), Uncut(E, S, L), ~ Uncut(E, S, {c})
  PROVE  Bridges(E, L \cup {c})
<1> SUFFICES ASSUME NEW l \in L \cup {c}
             PROVE  \E T \in SUBSET (Process \cup {Away}) :
                      Uncut(E, T, (L \cup {c}) \ {l}) /\ ~ Uncut(E, T, {l})
  BY DEF Bridges
<1>1. CASE l = c
  <2>1. (L \cup {c}) \ {l} = L
    BY <1>1
  <2> QED  BY <1>1, <2>1
<1>2. CASE l \in L
  <2>1. PICK T \in SUBSET (Process \cup {Away}) : Uncut(E, T, L \ {l}) /\ ~ Uncut(E, T, {l})
    BY <1>2 DEF Bridges
  <2>2. CASE Uncut(E, T, {c})
    <3>1. Uncut(E, T, (L \cup {c}) \ {l})
      BY <2>1, <2>2 DEF Uncut
    <3> QED  BY <2>1, <3>1
  <2>3. CASE ~ Uncut(E, T, {c})
    <3> DEFINE U == (S \ T) \cup (T \ S)
    <3>1. U \in SUBSET (Process \cup {Away})
      OBVIOUS
    <3>2. \A k : Uncut(E, U, {k}) <=> (Uncut(E, S, {k}) <=> Uncut(E, T, {k}))
      BY DEF Uncut
    <3> HIDE DEF U
    <3>3. \A V, M : Uncut(E, V, M) <=> \A k \in M : Uncut(E, V, {k})
      BY DEF Uncut
    <3>4. ~ Uncut(E, U, {l})
      BY <1>2, <2>1, <3>2, <3>3
    <3>5. ASSUME NEW k \in (L \cup {c}) \ {l}  PROVE Uncut(E, U, {k})
      <4>1. CASE k = c
        BY <2>3, <3>2, <4>1
      <4>2. CASE k # c
        <5>1. k \in L /\ k \in L \ {l}
          BY <3>5, <4>2
        <5>2. Uncut(E, S, {k}) /\ Uncut(E, T, {k})
          BY <2>1, <5>1 DEF Uncut
        <5> QED  BY <3>2, <5>2
      <4> QED  BY <4>1, <4>2
    <3>6. Uncut(E, U, (L \cup {c}) \ {l})
      BY <3>3, <3>5
    <3> QED  BY <3>1, <3>4, <3>6
  <2> QED  BY <2>2, <2>3
<1> QED  BY <1>1, <1>2

LEMMA TreesJoined ==
  ASSUME NEW E, NEW N \in SUBSET Process, NEW q, NEW L, NEW K, Trees(E, N, q, L, K),
         NEW c, c \notin L, NEW a \in N, NEW b \in N, E[c][1] = a, E[c][2] = b,
         RootOf(N, q, a) # RootOf(N, q, b)
  PROVE  Trees(E, N, Below(q, RootOf(N, q, a), RootOf(N, q, b)), L \cup {c}, K)
<1> DEFINE ra == RootOf(N, q, a)
           rb == RootOf(N, q, b)
           j == Below(q, ra, rb)
<1>1. PICK d : Falls(N, q, d)
  BY DEF Trees
<1>2. ra \in N /\ rb \in N /\ q[ra] = ra /\ q[rb] = rb /\ ra # rb
  BY <1>1, RootFacts
<1> HIDE DEF ra, rb
<1>3. /\ \E e : Falls(N, j, e)
      /\ \A n \in N : RootOf(N, j, n) =
                        IF RootOf(N, q, n) = ra THEN rb ELSE RootOf(N, q, n)
  BY <1>1, <1>2, JoinedTrees
<1>4. RootOf(N, q, a) = ra /\ RootOf(N, q, b) = rb
  BY DEF ra, rb
<1> HIDE DEF j
<1>5. ASSUME NEW l \in L \cup {c} \cup K
      PROVE  /\ E[l][1] \in N /\ E[l][2] \in N
             /\ RootOf(N, j, E[l][1]) = RootOf(N, j, E[l][2])
  <2>1. CASE l = c
    BY <1>2, <1>3, <1>4, <2>1
  <2>2. CASE l # c
    <3>1. /\ E[l][1] \in N /\ E[l][2] \in N
          /\ RootOf(N, q, E[l][1]) = RootOf(N, q, E[l][2])
      BY <2>2 DEF Trees
    <3> QED  BY <1>3, <3>1
  <2> QED  BY <2>1, <2>2
<1>6. ASSUME NEW S \in SUBSET N, Uncut(E, S, L \cup {c}), NEW n \in N
      PROVE  n \in S <=> RootOf(N, j, n) \in S
  <2>1. Uncut(E, S, L) /\ (a \in S <=> b \in S)
    BY <1>6 DEF Uncut
  <2>2. \A m \in N : m \in S <=> RootOf(N, q, m) \in S
    BY <2>1 DEF Trees
  <2>3. ra \in S <=> rb \in S
    BY <1>4, <2>1, <2>2
  <2> QED  BY <1>3, <2>2, <2>3
<1>7. Bridges(E, L \cup {c})
  <2> DEFINE S == { n \in N : RootOf(N, q, n) = ra }
  <2>1. S \in SUBSET (Process \cup {Away})
    OBVIOUS
  <2>2. Uncut(E, S, L)
    BY DEF Trees, Uncut
  <2>3. ~ Uncut(E, S, {c})
    BY <1>2, <1>4 DEF Uncut
  <2> HIDE DEF S
  <2> QED  BY <2>1, <2>2, <2>3, BridgesJoined DEF Trees
<1>8. Trees(E, N, j, L \cup {c}, K)
  BY <1>3, <1>5, <1>6, <1>7 DEF Trees
<1> QED  BY <1>8 DEF j, ra, rb

(* Nodes have the same root exactly if no cut separates them, *)
LEMMA RootsTell ==
  ASSUME NEW E, NEW N, NEW q, NEW L, NEW K, Trees(E, N, q, L, K), NEW a \in N, NEW b \in N
  PROVE  RootOf(N, q, a) = RootOf(N, q, b) <=>
           \A S \in SUBSET N : Uncut(E, S, L) => (a \in S <=> b \in S)
<1>1. ASSUME RootOf(N, q, a) = RootOf(N, q, b), NEW S \in SUBSET N, Uncut(E, S, L)
      PROVE  a \in S <=> b \in S
  BY <1>1 DEF Trees
<1>2. ASSUME \A S \in SUBSET N : Uncut(E, S, L) => (a \in S <=> b \in S)
      PROVE  RootOf(N, q, a) = RootOf(N, q, b)
  <2> DEFINE S == { n \in N : RootOf(N, q, n) = RootOf(N, q, a) }
  <2>1. Uncut(E, S, L)
    BY DEF Trees, Uncut
  <2> QED  BY <1>2, <2>1
<1> QED  BY <1>1, <1>2

(* and a link of K is no bridge once it is added. *)
LEMMA ClosesCycle ==
  ASSUME NEW E, NEW N, NEW q, NEW L, NEW K, Trees(E, N, q, L, K), NEW c \in K, c \notin L,
         NEW M, L \cup {c} \subseteq M
  PROVE  ~ Bridges(E, M)
<1> SUFFICES ASSUME Bridges(E, M)  PROVE FALSE
  OBVIOUS
<1>1. PICK S \in SUBSET (Process \cup {Away}) : Uncut(E, S, M \ {c}) /\ ~ Uncut(E, S, {c})
  BY DEF Bridges
<1>2. Uncut(E, S \cap N, L)
  BY <1>1 DEF Uncut, Trees
<1>3. E[c][1] \in N /\ E[c][2] \in N /\ RootOf(N, q, E[c][1]) = RootOf(N, q, E[c][2])
  BY DEF Trees
<1>4. E[c][1] \in S \cap N <=> E[c][2] \in S \cap N
  BY <1>2, <1>3, RootsTell
<1> QED  BY <1>1, <1>3, <1>4 DEF Uncut

-----------------------------------------------------------------------------
(* Paths, with the ends and the nodes as parameters. *)
Neighbours(E, L, a, b) == \E c \in L, i \in Side : E[c][i] = a /\ E[c][Other(i)] = b

PathsOf(E, N, L) ==
  { path \in UNION { [1 .. n -> N] : n \in 1 .. Cardinality(N) } :
      /\ \A i, j \in DOMAIN path : path[i] = path[j] => i = j
      /\ \A i \in 1 .. Len(path) - 1 : Neighbours(E, L, path[i], path[i + 1]) }

(* The path p has n nodes. *)
IsPath(E, N, L, p, n) ==
  /\ p \in [1 .. n -> N]
  /\ \A i, j \in 1 .. n : p[i] = p[j] => i = j
  /\ \A i \in 1 .. n - 1 : Neighbours(E, L, p[i], p[i + 1])

LEMMA PathsAsParameter ==
  \A L : Paths(L) = PathsOf(machine.ends, nodes, L)
BY DEF Paths, PathsOf, Adjacent, Neighbours, EndOf

LEMMA FunctionLength ==
  ASSUME NEW N, NEW n \in Nat, n # 0, NEW p \in [1 .. n -> N]
  PROVE  Len(p) = n /\ DOMAIN p = 1 .. n
<1>1. p \in Seq(N)
  BY SeqDef
<1>2. Len(p) \in Nat /\ DOMAIN p = 1 .. Len(p) /\ DOMAIN p = 1 .. n
  BY <1>1, LenProperties
<1>3. n \in 1 .. Len(p) /\ Len(p) >= n
  BY <1>2
<1>4. Len(p) \in 1 .. n
  BY <1>2, <1>3
<1> QED  BY <1>2, <1>3, <1>4

(* A path is never longer than there are nodes. *)
LEMMA PathFacts ==
  ASSUME NEW E, NEW N, IsFiniteSet(N), NEW L
  PROVE  /\ \A n \in Nat : \A p : n # 0 /\ IsPath(E, N, L, p, n) =>
              p \in PathsOf(E, N, L) /\ Len(p) = n
         /\ \A p \in PathsOf(E, N, L) :
              Len(p) \in Nat /\ Len(p) # 0 /\ IsPath(E, N, L, p, Len(p))
<1>1. ASSUME NEW n \in Nat, NEW p, n # 0, IsPath(E, N, L, p, n)
      PROVE  p \in PathsOf(E, N, L) /\ Len(p) = n
  <2>1. p \in [1 .. n -> N] /\ Len(p) = n /\ DOMAIN p = 1 .. n
    BY <1>1, FunctionLength DEF IsPath
  <2>2. p \in Injection(1 .. n, N)
    BY <1>1, <2>1 DEF IsPath, Injection, IsInjective
  <2>3. Cardinality(1 .. n) <= Cardinality(N)
    BY <2>2, FS_Injection
  <2>4. Cardinality(1 .. n) = n
    <3>1. Cardinality(1 .. n) = IF 1 > n THEN 0 ELSE n - 1 + 1
      BY FS_Interval
    <3> QED  BY <1>1, <3>1
  <2>5. Cardinality(N) \in Nat
    BY FS_CardinalityType
  <2>6. n \in 1 .. Cardinality(N)
    BY <1>1, <2>3, <2>4, <2>5
  <2> QED  BY <1>1, <2>1, <2>6 DEF PathsOf, IsPath
<1>2. ASSUME NEW p \in PathsOf(E, N, L)
      PROVE  Len(p) \in Nat /\ Len(p) # 0 /\ IsPath(E, N, L, p, Len(p))
  <2>1. Cardinality(N) \in Nat
    BY FS_CardinalityType
  <2>2. PICK n \in 1 .. Cardinality(N) : p \in [1 .. n -> N]
    BY DEF PathsOf
  <2>3. n \in Nat /\ n # 0
    BY <2>1
  <2>4. Len(p) = n /\ DOMAIN p = 1 .. n
    BY <2>2, <2>3, FunctionLength
  <2> QED  BY <2>2, <2>3, <2>4 DEF PathsOf, IsPath
<1> QED  BY <1>1, <1>2

(* The first part of a path is a path, *)
LEMMA PathPart ==
  ASSUME NEW E, NEW N, NEW L, NEW n \in Nat, NEW p, IsPath(E, N, L, p, n),
         NEW i \in 1 .. n
  PROVE  IsPath(E, N, L, [j \in 1 .. i |-> p[j]], i)
<1> DEFINE q == [j \in 1 .. i |-> p[j]]
<1>1. p \in [1 .. n -> N] /\ \A j \in 1 .. i : j \in 1 .. n /\ q[j] = p[j]
  BY DEF IsPath
<1>2. q \in [1 .. i -> N]
  BY <1>1
<1>3. ASSUME NEW j \in 1 .. i - 1  PROVE Neighbours(E, L, q[j], q[j + 1])
  <2>1. j \in 1 .. i /\ j + 1 \in 1 .. i /\ j \in 1 .. n - 1
    OBVIOUS
  <2> QED  BY <1>1, <2>1 DEF IsPath
<1> HIDE DEF q
<1>4. \A j, k \in 1 .. i : q[j] = q[k] => j = k
  BY <1>1 DEF IsPath
<1>5. IsPath(E, N, L, q, i)
  BY <1>2, <1>3, <1>4 DEF IsPath
<1> QED  BY <1>5 DEF q

(* and it can go on to a neighbour that it has not been to. *)
LEMMA PathLonger ==
  ASSUME NEW E, NEW N, NEW L, NEW n \in Nat, n # 0, NEW p, IsPath(E, N, L, p, n),
         NEW k \in N, \A i \in 1 .. n : p[i] # k, Neighbours(E, L, p[n], k)
  PROVE  IsPath(E, N, L, [j \in 1 .. n + 1 |-> IF j = n + 1 THEN k ELSE p[j]], n + 1)
<1> DEFINE q == [j \in 1 .. n + 1 |-> IF j = n + 1 THEN k ELSE p[j]]
<1>1. /\ p \in [1 .. n -> N] /\ q[n + 1] = k
      /\ \A j \in 1 .. n : j \in 1 .. n + 1 /\ q[j] = p[j]
      /\ \A j \in 1 .. n + 1 : j = n + 1 \/ j \in 1 .. n
  BY DEF IsPath
<1>2. q \in [1 .. n + 1 -> N]
  BY <1>1
<1> HIDE DEF q
<1>3. ASSUME NEW j \in 1 .. n + 1 - 1  PROVE Neighbours(E, L, q[j], q[j + 1])
  <2>1. j \in 1 .. n
    OBVIOUS
  <2>2. CASE j = n
    BY <1>1, <2>1, <2>2
  <2>3. CASE j # n
    <3>1. j \in 1 .. n - 1 /\ j + 1 \in 1 .. n
      BY <2>1, <2>3
    <3> QED  BY <1>1, <2>1, <3>1 DEF IsPath
  <2> QED  BY <2>2, <2>3
<1>4. \A i, j \in 1 .. n + 1 : q[i] = q[j] => i = j
  BY <1>1 DEF IsPath
<1>5. IsPath(E, N, L, q, n + 1)
  BY <1>2, <1>3, <1>4 DEF IsPath
<1> QED  BY <1>5 DEF q

(* There is a path between nodes that no cut separates. *)
HasPath(E, N, L, a, b) == \E p \in PathsOf(E, N, L) : p[1] = a /\ p[Len(p)] = b

LEMMA PathExists ==
  ASSUME NEW E, NEW N, IsFiniteSet(N), NEW L,
         \A l \in L : E[l][1] \in N /\ E[l][2] \in N,
         NEW a \in N, NEW b \in N,
         \A S \in SUBSET N : Uncut(E, S, L) => (a \in S <=> b \in S)
  PROVE  HasPath(E, N, L, a, b)
<1> DEFINE S == { m \in N : \E n \in Nat : \E p :
                              /\ n # 0 /\ IsPath(E, N, L, p, n)
                              /\ p[1] = a /\ p[n] = m }
<1>1. a \in S
  <2> DEFINE p == [i \in 1 .. 1 |-> a]
  <2>1. p \in [1 .. 1 -> N] /\ p[1] = a
    OBVIOUS
  <2>2. IsPath(E, N, L, p, 1)
    BY <2>1 DEF IsPath
  <2> HIDE DEF p
  <2>3. 1 \in Nat /\ 1 # 0
    OBVIOUS
  <2> QED  BY <2>1, <2>2, <2>3
<1>2. ASSUME NEW m \in S, NEW k \in N, Neighbours(E, L, m, k)  PROVE k \in S
  <2>0. PICK n \in Nat : \E p : /\ n # 0 /\ IsPath(E, N, L, p, n)
                                /\ p[1] = a /\ p[n] = m
    BY <1>2
  <2>1. PICK p : n # 0 /\ IsPath(E, N, L, p, n) /\ p[1] = a /\ p[n] = m
    BY <2>0
  <2>2. ASSUME NEW i \in 1 .. n, p[i] = k  PROVE k \in S
    <3> DEFINE q == [j \in 1 .. i |-> p[j]]
    <3>1. IsPath(E, N, L, q, i)
      BY <2>1, PathPart
    <3>2. q[1] = a /\ q[i] = k /\ i \in Nat /\ i # 0
      BY <2>1, <2>2
    <3> HIDE DEF q
    <3> QED  BY <3>1, <3>2
  <2>3. ASSUME \A i \in 1 .. n : p[i] # k  PROVE k \in S
    <3> DEFINE q == [j \in 1 .. n + 1 |-> IF j = n + 1 THEN k ELSE p[j]]
    <3>1. IsPath(E, N, L, q, n + 1)
      BY <1>2, <2>1, <2>3, PathLonger
    <3>2. q[1] = a /\ q[n + 1] = k /\ n + 1 \in Nat /\ n + 1 # 0
      BY <2>1
    <3> HIDE DEF q
    <3> QED  BY <3>1, <3>2
  <2> QED  BY <2>2, <2>3
<1>3. Uncut(E, S, L)
  <2> SUFFICES ASSUME NEW l \in L  PROVE E[l][1] \in S <=> E[l][2] \in S
    BY DEF Uncut
  <2>1. E[l][1] \in N /\ E[l][2] \in N
    OBVIOUS
  <2>2. Neighbours(E, L, E[l][1], E[l][2]) /\ Neighbours(E, L, E[l][2], E[l][1])
    BY DEF Neighbours, Side, Other
  <2> HIDE DEF S
  <2> QED  BY <1>2, <2>1, <2>2
<1>4. b \in S
  <2>1. S \in SUBSET N
    OBVIOUS
  <2> HIDE DEF S
  <2> QED  BY <1>1, <1>3, <2>1
<1>5. PICK n \in Nat : \E p : /\ n # 0 /\ IsPath(E, N, L, p, n)
                              /\ p[1] = a /\ p[n] = b
  BY <1>4
<1>6. PICK p : n # 0 /\ IsPath(E, N, L, p, n) /\ p[1] = a /\ p[n] = b
  BY <1>5
<1> QED  BY <1>6, PathFacts DEF HasPath

(* A shortest one is one of them, *)
LEMMA ShortestOne ==
  ASSUME NEW P, P # {}, \A p \in P : Len(p) \in Nat
  PROVE  (CHOOSE p \in P : \A o \in P : Len(p) <= Len(o)) \in P
<1>1. { Len(p) : p \in P } \in SUBSET Nat /\ { Len(p) : p \in P } # {}
  OBVIOUS
<1>2. PICK n \in { Len(p) : p \in P } : \A k \in { Len(p) : p \in P } : n <= k
  BY <1>1, Smallest
<1>3. PICK p \in P : Len(p) = n
  OBVIOUS
<1>4. \A o \in P : Len(p) <= Len(o)
  BY <1>2, <1>3
<1> QED  BY <1>4

(* and no path goes away when links are added. *)
LEMMA PathsGrow ==
  ASSUME NEW E, NEW N, NEW L, NEW M, L \subseteq M
  PROVE  PathsOf(E, N, L) \subseteq PathsOf(E, N, M)
<1>1. \A a, b : Neighbours(E, L, a, b) => Neighbours(E, M, a, b)
  BY DEF Neighbours
<1> QED  BY <1>1 DEF PathsOf

-----------------------------------------------------------------------------
(* The nodes and links of machine m that bus_check finds. *)
FoundOn(m) ==
  { p \in Process : /\ m.kind[p] # NoKind
                    /\ ~ \E child \in Process : /\ m.kind[child] # NoKind
                                                /\ m.parent[child] = p
                                                /\ m.kind[child] = m.kind[p] }
  \cup m.extra

LinksOn(m, N) ==
  { c \in Connection : /\ \A i \in Side : /\ m.ends[c][i] \in N
                                          /\ m.shown[m.ends[c][i]] = "all"
                       /\ m.listens[c] # {} }

LEMMA MachineAsParameter ==
  /\ (Scripts \ Launchers) \cup machine.extra = FoundOn(machine)
  /\ Links = LinksOn(machine, nodes)
<1>1. (Scripts \ Launchers) \cup machine.extra = FoundOn(machine)
  BY DEF Scripts, Launchers, FoundOn
<1>2. ASSUME NEW c \in Connection
      PROVE  {<<c, 1>>, <<c, 2>>} \subseteq NodeEnds <=>
               \A i \in Side : /\ machine.ends[c][i] \in nodes
                               /\ machine.shown[machine.ends[c][i]] = "all"
  <2>1. ASSUME NEW i \in Side
        PROVE  <<c, i>> \in NodeEnds <=> /\ machine.ends[c][i] \in nodes
                                         /\ machine.shown[machine.ends[c][i]] = "all"
    <3>1. <<c, i>> \in Connection \X Side /\ <<c, i>>[1] = c /\ <<c, i>>[2] = i
      OBVIOUS
    <3> QED  BY <3>1 DEF NodeEnds, EndOf
  <2> QED  BY <2>1 DEF Side
<1> QED  BY <1>1, <1>2 DEF Links, LinksOn

CycleLinks == { k.link : k \in cycles }

(* How far the search has come: each link is still left, in the forest, or
   closes a cycle that is reported. *)
CheckInv ==
  /\ machine \in Machines
  /\ step \in {"collect", "links", "cycles"}
  /\ nodes \in SUBSET Process
  /\ step # "collect" => nodes = FoundOn(machine)
  /\ step # "cycles" => tree = {} /\ cycles = {}
  /\ step = "cycles" =>
       /\ left \cup tree \cup CycleLinks = LinksOn(machine, nodes)
       /\ tree \cap left = {} /\ CycleLinks \cap (left \cup tree) = {}
       /\ Trees(machine.ends, nodes, parent, tree, CycleLinks)
  /\ \A k \in cycles :
       /\ k.path \in PathsOf(machine.ends, nodes, tree)
       /\ k.path[1] = machine.ends[k.link][1]
       /\ k.path[Len(k.path)] = machine.ends[k.link][2]

LEMMA CheckInitInv == CheckInit => CheckInv
BY DEF CheckInit, CheckInv

LEMMA CollectInv ==
  ASSUME CheckInv, Collect
  PROVE  CheckInv'
<1>1. nodes' = FoundOn(machine)
  BY MachineAsParameter DEF Collect
<1>2. FoundOn(machine) \in SUBSET Process
  BY MachinesAssumption DEF CheckInv, Machine, FoundOn
<1> QED  BY <1>1, <1>2 DEF CheckInv, Collect

LEMMA FindLinksInv ==
  ASSUME CheckInv, FindLinks
  PROVE  CheckInv'
<1>1. /\ step = "links" /\ step' = "cycles" /\ left' = LinksOn(machine, nodes)
      /\ parent' = [p \in nodes |-> p] /\ UNCHANGED <<machine, nodes, tree, cycles>>
  BY MachineAsParameter DEF FindLinks
<1>2. tree' = {} /\ cycles' = {} /\ CycleLinks' = {}
  BY <1>1 DEF CheckInv, CycleLinks
<1>3. Trees(machine.ends, nodes, [p \in nodes |-> p], {}, {})
  BY TreesBegin
<1>5. Trees(machine'.ends, nodes', parent', tree', CycleLinks')
  BY <1>1, <1>2, <1>3
<1> QED  BY <1>1, <1>2, <1>5 DEF CheckInv

-----------------------------------------------------------------------------
(* What is known of the link c that is looked at. *)
LEMMA LinkLookedAt ==
  ASSUME CheckInv, NEW c \in Connection, LookAt(c)
  PROVE  /\ EndOf(c, 1) = machine.ends[c][1] /\ EndOf(c, 2) = machine.ends[c][2]
         /\ EndOf(c, 1) \in nodes /\ EndOf(c, 2) \in nodes
         /\ c \in left /\ left' = left \ {c} /\ c \notin tree /\ c \notin CycleLinks
         /\ step = "cycles" /\ UNCHANGED <<machine, step, nodes>>
<1>1. /\ c \in left /\ left' = left \ {c} /\ step = "cycles"
      /\ UNCHANGED <<machine, step, nodes>>
  BY DEF LookAt
<1>2. c \in LinksOn(machine, nodes) /\ c \notin tree /\ c \notin CycleLinks
  BY <1>1 DEF CheckInv
<1> QED  BY <1>1, <1>2 DEF LinksOn, Side, EndOf

(* Looking for roots keeps the trees. *)
LEMMA LookedTrees ==
  ASSUME NEW E, NEW q, NEW L, NEW K, Trees(E, nodes, q, L, K), NEW a \in nodes, NEW b \in nodes
  PROVE  /\ Trees(E, nodes, Halved(Halved(q, a), b), L, K)
         /\ \A n \in nodes : Root(Halved(Halved(q, a), b), n) = Root(q, n)
<1> DEFINE h == HalvedOf(nodes, q, a)
<1>1. Trees(E, nodes, h, L, K) /\ \A n \in nodes : RootOf(nodes, h, n) = RootOf(nodes, q, n)
  BY TreesHalved
<1> HIDE DEF h
<1>2. /\ Trees(E, nodes, HalvedOf(nodes, h, b), L, K)
      /\ \A n \in nodes : RootOf(nodes, HalvedOf(nodes, h, b), n) = RootOf(nodes, h, n)
  BY <1>1, TreesHalved
<1> QED  BY <1>1, <1>2, NodesAsParameter DEF h

(* The link c closes the cycle of a path p. *)
LEMMA CloseInv ==
  ASSUME CheckInv, NEW c \in Connection, LookAt(c), NEW p,
         cycles' = cycles \cup {[link |-> c, path |-> p]}, UNCHANGED tree,
         p \in PathsOf(machine.ends, nodes, tree),
         p[1] = EndOf(c, 1), p[Len(p)] = EndOf(c, 2),
         RootOf(nodes, parent', EndOf(c, 1)) = RootOf(nodes, parent', EndOf(c, 2)),
         Trees(machine.ends, nodes, parent', tree, CycleLinks)
  PROVE  CheckInv'
<1>0. /\ EndOf(c, 1) = machine.ends[c][1] /\ EndOf(c, 2) = machine.ends[c][2]
      /\ EndOf(c, 1) \in nodes /\ EndOf(c, 2) \in nodes
      /\ c \in left /\ left' = left \ {c} /\ c \notin tree /\ c \notin CycleLinks
      /\ step = "cycles" /\ UNCHANGED <<machine, step, nodes>>
  BY LinkLookedAt
<1>1. CycleLinks' = CycleLinks \cup {c}
  <2>1. PICK k : k = [link |-> c, path |-> p]
    OBVIOUS
  <2>2. k.link = c /\ cycles' = cycles \cup {k}
    BY <2>1
  <2>3. { j.link : j \in cycles \cup {k} } = { j.link : j \in cycles } \cup {k.link}
    OBVIOUS
  <2> QED  BY <2>2, <2>3 DEF CycleLinks
<1>2. Trees(machine.ends, nodes, parent', tree, CycleLinks \cup {c})
  BY <1>0, TreesClosed
<1>3. Trees(machine'.ends, nodes', parent', tree', CycleLinks')
  BY <1>0, <1>1, <1>2
<1>4. ASSUME NEW k \in cycles'
      PROVE  /\ k.path \in PathsOf(machine'.ends, nodes', tree')
             /\ k.path[1] = machine'.ends[k.link][1]
             /\ k.path[Len(k.path)] = machine'.ends[k.link][2]
  <2>1. CASE k \in cycles
    BY <1>0, <2>1 DEF CheckInv
  <2>2. CASE k = [link |-> c, path |-> p]
    BY <1>0, <2>2
  <2> QED  BY <2>1, <2>2
<1>5. /\ left' \cup tree' \cup CycleLinks' = LinksOn(machine', nodes')
      /\ tree' \cap left' = {} /\ CycleLinks' \cap (left' \cup tree') = {}
  BY <1>0, <1>1 DEF CheckInv
<1> QED  BY <1>0, <1>3, <1>4, <1>5 DEF CheckInv

LEMMA FiniteNodes == CheckInv => IsFiniteSet(nodes)
<1>1. IsFiniteSet(Process)
  BY MachinesAssumption
<1>2. CheckInv => nodes \in SUBSET Process
  BY DEF CheckInv
<1> QED  BY <1>1, <1>2, FS_Subset

(* The path of _tree_path leads from a to b. *)
LEMMA TreePathLeads ==
  ASSUME CheckInv, step = "cycles", NEW a \in nodes, NEW b \in nodes,
         RootOf(nodes, parent, a) = RootOf(nodes, parent, b)
  PROVE  /\ TreePath(a, b) \in PathsOf(machine.ends, nodes, tree)
         /\ TreePath(a, b)[1] = a /\ TreePath(a, b)[Len(TreePath(a, b))] = b
<1> DEFINE from == { path \in Paths(tree) : path[1] = a /\ path[Len(path)] = b }
<1>1. Trees(machine.ends, nodes, parent, tree, CycleLinks) /\ IsFiniteSet(nodes)
  BY FiniteNodes DEF CheckInv
<1>2. /\ \A l \in tree : machine.ends[l][1] \in nodes /\ machine.ends[l][2] \in nodes
      /\ \A S \in SUBSET nodes : Uncut(machine.ends, S, tree) => (a \in S <=> b \in S)
  <2>1. \A l \in tree : machine.ends[l][1] \in nodes /\ machine.ends[l][2] \in nodes
    BY <1>1 DEF Trees
  <2> QED  BY <1>1, <2>1, RootsTell
<1>3. \E p \in PathsOf(machine.ends, nodes, tree) : p[1] = a /\ p[Len(p)] = b
  <2>1. HasPath(machine.ends, nodes, tree, a, b)
    BY <1>1, <1>2, PathExists
  <2> QED  BY <2>1 DEF HasPath
<1>4. Paths(tree) = PathsOf(machine.ends, nodes, tree)
  BY PathsAsParameter
<1>5. from # {} /\ \A p \in from : Len(p) \in Nat
  BY <1>1, <1>3, <1>4, PathFacts
<1>6. TreePath(a, b) = CHOOSE p \in from : \A o \in from : Len(p) <= Len(o)
  BY DEF TreePath
<1>7. TreePath(a, b) \in from
  <2> HIDE DEF from
  <2> QED  BY <1>5, <1>6, ShortestOne
<1> QED  BY <1>4, <1>7

LEMMA LookAtInv ==
  ASSUME CheckInv, NEW c \in Connection, LookAt(c)
  PROVE  CheckInv'
<1> DEFINE a == EndOf(c, 1)
           b == EndOf(c, 2)
           looked == Halved(Halved(parent, a), b)
<1>0. /\ a = machine.ends[c][1] /\ b = machine.ends[c][2] /\ a \in nodes /\ b \in nodes
      /\ c \in left /\ left' = left \ {c} /\ c \notin tree /\ c \notin CycleLinks
      /\ step = "cycles" /\ UNCHANGED <<machine, step, nodes>>
  BY LinkLookedAt
<1>1. Trees(machine.ends, nodes, parent, tree, CycleLinks)
  BY <1>0 DEF CheckInv
<1>2. /\ Trees(machine.ends, nodes, looked, tree, CycleLinks)
      /\ \A n \in nodes : Root(looked, n) = Root(parent, n)
  BY <1>0, <1>1, LookedTrees
<1>3. CASE /\ a = b
           /\ cycles' = cycles \cup {[link |-> c, path |-> <<a>>]}
           /\ UNCHANGED <<parent, tree>>
  <2> DEFINE p == <<a>>
  <2>1. p \in Seq(nodes) /\ Len(p) = 1 /\ p[1] = a
    BY <1>0
  <2>2. p \in [1 .. 1 -> nodes]
    BY <2>1, LenProperties
  <2>3. IsFiniteSet(nodes)
    BY FiniteNodes
  <2> HIDE DEF p
  <2>4. IsPath(machine.ends, nodes, tree, p, 1) /\ 1 \in Nat /\ 1 # 0
    BY <2>2 DEF IsPath
  <2>5. p \in PathsOf(machine.ends, nodes, tree)
    BY <2>3, <2>4, PathFacts
  <2>6. cycles' = cycles \cup {[link |-> c, path |-> p]}
    BY <1>3 DEF p
  <2> HIDE DEF a, b
  <2>7. EndOf(c, 1) = a /\ EndOf(c, 2) = a
    BY <1>3 DEF a, b
  <2> QED  BY <1>1, <1>3, <2>1, <2>5, <2>6, <2>7, CloseInv
<1>4. CASE /\ a # b /\ Root(parent, a) = Root(parent, b)
           /\ cycles' = cycles \cup {[link |-> c, path |-> TreePath(a, b)]}
           /\ parent' = looked
           /\ UNCHANGED tree
  <2>1. RootOf(nodes, parent, a) = RootOf(nodes, parent, b)
    BY <1>4, NodesAsParameter
  <2>2. /\ TreePath(a, b) \in PathsOf(machine.ends, nodes, tree)
        /\ TreePath(a, b)[1] = a /\ TreePath(a, b)[Len(TreePath(a, b))] = b
    BY <1>0, <2>1, TreePathLeads
  <2>3. RootOf(nodes, looked, a) = RootOf(nodes, looked, b)
    BY <1>0, <1>2, <1>4, NodesAsParameter
  <2> HIDE DEF looked
  <2> QED  BY <1>2, <1>4, <2>2, <2>3, CloseInv
<1>5. CASE /\ a # b /\ Root(parent, a) # Root(parent, b)
           /\ parent' = Joined(looked, a, b)
           /\ tree' = tree \cup {c}
           /\ UNCHANGED cycles
  <2> DEFINE h == Halved(Halved(looked, b), a)
  <2>1. /\ Trees(machine.ends, nodes, h, tree, CycleLinks)
        /\ \A n \in nodes : Root(h, n) = Root(parent, n)
    <3> HIDE DEF looked
    <3> QED  BY <1>0, <1>2, LookedTrees
  <2>2. parent' = Below(h, RootOf(nodes, h, a), RootOf(nodes, h, b))
    <3> HIDE DEF looked
    <3>1. parent' = [h EXCEPT ![Root(h, a)] = Root(h, b)]
      BY <1>5 DEF Joined
    <3> QED  BY <3>1, NodesAsParameter DEF Below
  <2>3. RootOf(nodes, h, a) # RootOf(nodes, h, b)
    BY <1>0, <1>5, <2>1, NodesAsParameter
  <2> HIDE DEF h
  <2>4. Trees(machine.ends, nodes, parent', tree \cup {c}, CycleLinks)
    <3>1. nodes \in SUBSET Process
      BY DEF CheckInv
    <3> HIDE DEF a, b
    <3> QED  BY <1>0, <2>1, <2>2, <2>3, <3>1, TreesJoined
  <2>5. CycleLinks' = CycleLinks
    BY <1>5 DEF CycleLinks
  <2>6. Trees(machine'.ends, nodes', parent', tree', CycleLinks')
    BY <1>0, <1>5, <2>4, <2>5
  <2>7. ASSUME NEW k \in cycles'
        PROVE  /\ k.path \in PathsOf(machine'.ends, nodes', tree')
               /\ k.path[1] = machine'.ends[k.link][1]
               /\ k.path[Len(k.path)] = machine'.ends[k.link][2]
    <3>1. PathsOf(machine.ends, nodes, tree) \subseteq PathsOf(machine.ends, nodes, tree')
      BY <1>5, PathsGrow
    <3> QED  BY <1>0, <1>5, <3>1 DEF CheckInv
  <2>8. /\ left' \cup tree' \cup CycleLinks' = LinksOn(machine', nodes')
        /\ tree' \cap left' = {} /\ CycleLinks' \cap (left' \cup tree') = {}
    BY <1>0, <1>5, <2>5 DEF CheckInv
  <2> QED  BY <1>0, <2>6, <2>7, <2>8 DEF CheckInv
<1> QED  BY <1>3, <1>4, <1>5 DEF LookAt

LEMMA CheckInvariant == CheckSpec => []CheckInv
<1>1. CheckInv /\ [CheckNext]_checkVars => CheckInv'
  <2> SUFFICES ASSUME CheckInv, [CheckNext]_checkVars  PROVE CheckInv'
    OBVIOUS
  <2>1. CASE UNCHANGED checkVars
    <3>1. CycleLinks' = CycleLinks
      BY <2>1 DEF checkVars, CycleLinks
    <3> QED  BY <2>1, <3>1 DEF checkVars, CheckInv
  <2> QED  BY <2>1, CollectInv, FindLinksInv, LookAtInv DEF CheckNext
<1> QED  BY <1>1, CheckInitInv, PTL DEF CheckSpec

-----------------------------------------------------------------------------
(* The graph of the machine, of which Trees speaks. *)
LEMMA GraphFacts ==
  ASSUME NEW L \in SUBSET Connection
  PROVE  /\ \A S : Graph!Closed(S, L) <=> Uncut(machine.ends, S, L)
         /\ Graph!IsForest(L) <=> Bridges(machine.ends, L)
<1>1. ASSUME NEW l \in Connection, NEW S
      PROVE  Graph!Crosses(l, S) <=> ~ Uncut(machine.ends, S, {l})
  BY DEF Graph!Crosses, Uncut, EndOf
<1>2. ASSUME NEW M \in SUBSET Connection, NEW S
      PROVE  Graph!Closed(S, M) <=> Uncut(machine.ends, S, M)
  <2>1. Uncut(machine.ends, S, M) <=> \A l \in M : Uncut(machine.ends, S, {l})
    BY DEF Uncut
  <2> QED  BY <1>1, <2>1 DEF Graph!Closed
<1>3. \A l \in L : L \ {l} \in SUBSET Connection
  OBVIOUS
<1>4. Graph!IsForest(L) <=> Bridges(machine.ends, L)
  BY <1>1, <1>2, <1>3 DEF Graph!IsForest, Graph!Separated, Bridges
<1> QED  BY <1>2, <1>4

(* On any machine: while the links are looked at, two nodes have the same root
   exactly if the links kept so far connect them. *)
THEOREM RootsTellComponents == CheckSpec => []RootsAreComponents
<1>1. CheckInv => RootsAreComponents
  <2> SUFFICES ASSUME CheckInv, step = "cycles", NEW p \in nodes, NEW q \in nodes
               PROVE  Root(parent, p) = Root(parent, q) <=>
                        \A S \in SUBSET nodes : Graph!Closed(S, tree) => (p \in S <=> q \in S)
    BY DEF RootsAreComponents
  <2>1. tree \in SUBSET Connection /\ Trees(machine.ends, nodes, parent, tree, CycleLinks)
    BY DEF CheckInv, LinksOn
  <2>2. RootOf(nodes, parent, p) = RootOf(nodes, parent, q) <=>
          \A S \in SUBSET nodes : Uncut(machine.ends, S, tree) => (p \in S <=> q \in S)
    BY <2>1, RootsTell
  <2>3. \A S : Graph!Closed(S, tree) <=> Uncut(machine.ends, S, tree)
    BY <2>1, GraphFacts
  <2> QED  BY <2>2, <2>3, NodesAsParameter
<1> QED  BY <1>1, CheckInvariant, PTL

(* On any machine: what is reported as a cycle is one. *)
THEOREM ReportedCyclesAre == CheckSpec => []CyclesAreCycles
<1>1. CheckInv => CyclesAreCycles
  <2> SUFFICES ASSUME CheckInv, NEW k \in cycles
               PROVE  /\ k.path \in Paths(tree)
                      /\ k.path[1] = EndOf(k.link, 1)
                      /\ k.path[Len(k.path)] = EndOf(k.link, 2)
                      /\ k.link \notin tree
    BY DEF CyclesAreCycles
  <2>1. k.link \notin tree
    BY DEF CheckInv, CycleLinks
  <2> QED  BY <2>1, PathsAsParameter DEF CheckInv, EndOf
<1> QED  BY <1>1, CheckInvariant, PTL

(* On every machine whose nodes are those that the command lines and --pid tell:
   a report without a warning tells whether the links of the nodes are a forest,
   and they are one without the links that close the reported cycles. *)
THEOREM ReportTells ==
  ASSUME \A m \in Machines : m.serves = FoundOn(m)
  PROVE  CheckSpec => []ReportIsRight
<1>1. CheckInv => ReportIsRight
  <2> SUFFICES ASSUME CheckInv, step = "cycles", left = {}, ~ Warned
               PROVE  /\ cycles = {} <=> Graph!IsForest(BusLinks)
                      /\ Graph!IsForest(BusLinks \ { k.link : k \in cycles })
    BY DEF ReportIsRight
  <2>1. /\ tree \cup CycleLinks = LinksOn(machine, nodes) /\ CycleLinks \cap tree = {}
        /\ Trees(machine.ends, nodes, parent, tree, CycleLinks)
        /\ nodes = machine.serves
    BY DEF CheckInv
  <2>2. BusLinks = LinksOn(machine, nodes)
    <3>1. \A p \in nodes : machine.shown[p] = "all"
      BY DEF Warned
    <3> QED  BY <2>1, <3>1 DEF BusLinks, LinksOn, EndOf, Side
  <2>3. BusLinks \in SUBSET Connection /\ tree \in SUBSET Connection
    BY <2>1, <2>2 DEF LinksOn
  <2>4. BusLinks \ CycleLinks = tree /\ Bridges(machine.ends, tree)
    BY <2>1, <2>2 DEF Trees
  <2>5. Graph!IsForest(tree)
    BY <2>3, <2>4, GraphFacts
  <2>6. ASSUME cycles = {}  PROVE Graph!IsForest(BusLinks)
    <3>1. BusLinks = tree
      BY <2>1, <2>2, <2>6 DEF CycleLinks
    <3> QED  BY <2>5, <3>1
  <2>7. ASSUME NEW k \in cycles, Graph!IsForest(BusLinks)  PROVE FALSE
    <3>1. k.link \in CycleLinks /\ k.link \notin tree /\ tree \cup {k.link} \subseteq BusLinks
      BY <2>1, <2>2 DEF CycleLinks
    <3>2. ~ Bridges(machine.ends, BusLinks)
      BY <2>1, <3>1, ClosesCycle
    <3> QED  BY <2>3, <2>7, <3>2, GraphFacts
  <2> QED  BY <2>4, <2>5, <2>6, <2>7 DEF CycleLinks
<1> QED  BY <1>1, CheckInvariant, PTL
=============================================================================
