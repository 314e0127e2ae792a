---------------------------- MODULE BaseNode_proofs ----------------------------
(***************************************************************************)
(* What BaseNode keeps true, for any connections, frames and limits.        *)
(*                                                                         *)
(* The invariant says of one connection at a time what its loop, its send   *)
(* task, its queue and the handling of its error have to do with each       *)
(* other, and which task handles that error.  Two more parts say of the     *)
(* lists that they hold a connection once, and of close() what it has still *)
(* to do.                                                                   *)
(***************************************************************************)
EXTENDS BaseNode, TLAPS, FiniteSetTheorems, SequenceTheorems, WellFoundedInduction

-----------------------------------------------------------------------------
(* The invariant. *)

Relay == [frame : Frame \cup {0}, target : Conn \cup {NoConn}, rest : Seq(Conn)]

TasksType ==
  /\ loop \in [Conn -> {"none", "reading", "relaying", "failing", "dying", "over"}]
  /\ sender \in [Conn -> {"idle", "sending", "failing"}]
  /\ handler \in [Conn -> {"none", "callback", "closing", "left", "over"}]
  /\ relay \in [Conn -> Relay]
  /\ cancelled \subseteq Task

QueuesType ==
  /\ queue \in [Conn -> Seq(Frame)]
  /\ given \in [Conn -> Seq(Frame)] /\ sent \in [Conn -> Seq(Frame)]

CountsType ==
  /\ received \in 0 .. MaxFrames /\ faults \in Nat
  /\ reports \in [Conn -> Nat]
  /\ purpose \in [Conn -> {"no", "user", "node"}]

NodeType ==
  /\ server \in {"off", "starting", "listening", "closed"}
  /\ arriving \subseteq Conn /\ gone \subseteq Conn
  /\ writer \in [Conn -> {"none", "open", "closing", "closed"}]
  /\ closing \in {"no", "connections", "servers", "done"}
  /\ left \in Seq(Conn)

Types == TasksType /\ QueuesType /\ CountsType /\ NodeType

(* A list holds a connection at most once. *)
Once(s) == \A i, j \in DOMAIN s : s[i] = s[j] => i = j

ListsInv ==
  /\ downstream \in Seq(Down) /\ upstream \in Seq(Up)
  /\ Once(downstream) /\ Once(upstream)

(* A connection whose relay loop has not begun has had no part in anything. *)
Untouched(c) ==
  /\ ~ Listed(c)
  /\ sender[c] = "idle" /\ handler[c] = "none" /\ relay[c] = NoRelay
  /\ queue[c] = <<>> /\ given[c] = <<>> /\ sent[c] = <<>>
  /\ reports[c] = 0 /\ purpose[c] = "no"

StartInv(c) ==
  /\ loop[c] = "none" => Untouched(c)
  /\ c \in arriving => loop[c] = "none" /\ writer[c] # "none"
  /\ writer[c] = "none" => loop[c] = "none"

(* A connection that is listed has had no error: no task works at one. *)
ErrorInv(c) ==
  /\ Listed(c) => /\ reports[c] = 0 /\ purpose[c] # "user"
                  /\ handler[c] = "none"
                  /\ sender[c] # "failing" /\ loop[c] # "failing"
  /\ reports[c] <= 1
  /\ purpose[c] = "user" => reports[c] = 0

(* An error that is being handled has a task that handles it: the relay loop
   or the send task of c itself, or a loop that relays to c. *)
Handled(c) ==
  \/ loop[c] = "failing" \/ sender[c] = "failing"
  \/ \E d \in Conn : relay[d].target = c

RunInv(c) ==
  /\ Handling(c) => Handled(c)
  /\ ~ (loop[c] = "failing" /\ sender[c] = "failing")
  /\ relay[c].target # NoConn <=> loop[c] \in {"relaying", "dying"}
  /\ loop[c] \in {"relaying", "dying"} =>
       /\ relay[c].frame \in Frame
       /\ \A i \in DOMAIN relay[c].rest : loop[relay[c].rest[i]] # "none"
       /\ loop[relay[c].target] # "none" /\ ~ Listed(relay[c].target)

QueueInv(c) ==
  /\ Len(queue[c]) <= QueueLimit
  /\ sender[c] = "sending" => queue[c] # <<>>
  /\ writer[c] = "open" =>
       /\ Listed(c) /\ queue[c] # <<>> => sender[c] = "sending"
       /\ given[c] = sent[c] \o queue[c]

(* An open connection is known to somebody who will close it. *)
OpenInv(c) ==
  /\ writer[c] = "open" => c \in arriving \/ Listed(c) \/ handler[c] = "callback"
  /\ handler[c] \in {"closing", "left", "over"} => writer[c] # "open"
  /\ closing = "connections" /\ writer[c] = "open" /\ Listed(c) => c \in ToSet(left)

CloseInv == closing \in {"servers", "done"} => downstream = <<>> /\ upstream = <<>>

ConnInv(c) ==
  StartInv(c) /\ ErrorInv(c) /\ RunInv(c) /\ QueueInv(c) /\ OpenInv(c)

Inv == Types /\ ListsInv /\ CloseInv /\ \A c \in Conn : ConnInv(c)

-----------------------------------------------------------------------------
(* Lists. *)

(* A set of naturals that is not empty has a least member. *)
LEMMA LeastIndex ==
  ASSUME NEW I \in SUBSET Nat, I # {}
  PROVE  \E i \in I : \A j \in I : i <= j
<1>1. IsWellFoundedOn(OpToRel(<, Nat), Nat)
  BY NatLessThanWellFounded
<1>2. PICK i \in I : \A j \in I : <<j, i>> \notin OpToRel(<, Nat)
  BY <1>1, WFMin
<1>3. \A j \in I : ~ (j < i)
  BY <1>2 DEF OpToRel
<1> QED  BY <1>3

(* What is in a list after the element at a position has been removed. *)
LEMMA RemoveAtIs ==
  ASSUME NEW S, NEW q \in Seq(S), NEW i \in 1 .. Len(q)
  PROVE  /\ RemoveAt(q, i) \in Seq(S) /\ Len(RemoveAt(q, i)) = Len(q) - 1
         /\ \A j \in 1 .. Len(q) - 1 :
              RemoveAt(q, i)[j] = q[IF j < i THEN j ELSE j + 1]
<1> DEFINE a == SubSeq(q, 1, i - 1)
           b == SubSeq(q, i + 1, Len(q))
<1>1. Len(q) \in Nat /\ \A j \in 1 .. Len(q) : q[j] \in S
  BY LenProperties, ElementOfSeq
<1>2. /\ a \in Seq(S) /\ Len(a) = i - 1 /\ \A j \in 1 .. i - 1 : a[j] = q[j]
  BY <1>1, SubSeqProperties
<1>3. /\ b \in Seq(S) /\ Len(b) = Len(q) - i /\ \A j \in 1 .. Len(q) - i : b[j] = q[j + i]
  BY <1>1, SubSeqProperties
<1>4. RemoveAt(q, i) = a \o b
  BY DEF RemoveAt
<1> HIDE DEF a, b
<1>5. /\ a \o b \in Seq(S) /\ Len(a \o b) = Len(a) + Len(b)
      /\ \A j \in 1 .. Len(a) + Len(b) :
           (a \o b)[j] = IF j <= Len(a) THEN a[j] ELSE b[j - Len(a)]
  BY <1>2, <1>3, ConcatProperties
<1>6. ASSUME NEW j \in 1 .. Len(q) - 1
      PROVE  (a \o b)[j] = q[IF j < i THEN j ELSE j + 1]
  <2>1. CASE j < i
    BY <1>1, <1>2, <1>3, <1>5, <2>1
  <2>2. CASE ~ (j < i)
    <3>1. j - (i - 1) \in 1 .. Len(q) - i /\ (j - (i - 1)) + i = j + 1
      BY <1>1, <2>2
    <3>2. (a \o b)[j] = b[j - (i - 1)]
      BY <1>1, <1>2, <1>3, <1>5, <2>2
    <3>3. b[j - (i - 1)] = q[j + 1]
      BY <1>3, <3>1
    <3> QED  BY <1>1, <2>2, <3>2, <3>3
  <2> QED  BY <2>1, <2>2
<1> QED  BY <1>1, <1>2, <1>3, <1>4, <1>5, <1>6

(* list.remove on a list that holds an element at most once takes it out of the
   set of what the list holds, and nothing else. *)
LEMMA RemoveFirstIs ==
  ASSUME NEW S, NEW q \in Seq(S), Once(q), NEW k
  PROVE  /\ RemoveFirst(q, k) \in Seq(S) /\ Once(RemoveFirst(q, k))
         /\ ToSet(RemoveFirst(q, k)) = ToSet(q) \ {k}
<1> DEFINE I == { i \in 1 .. Len(q) : q[i] = k }
<1>1. RemoveFirst(q, k) = IF \E i \in 1 .. Len(q) : q[i] = k THEN RemoveAt(q, Min(I)) ELSE q
  BY DEF RemoveFirst, SelectInSeq
<1>2. DOMAIN q = 1 .. Len(q) /\ Len(q) \in Nat
  BY LenProperties
<1>3. CASE \E i \in 1 .. Len(q) : q[i] = k
  <2> I \in SUBSET Nat /\ I # {}
    BY <1>2, <1>3
  <2>1. \E i \in I : \A x \in I : i <= x
    BY LeastIndex
  <2>2. Min(I) \in I
    BY <2>1 DEF Min
  <2>3. PICK n \in 1 .. Len(q) : n = Min(I) /\ q[n] = k
    BY <2>2
  <2> HIDE DEF I
  <2> DEFINE r == RemoveAt(q, n)
  <2>4. /\ r \in Seq(S) /\ Len(r) = Len(q) - 1
        /\ \A j \in 1 .. Len(q) - 1 : r[j] = q[IF j < n THEN j ELSE j + 1]
    BY RemoveAtIs
  <2>5. RemoveFirst(q, k) = r
    BY <1>1, <1>3, <2>3
  <2> HIDE DEF r
  <2>6. DOMAIN r = 1 .. Len(q) - 1
    BY <2>4, LenProperties
  <2>7. Once(r)
    <3> SUFFICES ASSUME NEW i \in DOMAIN r, NEW j \in DOMAIN r, r[i] = r[j] PROVE i = j
      BY DEF Once
    <3> DEFINE at(x) == IF x < n THEN x ELSE x + 1
    <3>1. at(i) \in 1 .. Len(q) /\ at(j) \in 1 .. Len(q)
      BY <1>2, <2>6
    <3>2. q[at(i)] = q[at(j)]
      BY <2>4, <2>6
    <3>3. at(i) = at(j)
      BY <1>2, <3>1, <3>2 DEF Once
    <3> QED  BY <2>6, <3>3
  <2>8. ToSet(r) = ToSet(q) \ {k}
    <3>1. ASSUME NEW x \in ToSet(r) PROVE x \in ToSet(q) \ {k}
      <4>1. PICK j \in 1 .. Len(q) - 1 : x = r[j]
        BY <2>6 DEF ToSet
      <4>2. PICK i \in 1 .. Len(q) : i # n /\ x = q[i]
        BY <1>2, <2>4, <4>1
      <4>3. x # k
        BY <1>2, <2>3, <4>2 DEF Once
      <4> QED  BY <1>2, <4>2, <4>3 DEF ToSet
    <3>2. ASSUME NEW x \in ToSet(q), x # k PROVE x \in ToSet(r)
      <4>1. PICK i \in 1 .. Len(q) : x = q[i]
        BY <1>2 DEF ToSet
      <4>2. i # n
        BY <2>3, <3>2, <4>1
      <4>3. \E j \in 1 .. Len(q) - 1 : x = r[j]
        <5>1. CASE i < n
          BY <1>2, <2>4, <4>1, <5>1
        <5>2. CASE i > n
          <6>1. i - 1 \in 1 .. Len(q) - 1 /\ ~ (i - 1 < n) /\ (i - 1) + 1 = i
            BY <1>2, <5>2
          <6> QED  BY <2>4, <4>1, <6>1
        <5> QED  BY <4>2, <5>1, <5>2
      <4> QED  BY <2>6, <4>3 DEF ToSet
    <3> QED  BY <3>1, <3>2
  <2> QED  BY <2>4, <2>5, <2>7, <2>8
<1>4. CASE ~ \E i \in 1 .. Len(q) : q[i] = k
  BY <1>1, <1>2, <1>4 DEF ToSet
<1> QED  BY <1>3, <1>4

(* list.append of what a list does not hold. *)
LEMMA AppendIs ==
  ASSUME NEW S, NEW q \in Seq(S), Once(q), NEW k \in S, k \notin ToSet(q)
  PROVE  /\ Append(q, k) \in Seq(S) /\ Once(Append(q, k))
         /\ ToSet(Append(q, k)) = ToSet(q) \cup {k}
<1> DEFINE r == Append(q, k)
<1>1. /\ r \in Seq(S) /\ Len(r) = Len(q) + 1
      /\ \A i \in 1 .. Len(q) : r[i] = q[i]
      /\ r[Len(q) + 1] = k
  BY AppendProperties
<1>2. /\ DOMAIN q = 1 .. Len(q) /\ Len(q) \in Nat
  BY LenProperties
<1> HIDE DEF r
<1>3. DOMAIN r = 1 .. Len(q) + 1
  BY <1>1, LenProperties
<1>4. \A i \in 1 .. Len(q) : q[i] # k
  BY <1>2 DEF ToSet
<1>5. Once(r)
  BY <1>1, <1>2, <1>3, <1>4 DEF Once
<1>6. ToSet(r) = ToSet(q) \cup {k}
  BY <1>1, <1>2, <1>3 DEF ToSet
<1> QED  BY <1>1, <1>5, <1>6 DEF r

(* What is put into a queue comes after what was sent and what waits. *)
LEMMA ConcatAppend ==
  ASSUME NEW S, NEW s \in Seq(S), NEW q \in Seq(S), NEW x \in S
  PROVE  s \o Append(q, x) = Append(s \o q, x)
<1>1. <<x>> \in Seq(S)
  OBVIOUS
<1>2. Append(q, x) = q \o <<x>> /\ s \o q \in Seq(S)
  BY AppendIsConcat, ConcatProperties
<1>3. Append(s \o q, x) = (s \o q) \o <<x>>
  BY <1>2, AppendIsConcat
<1>4. (s \o q) \o <<x>> = s \o (q \o <<x>>)
  BY <1>1, ConcatAssociative
<1> QED  BY <1>2, <1>3, <1>4

(* The empty sequence is the one of length 0. *)
LEMMA EmptyLen ==
  ASSUME NEW S, NEW q \in Seq(S)
  PROVE  q = <<>> <=> Len(q) = 0
<1>1. q # <<>> => Len(q) \in Nat \ {0}
  BY EmptySeq
<1>2. Len(<<>>) = 0
  BY EmptySeq
<1> QED  BY <1>1, <1>2

(* What has been sent, and what waits, when a frame is sent. *)
LEMMA ConcatTail ==
  ASSUME NEW S, NEW s \in Seq(S), NEW q \in Seq(S), q # <<>>
  PROVE  Append(s, Head(q)) \o Tail(q) = s \o q
<1>1. /\ Head(q) \in S /\ Tail(q) \in Seq(S) /\ Len(q) \in Nat \ {0}
  BY HeadTailProperties, EmptySeq
<1>2. Append(s, Head(q)) = s \o <<Head(q)>> /\ <<Head(q)>> \in Seq(S)
  BY <1>1, AppendIsConcat
<1>3. (s \o <<Head(q)>>) \o Tail(q) = s \o (<<Head(q)>> \o Tail(q))
  BY <1>1, <1>2, ConcatAssociative
<1>4. <<Head(q)>> \o Tail(q) = q
  <2>1. SubSeq(q, 1, Len(q)) = <<q[1]>> \o SubSeq(q, 2, Len(q))
    BY <1>1, SubSeqRecursiveFirst
  <2>2. SubSeq(q, 1, Len(q)) = q /\ Tail(q) = SubSeq(q, 2, Len(q)) /\ Head(q) = q[1]
    BY <1>1, SubSeqFull, TailIsSubSeq, HeadTailOfSubSeq
  <2> QED  BY <2>1, <2>2
<1> QED  BY <1>2, <1>3, <1>4

(* The two lists together. *)
LEMMA AllIs ==
  ListsInv =>
    /\ All \in Seq(Conn) /\ Once(All)
    /\ ToSet(All) = ToSet(downstream) \cup ToSet(upstream)
    /\ ToSet(downstream) \subseteq Down /\ ToSet(upstream) \subseteq Up
<1> SUFFICES ASSUME ListsInv
             PROVE  /\ All \in Seq(Conn) /\ Once(All)
                    /\ ToSet(All) = ToSet(downstream) \cup ToSet(upstream)
                    /\ ToSet(downstream) \subseteq Down /\ ToSet(upstream) \subseteq Up
  OBVIOUS
<1> DEFINE m == Len(downstream)
           n == Len(upstream)
<1>1. downstream \in Seq(Conn) /\ upstream \in Seq(Conn)
  BY SeqMonotonic DEF ListsInv, Conn
<1>2. /\ m \in Nat /\ DOMAIN downstream = 1 .. m /\ \A i \in 1 .. m : downstream[i] \in Down
      /\ n \in Nat /\ DOMAIN upstream = 1 .. n /\ \A i \in 1 .. n : upstream[i] \in Up
  BY LenProperties, ElementOfSeq DEF ListsInv
<1>3. /\ All \in Seq(Conn) /\ Len(All) = m + n
      /\ \A i \in 1 .. m + n : All[i] = IF i <= m THEN downstream[i] ELSE upstream[i - m]
  BY <1>1, ConcatProperties DEF All
<1>4. DOMAIN All = 1 .. m + n
  BY <1>3, LenProperties
<1> HIDE DEF m, n
<1>5. Once(All)
  <2> SUFFICES ASSUME NEW i \in 1 .. m + n, NEW j \in 1 .. m + n, All[i] = All[j] PROVE i = j
    BY <1>4 DEF Once
  <2>1. CASE i <= m /\ j <= m
    <3>1. i \in 1 .. m /\ j \in 1 .. m /\ downstream[i] = downstream[j]
      BY <1>2, <1>3, <2>1
    <3> QED  BY <1>2, <3>1 DEF Once, ListsInv
  <2>2. CASE i > m /\ j > m
    <3>1. i - m \in 1 .. n /\ j - m \in 1 .. n
      BY <1>2, <2>2
    <3>2. All[i] = upstream[i - m] /\ All[j] = upstream[j - m]
      BY <1>2, <1>3, <2>2
    <3>3. i - m = j - m
      BY <1>2, <3>1, <3>2 DEF Once, ListsInv
    <3> QED  BY <1>2, <3>3
  <2>3. CASE i <= m /\ j > m
    <3>1. i \in 1 .. m /\ j - m \in 1 .. n
      BY <1>2, <2>3
    <3> QED  BY <1>2, <1>3, <2>3, <3>1, BaseNodeAssumption
  <2>4. CASE i > m /\ j <= m
    <3>1. j \in 1 .. m /\ i - m \in 1 .. n
      BY <1>2, <2>4
    <3> QED  BY <1>2, <1>3, <2>4, <3>1, BaseNodeAssumption
  <2> QED  BY <1>2, <2>1, <2>2, <2>3, <2>4
<1>6. ASSUME NEW x \in ToSet(All) PROVE x \in ToSet(downstream) \cup ToSet(upstream)
  <2>1. PICK i \in 1 .. m + n : x = All[i]
    BY <1>4 DEF ToSet
  <2>2. CASE i <= m
    <3>1. i \in 1 .. m /\ x = downstream[i]
      BY <1>2, <1>3, <2>1, <2>2
    <3> QED  BY <1>2, <3>1 DEF ToSet
  <2>3. CASE i > m
    <3>1. i - m \in 1 .. n
      BY <1>2, <2>3
    <3> QED  BY <1>2, <1>3, <2>1, <2>3, <3>1 DEF ToSet
  <2> QED  BY <1>2, <2>2, <2>3
<1>7. ASSUME NEW x \in ToSet(downstream) PROVE x \in ToSet(All)
  BY <1>2, <1>3, <1>4, <1>7 DEF ToSet
<1>8. ASSUME NEW x \in ToSet(upstream) PROVE x \in ToSet(All)
  <2>1. PICK i \in 1 .. n : x = upstream[i]
    BY <1>2, <1>8 DEF ToSet
  <2>2. i + m \in 1 .. m + n /\ (i + m) - m = i /\ (i + m <= m => FALSE)
    BY <1>2
  <2>3. All[i + m] = upstream[i]
    BY <1>3, <2>2
  <2> QED  BY <1>4, <2>1, <2>2, <2>3 DEF ToSet
<1>9. ToSet(downstream) \subseteq Down /\ ToSet(upstream) \subseteq Up
  BY <1>2 DEF ToSet
<1> QED  BY <1>3, <1>5, <1>6, <1>7, <1>8, <1>9

(* The list of a sequence without elements. *)
LEMMA EmptySet ==
  ASSUME NEW S, NEW q \in Seq(S)
  PROVE  q = <<>> <=> ToSet(q) = {}
<1>1. DOMAIN q = 1 .. Len(q) /\ Len(q) \in Nat
  BY LenProperties
<1>2. q # <<>> => Len(q) # 0
  BY EmptySeq
<1>3. q = <<>> => Len(q) = 0
  BY EmptySeq
<1>4. Len(q) = 0 => ToSet(q) = {}
  BY <1>1 DEF ToSet
<1>5. Len(q) # 0 => q[1] \in ToSet(q)
  BY <1>1 DEF ToSet
<1> QED  BY <1>2, <1>3, <1>4, <1>5

LEMMA UnlistIs ==
  ASSUME ListsInv, NEW c, Unlist(c)
  PROVE  /\ ListsInv' /\ ToSet(All)' = ToSet(All) \ {c}
         /\ (downstream = <<>> /\ upstream = <<>>) => (downstream' = <<>> /\ upstream' = <<>>)
<1>1. /\ downstream' \in Seq(Down) /\ Once(downstream')
      /\ ToSet(downstream') = ToSet(downstream) \ {c}
  BY RemoveFirstIs DEF ListsInv, Unlist
<1>2. /\ upstream' \in Seq(Up) /\ Once(upstream')
      /\ ToSet(upstream') = ToSet(upstream) \ {c}
  BY RemoveFirstIs DEF ListsInv, Unlist
<1>3. ListsInv'
  BY <1>1, <1>2 DEF ListsInv, Once
<1>4. ToSet(All) = ToSet(downstream) \cup ToSet(upstream)
  BY AllIs
<1>5. ToSet(All)' = ToSet(downstream') \cup ToSet(upstream')
  <2>1. (ToSet(All) = ToSet(downstream) \cup ToSet(upstream))'
    BY <1>3, AllIs, PTL
  <2> QED  BY <2>1
<1>6. ASSUME downstream = <<>>, upstream = <<>> PROVE downstream' = <<>> /\ upstream' = <<>>
  <2>1. ToSet(downstream) = {} /\ ToSet(upstream) = {}
    BY <1>6, EmptySet DEF ListsInv
  <2>2. ToSet(downstream') = {} /\ ToSet(upstream') = {}
    BY <1>1, <1>2, <2>1
  <2> QED  BY <1>1, <1>2, <2>2, EmptySet
<1> QED  BY <1>1, <1>2, <1>3, <1>4, <1>5, <1>6
-----------------------------------------------------------------------------
(* Relaying. *)

(* What RelayOn does when it is for c to relay f to targets: the frame goes into
   the queues of those served, that are not full, and the loop reads on, or waits
   for a listed target that fails. *)
Relayed(c, f, targets, served) ==
  /\ \A t \in served : Len(queue[t]) + 1 <= QueueLimit
  /\ queue' = [t \in Conn |-> IF t \in served THEN Append(queue[t], f) ELSE queue[t]]
  /\ given' = [t \in Conn |-> IF t \in served THEN Append(given[t], f) ELSE given[t]]
  /\ sender' = [t \in Conn |-> IF t \in served /\ sender[t] = "idle"
                               THEN "sending" ELSE sender[t]]
  /\ \/ /\ loop' = [loop EXCEPT ![c] = "reading"]
        /\ relay' = [relay EXCEPT ![c] = NoRelay]
        /\ UNCHANGED <<reports, downstream, upstream>>
     \/ \E k \in ToSet(targets), rest \in Seq(Conn) :
          /\ ToSet(rest) \subseteq ToSet(targets)
          /\ Listed(k) /\ Unlist(k)
          /\ loop' = [loop EXCEPT ![c] = "relaying"]
          /\ relay' = [relay EXCEPT ![c] = [frame |-> f, target |-> k, rest |-> rest]]
          /\ reports' = [reports EXCEPT ![k] = @ + 1]

LEMMA RelayOnIs ==
  ASSUME Types, NEW c \in Conn, NEW f, NEW targets \in Seq(Conn), RelayOn(c, f, targets)
  PROVE  \E served \in SUBSET ToSet(targets) : Relayed(c, f, targets, served)
<1> DEFINE n == Len(targets)
           stops == { i \in DOMAIN targets : Full(targets[i]) /\ Listed(targets[i]) }
           first == CHOOSE i \in stops : \A j \in stops : i <= j
           passed == IF stops = {} THEN DOMAIN targets ELSE 1 .. first - 1
           served == { t \in { targets[i] : i \in passed } : ~ Full(t) }
           rest == SubSeq(targets, first + 1, n)
<1>1. n \in Nat /\ DOMAIN targets = 1 .. n /\ \A i \in 1 .. n : targets[i] \in Conn
  BY LenProperties, ElementOfSeq
<1>2. stops # {} => first \in stops /\ first \in 1 .. n
  <2> SUFFICES ASSUME stops # {} PROVE first \in stops /\ first \in 1 .. n
    OBVIOUS
  <2> stops \in SUBSET Nat
    BY <1>1
  <2>1. \E i \in stops : \A j \in stops : i <= j
    BY LeastIndex
  <2>2. first \in stops
    BY <2>1
  <2> QED  BY <1>1, <2>2
<1>3. passed \subseteq 1 .. n
  <2>1. CASE stops = {}
    BY <1>1, <2>1
  <2>2. CASE stops # {}
    <3>1. first \in 1 .. n
      BY <1>2, <2>2
    <3> HIDE DEF first, stops
    <3> QED  BY <1>1, <2>2, <3>1
  <2> QED  BY <2>1, <2>2
<1>4. served \in SUBSET ToSet(targets)
  BY <1>1, <1>3 DEF ToSet
<1>5. \A t \in served : Len(queue[t]) + 1 <= QueueLimit
  <2> SUFFICES ASSUME NEW t \in Conn, ~ Full(t) PROVE Len(queue[t]) + 1 <= QueueLimit
    BY <1>1, <1>3
  <2>1. Len(queue[t]) \in Nat
    BY LenProperties DEF Types, QueuesType
  <2> QED  BY <2>1, BaseNodeAssumption DEF Full
<1>6. /\ queue' = [t \in Conn |-> IF t \in served THEN Append(queue[t], f) ELSE queue[t]]
      /\ given' = [t \in Conn |-> IF t \in served THEN Append(given[t], f) ELSE given[t]]
      /\ sender' = [t \in Conn |-> IF t \in served /\ sender[t] = "idle"
                                   THEN "sending" ELSE sender[t]]
  BY DEF RelayOn
<1>7. CASE stops = {}
  <2>1. /\ loop' = [loop EXCEPT ![c] = "reading"]
        /\ relay' = [relay EXCEPT ![c] = NoRelay]
        /\ UNCHANGED <<reports, downstream, upstream>>
    BY <1>7 DEF RelayOn, lists
  <2> HIDE DEF served
  <2>2. Relayed(c, f, targets, served)
    BY <1>5, <1>6, <2>1 DEF Relayed
  <2> QED  BY <1>4, <2>2
<1>8. CASE stops # {}
  <2>1. /\ loop' = [loop EXCEPT ![c] = "relaying"]
        /\ relay' = [relay EXCEPT ![c] = [frame |-> f, target |-> targets[first],
                                          rest |-> rest]]
        /\ Unlist(targets[first])
        /\ reports' = [reports EXCEPT ![targets[first]] = @ + 1]
    BY <1>8 DEF RelayOn
  <2>2. first \in stops /\ first \in 1 .. n
    BY <1>2, <1>8
  <2>3. Listed(targets[first]) /\ targets[first] \in ToSet(targets)
    BY <1>1, <2>2 DEF ToSet
  <2>4. rest \in Seq(Conn) /\ ToSet(rest) \subseteq ToSet(targets)
    <3>1. \A i \in first + 1 .. n : i \in 1 .. n
      BY <1>1, <2>2
    <3> HIDE DEF first
    <3>2. /\ rest \in Seq(Conn) /\ Len(rest) = IF first + 1 <= n THEN n - (first + 1) + 1 ELSE 0
          /\ \A i \in 1 .. n - (first + 1) + 1 : rest[i] = targets[first + 1 + i - 1]
      BY <1>1, <2>2, <3>1, SubSeqProperties
    <3> HIDE DEF rest
    <3>3. DOMAIN rest = 1 .. Len(rest)
      BY <3>2, LenProperties
    <3>4. ASSUME NEW i \in DOMAIN rest PROVE rest[i] \in ToSet(targets)
      <4>1. i \in 1 .. n - (first + 1) + 1 /\ first + i \in 1 .. n /\ first + 1 + i - 1 = first + i
        BY <1>1, <2>2, <3>2, <3>3
      <4> QED  BY <1>1, <3>2, <4>1 DEF ToSet
    <3> QED  BY <3>2, <3>4 DEF ToSet
  <2> HIDE DEF served, first, rest
  <2>5. Relayed(c, f, targets, served)
    BY <1>5, <1>6, <2>1, <2>3, <2>4 DEF Relayed
  <2> QED  BY <1>4, <2>5
<1> QED  BY <1>7, <1>8

(* The lists stay as they are, or lose a connection for good. *)
LEMMA ListsKept ==
  ASSUME ListsInv, UNCHANGED lists
  PROVE  ListsInv' /\ ToSet(All)' = ToSet(All)
BY DEF ListsInv, lists, Once, All, ToSet

(* Relaying keeps the invariant, whether it begins with a frame that has just
   come, or goes on when the error of a target has been handled. *)
LEMMA RelayKeeps ==
  ASSUME Inv, NEW c \in Conn, NEW f \in Frame, NEW targets \in Seq(Conn),
         loop[c] \in {"reading", "relaying"},
         \A t \in ToSet(targets) : loop[t] # "none",
         RelayOn(c, f, targets),
         relay[c].target # NoConn => writer[relay[c].target] # "open",
         handler' = [k \in Conn |-> IF relay[c].target = k THEN "over"
                                    ELSE IF relay'[c].target = k THEN "callback"
                                    ELSE handler[k]],
         received' \in 0 .. MaxFrames,
         UNCHANGED <<server, arriving, writer, gone, cancelled, close, faults,
                     sent, purpose>>
  PROVE  Inv'
<1>1. /\ Types /\ ListsInv /\ CloseInv /\ ToSet(targets) \subseteq Conn
      /\ \A k \in Conn : StartInv(k) /\ ErrorInv(k) /\ RunInv(k) /\ QueueInv(k) /\ OpenInv(k)
  <2>1. ToSet(targets) \subseteq Conn
    BY LenProperties, ElementOfSeq DEF ToSet
  <2> QED  BY <2>1 DEF Inv, ConnInv
<1>0. PICK served \in SUBSET ToSet(targets) : Relayed(c, f, targets, served)
  BY <1>1, RelayOnIs
<1>2. /\ \A t \in served : Len(queue[t]) + 1 <= QueueLimit
      /\ queue' = [t \in Conn |-> IF t \in served THEN Append(queue[t], f) ELSE queue[t]]
      /\ given' = [t \in Conn |-> IF t \in served THEN Append(given[t], f) ELSE given[t]]
      /\ sender' = [t \in Conn |-> IF t \in served /\ sender[t] = "idle"
                                   THEN "sending" ELSE sender[t]]
      /\ \/ /\ loop' = [loop EXCEPT ![c] = "reading"]
            /\ relay' = [relay EXCEPT ![c] = NoRelay]
            /\ UNCHANGED <<reports, downstream, upstream>>
         \/ \E k \in ToSet(targets), rest \in Seq(Conn) :
              /\ ToSet(rest) \subseteq ToSet(targets)
              /\ Listed(k) /\ Unlist(k)
              /\ loop' = [loop EXCEPT ![c] = "relaying"]
              /\ relay' = [relay EXCEPT ![c] = [frame |-> f, target |-> k, rest |-> rest]]
              /\ reports' = [reports EXCEPT ![k] = @ + 1]
  BY <1>0 DEF Relayed
<1>3. NoConn \notin Conn
  BY BaseNodeAssumption
<1> DEFINE Facts(G) ==
      /\ G \subseteq ToSet(All) /\ ListsInv' /\ ToSet(All)' = ToSet(All) \ G
      /\ downstream = <<>> /\ upstream = <<>> => downstream' = <<>> /\ upstream' = <<>>
      /\ reports' = [t \in Conn |-> IF t \in G THEN reports[t] + 1 ELSE reports[t]]
      /\ loop' = [loop EXCEPT ![c] = IF G = {} THEN "reading" ELSE "relaying"]
      /\ \A k \in Conn : relay'[c].target = k <=> k \in G
      /\ G = {} => relay'[c] = NoRelay
      /\ relay'[c].target = NoConn <=> G = {}
      /\ relay'[c] \in Relay
      /\ G # {} => /\ relay'[c].frame = f
                   /\ \A i \in DOMAIN relay'[c].rest : loop[relay'[c].rest[i]] # "none"
      /\ relay' \in [Conn -> Relay]
      /\ \A k \in Conn : k # c => relay'[k] = relay[k]
<1>4. \E G \in SUBSET Conn : Facts(G)
  <2>1. CASE /\ loop' = [loop EXCEPT ![c] = "reading"]
             /\ relay' = [relay EXCEPT ![c] = NoRelay]
             /\ UNCHANGED <<reports, downstream, upstream>>
    <3>1. ListsInv' /\ ToSet(All)' = ToSet(All) \ {}
      BY <1>1, <2>1, ListsKept DEF lists
    <3>2. NoRelay \in Relay /\ NoRelay.target = NoConn
      BY EmptySeq DEF NoRelay, Relay
    <3>3. reports \in [Conn -> Nat] /\ relay \in [Conn -> Relay]
      BY <1>1 DEF Types, CountsType, TasksType
    <3>4. Facts({})
      BY <1>3, <2>1, <3>1, <3>2, <3>3
    <3> WITNESS {} \in SUBSET Conn
    <3> QED  BY <3>4
  <2>2. ASSUME NEW k \in ToSet(targets), NEW rest \in Seq(Conn),
               ToSet(rest) \subseteq ToSet(targets),
               Listed(k), Unlist(k),
               loop' = [loop EXCEPT ![c] = "relaying"],
               relay' = [relay EXCEPT ![c] = [frame |-> f, target |-> k, rest |-> rest]],
               reports' = [reports EXCEPT ![k] = @ + 1]
        PROVE  \E G \in SUBSET Conn : Facts(G)
    <3>1. k \in Conn
      BY <1>1
    <3>2. /\ ListsInv' /\ ToSet(All)' = ToSet(All) \ {k}
          /\ downstream = <<>> /\ upstream = <<>> => downstream' = <<>> /\ upstream' = <<>>
      BY <1>1, <2>2, UnlistIs
    <3>3. reports \in [Conn -> Nat] /\ relay \in [Conn -> Relay]
      BY <1>1 DEF Types, CountsType, TasksType
    <3>4. [frame |-> f, target |-> k, rest |-> rest] \in Relay
      BY <3>1 DEF Relay
    <3>5. \A i \in DOMAIN rest : loop[rest[i]] # "none"
      BY <2>2 DEF ToSet
    <3>6. relay' \in [Conn -> Relay] /\ relay'[c] = [frame |-> f, target |-> k, rest |-> rest]
      BY <2>2, <3>3, <3>4
    <3>7. /\ {k} \subseteq ToSet(All)
          /\ reports' = [t \in Conn |-> IF t \in {k} THEN reports[t] + 1 ELSE reports[t]]
          /\ \A j \in Conn : j # c => relay'[j] = relay[j]
      BY <2>2, <3>1, <3>3 DEF Listed
    <3>8. Facts({k})
      BY <1>3, <2>2, <3>1, <3>2, <3>5, <3>6, <3>7
    <3>9. {k} \in SUBSET Conn
      BY <3>1
    <3> WITNESS {k} \in SUBSET Conn
    <3> QED  BY <3>8
  <2> HIDE DEF Facts
  <2> QED  BY <1>2, <2>1, <2>2
<1>5. PICK G \in SUBSET Conn : Facts(G)
  BY <1>4
<1>6. Types'
  <2>1. TasksType'
    BY <1>1, <1>2, <1>5 DEF Types, TasksType
  <2>2. QueuesType'
    <3>1. \A k \in Conn : Append(queue[k], f) \in Seq(Frame) /\ Append(given[k], f) \in Seq(Frame)
      BY <1>1, AppendProperties DEF Types, QueuesType
    <3> QED  BY <1>1, <1>2, <3>1 DEF Types, QueuesType
  <2>3. CountsType'
    BY <1>1, <1>5 DEF Types, CountsType
  <2>4. NodeType'
    BY <1>1 DEF Types, NodeType, close
  <2> QED  BY <2>1, <2>2, <2>3, <2>4 DEF Types
<1>7. CloseInv'
  BY <1>1, <1>5 DEF CloseInv, close
<1>8. ASSUME NEW k \in Conn PROVE ConnInv(k)'
  <2>1. /\ StartInv(k) /\ ErrorInv(k) /\ RunInv(k) /\ QueueInv(k) /\ OpenInv(k)
        /\ loop[k] # "none" \/ k \notin served
        /\ queue[k] \in Seq(Frame) /\ given[k] \in Seq(Frame) /\ sent[k] \in Seq(Frame)
        /\ handler'[k] = IF relay[c].target = k THEN "over"
                         ELSE IF k \in G THEN "callback" ELSE handler[k]
        /\ loop'[k] = IF k = c THEN (IF G = {} THEN "reading" ELSE "relaying") ELSE loop[k]
        /\ sender'[k] = IF k \in served /\ sender[k] = "idle" THEN "sending" ELSE sender[k]
        /\ reports'[k] = IF k \in G THEN reports[k] + 1 ELSE reports[k]
        /\ k \in ToSet(All)' <=> k \in ToSet(All) /\ k \notin G
        /\ k \in G => k \in ToSet(All)
        /\ k # c => relay'[k] = relay[k]
        /\ queue'[k] = IF k \in served THEN Append(queue[k], f) ELSE queue[k]
        /\ given'[k] = IF k \in served THEN Append(given[k], f) ELSE given[k]
    BY <1>1, <1>2, <1>5 DEF Types, QueuesType, TasksType
  <2>0. relay[c].target = k => loop[k] # "none" /\ k \notin ToSet(All)
    BY <1>1, <1>3 DEF RunInv, Listed
  <2>2. StartInv(k)'
    BY <2>0, <2>1 DEF StartInv, Untouched, Listed
  <2>3. ErrorInv(k)'
    <3>1. reports[k] \in Nat
      BY <1>1 DEF Types, CountsType
    <3> QED  BY <2>0, <2>1, <3>1 DEF ErrorInv, Listed
  <2>4. RunInv(k)'
    <3>1. (Handling(k) => Handled(k))'
      <4> SUFFICES ASSUME handler'[k] \in {"callback", "closing", "left"}
                   PROVE  \/ loop'[k] = "failing" \/ sender'[k] = "failing"
                          \/ \E d \in Conn : relay'[d].target = k
        BY DEF Handling, Handled
      <4>1. CASE k \in G
        BY <1>5, <4>1
      <4>2. CASE k \notin G
        <5>1. relay[c].target # k /\ Handled(k)
          BY <2>1, <4>2 DEF RunInv, Handling
        <5>2. loop[k] = "failing" => loop'[k] = "failing"
          BY <2>1
        <5>3. sender[k] = "failing" => sender'[k] = "failing"
          BY <2>1
        <5>4. \A d \in Conn : relay[d].target = k => relay'[d].target = k
          BY <1>5, <5>1
        <5> QED  BY <5>1, <5>2, <5>3, <5>4 DEF Handled
      <4> QED  BY <4>1, <4>2
    <3>2. (relay[k].target # NoConn <=> loop[k] \in {"relaying", "dying"})'
      BY <1>5, <2>1 DEF RunInv
    <3>3. ASSUME loop'[k] \in {"relaying", "dying"}
          PROVE  /\ relay'[k].frame \in Frame /\ relay'[k] \in Relay
                 /\ \A i \in DOMAIN relay'[k].rest : loop[relay'[k].rest[i]] # "none"
                 /\ relay'[k].target \in Conn
                 /\ loop[relay'[k].target] # "none" /\ relay'[k].target \notin ToSet(All)'
      <4>1. relay'[k].target # NoConn /\ relay'[k] \in Relay
        BY <1>5, <3>2, <3>3
      <4>2. relay'[k].target \in Conn
        BY <4>1 DEF Relay
      <4>3. CASE k = c
        <5>1. relay'[c].target \in G /\ G # {}
          BY <1>5, <4>1, <4>2, <4>3
        <5>2. relay'[c].target \in ToSet(All)
          BY <1>5, <5>1
        <5>3. loop[relay'[c].target] # "none"
          BY <1>1, <4>2, <4>3, <5>2 DEF StartInv, Untouched, Listed
        <5> QED  BY <1>5, <4>1, <4>2, <4>3, <5>1, <5>3
      <4>4. CASE k # c
        BY <1>5, <2>1, <3>3, <4>1, <4>2, <4>4 DEF RunInv, Listed
      <4> QED  BY <4>3, <4>4
    <3>4. \A j : loop[j] # "none" => loop'[j] # "none"
      BY <1>5
    <3>5. ~ (loop'[k] = "failing" /\ sender'[k] = "failing")
      BY <2>1 DEF RunInv
    <3> QED  BY <3>1, <3>2, <3>3, <3>4, <3>5 DEF RunInv, Listed
  <2>5. QueueInv(k)'
    <3>1. CASE k \in served
      <4>0. queue[k] \in Seq(Frame) /\ sent[k] \in Seq(Frame)
        BY <2>1
      <4>1. /\ Append(queue[k], f) # <<>> /\ Len(Append(queue[k], f)) = Len(queue[k]) + 1
        BY <4>0, AppendProperties
      <4>2. Len(queue[k]) + 1 <= QueueLimit
        BY <1>2, <3>1
      <4>3. sent[k] \o Append(queue[k], f) = Append(sent[k] \o queue[k], f)
        <5>1. \A s, q \in Seq(Frame) : \A x \in Frame :
                s \o Append(q, x) = Append(s \o q, x)
          BY ConcatAppend
        <5> QED  BY <4>0, <5>1
      <4>4. sender[k] = "failing" => k \notin ToSet(All)
        BY <2>1 DEF ErrorInv, Listed
      <4>5. sender[k] \in {"idle", "sending", "failing"}
        BY <1>1 DEF Types, TasksType
      <4> QED  BY <2>1, <3>1, <4>1, <4>2, <4>3, <4>4, <4>5 DEF QueueInv, Listed
    <3>2. CASE k \notin served
      BY <2>1, <3>2 DEF QueueInv, Listed
    <3> QED  BY <3>1, <3>2
  <2>6. OpenInv(k)'
    BY <1>3, <2>1 DEF OpenInv, Listed, close
  <2> QED  BY <2>2, <2>3, <2>4, <2>5, <2>6 DEF ConnInv
<1> QED  BY <1>5, <1>6, <1>7, <1>8 DEF Inv
(* Reading one frame keeps the invariant. *)
LEMMA ReceiveStep ==
  ASSUME Inv, NEW c \in Conn, Receive(c)
  PROVE  Inv'
<1>1. /\ loop[c] = "reading" /\ c \in Talkers /\ received < MaxFrames
      /\ received' = received + 1
      /\ RelayOn(c, received + 1, Peers(c))
      /\ handler' = [t \in Conn |-> IF relay'[c].target = t THEN "callback" ELSE handler[t]]
      /\ UNCHANGED <<server, arriving, writer, gone, cancelled, close, faults, sent, purpose>>
  BY DEF Receive
<1>2. Types /\ ListsInv /\ RunInv(c) /\ \A k \in Conn : StartInv(k)
  BY DEF Inv, ConnInv
<1>3. received + 1 \in Frame /\ received' \in 0 .. MaxFrames
  BY <1>1, <1>2, BaseNodeAssumption DEF Types, CountsType, Frame
<1>4. Peers(c) \in Seq(Conn) /\ ToSet(Peers(c)) \subseteq ToSet(All)
  BY <1>2, AllIs, RemoveFirstIs DEF Peers
<1>5. \A t \in ToSet(Peers(c)) : loop[t] # "none"
  <2>1. ToSet(Peers(c)) \subseteq Conn
    BY <1>4, LenProperties, ElementOfSeq DEF ToSet
  <2> QED  BY <1>2, <1>4, <2>1 DEF StartInv, Untouched, Listed
<1>6. relay[c].target = NoConn
  BY <1>1, <1>2 DEF RunInv
<1>7. handler' = [k \in Conn |-> IF relay[c].target = k THEN "over"
                                 ELSE IF relay'[c].target = k THEN "callback"
                                 ELSE handler[k]]
  BY <1>1, <1>6, BaseNodeAssumption
<1> QED  BY <1>1, <1>3, <1>4, <1>5, <1>6, <1>7, RelayKeeps

-----------------------------------------------------------------------------
(* The other actions. *)

(* The parts of the invariant. *)
Parts ==
  /\ TasksType /\ QueuesType /\ CountsType /\ NodeType
  /\ ListsInv /\ CloseInv
  /\ \A k \in Conn : /\ StartInv(k) /\ ErrorInv(k) /\ RunInv(k)
                     /\ QueueInv(k) /\ OpenInv(k)

(* The targets of a relay are connections. *)
LEMMA TargetsAre ==
  ASSUME Parts, NEW k \in Conn
  PROVE  /\ relay[k].target \in Conn \cup {NoConn}
         /\ \A i \in DOMAIN relay[k].rest : relay[k].rest[i] \in Conn
<1>1. relay[k].target \in Conn \cup {NoConn} /\ relay[k].rest \in Seq(Conn)
  BY DEF Parts, TasksType, Relay
<1> QED  BY <1>1, LenProperties, ElementOfSeq

(* The invariant is the conjunction of these parts. *)
LEMMA InvIsParts == Inv <=> Parts
BY DEF Inv, Parts, ConnInv, Types

(* What only the server, the counters and close() can see of a step. *)
LEMMA ServerStep ==
  ASSUME Inv, AcceptBegin \/ AcceptEnd \/ CloseEnd
  PROVE  Inv'
<1>1. UNCHANGED <<lists, arriving, writer, gone, loop, relay, sender, queue,
                  handler, cancelled, left, awaited, bounds, history>>
  BY DEF AcceptBegin, AcceptEnd, CloseEnd, close
<1>2. /\ server' \in {"off", "starting", "listening", "closed"}
      /\ closing' = closing \/ (closing' = "done" /\ closing = "servers")
  BY DEF AcceptBegin, AcceptEnd, CloseEnd, close, Inv, Types, NodeType
<1>3. Parts
  BY InvIsParts
<1>4. ListsInv' /\ ToSet(All)' = ToSet(All) /\ ToSet(left)' = ToSet(left)
  BY <1>1, <1>3, ListsKept DEF Parts
<1>5. (TasksType /\ QueuesType /\ CountsType /\ NodeType /\ CloseInv)'
  BY <1>1, <1>2, <1>3 DEF Parts, TasksType, QueuesType, CountsType, NodeType, CloseInv,
                          bounds, history, lists
<1>6. ASSUME NEW k \in Conn
      PROVE  (StartInv(k) /\ ErrorInv(k) /\ RunInv(k) /\ QueueInv(k) /\ OpenInv(k))'
  <2>1. StartInv(k) /\ ErrorInv(k) /\ RunInv(k) /\ QueueInv(k) /\ OpenInv(k)
    BY <1>3 DEF Parts
  <2>2. StartInv(k)' /\ ErrorInv(k)'
    BY <1>1, <1>4, <2>1 DEF StartInv, ErrorInv, Untouched, Listed, history
  <2>3. RunInv(k)'
    BY <1>1, <1>4, <2>1 DEF RunInv, Handling, Handled, Listed
  <2>4. QueueInv(k)'
    BY <1>1, <1>4, <2>1 DEF QueueInv, Listed, history
  <2>5. OpenInv(k)'
    BY <1>1, <1>2, <1>4, <2>1 DEF OpenInv, Listed
  <2> QED  BY <2>2, <2>3, <2>4, <2>5
<1>7. Parts'
  BY <1>4, <1>5, <1>6 DEF Parts
<1> QED  BY <1>7, InvIsParts, PTL
(* A connection is made. *)
LEMMA ArriveStep ==
  ASSUME Inv, NEW c \in Conn, Arrive(c)
  PROVE  Inv'
<1>1. Parts
  BY InvIsParts
<1>2. UNCHANGED <<downstream, upstream, gone, loop, relay, sender,
                 queue, handler, cancelled, closing, left, received,
                 faults, given, sent, reports, purpose, server>>
  BY DEF Arrive, lists, close, bounds, history
<1>3. ListsInv' /\ ToSet(All)' = ToSet(All) /\ ToSet(left)' = ToSet(left) /\ CloseInv'
  BY <1>1, <1>2, ListsKept DEF Parts, CloseInv, lists
<1>4. (TasksType /\ QueuesType /\ CountsType /\ NodeType)'
  BY <1>1, <1>2 DEF Arrive, Parts, TasksType, QueuesType, CountsType, NodeType
<1>5. ASSUME NEW k \in Conn
      PROVE  (StartInv(k) /\ ErrorInv(k) /\ RunInv(k) /\ QueueInv(k) /\ OpenInv(k))'
  <2>1. /\ StartInv(k) /\ ErrorInv(k) /\ RunInv(k) /\ QueueInv(k) /\ OpenInv(k)
        /\ StartInv(c) /\ QueueInv(c) /\ OpenInv(c) /\ ErrorInv(c)
    BY <1>1 DEF Parts
  <2>2. /\ writer'[k] = IF k = c THEN writer'[c] ELSE writer[k]
        /\ writer[c] = "none" /\ writer'[c] = "open" /\ <<>> \o <<>> = <<>>
    BY <1>1 DEF Arrive, Parts, NodeType
  <2>3. StartInv(k)'
    BY <1>2, <1>3, <2>1, <2>2 DEF Arrive, StartInv, Untouched, Listed
  <2>4. ErrorInv(k)'
    BY <1>2, <1>3, <2>1, <2>2 DEF Arrive, ErrorInv, Listed
  <2>5. RunInv(k)'
    BY <1>2, <1>3, <2>1, <2>2 DEF RunInv, Handling, Handled, Listed
  <2>6. QueueInv(k)'
    BY <1>2, <1>3, <2>1, <2>2 DEF Arrive, QueueInv, StartInv, Untouched, Listed
  <2>7. OpenInv(k)'
    BY <1>2, <1>3, <2>1, <2>2 DEF Arrive, OpenInv, StartInv, Untouched, Listed
  <2> QED  BY <2>3, <2>4, <2>5, <2>6, <2>7
<1>6. Parts'
  BY <1>3, <1>4, <1>5 DEF Parts
<1> QED  BY <1>6, InvIsParts, PTL
(* A peer goes away. *)
LEMMA PeerGoesStep ==
  ASSUME Inv, NEW c \in Conn, PeerGoes(c)
  PROVE  Inv'
<1>1. Parts
  BY InvIsParts
<1>2. UNCHANGED <<downstream, upstream, arriving, loop, relay, sender,
                 queue, handler, cancelled, closing, left, received,
                 given, sent, reports, purpose, server>>
  BY DEF PeerGoes, lists, close, bounds, history
<1>3. ListsInv' /\ ToSet(All)' = ToSet(All) /\ ToSet(left)' = ToSet(left) /\ CloseInv'
  BY <1>1, <1>2, ListsKept DEF Parts, CloseInv, lists
<1>4. (TasksType /\ QueuesType /\ CountsType /\ NodeType)'
  BY <1>1, <1>2 DEF PeerGoes, Parts, TasksType, QueuesType, CountsType, NodeType
<1>5. ASSUME NEW k \in Conn
      PROVE  (StartInv(k) /\ ErrorInv(k) /\ RunInv(k) /\ QueueInv(k) /\ OpenInv(k))'
  <2>1. /\ StartInv(k) /\ ErrorInv(k) /\ RunInv(k) /\ QueueInv(k) /\ OpenInv(k)
        /\ StartInv(c) /\ QueueInv(c) /\ OpenInv(c) /\ ErrorInv(c)
    BY <1>1 DEF Parts
  <2>2. /\ writer'[k] = IF k = c THEN writer'[c] ELSE writer[k]
        /\ writer[c] = "open" /\ writer'[c] \in {"open", "closed"}
    BY <1>1 DEF PeerGoes, Parts, NodeType
  <2>3. StartInv(k)'
    BY <1>2, <1>3, <2>1, <2>2 DEF PeerGoes, StartInv, Untouched, Listed
  <2>4. ErrorInv(k)'
    BY <1>2, <1>3, <2>1, <2>2 DEF PeerGoes, ErrorInv, Listed
  <2>5. RunInv(k)'
    BY <1>2, <1>3, <2>1, <2>2 DEF RunInv, Handling, Handled, Listed
  <2>6. QueueInv(k)'
    BY <1>2, <1>3, <2>1, <2>2 DEF PeerGoes, QueueInv, Listed
  <2>7. OpenInv(k)'
    BY <1>2, <1>3, <2>1, <2>2 DEF PeerGoes, OpenInv, Listed
  <2> QED  BY <2>3, <2>4, <2>5, <2>6, <2>7
<1>6. Parts'
  BY <1>3, <1>4, <1>5 DEF Parts
<1> QED  BY <1>6, InvIsParts, PTL
(* A transport is closed. *)
LEMMA TransportClosedStep ==
  ASSUME Inv, NEW c \in Conn, TransportClosed(c)
  PROVE  Inv'
<1>1. Parts
  BY InvIsParts
<1>2. UNCHANGED <<downstream, upstream, arriving, gone, loop, relay,
                 sender, queue, handler, cancelled, closing, left,
                 received, faults, given, sent, reports, purpose,
                 server>>
  BY DEF TransportClosed, lists, close, bounds, history
<1>3. ListsInv' /\ ToSet(All)' = ToSet(All) /\ ToSet(left)' = ToSet(left) /\ CloseInv'
  BY <1>1, <1>2, ListsKept DEF Parts, CloseInv, lists
<1>4. (TasksType /\ QueuesType /\ CountsType /\ NodeType)'
  BY <1>1, <1>2 DEF TransportClosed, Parts, TasksType, QueuesType, CountsType, NodeType
<1>5. ASSUME NEW k \in Conn
      PROVE  (StartInv(k) /\ ErrorInv(k) /\ RunInv(k) /\ QueueInv(k) /\ OpenInv(k))'
  <2>1. /\ StartInv(k) /\ ErrorInv(k) /\ RunInv(k) /\ QueueInv(k) /\ OpenInv(k)
        /\ StartInv(c) /\ QueueInv(c) /\ OpenInv(c) /\ ErrorInv(c)
    BY <1>1 DEF Parts
  <2>2. /\ writer'[k] = IF k = c THEN writer'[c] ELSE writer[k]
        /\ writer[c] = "closing" /\ writer'[c] = "closed"
    BY <1>1 DEF TransportClosed, Parts, NodeType
  <2>3. StartInv(k)'
    BY <1>2, <1>3, <2>1, <2>2 DEF TransportClosed, StartInv, Untouched, Listed
  <2>4. ErrorInv(k)'
    BY <1>2, <1>3, <2>1, <2>2 DEF TransportClosed, ErrorInv, Listed
  <2>5. RunInv(k)'
    BY <1>2, <1>3, <2>1, <2>2 DEF RunInv, Handling, Handled, Listed
  <2>6. QueueInv(k)'
    BY <1>2, <1>3, <2>1, <2>2 DEF TransportClosed, QueueInv, Listed
  <2>7. OpenInv(k)'
    BY <1>2, <1>3, <2>1, <2>2 DEF TransportClosed, OpenInv, Listed
  <2> QED  BY <2>3, <2>4, <2>5, <2>6, <2>7
<1>6. Parts'
  BY <1>3, <1>4, <1>5 DEF Parts
<1> QED  BY <1>6, InvIsParts, PTL
(* A send task gives up on a transport that is being closed. *)
LEMMA SendSkippedStep ==
  ASSUME Inv, NEW c \in Conn, SendSkipped(c)
  PROVE  Inv'
<1>1. Parts
  BY InvIsParts
<1>2. UNCHANGED <<downstream, upstream, arriving, writer, gone, loop,
                 relay, queue, handler, cancelled, closing, left,
                 received, faults, given, sent, reports, purpose,
                 server>>
  BY DEF SendSkipped, lists, close, bounds, history
<1>3. ListsInv' /\ ToSet(All)' = ToSet(All) /\ ToSet(left)' = ToSet(left) /\ CloseInv'
  BY <1>1, <1>2, ListsKept DEF Parts, CloseInv, lists
<1>4. (TasksType /\ QueuesType /\ CountsType /\ NodeType)'
  BY <1>1, <1>2 DEF SendSkipped, Parts, TasksType, QueuesType, CountsType, NodeType
<1>5. ASSUME NEW k \in Conn
      PROVE  (StartInv(k) /\ ErrorInv(k) /\ RunInv(k) /\ QueueInv(k) /\ OpenInv(k))'
  <2>1. /\ StartInv(k) /\ ErrorInv(k) /\ RunInv(k) /\ QueueInv(k) /\ OpenInv(k)
        /\ StartInv(c) /\ QueueInv(c) /\ OpenInv(c) /\ ErrorInv(c)
    BY <1>1 DEF Parts
  <2>2. /\ sender'[k] = IF k = c THEN "idle" ELSE sender[k]
        /\ sender[c] = "sending" /\ writer[c] = "closing"
    BY <1>1 DEF SendSkipped, Parts, TasksType
  <2>3. StartInv(k)'
    BY <1>2, <1>3, <2>1, <2>2 DEF SendSkipped, StartInv, Untouched, Listed
  <2>4. ErrorInv(k)'
    BY <1>2, <1>3, <2>1, <2>2 DEF SendSkipped, ErrorInv, Listed
  <2>5. RunInv(k)'
    BY <1>2, <1>3, <2>1, <2>2 DEF RunInv, Handling, Handled, Listed
  <2>6. QueueInv(k)'
    BY <1>2, <1>3, <2>1, <2>2 DEF SendSkipped, QueueInv, Listed
  <2>7. OpenInv(k)'
    BY <1>2, <1>3, <2>1, <2>2 DEF SendSkipped, OpenInv, Listed
  <2> QED  BY <2>3, <2>4, <2>5, <2>6, <2>7
<1>6. Parts'
  BY <1>3, <1>4, <1>5 DEF Parts
<1> QED  BY <1>6, InvIsParts, PTL
(* A frame is sent. *)
LEMMA SentStep ==
  ASSUME Inv, NEW c \in Conn, Sent(c)
  PROVE  Inv'
<1>1. Parts
  BY InvIsParts
<1>2. UNCHANGED <<downstream, upstream, arriving, writer, gone, loop,
                 relay, handler, cancelled, closing, left, received,
                 faults, given, reports, purpose, server>>
  BY DEF Sent, lists, close, bounds, history
<1>3. ListsInv' /\ ToSet(All)' = ToSet(All) /\ ToSet(left)' = ToSet(left) /\ CloseInv'
  BY <1>1, <1>2, ListsKept DEF Parts, CloseInv, lists
<1>4. (TasksType /\ QueuesType /\ CountsType /\ NodeType)'
  <2>1. queue[c] \in Seq(Frame) /\ sent[c] \in Seq(Frame) /\ queue[c] # <<>>
    BY <1>1 DEF Sent, Parts, QueuesType, QueueInv
  <2>2. Tail(queue[c]) \in Seq(Frame) /\ Append(sent[c], Head(queue[c])) \in Seq(Frame)
    BY <2>1, HeadTailProperties, AppendProperties
  <2> QED  BY <1>1, <1>2, <2>2 DEF Sent, Parts, TasksType, QueuesType, CountsType, NodeType
<1>5. ASSUME NEW k \in Conn
      PROVE  (StartInv(k) /\ ErrorInv(k) /\ RunInv(k) /\ QueueInv(k) /\ OpenInv(k))'
  <2>1. /\ StartInv(k) /\ ErrorInv(k) /\ RunInv(k) /\ QueueInv(k) /\ OpenInv(k)
        /\ StartInv(c) /\ QueueInv(c) /\ OpenInv(c) /\ ErrorInv(c)
    BY <1>1 DEF Parts
  <2>2. /\ queue[k] \in Seq(Frame) /\ sent[k] \in Seq(Frame)
        /\ queue'[k] = IF k = c THEN Tail(queue[c]) ELSE queue[k]
        /\ sent'[k] = IF k = c THEN Append(sent[c], Head(queue[c])) ELSE sent[k]
        /\ sender'[k] = IF k = c /\ Len(queue[c]) = 1 THEN "idle" ELSE sender[k]
        /\ sender[c] = "sending" /\ writer[c] = "open"
    BY <1>1 DEF Sent, Parts, TasksType, QueuesType
  <2>3. StartInv(k)'
    BY <1>2, <1>3, <2>1, <2>2 DEF Sent, StartInv, Untouched, Listed
  <2>4. ErrorInv(k)'
    BY <1>2, <1>3, <2>1, <2>2 DEF Sent, ErrorInv, Listed
  <2>5. RunInv(k)'
    BY <1>2, <1>3, <2>1, <2>2 DEF RunInv, Handling, Handled, Listed
  <2>6. QueueInv(k)'
    <3>1. CASE k = c
      <4>1. /\ queue[c] # <<>> /\ Len(queue[c]) \in Nat /\ Len(queue[c]) <= QueueLimit
            /\ queue[c] \in Seq(Frame) /\ sent[c] \in Seq(Frame)
            /\ given[c] = sent[c] \o queue[c]
        BY <2>1, <2>2, <3>1, LenProperties DEF QueueInv
      <4>2. /\ Len(Tail(queue[c])) = Len(queue[c]) - 1
            /\ Tail(queue[c]) \in Seq(Frame)
        BY <4>1, HeadTailProperties
      <4>3. Append(sent[c], Head(queue[c])) \o Tail(queue[c]) = given[c]
        BY <4>1, ConcatTail
      <4>4. Tail(queue[c]) = <<>> <=> Len(queue[c]) = 1
        <5>1. Tail(queue[c]) = <<>> <=> Len(Tail(queue[c])) = 0
          BY <4>2, EmptyLen
        <5> QED  BY <4>1, <4>2, <5>1
      <4>5. Len(Tail(queue[c])) <= QueueLimit
        BY <4>1, <4>2, BaseNodeAssumption
      <4> QED  BY <1>2, <1>3, <2>2, <3>1, <4>3, <4>4, <4>5 DEF QueueInv
    <3>2. CASE k # c
      BY <1>2, <1>3, <2>1, <2>2, <3>2 DEF QueueInv, Listed
    <3> QED  BY <3>1, <3>2
  <2>7. OpenInv(k)'
    BY <1>2, <1>3, <2>1, <2>2 DEF Sent, OpenInv, Listed
  <2> QED  BY <2>3, <2>4, <2>5, <2>6, <2>7
<1>6. Parts'
  BY <1>3, <1>4, <1>5 DEF Parts
<1> QED  BY <1>6, InvIsParts, PTL
(* A relay loop finds that the connection is broken. *)
LEMMA LoopFailsStep ==
  ASSUME Inv, NEW c \in Conn, LoopFails(c)
  PROVE  Inv'
<1>1. Parts
  BY InvIsParts
<1>2. UNCHANGED <<arriving, writer, gone, relay, sender, queue,
                 cancelled, closing, left, received, faults, given,
                 sent, purpose, server>>
  BY DEF LoopFails, lists, close, bounds, history
<1>3. /\ ListsInv' /\ ToSet(All)' = ToSet(All) \ {c} /\ ToSet(left)' = ToSet(left)
      /\ CloseInv'
      /\ handler' = [k \in Conn |-> IF k = c /\ Listed(c) THEN "callback" ELSE handler[k]]
      /\ reports' = [k \in Conn |-> IF k = c /\ Listed(c) THEN reports[k] + 1 ELSE reports[k]]
  <2>1. CASE Listed(c)
    <3>1. Fail(c)
      BY <2>1 DEF LoopFails
    <3>2. /\ ListsInv' /\ ToSet(All)' = ToSet(All) \ {c}
          /\ downstream = <<>> /\ upstream = <<>> => downstream' = <<>> /\ upstream' = <<>>
      BY <1>1, <3>1, UnlistIs DEF Parts, Fail
    <3> QED  BY <1>1, <1>2, <2>1, <3>1, <3>2 DEF Parts, TasksType, CountsType, Fail, CloseInv
  <2>2. CASE ~ Listed(c)
    <3>1. UNCHANGED <<handler, reports>> /\ UNCHANGED lists
      BY <2>2 DEF LoopFails
    <3>2. ListsInv' /\ ToSet(All)' = ToSet(All)
      BY <1>1, <3>1, ListsKept DEF Parts
    <3> QED  BY <1>1, <1>2, <2>2, <3>1, <3>2 DEF Parts, TasksType, CountsType, CloseInv, Listed, lists
  <2> QED  BY <2>1, <2>2
<1>4. (TasksType /\ QueuesType /\ CountsType /\ NodeType)'
  <2>1. TasksType'
    BY <1>1, <1>2, <1>3 DEF LoopFails, Fail, Parts, TasksType
  <2>2. QueuesType' /\ NodeType'
    BY <1>1, <1>2 DEF Parts, QueuesType, NodeType
  <2>3. CountsType'
    BY <1>1, <1>2, <1>3 DEF LoopFails, Parts, CountsType
  <2> QED  BY <2>1, <2>2, <2>3
<1>5. ASSUME NEW k \in Conn
      PROVE  (StartInv(k) /\ ErrorInv(k) /\ RunInv(k) /\ QueueInv(k) /\ OpenInv(k))'
  <2>1. /\ StartInv(k) /\ ErrorInv(k) /\ RunInv(k) /\ QueueInv(k) /\ OpenInv(k)
        /\ StartInv(c) /\ QueueInv(c) /\ OpenInv(c) /\ ErrorInv(c)
    BY <1>1 DEF Parts
  <2>2. /\ handler'[k] = IF k = c /\ Listed(c) THEN "callback" ELSE handler[k]
        /\ reports'[k] = IF k = c /\ Listed(c) THEN reports[k] + 1 ELSE reports[k]
        /\ loop'[k] = IF k = c THEN (IF Listed(c) THEN "failing" ELSE "over") ELSE loop[k]
        /\ loop[c] = "reading" /\ reports[k] \in Nat
    BY <1>1, <1>3 DEF LoopFails, Fail, Parts, TasksType, CountsType
  <2>3. StartInv(k)'
    BY <1>2, <1>3, <2>1, <2>2 DEF StartInv, Untouched, Listed
  <2>4. ErrorInv(k)'
    BY <1>2, <1>3, <2>1, <2>2 DEF ErrorInv, Listed
  <2>5. RunInv(k)'
    <3>1. loop[k] # loop'[k] => loop[k] = "reading" /\ loop'[k] \in {"failing", "over"}
      BY <1>2, <2>2
    <3>2. \A j \in Conn : loop[j] # "none" => loop'[j] # "none"
      BY <1>1, <1>2 DEF LoopFails, Fail, Parts, TasksType
    <3>3. ~ (loop'[k] = "failing" /\ sender'[k] = "failing")
      BY <1>2, <2>1, <2>2 DEF RunInv, ErrorInv
    <3> QED  BY <1>1, <1>2, <1>3, <2>1, <2>2, <3>1, <3>2, <3>3, TargetsAre
             DEF RunInv, Handling, Handled, Listed
  <2>6. QueueInv(k)'
    BY <1>2, <1>3, <2>1, <2>2 DEF QueueInv, Listed
  <2>7. OpenInv(k)'
    BY <1>2, <1>3, <2>1, <2>2 DEF OpenInv, Listed
  <2> QED  BY <2>3, <2>4, <2>5, <2>6, <2>7
<1>6. Parts'
  BY <1>3, <1>4, <1>5 DEF Parts
<1> QED  BY <1>6, InvIsParts, PTL
(* A send fails. *)
LEMMA SendFailsStep ==
  ASSUME Inv, NEW c \in Conn, SendFails(c)
  PROVE  Inv'
<1>1. Parts
  BY InvIsParts
<1>2. UNCHANGED <<arriving, writer, gone, loop, relay, queue, cancelled,
                 closing, left, received, given, sent, purpose, server>>
  BY DEF SendFails, lists, close, bounds, history
<1>3. /\ ListsInv' /\ ToSet(All)' = ToSet(All) \ {c} /\ ToSet(left)' = ToSet(left)
      /\ CloseInv'
      /\ handler' = [k \in Conn |-> IF k = c /\ Listed(c) THEN "callback" ELSE handler[k]]
      /\ reports' = [k \in Conn |-> IF k = c /\ Listed(c) THEN reports[k] + 1 ELSE reports[k]]
  <2>1. CASE Listed(c)
    <3>1. Fail(c)
      BY <2>1 DEF SendFails
    <3>2. /\ ListsInv' /\ ToSet(All)' = ToSet(All) \ {c}
          /\ downstream = <<>> /\ upstream = <<>> => downstream' = <<>> /\ upstream' = <<>>
      BY <1>1, <3>1, UnlistIs DEF Parts, Fail
    <3> QED  BY <1>1, <1>2, <2>1, <3>1, <3>2 DEF Parts, TasksType, CountsType, Fail, CloseInv
  <2>2. CASE ~ Listed(c)
    <3>1. UNCHANGED <<handler, reports>> /\ UNCHANGED lists
      BY <2>2 DEF SendFails
    <3>2. ListsInv' /\ ToSet(All)' = ToSet(All)
      BY <1>1, <3>1, ListsKept DEF Parts
    <3> QED  BY <1>1, <1>2, <2>2, <3>1, <3>2 DEF Parts, TasksType, CountsType, CloseInv, Listed, lists
  <2> QED  BY <2>1, <2>2
<1>4. (TasksType /\ QueuesType /\ CountsType /\ NodeType)'
  <2>1. TasksType'
    BY <1>1, <1>2, <1>3 DEF SendFails, Fail, Parts, TasksType
  <2>2. QueuesType' /\ NodeType'
    BY <1>1, <1>2 DEF Parts, QueuesType, NodeType
  <2>3. CountsType'
    BY <1>1, <1>2, <1>3 DEF SendFails, Parts, CountsType
  <2> QED  BY <2>1, <2>2, <2>3
<1>5. ASSUME NEW k \in Conn
      PROVE  (StartInv(k) /\ ErrorInv(k) /\ RunInv(k) /\ QueueInv(k) /\ OpenInv(k))'
  <2>1. /\ StartInv(k) /\ ErrorInv(k) /\ RunInv(k) /\ QueueInv(k) /\ OpenInv(k)
        /\ StartInv(c) /\ QueueInv(c) /\ OpenInv(c) /\ ErrorInv(c)
    BY <1>1 DEF Parts
  <2>2. /\ handler'[k] = IF k = c /\ Listed(c) THEN "callback" ELSE handler[k]
        /\ reports'[k] = IF k = c /\ Listed(c) THEN reports[k] + 1 ELSE reports[k]
        /\ sender'[k] = IF k = c THEN (IF Listed(c) THEN "failing" ELSE "idle") ELSE sender[k]
        /\ sender[c] = "sending" /\ reports[k] \in Nat
    BY <1>1, <1>3 DEF SendFails, Fail, Parts, TasksType, CountsType
  <2>3. StartInv(k)'
    BY <1>2, <1>3, <2>1, <2>2 DEF StartInv, Untouched, Listed
  <2>4. ErrorInv(k)'
    BY <1>2, <1>3, <2>1, <2>2 DEF ErrorInv, Listed
  <2>5. RunInv(k)'
    <3>1. loop[k] # loop'[k] => loop[k] = "reading" /\ loop'[k] \in {"failing", "over"}
      BY <1>2, <2>2
    <3>2. \A j \in Conn : loop[j] # "none" => loop'[j] # "none"
      BY <1>1, <1>2 DEF SendFails, Parts, TasksType
    <3>3. ~ (loop'[k] = "failing" /\ sender'[k] = "failing")
      BY <1>2, <2>1, <2>2 DEF RunInv, ErrorInv
    <3> QED  BY <1>1, <1>2, <1>3, <2>1, <2>2, <3>1, <3>2, <3>3, TargetsAre
             DEF RunInv, Handling, Handled, Listed
  <2>6. QueueInv(k)'
    BY <1>2, <1>3, <2>1, <2>2 DEF QueueInv, Listed
  <2>7. OpenInv(k)'
    BY <1>2, <1>3, <2>1, <2>2 DEF OpenInv, Listed
  <2> QED  BY <2>3, <2>4, <2>5, <2>6, <2>7
<1>6. Parts'
  BY <1>3, <1>4, <1>5 DEF Parts
<1> QED  BY <1>6, InvIsParts, PTL
(* A connection is started, or closed because the node is. *)
LEMMA ConnectedStep ==
  ASSUME Inv, NEW c \in Conn, Connected(c)
  PROVE  Inv'
<1>1. Parts
  BY InvIsParts
<1>2. /\ c \in arriving /\ arriving' = arriving \ {c} /\ StartConnection(c)
      /\ UNCHANGED <<server, gone, relay, sender, queue, handler, cancelled,
                     closing, left, received, faults, given, sent, reports, purpose>>
  BY DEF Connected, close, bounds, history
<1>3. /\ loop[c] = "none" /\ Untouched(c) /\ writer[c] # "none"
  BY <1>1, <1>2 DEF Parts, StartInv
<1>4. \A k \in Conn : relay[k].target # c
  BY <1>1, <1>3, BaseNodeAssumption DEF Parts, RunInv
<1>5. CASE closing # "no"
  <2>1. /\ writer' = [writer EXCEPT ![c] = IF @ = "open" THEN "closing" ELSE @]
        /\ UNCHANGED <<lists, loop>>
    BY <1>2, <1>5 DEF StartConnection
  <2>2. ListsInv' /\ ToSet(All)' = ToSet(All) /\ ToSet(left)' = ToSet(left) /\ CloseInv'
    BY <1>1, <1>2, <2>1, ListsKept DEF Parts, CloseInv, lists
  <2>3. (TasksType /\ QueuesType /\ CountsType /\ NodeType)'
    BY <1>1, <1>2, <2>1 DEF Parts, TasksType, QueuesType, CountsType, NodeType
  <2>4. ASSUME NEW k \in Conn
        PROVE  (StartInv(k) /\ ErrorInv(k) /\ RunInv(k) /\ QueueInv(k) /\ OpenInv(k))'
    <3>1. /\ StartInv(k) /\ ErrorInv(k) /\ RunInv(k) /\ QueueInv(k) /\ OpenInv(k)
          /\ writer'[k] = IF k = c /\ writer[c] = "open" THEN "closing" ELSE writer[k]
      BY <1>1, <2>1 DEF Parts, NodeType
    <3>2. (StartInv(k) /\ ErrorInv(k))'
      BY <1>2, <2>1, <2>2, <3>1 DEF StartInv, ErrorInv, Untouched, Listed
    <3>3. RunInv(k)'
      BY <1>2, <2>1, <2>2, <3>1 DEF RunInv, Handling, Handled, Listed
    <3>4. QueueInv(k)'
      BY <1>2, <2>2, <3>1 DEF QueueInv, Listed
    <3>5. OpenInv(k)'
      BY <1>2, <2>2, <3>1 DEF OpenInv, Listed
    <3> QED  BY <3>2, <3>3, <3>4, <3>5
  <2>5. Parts'
    BY <2>2, <2>3, <2>4 DEF Parts
  <2> QED  BY <2>5, InvIsParts, PTL
<1>6. CASE closing = "no"
  <2>1. /\ \/ /\ c \in Down /\ downstream' = Append(downstream, c) /\ UNCHANGED upstream
           \/ /\ c \in Up /\ upstream' = Append(upstream, c) /\ UNCHANGED downstream
        /\ loop' = [loop EXCEPT ![c] = "reading"]
        /\ UNCHANGED writer
    BY <1>2, <1>6 DEF StartConnection, Conn
  <2>2. ListsInv' /\ ToSet(All)' = ToSet(All) \cup {c}
    <3>1. /\ downstream \in Seq(Down) /\ upstream \in Seq(Up)
          /\ Once(downstream) /\ Once(upstream)
          /\ ToSet(All) = ToSet(downstream) \cup ToSet(upstream)
          /\ c \notin ToSet(downstream) /\ c \notin ToSet(upstream)
      BY <1>1, <1>3, AllIs DEF Parts, ListsInv, Untouched, Listed
    <3>2. /\ downstream' \in Seq(Down) /\ upstream' \in Seq(Up)
          /\ Once(downstream') /\ Once(upstream')
          /\ ToSet(downstream') \cup ToSet(upstream')
               = (ToSet(downstream) \cup ToSet(upstream)) \cup {c}
      <4>1. CASE c \in Down /\ downstream' = Append(downstream, c) /\ UNCHANGED upstream
        <5>1. /\ downstream' \in Seq(Down) /\ Once(downstream')
              /\ ToSet(downstream') = ToSet(downstream) \cup {c}
          BY <3>1, <4>1, AppendIs
        <5>2. upstream' = upstream
          BY <4>1
        <5> QED  BY <3>1, <5>1, <5>2
      <4>2. CASE c \in Up /\ upstream' = Append(upstream, c) /\ UNCHANGED downstream
        <5>1. /\ upstream' \in Seq(Up) /\ Once(upstream')
              /\ ToSet(upstream') = ToSet(upstream) \cup {c}
          BY <3>1, <4>2, AppendIs
        <5>2. downstream' = downstream
          BY <4>2
        <5> QED  BY <3>1, <5>1, <5>2
      <4> QED  BY <2>1, <4>1, <4>2
    <3>3. ListsInv'
      BY <3>2 DEF ListsInv, Once
    <3>4. ToSet(All)' = ToSet(downstream') \cup ToSet(upstream')
      <4>1. (ToSet(All) = ToSet(downstream) \cup ToSet(upstream))'
        BY <3>3, AllIs, PTL
      <4> QED  BY <4>1
    <3> QED  BY <3>1, <3>2, <3>3, <3>4
  <2>3. (TasksType /\ QueuesType /\ CountsType /\ NodeType /\ CloseInv)'
    BY <1>1, <1>2, <1>6, <2>1 DEF Parts, TasksType, QueuesType, CountsType, NodeType, CloseInv
  <2>4. ASSUME NEW k \in Conn
        PROVE  (StartInv(k) /\ ErrorInv(k) /\ RunInv(k) /\ QueueInv(k) /\ OpenInv(k))'
    <3>1. /\ StartInv(k) /\ ErrorInv(k) /\ RunInv(k) /\ QueueInv(k) /\ OpenInv(k)
          /\ loop'[k] = IF k = c THEN "reading" ELSE loop[k]
          /\ k \in ToSet(All)' <=> k \in ToSet(All) \/ k = c
          /\ <<>> \o <<>> = <<>> /\ NoRelay.target = NoConn
      BY <1>1, <2>1, <2>2 DEF Parts, TasksType, NoRelay
    <3>2. (StartInv(k) /\ ErrorInv(k))'
      BY <1>2, <1>3, <2>1, <3>1 DEF StartInv, ErrorInv, Untouched, Listed
    <3>3. RunInv(k)'
      <4>1. \A j \in Conn : loop[j] # "none" => loop'[j] # "none"
        BY <1>1, <2>1 DEF Parts, TasksType
      <4> QED  BY <1>1, <1>2, <1>3, <1>4, <2>2, <3>1, <4>1, TargetsAre
               DEF RunInv, Handling, Handled, Listed, Untouched
    <3>4. QueueInv(k)'
      BY <1>2, <1>3, <2>1, <3>1 DEF QueueInv, Untouched, Listed
    <3>5. OpenInv(k)'
      BY <1>2, <1>3, <1>6, <2>1, <3>1 DEF OpenInv, Untouched, Listed
    <3> QED  BY <3>2, <3>3, <3>4, <3>5
  <2>5. Parts'
    BY <2>2, <2>3, <2>4 DEF Parts
  <2> QED  BY <2>5, InvIsParts, PTL
<1> QED  BY <1>5, <1>6

(* The task that handles an error. *)
LEMMA RunnerIs ==
  ASSUME Parts, NEW c \in Conn, Handling(c)
  PROVE  \/ Runner(c) = LoopOf(c) /\ loop[c] = "failing"
         \/ Runner(c) = SenderOf(c) /\ sender[c] = "failing" /\ loop[c] # "failing"
         \/ \E d \in Conn : /\ Runner(c) = LoopOf(d) /\ relay[d].target = c
                            /\ loop[d] \in {"relaying", "dying"}
                            /\ loop[c] # "failing"
<1>1. Handled(c)
  BY DEF Parts, RunInv
<1>2. CASE loop[c] = "failing"
  <2>1. sender[c] # "failing"
    BY <1>2 DEF Parts, RunInv
  <2> QED  BY <1>2, <2>1 DEF Runner
<1>3. CASE loop[c] # "failing" /\ sender[c] = "failing"
  BY <1>3 DEF Runner
<1>4. CASE loop[c] # "failing" /\ sender[c] # "failing"
  <2> DEFINE d == CHOOSE e \in Conn : relay[e].target = c
  <2>1. d \in Conn /\ relay[d].target = c
    BY <1>1, <1>4 DEF Handled
  <2>2. Runner(c) = LoopOf(d)
    BY <1>4 DEF Runner
  <2> HIDE DEF d
  <2>3. loop[d] \in {"relaying", "dying"}
    BY <2>1, BaseNodeAssumption DEF Parts, RunInv
  <2> QED  BY <1>4, <2>1, <2>2, <2>3
<1> QED  BY <1>2, <1>3, <1>4

(* A task knows its kind and its connection. *)
LEMMA TaskParts ==
  \A x : /\ LoopOf(x)[1] = "relay loop" /\ LoopOf(x)[2] = x
         /\ SenderOf(x)[1] = "send task" /\ SenderOf(x)[2] = x
BY DEF LoopOf, SenderOf

(* The end of the task that handled an error. *)
LEMMA EndKeeps ==
  ASSUME Parts, NEW c \in Conn, handler[c] \in {"closing", "left"},
         handler' = [handler EXCEPT ![c] = "over"],
         cancelled' \subseteq cancelled,
         \/ Runner(c)[1] = "relay loop" /\ LoopEnds(Runner(c)[2])
         \/ Runner(c)[1] = "send task" /\ SenderEnds(Runner(c)[2]),
         UNCHANGED <<server, arriving, writer, gone, close, bounds, sent, purpose>>
  PROVE  Parts'
<1>1. /\ UNCHANGED <<queue, given, reports>> /\ UNCHANGED lists
      /\ UNCHANGED <<closing, left, received, faults>>
  BY DEF LoopEnds, SenderEnds, close, bounds
<1>2. ListsInv' /\ ToSet(All)' = ToSet(All) /\ ToSet(left)' = ToSet(left) /\ CloseInv'
  BY <1>1, ListsKept DEF Parts, CloseInv, lists
<1>3. Handling(c) /\ c \notin ToSet(All) /\ loop[c] # "none"
  BY DEF Handling, Parts, ErrorInv, StartInv, Untouched, Listed
<1> DEFINE LoopDone(d) == /\ sender' = sender
                         /\ loop' = [loop EXCEPT ![d] = "over"]
                         /\ relay' = [relay EXCEPT ![d] = NoRelay]
           SenderDone == /\ loop' = loop /\ relay' = relay
                         /\ sender' = [sender EXCEPT ![c] = "idle"]
<1>4. \/ LoopDone(c) /\ loop[c] = "failing"
      \/ SenderDone /\ sender[c] = "failing"
      \/ \E d \in Conn : /\ LoopDone(d) /\ relay[d].target = c
                         /\ loop[d] \in {"relaying", "dying"}
  <2>1. CASE Runner(c) = LoopOf(c) /\ loop[c] = "failing"
    <3>1. Runner(c)[1] = "relay loop" /\ Runner(c)[2] = c
      BY <2>1, TaskParts
    <3> QED  BY <2>1, <3>1 DEF LoopEnds
  <2>2. CASE Runner(c) = SenderOf(c) /\ sender[c] = "failing"
    <3>1. Runner(c)[1] = "send task" /\ Runner(c)[2] = c
      BY <2>2, TaskParts
    <3> QED  BY <2>2, <3>1 DEF SenderEnds
  <2>3. ASSUME NEW d \in Conn, Runner(c) = LoopOf(d) PROVE LoopDone(d)
    <3>1. Runner(c)[1] = "relay loop" /\ Runner(c)[2] = d
      BY <2>3, TaskParts
    <3> QED  BY <3>1 DEF LoopEnds
  <2> HIDE DEF LoopDone, SenderDone
  <2> QED  BY <1>3, <2>1, <2>2, <2>3, RunnerIs
<1>5. NoRelay \in Relay /\ NoRelay.target = NoConn
  BY EmptySeq DEF NoRelay, Relay
<1>6. (TasksType /\ QueuesType /\ CountsType /\ NodeType)'
  <2>1. TasksType'
    BY <1>4, <1>5, ZenonT(60) DEF Parts, TasksType
  <2>2. QueuesType' /\ CountsType' /\ NodeType'
    BY <1>1 DEF Parts, QueuesType, CountsType, NodeType
  <2> QED  BY <2>1, <2>2
<1>7. ASSUME NEW k \in Conn
      PROVE  (StartInv(k) /\ ErrorInv(k) /\ RunInv(k) /\ QueueInv(k) /\ OpenInv(k))'
  <2>1. /\ StartInv(k) /\ ErrorInv(k) /\ RunInv(k) /\ QueueInv(k) /\ OpenInv(k)
        /\ handler'[k] = IF k = c THEN "over" ELSE handler[k]
        /\ handler[c] \in {"closing", "left"}
    BY DEF Parts, TasksType
  <2>2. \/ sender'[k] = sender[k]
        \/ sender[k] = "failing" /\ sender'[k] = "idle" /\ k = c
    BY <1>4 DEF Parts, TasksType
  <2>3. \/ loop'[k] = loop[k] /\ relay'[k] = relay[k]
        \/ /\ loop[k] \in {"relaying", "dying", "failing"} /\ loop'[k] = "over"
           /\ relay'[k] = NoRelay
    BY <1>4 DEF Parts, TasksType
  <2>4. StartInv(k)'
    BY <1>1, <1>2, <1>3, <2>1, <2>2, <2>3 DEF StartInv, Untouched, Listed
  <2>5. ErrorInv(k)'
    BY <1>1, <1>2, <1>3, <2>1, <2>2, <2>3 DEF ErrorInv, Listed
  <2>6. RunInv(k)'
    <3>1. ASSUME k # c, Handling(k) PROVE Handled(k)'
      <4>1. \/ sender'[k] = "failing" \/ loop[k] = "failing"
            \/ \E e \in Conn : relay[e].target = k
        BY <2>1, <2>2, <3>1 DEF RunInv, Handled
      <4>2. loop[k] = "failing" => loop'[k] = "failing"
        BY <1>4, <3>1 DEF Parts, TasksType
      <4>3. ASSUME NEW e \in Conn, relay[e].target = k PROVE relay'[e].target = k
        <5>1. loop[e] # "failing"
          BY <4>3, BaseNodeAssumption DEF Parts, RunInv
        <5> QED  BY <1>4, <3>1, <4>3, <5>1 DEF Parts, TasksType
      <4> QED  BY <4>1, <4>2, <4>3 DEF Handled
    <3>2. (Handling(k) => Handled(k))'
      <4> SUFFICES ASSUME handler'[k] \in {"callback", "closing", "left"}
                   PROVE  Handled(k)'
        BY DEF Handling
      <4>0. handler'[k] = IF k = c THEN "over" ELSE handler[k]
        BY <2>1
      <4>1. k # c
        <5>1. ASSUME k = c PROVE FALSE
          <6>1. handler'[k] = "over"
            BY <4>0, <5>1
          <6>2. "over" \in {"callback", "closing", "left"}
            BY <6>1
          <6> QED  BY <6>2
        <5> QED  BY <5>1
      <4>2. Handling(k)
        BY <2>1, <4>1 DEF Handling
      <4> QED  BY <3>1, <4>1, <4>2
    <3>3. \A j \in Conn : loop[j] # "none" => loop'[j] # "none"
      BY <1>4 DEF Parts, TasksType
    <3> QED  BY <1>2, <1>5, <2>1, <2>2, <2>3, <3>2, <3>3, TargetsAre DEF RunInv, Listed
  <2>7. QueueInv(k)'
    BY <1>1, <1>2, <1>3, <2>1, <2>2 DEF QueueInv, Listed
  <2>8. OpenInv(k)'
    BY <1>1, <1>2, <2>1 DEF OpenInv, Listed
  <2> QED  BY <2>4, <2>5, <2>6, <2>7, <2>8
<1> QED  BY <1>2, <1>6, <1>7 DEF Parts

(* A task that is cancelled while it waits for a failed connection is over. *)
LEMMA InterruptedStep ==
  ASSUME Inv, NEW c \in Conn, Interrupted(c)
  PROVE  Inv'
<1>1. Parts
  BY InvIsParts
<1>2. /\ handler[c] \in {"closing", "left"} /\ handler' = [handler EXCEPT ![c] = "over"]
      /\ cancelled' \subseteq cancelled
      /\ IF Runner(c)[1] = "relay loop" THEN LoopEnds(Runner(c)[2])
                                        ELSE SenderEnds(Runner(c)[2])
      /\ UNCHANGED <<server, arriving, writer, gone, close, bounds, sent, purpose>>
  BY DEF Interrupted
<1>3. Runner(c)[1] \in {"relay loop", "send task"}
  <2>1. Runner(c) = SenderOf(c) \/ \E x \in Conn : Runner(c) = LoopOf(x)
    BY <1>1, <1>2, RunnerIs DEF Handling
  <2> QED  BY <2>1, TaskParts
<1>4. Parts'
  BY <1>1, <1>2, <1>3, EndKeeps
<1> QED  BY <1>4, InvIsParts, PTL

(* A task that has handled an error ends, or goes on relaying. *)
LEMMA HandlerEndsStep ==
  ASSUME Inv, NEW c \in Conn, HandlerEnds(c)
  PROVE  Inv'
<1> DEFINE d == Runner(c)[2]
<1>1. Parts
  BY InvIsParts
<1>2. /\ handler[c] \in {"closing", "left"}
      /\ \/ Runner(c)[1] = "send task" /\ SenderEnds(d)
         \/ Runner(c)[1] = "relay loop" /\ loop[d] \in {"failing", "dying"} /\ LoopEnds(d)
         \/ /\ Runner(c)[1] = "relay loop" /\ loop[d] = "relaying"
            /\ RelayOn(d, relay[d].frame, relay[d].rest)
      /\ handler' = [k \in Conn |->
                       IF k = c THEN "over"
                       ELSE IF relay'[d].target = k /\ relay[d].target # k THEN "callback"
                       ELSE handler[k]]
      /\ UNCHANGED <<server, arriving, writer, gone, cancelled, close, bounds, sent,
                     purpose>>
  BY DEF HandlerEnds
<1>3. \/ Runner(c) = LoopOf(c) /\ loop[c] = "failing"
      \/ Runner(c) = SenderOf(c) /\ sender[c] = "failing" /\ loop[c] # "failing"
      \/ \E e \in Conn : /\ Runner(c) = LoopOf(e) /\ relay[e].target = c
                         /\ loop[e] \in {"relaying", "dying"}
                         /\ loop[c] # "failing"
  BY <1>1, <1>2, RunnerIs DEF Handling
<1>4. d \in Conn
  BY <1>3, TaskParts
<1>5. writer[c] # "open"
  BY <1>1, <1>2 DEF Parts, OpenInv
<1>6. CASE Runner(c)[1] = "send task" /\ SenderEnds(d)
  <2>1. relay' = relay
    BY <1>6 DEF SenderEnds
  <2>2. handler' = [handler EXCEPT ![c] = "over"]
    BY <1>1, <1>2, <2>1 DEF Parts, TasksType
  <2>3. Parts'
    BY <1>1, <1>2, <1>6, <2>2, EndKeeps
  <2> QED  BY <2>3, InvIsParts, PTL
<1>7. CASE Runner(c)[1] = "relay loop" /\ LoopEnds(d)
  <2>1. relay'[d].target = NoConn
    BY <1>1, <1>4, <1>7 DEF LoopEnds, NoRelay, Parts, TasksType
  <2>2. handler' = [handler EXCEPT ![c] = "over"]
    BY <1>1, <1>2, <2>1, BaseNodeAssumption DEF Parts, TasksType
  <2>3. Parts'
    BY <1>1, <1>2, <1>7, <2>2, EndKeeps
  <2> QED  BY <2>3, InvIsParts, PTL
<1>8. CASE /\ Runner(c)[1] = "relay loop" /\ loop[d] = "relaying"
           /\ RelayOn(d, relay[d].frame, relay[d].rest)
  <2>1. relay[d].target = c
    BY <1>3, <1>8, TaskParts
  <2>2. /\ relay[d].frame \in Frame /\ relay[d].rest \in Seq(Conn)
        /\ \A i \in DOMAIN relay[d].rest : loop[relay[d].rest[i]] # "none"
    BY <1>1, <1>4, <1>8 DEF Parts, RunInv, TasksType, Relay
  <2>3. \A t \in ToSet(relay[d].rest) : loop[t] # "none"
    BY <2>2 DEF ToSet
  <2>4. handler' = [k \in Conn |-> IF relay[d].target = k THEN "over"
                                   ELSE IF relay'[d].target = k THEN "callback"
                                   ELSE handler[k]]
    BY <1>2, <2>1
  <2>5. received' \in 0 .. MaxFrames /\ UNCHANGED faults
    BY <1>1, <1>2 DEF Parts, CountsType, bounds
  <2> HIDE DEF d
  <2> QED  BY <1>2, <1>4, <1>5, <1>8, <2>1, <2>2, <2>3, <2>4, <2>5, RelayKeeps
<1> QED  BY <1>2, <1>6, <1>7, <1>8
(* Closing some connections keeps what is said of each, if the lists do not
   grow, and what the step says of errors and purposes fits. *)
LEMMA DiscardKeeps ==
  ASSUME Parts, NEW S \in SUBSET Conn, NEW t, NEW loops, Discard(S, t, loops),
         DOMAIN loops = Conn,
         \A k \in Conn : loops[k] = loop[k] \/ (loop[k] = "relaying" /\ loops[k] = "dying"),
         ToSet(All)' \subseteq ToSet(All),
         UNCHANGED <<arriving, relay, given, sent, reports>>,
         handler' \in [Conn -> {"none", "callback", "closing", "left", "over"}],
         \A k \in Conn : Handling(k)' => Handling(k),
         \A k \in Conn : handler[k] = "none" => handler'[k] = "none",
         \A k \in Conn : k \in ToSet(All)' => purpose'[k] \in {purpose[k], "node"},
         \A k \in Conn : purpose'[k] # purpose[k] => k \in ToSet(All)
  PROVE  /\ TasksType' /\ QueuesType'
         /\ \A k \in Conn :
              /\ (StartInv(k) /\ ErrorInv(k) /\ RunInv(k) /\ QueueInv(k))'
              /\ writer'[k] = IF k \in S /\ writer[k] = "open" THEN "closing" ELSE writer[k]
         /\ writer' \in [Conn -> {"none", "open", "closing", "closed"}]
<1>1. /\ queue' = [c \in Conn |-> IF c \in S THEN <<>> ELSE queue[c]]
      /\ writer' = [c \in Conn |-> IF c \in S /\ writer[c] = "open" THEN "closing"
                                                                  ELSE writer[c]]
      /\ loop' = [c \in Conn |-> IF c \in S /\ loops[c] = "reading" THEN "over"
                                                                 ELSE loops[c]]
      /\ sender' = [c \in Conn |-> IF c \in S /\ sender[c] = "sending" THEN "idle"
                                                                    ELSE sender[c]]
      /\ cancelled' = (cancelled \cup UNION { Busy(c) : c \in S }) \ {t}
  BY DEF Discard
<1>2. TasksType'
  <2>1. \A c \in Conn : Busy(c) \subseteq Task
    <3>1. \A c \in Conn : LoopOf(c) \in Task /\ SenderOf(c) \in Task
      BY DEF Task, LoopOf, SenderOf
    <3> QED  BY <3>1 DEF Busy
  <2>2. cancelled' \subseteq Task
    BY <1>1, <2>1 DEF Parts, TasksType
  <2>3. loop' \in [Conn -> {"none", "reading", "relaying", "failing", "dying", "over"}]
    BY <1>1 DEF Parts, TasksType
  <2>4. sender' \in [Conn -> {"idle", "sending", "failing"}]
    BY <1>1 DEF Parts, TasksType
  <2> QED  BY <2>2, <2>3, <2>4 DEF Parts, TasksType
<1>3. QueuesType'
  <2>1. <<>> \in Seq(Frame)
    BY EmptySeq
  <2> QED  BY <1>1, <2>1 DEF Parts, QueuesType
<1>4. writer' \in [Conn -> {"none", "open", "closing", "closed"}]
  BY <1>1 DEF Parts, NodeType
<1>5. ASSUME NEW k \in Conn
      PROVE  /\ (StartInv(k) /\ ErrorInv(k) /\ RunInv(k) /\ QueueInv(k))'
             /\ writer'[k] = IF k \in S /\ writer[k] = "open" THEN "closing" ELSE writer[k]
  <2>1. /\ StartInv(k) /\ ErrorInv(k) /\ RunInv(k) /\ QueueInv(k)
        /\ queue'[k] = IF k \in S THEN <<>> ELSE queue[k]
        /\ writer'[k] = IF k \in S /\ writer[k] = "open" THEN "closing" ELSE writer[k]
        /\ sender'[k] = IF k \in S /\ sender[k] = "sending" THEN "idle" ELSE sender[k]
        /\ \/ loop'[k] = loop[k]
           \/ loop[k] = "reading" /\ loop'[k] = "over"
           \/ loop[k] = "relaying" /\ loop'[k] = "dying"
    BY <1>1 DEF Parts
  <2>2. StartInv(k)'
    BY <2>1 DEF StartInv, Untouched, Listed
  <2>3. ErrorInv(k)'
    BY <2>1 DEF ErrorInv, Listed
  <2>4. RunInv(k)'
    <3>1. (Handling(k) => Handled(k))'
      <4>1. Handled(k) => Handled(k)'
        BY <2>1 DEF Handled
      <4>2. Handling(k)' => Handling(k)
        OBVIOUS
      <4> QED  BY <2>1, <4>1, <4>2 DEF RunInv
    <3>2. \A j \in Conn : loop[j] # "none" => loop'[j] # "none"
      BY <1>1
    <3> QED  BY <2>1, <3>1, <3>2, TargetsAre, BaseNodeAssumption DEF RunInv, Listed
  <2>5. QueueInv(k)'
    <3>1. Len(<<>>) = 0 /\ QueueLimit \in Nat
      BY EmptySeq, BaseNodeAssumption
    <3>2. given'[k] = given[k] /\ sent'[k] = sent[k]
      OBVIOUS
    <3>3. CASE k \in S
      BY <2>1, <3>1, <3>3 DEF QueueInv
    <3>4. CASE k \notin S
      BY <2>1, <3>2, <3>4 DEF QueueInv, Listed
    <3> QED  BY <3>3, <3>4
  <2> QED  BY <2>1, <2>2, <2>3, <2>4, <2>5
<1> QED  BY <1>2, <1>3, <1>4, <1>5

(* An error callback returns, or is interrupted, and the connection is closed. *)
LEMMA CallbackEndsStep ==
  ASSUME Inv, NEW c \in Conn, CallbackEnds(c)
  PROVE  Inv'
<1> DEFINE t == Runner(c)
           loops == IF t \in cancelled /\ loop[t[2]] = "relaying"
                    THEN [loop EXCEPT ![t[2]] = "dying"] ELSE loop
<1>1. Parts
  BY InvIsParts
<1>2. /\ handler[c] = "callback"
      /\ handler' = [handler EXCEPT ![c] = IF writer[c] = "open" THEN "closing" ELSE "left"]
      /\ Discard({c}, t, loops)
      /\ UNCHANGED <<downstream, upstream, server, arriving, gone, relay, closing, left,
                     received, faults, given, sent, reports, purpose>>
  BY DEF CallbackEnds, lists, close, bounds, history
<1>3. ListsInv' /\ ToSet(All)' = ToSet(All) /\ ToSet(left)' = ToSet(left) /\ CloseInv'
  BY <1>1, <1>2, ListsKept DEF Parts, CloseInv, lists
<1>4. /\ handler' \in [Conn -> {"none", "callback", "closing", "left", "over"}]
      /\ \A k \in Conn : /\ Handling(k)' => Handling(k)
                         /\ handler[k] = "none" => handler'[k] = "none"
                         /\ k # c => handler'[k] = handler[k]
      /\ handler'[c] \in {"closing", "left"}
  BY <1>1, <1>2 DEF Parts, TasksType, Handling
<1>5. DOMAIN loops = Conn
  BY <1>1 DEF Parts, TasksType
<1>6. \A k \in Conn : loops[k] = loop[k] \/ (loop[k] = "relaying" /\ loops[k] = "dying")
  BY <1>1 DEF Parts, TasksType
<1>7. /\ TasksType' /\ QueuesType'
      /\ \A k \in Conn :
           /\ (StartInv(k) /\ ErrorInv(k) /\ RunInv(k) /\ QueueInv(k))'
           /\ writer'[k] = IF k \in {c} /\ writer[k] = "open" THEN "closing" ELSE writer[k]
      /\ writer' \in [Conn -> {"none", "open", "closing", "closed"}]
  <2> HIDE DEF t, loops
  <2>1. {c} \in SUBSET Conn
    OBVIOUS
  <2>2. /\ ToSet(All)' \subseteq ToSet(All)
        /\ \A k \in Conn : purpose'[k] = purpose[k]
        /\ UNCHANGED <<arriving, relay, given, sent, reports>>
    BY <1>2, <1>3
  <2> QED  BY <1>1, <1>2, <1>4, <1>5, <1>6, <2>1, <2>2, DiscardKeeps
<1>8. CountsType' /\ NodeType'
  BY <1>1, <1>2, <1>7 DEF Parts, CountsType, NodeType
<1>9. ASSUME NEW k \in Conn PROVE OpenInv(k)'
  <2>1. OpenInv(k)
    BY <1>1 DEF Parts
  <2> QED  BY <1>2, <1>3, <1>4, <1>7, <2>1 DEF OpenInv, Listed
<1>10. Parts'
  BY <1>3, <1>7, <1>8, <1>9 DEF Parts
<1> QED  BY <1>10, InvIsParts, PTL

(* The user closes a connection. *)
LEMMA CloseConnectionStep ==
  ASSUME Inv, NEW c \in Conn, CloseConnection(c)
  PROVE  Inv'
<1>1. Parts
  BY InvIsParts
<1>2. /\ Listed(c) /\ closing = "no" /\ Unlist(c) /\ Discard({c}, Nobody, loop)
      /\ purpose' = [purpose EXCEPT ![c] = "user"]
      /\ UNCHANGED <<server, arriving, gone, relay, handler, closing, left,
                     received, faults, given, sent, reports>>
  BY DEF CloseConnection, close, bounds
<1>3. ListsInv' /\ ToSet(All)' = ToSet(All) \ {c} /\ ToSet(left)' = ToSet(left) /\ CloseInv'
  BY <1>1, <1>2, UnlistIs DEF Parts, CloseInv
<1>4. /\ \A k \in Conn : purpose'[k] = IF k = c THEN "user" ELSE purpose[k]
      /\ handler' \in [Conn -> {"none", "callback", "closing", "left", "over"}]
      /\ \A k \in Conn : /\ Handling(k)' => Handling(k)
                         /\ handler[k] = "none" => handler'[k] = "none"
      /\ DOMAIN loop = Conn /\ c \in ToSet(All)
  BY <1>1, <1>2 DEF Parts, TasksType, CountsType, Handling, Listed
<1>5. /\ TasksType' /\ QueuesType'
      /\ \A k \in Conn :
           /\ (StartInv(k) /\ ErrorInv(k) /\ RunInv(k) /\ QueueInv(k))'
           /\ writer'[k] = IF k \in {c} /\ writer[k] = "open" THEN "closing" ELSE writer[k]
      /\ writer' \in [Conn -> {"none", "open", "closing", "closed"}]
  <2>1. {c} \in SUBSET Conn
    OBVIOUS
  <2>2. ToSet(All)' \subseteq ToSet(All) /\ UNCHANGED <<arriving, relay, given, sent, reports>>
    BY <1>2, <1>3
  <2>3. \A k \in Conn : k \in ToSet(All)' => purpose'[k] \in {purpose[k], "node"}
    BY <1>3, <1>4
  <2>4. \A k \in Conn : purpose'[k] # purpose[k] => k \in ToSet(All)
    BY <1>4
  <2> QED  BY <1>1, <1>2, <1>4, <2>1, <2>2, <2>3, <2>4, DiscardKeeps
<1>6. CountsType' /\ NodeType'
  BY <1>1, <1>2, <1>5 DEF Parts, CountsType, NodeType
<1>7. ASSUME NEW k \in Conn PROVE OpenInv(k)'
  <2>1. OpenInv(k)
    BY <1>1 DEF Parts
  <2> QED  BY <1>2, <1>3, <1>4, <1>5, <2>1 DEF OpenInv, Listed
<1>8. Parts'
  BY <1>3, <1>5, <1>6, <1>7 DEF Parts
<1> QED  BY <1>8, InvIsParts, PTL
(* close() closes connections, and goes on or waits for one of them: the open
   ones that are listed are among those it has still to close. *)
LEMMA CloseOnKeeps ==
  ASSUME Parts, NEW connections \in Seq(Conn), CloseOn(connections),
         \A k \in Conn : writer[k] = "open" /\ Listed(k) => k \in ToSet(connections),
         server' \in {"off", "starting", "listening", "closed"},
         UNCHANGED <<arriving, gone, relay, handler, received, faults, given, sent,
                     reports>>
  PROVE  Parts'
<1> DEFINE n == Len(connections)
           opens == { i \in DOMAIN connections : writer[connections[i]] = "open" }
           first == CHOOSE i \in opens : \A j \in opens : i <= j
           last == IF opens = {} THEN n ELSE first
           now == { connections[i] : i \in 1 .. last }
           rest == SubSeq(connections, last + 1, n)
<1>1. n \in Nat /\ DOMAIN connections = 1 .. n /\ \A i \in 1 .. n : connections[i] \in Conn
  BY LenProperties, ElementOfSeq
<1>2. /\ Discard(now, Nobody, loop)
      /\ purpose' = [c \in Conn |-> IF c \in now \ gone /\ Listed(c) THEN "node"
                                                                   ELSE purpose[c]]
      /\ left' = rest
      /\ \/ /\ opens = {} /\ downstream' = <<>> /\ upstream' = <<>> /\ closing' = "servers"
         \/ opens # {} /\ UNCHANGED lists /\ closing' = "connections"
  BY DEF CloseOn
<1>3. opens # {} => first \in opens
  <2> SUFFICES ASSUME opens # {} PROVE first \in opens
    OBVIOUS
  <2> opens \in SUBSET Nat
    BY <1>1
  <2>1. \E i \in opens : \A j \in opens : i <= j
    BY LeastIndex
  <2> QED  BY <2>1
<1>4. last \in 0 .. n
  BY <1>1, <1>3
<1> HIDE DEF first
<1>5. now \in SUBSET Conn
  <2> HIDE DEF last
  <2> QED  BY <1>1, <1>4
<1>6. /\ rest \in Seq(Conn)
      /\ \A k \in Conn : k \in ToSet(connections) => k \in now \/ k \in ToSet(rest)
  <2> HIDE DEF last
  <2>1. \A i \in last + 1 .. n : connections[i] \in Conn
    BY <1>1, <1>4
  <2>2. /\ rest \in Seq(Conn)
        /\ Len(rest) = IF last + 1 <= n THEN n - (last + 1) + 1 ELSE 0
        /\ \A i \in 1 .. n - (last + 1) + 1 : rest[i] = connections[last + 1 + i - 1]
    BY <1>1, <1>4, <2>1, SubSeqProperties
  <2> HIDE DEF rest
  <2>3. DOMAIN rest = 1 .. Len(rest)
    BY <2>2, LenProperties
  <2>4. ASSUME NEW k \in ToSet(connections), k \notin now PROVE k \in ToSet(rest)
    <3>1. PICK i \in 1 .. n : k = connections[i]
      BY <1>1 DEF ToSet
    <3>2. i > last
      BY <1>1, <1>4, <2>4, <3>1
    <3>3. /\ i - last \in 1 .. n - (last + 1) + 1 /\ last + 1 + (i - last) - 1 = i
          /\ last + 1 <= n
      BY <1>1, <1>4, <3>2
    <3>4. rest[i - last] = k /\ i - last \in DOMAIN rest
      BY <2>2, <2>3, <3>1, <3>3
    <3> QED  BY <3>4 DEF ToSet
  <2> QED  BY <2>2, <2>4
<1>7. opens = {} => \A k \in ToSet(connections) : writer[k] # "open"
  BY DEF ToSet
<1> HIDE DEF opens, last, now, rest
<1>8. /\ ListsInv' /\ ToSet(All)' \subseteq ToSet(All) /\ CloseInv'
      /\ \A k \in Conn : writer[k] = "open" /\ k \in ToSet(All) /\ k \notin now =>
                           k \in ToSet(All)'
      /\ \A k \in Conn : writer[k] = "open" /\ k \in ToSet(All) /\ k \notin now =>
                           k \in ToSet(rest)
  <2>1. CASE opens # {}
    <3>1. ListsInv' /\ ToSet(All)' = ToSet(All)
      BY <1>2, <2>1, ListsKept DEF Parts
    <3>2. CloseInv'
      BY <1>2, <2>1 DEF CloseInv
    <3> QED  BY <1>6, <3>1, <3>2 DEF Listed
  <2>2. CASE opens = {}
    <3>1. downstream' = <<>> /\ upstream' = <<>>
      BY <1>2, <2>2
    <3>2. Once(<<>>) /\ <<>> \in Seq(Down) /\ <<>> \in Seq(Up)
      BY EmptySeq DEF Once
    <3>3. ListsInv' /\ CloseInv'
      BY <3>1, <3>2 DEF ListsInv, CloseInv, Once
    <3>4. (ToSet(All) = ToSet(downstream) \cup ToSet(upstream))'
      BY <3>3, AllIs, PTL
    <3>5. ToSet(<<>>) = {}
      BY <3>2, EmptySet
    <3>6. ToSet(All)' = {}
      BY <3>1, <3>4, <3>5
    <3> QED  BY <1>7, <2>2, <3>3, <3>6 DEF Listed
  <2> QED  BY <2>1, <2>2
<1>9. /\ purpose' \in [Conn -> {"no", "user", "node"}]
      /\ \A k \in Conn : purpose'[k] \in {purpose[k], "node"}
      /\ \A k \in Conn : purpose'[k] # purpose[k] => k \in ToSet(All)
      /\ handler' \in [Conn -> {"none", "callback", "closing", "left", "over"}]
      /\ \A k \in Conn : /\ Handling(k)' => Handling(k)
                         /\ handler[k] = "none" => handler'[k] = "none"
      /\ DOMAIN loop = Conn
  BY <1>2 DEF Parts, TasksType, CountsType, Handling, Listed
<1>10. /\ TasksType' /\ QueuesType'
       /\ \A k \in Conn :
            /\ (StartInv(k) /\ ErrorInv(k) /\ RunInv(k) /\ QueueInv(k))'
            /\ writer'[k] = IF k \in now /\ writer[k] = "open" THEN "closing" ELSE writer[k]
       /\ writer' \in [Conn -> {"none", "open", "closing", "closed"}]
  <2>1. UNCHANGED <<arriving, relay, given, sent, reports>>
    OBVIOUS
  <2> QED  BY <1>2, <1>5, <1>8, <1>9, <2>1, DiscardKeeps
<1>11. CountsType' /\ NodeType'
  BY <1>2, <1>6, <1>9, <1>10 DEF Parts, CountsType, NodeType
<1>12. ASSUME NEW k \in Conn PROVE OpenInv(k)'
  <2>1. OpenInv(k)
    BY DEF Parts
  <2>2. ASSUME writer'[k] = "open"
        PROVE  /\ writer[k] = "open" /\ k \notin now
               /\ k \in arriving' \/ k \in ToSet(All)' \/ handler'[k] = "callback"
               /\ k \in ToSet(All)' => k \in ToSet(left')
    <3>1. writer[k] = "open" /\ k \notin now
      BY <1>10, <2>2
    <3> QED  BY <1>2, <1>8, <2>1, <3>1 DEF OpenInv, Listed
  <2>3. handler'[k] \in {"closing", "left", "over"} => writer'[k] # "open"
    BY <2>1, <2>2 DEF OpenInv
  <2> QED  BY <2>2, <2>3 DEF OpenInv, Listed
<1> QED  BY <1>8, <1>10, <1>11, <1>12 DEF Parts

(* A step of close() that does not end it keeps the invariant. *)
LEMMA CloseStep ==
  ASSUME Inv, CloseBegin \/ CloseNext
  PROVE  Inv'
<1>1. Parts
  BY InvIsParts
<1>2. UNCHANGED <<arriving, gone, relay, handler, received, faults, given, sent, reports>>
  BY DEF CloseBegin, CloseNext, bounds
<1>3. server' \in {"off", "starting", "listening", "closed"}
  BY <1>1 DEF CloseBegin, CloseNext, Parts, NodeType
<1>4. CASE CloseBegin
  <2>1. All \in Seq(Conn) /\ CloseOn(All)
    BY <1>1, <1>4, AllIs DEF CloseBegin, Parts
  <2>2. \A k \in Conn : writer[k] = "open" /\ Listed(k) => k \in ToSet(All)
    BY DEF Listed
  <2>3. Parts'
    BY <1>1, <1>2, <1>3, <2>1, <2>2, CloseOnKeeps
  <2> QED  BY <2>3, InvIsParts, PTL
<1>5. CASE CloseNext
  <2>1. left \in Seq(Conn) /\ CloseOn(left) /\ closing = "connections"
    BY <1>1, <1>5 DEF CloseNext, Parts, NodeType
  <2>2. \A k \in Conn : writer[k] = "open" /\ Listed(k) => k \in ToSet(left)
    BY <1>1, <2>1 DEF Parts, OpenInv
  <2>3. Parts'
    BY <1>1, <1>2, <1>3, <2>1, <2>2, CloseOnKeeps
  <2> QED  BY <2>3, InvIsParts, PTL
<1> QED  BY <1>4, <1>5

-----------------------------------------------------------------------------
(* The theorems. *)

(* The invariant holds of a node that has not begun to do anything. *)
LEMMA InvInit == Init => Inv
<1> SUFFICES ASSUME Init PROVE Parts
  BY InvIsParts
<1>1. /\ SetToSeq(Initially) \in Seq(Up) /\ Once(SetToSeq(Initially))
      /\ ToSet(SetToSeq(Initially)) = Initially
  <2> DEFINE n == Cardinality(Initially)
             f == SetToSeq(Initially)
  <2>1. n \in Nat /\ ExistsBijection(1 .. n, Initially)
    BY BaseNodeAssumption, FS_CardinalityType
  <2>2. PICK g : g \in Bijection(1 .. n, Initially)
    BY <2>1 DEF ExistsBijection
  <2>3. g \in [1 .. n -> Initially] /\ IsInjective(g)
    BY <2>2 DEF Bijection, Injection, IsInjective
  <2>4. f \in [1 .. n -> Initially] /\ IsInjective(f)
    BY <2>3 DEF SetToSeq
  <2> HIDE DEF f
  <2>5. f \in Injection(1 .. n, Initially)
    BY <2>4 DEF Injection
  <2>6. Cardinality(1 .. n) = n /\ IsFiniteSet(1 .. n)
    BY <2>1, FS_Interval
  <2>7. f \in Surjection(1 .. n, Initially)
    BY <2>5, <2>6, BaseNodeAssumption, FS_Injection
  <2>8. ToSet(f) = Initially
    <3>1. \A x \in Initially : \E i \in 1 .. n : f[i] = x
      BY <2>7 DEF Surjection
    <3> QED  BY <2>4, <3>1 DEF ToSet
  <2>9. f \in Seq(Initially) /\ DOMAIN f = 1 .. n
    BY <2>1, <2>4
  <2>10. f \in Seq(Up)
    BY <2>9, SeqMonotonic, BaseNodeAssumption
  <2>11. Once(f)
    BY <2>4 DEF Once, IsInjective
  <2> QED  BY <2>8, <2>10, <2>11 DEF f
<1>2. ListsInv
  <2>1. Once(<<>>) /\ <<>> \in Seq(Down)
    BY EmptySeq DEF Once
  <2> QED  BY <1>1, <2>1 DEF Init, ListsInv
<1>3. ToSet(All) = Initially
  <2>1. ToSet(All) = ToSet(downstream) \cup ToSet(upstream)
    BY <1>2, AllIs
  <2>2. ToSet(downstream) = {}
    BY <1>2, EmptySet DEF Init, ListsInv
  <2> QED  BY <1>1, <2>1, <2>2 DEF Init
<1>4. <<>> \in Seq(Frame) /\ <<>> \in Seq(Conn) /\ Len(<<>>) = 0 /\ <<>> \o <<>> = <<>>
  BY EmptySeq, ConcatEmptySeq
<1>5. NoRelay \in Relay /\ NoRelay.target = NoConn
  BY <1>4 DEF NoRelay, Relay
<1>6. TasksType /\ QueuesType /\ CountsType /\ NodeType /\ CloseInv
  <2>1. TasksType
    BY <1>5 DEF Init, TasksType
  <2>2. QueuesType
    BY <1>4 DEF Init, QueuesType
  <2>3. CountsType
    BY BaseNodeAssumption DEF Init, CountsType
  <2>4. NodeType /\ CloseInv
    BY <1>4 DEF Init, NodeType, CloseInv
  <2> QED  BY <2>1, <2>2, <2>3, <2>4
<1>7. ASSUME NEW k \in Conn
      PROVE  StartInv(k) /\ ErrorInv(k) /\ RunInv(k) /\ QueueInv(k) /\ OpenInv(k)
  <2>1. StartInv(k) /\ ErrorInv(k)
    BY <1>3 DEF Init, StartInv, ErrorInv, Untouched, Listed
  <2>2. RunInv(k)
    BY <1>5 DEF Init, RunInv, Handling
  <2>3. QueueInv(k)
    BY <1>4, BaseNodeAssumption DEF Init, QueueInv
  <2>4. OpenInv(k)
    BY <1>3 DEF Init, OpenInv, Listed
  <2> QED  BY <2>1, <2>2, <2>3, <2>4
<1> QED  BY <1>2, <1>6, <1>7 DEF Parts

(* Every step keeps it. *)
LEMMA InvNext == Inv /\ [Next]_vars => Inv'
<1> SUFFICES ASSUME Inv, [Next]_vars PROVE Inv'
  OBVIOUS
<1>1. CASE AcceptBegin \/ AcceptEnd \/ CloseEnd
  BY <1>1, ServerStep
<1>2. CASE CloseBegin \/ CloseNext
  BY <1>2, CloseStep
<1>3. ASSUME NEW c \in Conn, Arrive(c) \/ PeerGoes(c) \/ Receive(c) \/ CloseConnection(c)
      PROVE  Inv'
  BY <1>3, ArriveStep, PeerGoesStep, ReceiveStep, CloseConnectionStep
<1>4. ASSUME NEW c \in Conn, Advance(c)
      PROVE  Inv'
  BY <1>4, ConnectedStep, TransportClosedStep, LoopFailsStep, SentStep, SendSkippedStep,
     SendFailsStep, CallbackEndsStep, HandlerEndsStep, InterruptedStep DEF Advance
<1>5. CASE UNCHANGED vars
  <2>1. Parts
    BY InvIsParts
  <2>2. UNCHANGED <<server, downstream, upstream, arriving, writer, gone, loop, relay,
                    sender, queue, handler, cancelled, closing, left, received, faults,
                    given, sent, reports, purpose>>
    BY <1>5 DEF vars
  <2>3. ListsInv' /\ ToSet(All)' = ToSet(All) /\ ToSet(left)' = ToSet(left)
    BY <2>1, <2>2, ListsKept DEF Parts, lists
  <2>4. (TasksType /\ QueuesType /\ CountsType /\ NodeType /\ CloseInv)'
    BY <2>1, <2>2 DEF Parts, TasksType, QueuesType, CountsType, NodeType, CloseInv
  <2>5. ASSUME NEW k \in Conn
        PROVE  (StartInv(k) /\ ErrorInv(k) /\ RunInv(k) /\ QueueInv(k) /\ OpenInv(k))'
    <3>1. StartInv(k) /\ ErrorInv(k) /\ RunInv(k) /\ QueueInv(k) /\ OpenInv(k)
      BY <2>1 DEF Parts
    <3>2. (StartInv(k) /\ ErrorInv(k))'
      BY <2>2, <2>3, <3>1 DEF StartInv, ErrorInv, Untouched, Listed
    <3>3. RunInv(k)'
      BY <2>2, <2>3, <3>1 DEF RunInv, Handling, Handled, Listed
    <3>4. (QueueInv(k) /\ OpenInv(k))'
      BY <2>2, <2>3, <3>1 DEF QueueInv, OpenInv, Listed
    <3> QED  BY <3>2, <3>3, <3>4
  <2>6. Parts'
    BY <2>3, <2>4, <2>5 DEF Parts
  <2> QED  BY <2>6, InvIsParts, PTL
<1> QED  BY <1>1, <1>2, <1>3, <1>4, <1>5 DEF Next, EventLoop

(* So it holds always. *)
LEMMA AlwaysInv == Spec => []Inv
BY InvInit, InvNext, PTL DEF Spec

(* A sequence that holds nothing twice is as long as its set is large. *)
LEMMA OnceLength ==
  ASSUME NEW S, NEW q \in Seq(S), Once(q)
  PROVE  Len(q) = Cardinality(ToSet(q))
<1>1. Len(q) \in Nat /\ DOMAIN q = 1 .. Len(q) /\ q \in [1 .. Len(q) -> S]
  BY LenProperties
<1>2. q \in [1 .. Len(q) -> ToSet(q)]
  BY <1>1 DEF ToSet
<1>3. q \in Injection(1 .. Len(q), ToSet(q))
  BY <1>1, <1>2 DEF Injection, IsInjective, Once
<1>4. q \in Surjection(1 .. Len(q), ToSet(q))
  BY <1>1, <1>2 DEF Surjection, ToSet
<1>5. ExistsBijection(1 .. Len(q), ToSet(q))
  BY <1>3, <1>4 DEF ExistsBijection, Bijection
<1> QED  BY <1>1, <1>5, FS_CountingElements

(* The variables have their types: a list holds a connection once at most, and
   no queue holds more than its limit. *)
THEOREM TypeCorrect == Spec => []TypeOK
<1>1. Inv => TypeOK
  <2> SUFFICES ASSUME Inv PROVE TypeOK
    OBVIOUS
  <2>1. Parts
    BY InvIsParts
  <2>2. All \in Seq(Conn) /\ Once(All) /\ ToSet(downstream) \subseteq Down
        /\ ToSet(upstream) \subseteq Up
    BY <2>1, AllIs DEF Parts
  <2>3. Len(All) = Cardinality(ToSet(All))
    BY <2>2, OnceLength
  <2>4. \A c \in Conn : Len(queue[c]) <= QueueLimit /\ ToSet(queue[c]) \subseteq Frame
    <3> SUFFICES ASSUME NEW c \in Conn
                 PROVE  Len(queue[c]) <= QueueLimit /\ ToSet(queue[c]) \subseteq Frame
      OBVIOUS
    <3>1. queue[c] \in Seq(Frame) /\ Len(queue[c]) <= QueueLimit
      BY <2>1 DEF Parts, QueuesType, QueueInv
    <3> QED  BY <3>1, LenProperties, ElementOfSeq DEF ToSet
  <2> QED  BY <2>1, <2>2, <2>3, <2>4
           DEF Parts, TasksType, CountsType, NodeType, TypeOK
<1> QED  BY <1>1, AlwaysInv, PTL

(* A connection is reported to the error callback once at most, whichever task
   finds its error, and never when it was closed by close_connection. *)
THEOREM ErrorsReportedOnce == Spec => []ReportedOnce
<1>1. Inv => ReportedOnce
  BY DEF Inv, ConnInv, ErrorInv, ReportedOnce
<1> QED  BY <1>1, AlwaysInv, PTL

(* What waits for an open connection has a task that sends it, and nothing is
   lost or put out of order between the queue and the peer. *)
THEOREM QueuesServed == Spec => []QueuesAreServed
<1>1. Inv => QueuesAreServed
  BY DEF Inv, ConnInv, QueueInv, QueuesAreServed
<1> QED  BY <1>1, AlwaysInv, PTL

(* close() leaves the lists empty, and nothing open that nobody will close. *)
THEOREM CloseLeavesNothing == Spec => []NothingLeftOpen
<1>1. Inv => NothingLeftOpen
  <2> SUFFICES ASSUME Inv, closing = "done" PROVE NothingLeftOpen
    BY DEF NothingLeftOpen
  <2>1. /\ downstream = <<>> /\ upstream = <<>> /\ ListsInv
        /\ \A c \in Conn : OpenInv(c)
    BY DEF Inv, CloseInv, ConnInv
  <2>2. ToSet(All) = {}
    <3>1. ToSet(downstream) = {} /\ ToSet(upstream) = {}
      BY <2>1, EmptySet DEF ListsInv
    <3> QED  BY <2>1, <3>1, AllIs
  <2> QED  BY <2>1, <2>2 DEF OpenInv, Listed, NothingLeftOpen
<1> QED  BY <1>1, AlwaysInv, PTL
=============================================================================
