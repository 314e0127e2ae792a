---------------------- MODULE ClientSubscriptions_proofs ----------------------
(***************************************************************************)
(* Proofs about ClientSubscriptions, for any subjects and callbacks, and    *)
(* any bounds on the calls.                                                *)
(***************************************************************************)
EXTENDS ClientSubscriptions, TLAPS, FiniteSetTheorems, SequenceTheorems,
        WellFoundedInduction

-----------------------------------------------------------------------------
(* Counting in sequences. *)

Indices(q, k) == { i \in DOMAIN q : q[i] = k }

LEMMA CountType ==
  ASSUME NEW S, NEW q \in Seq(S), NEW k
  PROVE  /\ IsFiniteSet(Indices(q, k)) /\ Count(q, k) = Cardinality(Indices(q, k))
         /\ Count(q, k) \in Nat /\ (Count(q, k) = 0 <=> \A i \in DOMAIN q : q[i] # k)
<1>1. DOMAIN q = 1 .. Len(q) /\ Len(q) \in Nat
  BY LenProperties
<1>2. IsFiniteSet(DOMAIN q) /\ Indices(q, k) \in SUBSET DOMAIN q
  BY <1>1, FS_Interval DEF Indices
<1>3. IsFiniteSet(Indices(q, k))
  BY <1>2, FS_Subset
<1>4. Count(q, k) = Cardinality(Indices(q, k))
  BY DEF Count, Indices
<1>5. Count(q, k) \in Nat /\ (Count(q, k) = 0 <=> Indices(q, k) = {})
  BY <1>3, <1>4, FS_CardinalityType, FS_EmptySet
<1> QED  BY <1>3, <1>4, <1>5 DEF Indices

LEMMA CountEmpty ==
  ASSUME NEW k
  PROVE  Count(<<>>, k) = 0
<1>1. <<>> \in Seq({k}) /\ DOMAIN <<>> = {}
  OBVIOUS
<1> QED  BY <1>1, CountType

LEMMA CountAppend ==
  ASSUME NEW S, NEW q \in Seq(S), NEW e \in S, NEW k
  PROVE  Count(Append(q, e), k) = IF e = k THEN Count(q, k) + 1 ELSE Count(q, k)
<1> DEFINE r == Append(q, e)
           n == Len(q) + 1
<1>1. /\ DOMAIN q = 1 .. Len(q) /\ Len(q) \in Nat /\ r \in Seq(S)
      /\ DOMAIN r = 1 .. n /\ \A i \in 1 .. Len(q) : r[i] = q[i]
      /\ r[n] = e
  BY LenProperties, AppendProperties
<1>2. DOMAIN r = DOMAIN q \cup {n} /\ n \notin DOMAIN q
  BY <1>1
<1> HIDE DEF r, n
<1>3. Indices(r, k) = IF e = k THEN Indices(q, k) \cup {n} ELSE Indices(q, k)
  BY <1>1, <1>2 DEF Indices
<1>4. n \notin Indices(q, k) /\ IsFiniteSet(Indices(q, k))
  BY <1>2, CountType DEF Indices
<1>5. Cardinality(Indices(q, k) \cup {n}) = Cardinality(Indices(q, k)) + 1
  BY <1>4, FS_AddElement
<1>6. /\ Count(q, k) = Cardinality(Indices(q, k)) /\ Count(r, k) = Cardinality(Indices(r, k))
  BY <1>1, CountType
<1> QED  BY <1>3, <1>5, <1>6 DEF r

(* r is q without its i-th element. *)
IsLess(r, q, i) ==
  /\ Len(r) = Len(q) - 1
  /\ \A j \in DOMAIN r : r[j] = q[IF j < i THEN j ELSE j + 1]

LEMMA CountLess ==
  ASSUME NEW S, NEW q \in Seq(S), NEW r \in Seq(S), NEW i \in DOMAIN q, NEW k,
         IsLess(r, q, i)
  PROVE  Count(r, k) = IF q[i] = k THEN Count(q, k) - 1 ELSE Count(q, k)
<1> DEFINE R == Indices(r, k)
           Q == Indices(q, k) \ {i}
           f == [j \in R |-> IF j < i THEN j ELSE j + 1]
<1>1. /\ DOMAIN q = 1 .. Len(q) /\ Len(q) \in Nat /\ Len(r) = Len(q) - 1
      /\ DOMAIN r = 1 .. Len(r) /\ Len(r) \in Nat
      /\ \A j \in DOMAIN r : r[j] = q[IF j < i THEN j ELSE j + 1]
  BY LenProperties DEF IsLess
<1>2. R \in SUBSET Nat /\ Q \in SUBSET Nat
  BY <1>1 DEF Indices
<1>3. f \in [R -> Q]
  BY <1>1 DEF Indices
<1>4. \A a, b \in R : f[a] = f[b] => a = b
  BY <1>1, <1>2
<1>5. ASSUME NEW b \in Q  PROVE \E a \in R : f[a] = b
  <2>1. CASE b < i
    <3>1. b \in R
      BY <1>1, <2>1 DEF Indices
    <3> QED  BY <2>1, <3>1
  <2>2. CASE b > i
    <3>1. b \in Nat /\ i \in Nat /\ b - 1 \in Nat /\ ~ (b - 1 < i) /\ (b - 1) + 1 = b
      BY <1>1, <1>2, <2>2
    <3>2. b - 1 \in R
      BY <1>1, <2>2, <3>1 DEF Indices
    <3>3. f[b - 1] = b
      BY <3>1, <3>2
    <3> QED  BY <3>2, <3>3
  <2> QED  BY <1>1, <1>2, <2>1, <2>2
<1>6. IsFiniteSet(R) /\ IsFiniteSet(Indices(q, k))
      /\ Count(q, k) = Cardinality(Indices(q, k)) /\ Count(r, k) = Cardinality(R)
  BY CountType
<1> HIDE DEF f, R, Q
<1>7. ExistsBijection(R, Q)
  BY <1>3, <1>4, <1>5, Z3 DEF ExistsBijection, Bijection, Injection, IsInjective, Surjection
<1>8. Cardinality(R) = Cardinality(Q)
  BY <1>6, <1>7, FS_Bijection
<1>9. Cardinality(Q) = IF i \in Indices(q, k) THEN Cardinality(Indices(q, k)) - 1
                       ELSE Cardinality(Indices(q, k))
  BY <1>6, FS_RemoveElement DEF Q
<1> QED  BY <1>6, <1>8, <1>9 DEF Indices

LEMMA CountTail ==
  ASSUME NEW S, NEW q \in Seq(S), q # <<>>, NEW k
  PROVE  Count(Tail(q), k) = IF Head(q) = k THEN Count(q, k) - 1 ELSE Count(q, k)
<1>1. /\ Tail(q) \in Seq(S) /\ Len(Tail(q)) = Len(q) - 1 /\ Len(q) \in Nat
      /\ \A j \in 1 .. Len(Tail(q)) : Tail(q)[j] = q[j + 1]
      /\ DOMAIN q = 1 .. Len(q) /\ DOMAIN Tail(q) = 1 .. Len(Tail(q))
      /\ Head(q) = q[1]
  BY HeadTailProperties, LenProperties
<1>2. 1 \in DOMAIN q
  BY <1>1, EmptySeq
<1>3. \A j \in DOMAIN Tail(q) : Tail(q)[j] = q[IF j < 1 THEN j ELSE j + 1]
  BY <1>1
<1>4. IsLess(Tail(q), q, 1) /\ Tail(q) \in Seq(S)
  BY <1>1, <1>3 DEF IsLess
<1>5. Count(Tail(q), k) = IF q[1] = k THEN Count(q, k) - 1 ELSE Count(q, k)
  BY <1>2, <1>4, CountLess, ZenonT(60)
<1> QED  BY <1>1, <1>5

(* Taking an element out of a sequence. *)
LEMMA RemoveAtIs ==
  ASSUME NEW S, NEW q \in Seq(S), NEW i \in DOMAIN q
  PROVE  RemoveAt(q, i) \in Seq(S) /\ IsLess(RemoveAt(q, i), q, i)
<1> DEFINE a == SubSeq(q, 1, i - 1)
           b == SubSeq(q, i + 1, Len(q))
<1>1. /\ DOMAIN q = 1 .. Len(q) /\ Len(q) \in Nat /\ i \in 1 .. Len(q)
      /\ \A j \in 1 .. Len(q) : q[j] \in S
  BY LenProperties, ElementOfSeq
<1>2. /\ a \in Seq(S) /\ Len(a) = i - 1 /\ \A j \in 1 .. i - 1 : a[j] = q[j]
  BY <1>1, SubSeqProperties
<1>3. /\ b \in Seq(S) /\ Len(b) = Len(q) - i /\ \A j \in 1 .. Len(q) - i : b[j] = q[j + i]
  BY <1>1, SubSeqProperties
<1>4. RemoveAt(q, i) = a \o b
  BY DEF RemoveAt
<1> HIDE DEF a, b
<1>5. /\ a \o b \in Seq(S) /\ Len(a \o b) = Len(q) - 1
      /\ \A j \in 1 .. Len(q) - 1 : (a \o b)[j] = IF j <= i - 1 THEN a[j] ELSE b[j - (i - 1)]
  <2>1. Len(a) + Len(b) = Len(q) - 1 /\ Len(a) = i - 1
    BY <1>1, <1>2, <1>3
  <2>2. /\ a \o b \in Seq(S) /\ Len(a \o b) = Len(a) + Len(b)
        /\ \A j \in 1 .. Len(a) + Len(b) :
             (a \o b)[j] = IF j <= Len(a) THEN a[j] ELSE b[j - Len(a)]
    BY <1>2, <1>3, ConcatProperties
  <2> QED  BY <2>1, <2>2
<1>6. DOMAIN (a \o b) = 1 .. Len(q) - 1
  BY <1>5, LenProperties
<1>7. ASSUME NEW j \in 1 .. Len(q) - 1
      PROVE  (a \o b)[j] = q[IF j < i THEN j ELSE j + 1]
  <2> i \in Nat /\ j \in Nat
    BY <1>1
  <2>1. CASE j < i
    BY <1>1, <1>2, <1>5, <2>1
  <2>2. CASE ~ (j < i)
    <3>1. j - (i - 1) \in 1 .. Len(q) - i /\ (j - (i - 1)) + i = j + 1
      BY <1>1, <2>2
    <3>2. (a \o b)[j] = b[j - (i - 1)]
      BY <1>1, <1>5, <2>2
    <3>3. b[j - (i - 1)] = q[j + 1]
      BY <1>3, <3>1
    <3> QED  BY <1>1, <2>2, <3>2, <3>3
  <2> QED  BY <1>1, <2>1, <2>2
<1> QED  BY <1>4, <1>5, <1>6, <1>7 DEF IsLess

LEMMA LeastIndex ==
  ASSUME NEW I \in SUBSET Nat, I # {}
  PROVE  \E i \in I : \A j \in I : i =< j
<1>1. IsWellFoundedOn(OpToRel(<, Nat), Nat)
  BY NatLessThanWellFounded
<1>2. PICK i \in I : \A j \in I : <<j, i>> \notin OpToRel(<, Nat)
  BY <1>1, WFMin
<1>3. \A j \in I : ~ (j < i)
  BY <1>2 DEF OpToRel
<1> QED  BY <1>3

LEMMA WithoutIs ==
  ASSUME NEW S, NEW q \in Seq(S), NEW k, NEW j
  PROVE  /\ Without(q, k) \in Seq(S)
         /\ Count(Without(q, k), j) = IF j = k /\ Count(q, k) > 0 THEN Count(q, j) - 1
                                      ELSE Count(q, j)
<1> DEFINE I == { i \in 1 .. Len(q) : q[i] = k }
<1>1. Without(q, k) = IF \E i \in 1 .. Len(q) : q[i] = k THEN RemoveAt(q, Min(I)) ELSE q
  BY DEF Without, RemoveFirst, SelectInSeq
<1>2. DOMAIN q = 1 .. Len(q) /\ Len(q) \in Nat /\ Count(q, k) \in Nat
      /\ (Count(q, k) = 0 <=> \A i \in DOMAIN q : q[i] # k)
  BY LenProperties, CountType
<1>3. CASE \E i \in 1 .. Len(q) : q[i] = k
  <2>1. I \in SUBSET Nat /\ I # {}
    BY <1>2, <1>3
  <2>2. \E i \in I : \A x \in I : i =< x
    BY <2>1, LeastIndex
  <2>3. Min(I) \in I
    BY <2>2 DEF Min
  <2>4. Min(I) \in DOMAIN q /\ q[Min(I)] = k /\ Without(q, k) = RemoveAt(q, Min(I))
    BY <1>1, <1>2, <1>3, <2>3
  <2> HIDE DEF I
  <2>5. /\ Without(q, k) \in Seq(S)
        /\ Count(Without(q, k), j) = IF k = j THEN Count(q, j) - 1 ELSE Count(q, j)
    <3> DEFINE x == Min(I)
               r == RemoveAt(q, x)
    <3>1. x \in DOMAIN q /\ q[x] = k /\ Without(q, k) = r
      BY <2>4
    <3> HIDE DEF x
    <3>2. r \in Seq(S) /\ IsLess(r, q, x)
      BY <3>1, RemoveAtIs
    <3> HIDE DEF r
    <3>3. x \in DOMAIN q
      BY <3>1
    <3>4. Count(r, j) = IF q[x] = j THEN Count(q, j) - 1 ELSE Count(q, j)
      BY ONLY q \in Seq(S), <3>2, <3>3, CountLess, ZenonT(60)
    <3> QED  BY <3>1, <3>2, <3>4
  <2> QED  BY <1>2, <1>3, <2>5
<1>4. CASE ~ \E i \in 1 .. Len(q) : q[i] = k
  BY <1>1, <1>2, <1>4
<1> QED  BY <1>3, <1>4

LEMMA MinMax ==
  ASSUME NEW a \in Nat, NEW b \in Nat
  PROVE  /\ Min({a, b}) \in Nat /\ Min({a, b}) <= a /\ Min({a, b}) <= b
         /\ Max({a, b}) \in Nat /\ a <= Max({a, b}) /\ b <= Max({a, b})
<1>1. Min({a, b}) \in {a, b} /\ \A y \in {a, b} : Min({a, b}) =< y
  <2>1. \E x \in {a, b} : \A y \in {a, b} : x =< y
    OBVIOUS
  <2> QED  BY <2>1 DEF Min
<1>2. Max({a, b}) \in {a, b} /\ \A y \in {a, b} : Max({a, b}) >= y
  <2>1. \E x \in {a, b} : \A y \in {a, b} : x >= y
    OBVIOUS
  <2> QED  BY <2>1 DEF Max
<1> QED  BY <1>1, <1>2

-----------------------------------------------------------------------------
(* The inductive invariant. *)

Numbers == [Subject -> [Callback -> Nat]]

Delivery ==
  [subject : Seq(Part), on : Nat, sending : BOOLEAN,
   items : SUBSET (Subject \X Nat), now : Subject \cup {<<>>}, rest : Seq(Callback),
   calls : Numbers, low : Numbers, high : Numbers]

RegistryType ==
  /\ callbacks \in [Subject -> Seq(Callback)]
  /\ list \in [Subject -> Nat]

NodeType ==
  /\ connects \in 0 .. MaxConnects /\ connection \in {0, connects}
  /\ told \subseteq Subject /\ raised \subseteq Subject
  /\ resend \in [1 .. MaxConnects -> SUBSET Subject]

TallyType == sending \in Numbers /\ returned \in Numbers /\ unsubscribed \in Numbers

(* How often k has been called for s, or is to be from the copy of its list. *)
Planned(v, s, k) ==
  v.calls[s][k] + (IF v.now = s THEN Count(v.rest, k) ELSE 0)

(* A publish in send has not looked at the registry; the list being gone through
   is that of a subject. *)
Started(v) ==
  /\ v.sending => v.items = {} /\ v.rest = <<>>
  /\ v.rest # <<>> => v.now \in Subject

(* What a delivery saw of the registrations includes what they are now. *)
Bounded(v, c) ==
  \A s \in Subject, k \in Callback :
    v.low[s][k] <= Count(c[s], k) /\ Count(c[s], k) <= v.high[s][k]

(* A subject still to be reached: none of its callbacks was called, and if its
   list is not the one of the snapshot, it once had no callback since. *)
Ahead(v, l) ==
  \A i \in v.items :
    /\ i[2] <= l[i[1]]
    /\ v.rest = <<>> \/ v.now # i[1]
    /\ \A j \in v.items : i[1] = j[1] => i = j
    /\ \A k \in Callback : /\ v.calls[i[1]][k] = 0
                           /\ i[2] # l[i[1]] => v.low[i[1]][k] = 0

(* A subject that was reached, or had no callback when the delivery began. *)
Reached(v) ==
  \A s \in Subject : (\A i \in v.items : i[1] # s) =>
    \A k \in Callback :
      IF Match(v.subject, s)
      THEN v.low[s][k] <= Planned(v, s, k) /\ Planned(v, s, k) <= v.high[s][k]
      ELSE Planned(v, s, k) = 0

DeliveryInv(v, c, l) ==
  /\ Started(v)
  /\ ~ v.sending => Bounded(v, c) /\ Ahead(v, l) /\ Reached(v)

DeliveriesInv ==
  /\ delivery \in Seq(Delivery)
  /\ \A d \in DOMAIN delivery : DeliveryInv(delivery[d], callbacks, list)


-----------------------------------------------------------------------------
(* What the steps on the registry do. *)

LEMMA RegisterIs ==
  ASSUME RegistryType, NEW s \in Subject, NEW k \in Callback, Register(s, k)
  PROVE  /\ callbacks' \in [Subject -> Seq(Callback)]
         /\ callbacks'[s] # <<>>
         /\ \A t \in Subject : t # s => callbacks'[t] = callbacks[t]
         /\ \A j \in Callback :
              Count(callbacks'[s], j) = Count(callbacks[s], j) + IF j = k THEN 1 ELSE 0
<1>1. callbacks \in [Subject -> Seq(Callback)] /\ callbacks[s] \in Seq(Callback)
  BY DEF RegistryType
<1> DEFINE q == Append(callbacks[s], k)
<1>2. q \in Seq(Callback) /\ q # <<>>
  BY <1>1, AppendProperties
<1>3. callbacks' = [callbacks EXCEPT ![s] = q]
  BY DEF Register
<1>4. ASSUME NEW j \in Callback
      PROVE  Count(q, j) = Count(callbacks[s], j) + IF j = k THEN 1 ELSE 0
  <2>1. Count(q, j) = IF k = j THEN Count(callbacks[s], j) + 1 ELSE Count(callbacks[s], j)
    BY <1>1, CountAppend
  <2>2. Count(callbacks[s], j) \in Nat
    BY <1>1, CountType
  <2> QED  BY <2>1, <2>2
<1> HIDE DEF q
<1> QED  BY <1>1, <1>2, <1>3, <1>4

LEMMA RemoveIs ==
  ASSUME RegistryType, NEW s \in Subject, NEW k \in Callback, RemoveRegistration(s, k)
  PROVE  /\ callbacks' \in [Subject -> Seq(Callback)] /\ list' \in [Subject -> Nat]
         /\ \A t \in Subject : t # s => callbacks'[t] = callbacks[t]
         /\ \A t \in Subject : \/ list'[t] = list[t]
                               \/ list'[t] = list[t] + 1 /\ callbacks'[t] = <<>>
         /\ callbacks[s] = <<>> => callbacks'[s] = <<>>
         /\ \A j \in Callback :
              Count(callbacks'[s], j) =
                IF j = k /\ Count(callbacks[s], j) > 0 THEN Count(callbacks[s], j) - 1
                ELSE Count(callbacks[s], j)
<1>1. callbacks \in [Subject -> Seq(Callback)] /\ callbacks[s] \in Seq(Callback)
      /\ list \in [Subject -> Nat]
  BY DEF RegistryType
<1> DEFINE q == Without(callbacks[s], k)
<1>2. q \in Seq(Callback)
  BY <1>1, WithoutIs
<1>3. callbacks' = [callbacks EXCEPT ![s] = q]
      /\ list' = [list EXCEPT ![s] = IF callbacks[s] # <<>> /\ callbacks'[s] = <<>>
                                     THEN @ + 1 ELSE @]
  BY DEF RemoveRegistration
<1>4. ASSUME NEW j \in Callback
      PROVE  Count(q, j) =
               IF j = k /\ Count(callbacks[s], j) > 0 THEN Count(callbacks[s], j) - 1
               ELSE Count(callbacks[s], j)
  <2>1. Count(q, j) = IF j = k /\ Count(callbacks[s], k) > 0
                      THEN Count(callbacks[s], j) - 1 ELSE Count(callbacks[s], j)
    BY <1>1, WithoutIs
  <2> QED  BY <2>1
<1>5. callbacks[s] = <<>> => q = <<>>
  <2> SUFFICES ASSUME callbacks[s] = <<>>  PROVE q = <<>>
    OBVIOUS
  <2>1. ~ \E i \in 1 .. Len(callbacks[s]) : callbacks[s][i] = k
    OBVIOUS
  <2> QED  BY <2>1 DEF Without, RemoveFirst, SelectInSeq
<1> HIDE DEF q
<1>6. callbacks' \in [Subject -> Seq(Callback)] /\ callbacks'[s] = q
      /\ \A t \in Subject : t # s => callbacks'[t] = callbacks[t]
  BY <1>1, <1>2, <1>3
<1>7. list' \in [Subject -> Nat]
      /\ \A t \in Subject : \/ list'[t] = list[t]
                            \/ list'[t] = list[t] + 1 /\ callbacks'[t] = <<>>
  BY <1>1, <1>3
<1> QED  BY <1>4, <1>5, <1>6, <1>7

-----------------------------------------------------------------------------
(* Types. *)

LEMMA LiteralSubject ==
  ASSUME NEW s \in Given, ~ HasWildcard(s)
  PROVE  s \in Seq(Part)
<1>1. s \in Seq(Part \cup {Wildcard})
  BY ClientAssumption
<1>2. DOMAIN s = 1 .. Len(s) /\ Len(s) \in Nat
      /\ \A i \in 1 .. Len(s) : s[i] \in Part \cup {Wildcard}
  BY <1>1, LenProperties, ElementOfSeq
<1>3. \A i \in 1 .. Len(s) : s[i] # Wildcard
  BY <1>2 DEF HasWildcard, ToSet
<1>4. s = [i \in 1 .. Len(s) |-> s[i]]
  BY <1>1, <1>2, SeqDef
<1> QED  BY <1>2, <1>3, <1>4, IsASeq

LEMMA CallsType == RegistryType /\ NodeType /\ TallyType /\ [Next]_vars
                     => RegistryType' /\ NodeType' /\ TallyType'
<1> SUFFICES ASSUME RegistryType, NodeType, TallyType, [Next]_vars
             PROVE  RegistryType' /\ NodeType' /\ TallyType'
  OBVIOUS
<1>0. MaxConnects \in Nat
  BY ClientAssumption
<1>1. ASSUME Connect  PROVE RegistryType' /\ NodeType' /\ TallyType'
  <2>1. Registered \in SUBSET Subject
    BY DEF Registered
  <2>2. NodeType'
    BY <1>0, <1>1, <2>1 DEF Connect, NodeType, registry, calls
  <2> QED  BY <1>1, <2>2 DEF Connect, RegistryType, TallyType, registry, calls
<1>2. ASSUME Lose  PROVE RegistryType' /\ NodeType' /\ TallyType'
  BY <1>2 DEF Lose, RegistryType, NodeType, TallyType
<1>3. ASSUME NEW n \in 1 .. MaxConnects, ResendFails(n)
      PROVE  RegistryType' /\ NodeType' /\ TallyType'
  BY <1>3 DEF ResendFails, RegistryType, NodeType, TallyType, registry, calls
<1>4. ASSUME NEW n \in 1 .. MaxConnects, NEW s \in Subject, Resend(n, s)
      PROVE  RegistryType' /\ NodeType' /\ TallyType'
  BY <1>4 DEF Resend, RegistryType, NodeType, TallyType, registry, calls
<1>5. ASSUME NEW s \in Subject, NEW k \in Callback, Subscribe(s, k)
      PROVE  RegistryType' /\ NodeType' /\ TallyType'
  <2>1. Register(s, k)
    BY <1>5 DEF Subscribe
  <2>2. RegistryType'
    BY <1>5, <2>1, RegisterIs DEF Subscribe, RegistryType
  <2>3. NodeType'
    BY <1>5 DEF Subscribe, NodeType
  <2>4. \/ returned' = [returned EXCEPT ![s][k] = @ + 1] /\ sending' = sending
        \/ sending' = [sending EXCEPT ![s][k] = @ + 1] /\ returned' = returned
    BY <1>5 DEF Subscribe
  <2>5. returned' \in Numbers /\ sending' \in Numbers
    <3>1. returned \in Numbers /\ sending \in Numbers
      BY DEF TallyType
    <3>2. /\ [returned EXCEPT ![s][k] = @ + 1] \in Numbers
          /\ [sending EXCEPT ![s][k] = @ + 1] \in Numbers
      BY <3>1 DEF Numbers
    <3> QED  BY <2>4, <3>1, <3>2
  <2>6. unsubscribed' = unsubscribed
    BY <1>5 DEF Subscribe
  <2>7. TallyType'
    BY <2>5, <2>6 DEF TallyType, Numbers
  <2> QED  BY <2>2, <2>3, <2>7
<1>6. ASSUME NEW s \in Subject, NEW k \in Callback, SubscribeSent(s, k)
      PROVE  RegistryType' /\ NodeType' /\ TallyType'
  <2>1. RegistryType' /\ NodeType'
    BY <1>6 DEF SubscribeSent, RegistryType, NodeType, node
  <2>2. TallyType'
    BY <1>6 DEF SubscribeSent, TallyType, Numbers
  <2> QED  BY <2>1, <2>2
<1>7. ASSUME NEW s \in Subject, NEW k \in Callback, SubscribeRaises(s, k)
      PROVE  RegistryType' /\ NodeType' /\ TallyType'
  <2>1. RegistryType'
    BY <1>7, RemoveIs DEF SubscribeRaises, RegistryType
  <2>2. NodeType'
    BY <1>7 DEF SubscribeRaises, NodeType, node
  <2>3. TallyType'
    BY <1>7 DEF SubscribeRaises, TallyType, Numbers
  <2> QED  BY <2>1, <2>2, <2>3
<1>8. ASSUME NEW s \in Subject, NEW k \in Callback, Unsubscribe(s, k)
      PROVE  RegistryType' /\ NodeType' /\ TallyType'
  <2>1. RegistryType'
    BY <1>8, RemoveIs DEF Unsubscribe, RegistryType
  <2>2. NodeType'
    BY <1>8 DEF Unsubscribe, NodeType, calls
  <2>3. TallyType'
    BY <1>8 DEF Unsubscribe, TallyType, Numbers, calls
  <2> QED  BY <2>1, <2>2, <2>3
<1>9. ASSUME UNCHANGED <<node, registry>>  PROVE RegistryType' /\ NodeType' /\ TallyType'
  BY <1>9 DEF RegistryType, NodeType, TallyType, node, registry, calls
<1>10. ASSUME NEW s \in Given, Publish(s) \/ Receive(s)
       PROVE  RegistryType' /\ NodeType' /\ TallyType'
  BY <1>9, <1>10 DEF Publish, Receive
<1>11. ASSUME NEW d \in DOMAIN delivery,
              PublishSent(d) \/ Reach(d) \/ Call(d) \/ Delivered(d) \/ Stop(d)
       PROVE  RegistryType' /\ NodeType' /\ TallyType'
  BY <1>9, <1>11 DEF PublishSent, Reach, Call, Delivered, Stop
<1>12. CASE UNCHANGED vars
  BY <1>9, <1>12 DEF vars
<1> QED
  BY <1>1, <1>2, <1>3, <1>4, <1>5, <1>6, <1>7, <1>8, <1>10, <1>11, <1>12 DEF Next

LEMMA CallsTypeInit == Init => RegistryType /\ NodeType /\ TallyType
<1> SUFFICES ASSUME Init  PROVE RegistryType /\ NodeType /\ TallyType
  OBVIOUS
<1>1. MaxConnects \in Nat
  BY ClientAssumption
<1>2. Nothing \in Numbers
  BY DEF Nothing, Numbers
<1>3. RegistryType
  BY DEF Init, RegistryType
<1>4. NodeType
  BY <1>1 DEF Init, NodeType
<1> QED  BY <1>2, <1>3, <1>4 DEF Init, TallyType

-----------------------------------------------------------------------------
(* TellsExactly and StaysRegistered. *)

LEMMA TellsStep == RegistryType /\ NodeType /\ TellsExactly /\ [Next]_vars => TellsExactly'
<1> SUFFICES ASSUME RegistryType, NodeType, TellsExactly, [Next]_vars
             PROVE  TellsExactly'
  OBVIOUS
<1>0. MaxConnects \in Nat
  BY ClientAssumption
<1>1. ASSUME Connect  PROVE TellsExactly'
  <2>1. Registered' = Registered
    BY <1>1 DEF Connect, registry, Registered
  <2>2. connection' \in 1 .. MaxConnects
    BY <1>0, <1>1 DEF Connect, NodeType
  <2>3. resend'[connection'] = Registered /\ told' = {}
    BY <1>1, <2>2 DEF Connect, NodeType
  <2> QED  BY <2>1, <2>3 DEF TellsExactly
<1>2. ASSUME Lose  PROVE TellsExactly'
  BY <1>2 DEF Lose, TellsExactly
<1>3. ASSUME NEW n \in 1 .. MaxConnects, ResendFails(n)  PROVE TellsExactly'
  <2>1. Registered' = Registered
    BY <1>3 DEF ResendFails, registry, Registered
  <2>2. connection # 0 => resend'[connection] = resend[connection]
    BY <1>0, <1>3 DEF ResendFails, NodeType
  <2> QED  BY <1>3, <2>1, <2>2 DEF ResendFails, TellsExactly, registry, calls
<1>4. ASSUME NEW n \in 1 .. MaxConnects, NEW s \in Subject, Resend(n, s)
      PROVE  TellsExactly'
  <2>1. Registered' = Registered
    BY <1>4 DEF Resend, registry, Registered
  <2>2. resend'[connection] = IF connection = n THEN resend[n] \ {s} ELSE resend[connection]
    BY <1>0, <1>4 DEF Resend, NodeType
  <2> QED  BY <1>4, <2>1, <2>2 DEF Resend, TellsExactly, registry, calls
<1>5. ASSUME NEW s \in Subject, NEW k \in Callback, Subscribe(s, k)  PROVE TellsExactly'
  <2>1. Register(s, k)
    BY <1>5 DEF Subscribe
  <2>2. Registered' = Registered \cup {s}
    BY <2>1, RegisterIs DEF Registered
  <2> QED  BY <1>5, <2>2 DEF Subscribe, TellsExactly
<1>6. ASSUME NEW s \in Subject, NEW k \in Callback, SubscribeSent(s, k)  PROVE TellsExactly'
  BY <1>6 DEF SubscribeSent, TellsExactly, Registered, node
<1>7. ASSUME NEW s \in Subject, NEW k \in Callback, SubscribeRaises(s, k)
      PROVE  TellsExactly'
  <2>1. RemoveRegistration(s, k)
    BY <1>7 DEF SubscribeRaises
  <2>2. Registered' \subseteq Registered /\ Registered \ {s} \subseteq Registered'
    BY <2>1, RemoveIs DEF Registered
  <2> QED  BY <1>7, <2>2 DEF SubscribeRaises, TellsExactly, node
<1>8. ASSUME NEW s \in Subject, NEW k \in Callback, Unsubscribe(s, k)  PROVE TellsExactly'
  <2>1. RemoveRegistration(s, k)
    BY <1>8 DEF Unsubscribe
  <2>2. Registered' \subseteq Registered /\ Registered \ {s} \subseteq Registered'
        /\ (s \in Registered' <=> callbacks'[s] # <<>>)
    BY <2>1, RemoveIs DEF Registered
  <2> QED  BY <1>8, <2>2 DEF Unsubscribe, TellsExactly, calls
<1>9. ASSUME UNCHANGED <<node, registry>>  PROVE TellsExactly'
  BY <1>9 DEF TellsExactly, Registered, node, registry, calls
<1>10. ASSUME NEW s \in Given, Publish(s) \/ Receive(s)  PROVE TellsExactly'
  BY <1>9, <1>10 DEF Publish, Receive
<1>11. ASSUME NEW d \in DOMAIN delivery,
              PublishSent(d) \/ Reach(d) \/ Call(d) \/ Delivered(d) \/ Stop(d)
       PROVE  TellsExactly'
  BY <1>9, <1>11 DEF PublishSent, Reach, Call, Delivered, Stop
<1>12. CASE UNCHANGED vars
  BY <1>9, <1>12 DEF vars
<1> QED
  BY <1>1, <1>2, <1>3, <1>4, <1>5, <1>6, <1>7, <1>8, <1>10, <1>11, <1>12 DEF Next

(* While connected, the node has each subject that has a callback, or connect()
   is about to send it, and no other but those whose subscribe raised. *)
THEOREM Tells == Spec => []TellsExactly
<1>1. Init => TellsExactly
  BY DEF Init, TellsExactly
<1> QED
  BY <1>1, CallsTypeInit, CallsType, TellsStep, PTL DEF Spec

LEMMA StaysStep ==
  RegistryType /\ TallyType /\ StaysRegistered /\ [Next]_vars => StaysRegistered'
<1> SUFFICES ASSUME RegistryType, TallyType, StaysRegistered, [Next]_vars,
                    NEW t \in Subject, NEW j \in Callback
             PROVE  (/\ Count(callbacks[t], j) + unsubscribed[t][j]
                          >= sending[t][j] + returned[t][j]
                     /\ Count(callbacks[t], j) <= sending[t][j] + returned[t][j])'
  BY DEF StaysRegistered
<1> DEFINE c == Count(callbacks[t], j)
           Goal == (/\ Count(callbacks[t], j) + unsubscribed[t][j]
                          >= sending[t][j] + returned[t][j]
                    /\ Count(callbacks[t], j) <= sending[t][j] + returned[t][j])'
<1>1. /\ c \in Nat /\ unsubscribed[t][j] \in Nat
      /\ sending[t][j] \in Nat /\ returned[t][j] \in Nat
  BY CountType DEF RegistryType, TallyType, Numbers
<1>2. /\ c + unsubscribed[t][j] >= sending[t][j] + returned[t][j]
      /\ c <= sending[t][j] + returned[t][j]
  BY DEF StaysRegistered
<1>3. /\ sending \in [Subject -> [Callback -> Nat]]
      /\ returned \in [Subject -> [Callback -> Nat]]
      /\ unsubscribed \in [Subject -> [Callback -> Nat]]
  BY DEF TallyType, Numbers
<1>5. ASSUME NEW s \in Subject, NEW k \in Callback, Subscribe(s, k)  PROVE Goal
  <2>1. Register(s, k)
    BY <1>5 DEF Subscribe
  <2>2. c' = c + IF t = s /\ j = k THEN 1 ELSE 0
    BY <1>1, <2>1, RegisterIs
  <2>3. \/ /\ sending' = sending
           /\ returned'[t][j] = returned[t][j] + IF t = s /\ j = k THEN 1 ELSE 0
        \/ /\ returned' = returned
           /\ sending'[t][j] = sending[t][j] + IF t = s /\ j = k THEN 1 ELSE 0
    BY <1>1, <1>3, <1>5 DEF Subscribe
  <2>4. unsubscribed' = unsubscribed
    BY <1>5 DEF Subscribe
  <2> HIDE DEF c
  <2>5. /\ c' + unsubscribed'[t][j] >= sending'[t][j] + returned'[t][j]
        /\ c' <= sending'[t][j] + returned'[t][j]
    BY <1>1, <1>2, <2>2, <2>3, <2>4
  <2> QED  BY <2>5 DEF c
<1>6. ASSUME NEW s \in Subject, NEW k \in Callback, SubscribeSent(s, k)  PROVE Goal
  <2>1. c' = c /\ unsubscribed' = unsubscribed
    BY <1>6 DEF SubscribeSent
  <2>2. sending'[t][j] + returned'[t][j] = sending[t][j] + returned[t][j]
    BY <1>1, <1>3, <1>6 DEF SubscribeSent
  <2> HIDE DEF c
  <2>5. /\ c' + unsubscribed'[t][j] >= sending'[t][j] + returned'[t][j]
        /\ c' <= sending'[t][j] + returned'[t][j]
    BY <1>2, <2>1, <2>2
  <2> QED  BY <2>5 DEF c
<1>7. ASSUME NEW s \in Subject, NEW k \in Callback, SubscribeRaises(s, k)  PROVE Goal
  <2>1. RemoveRegistration(s, k)
    BY <1>7 DEF SubscribeRaises
  <2>2. c' = IF t = s /\ j = k /\ c > 0 THEN c - 1 ELSE c
    BY <2>1, RemoveIs
  <2>3. /\ sending'[t][j] = IF t = s /\ j = k THEN sending[t][j] - 1 ELSE sending[t][j]
        /\ t = s /\ j = k => sending[t][j] > 0
    BY <1>3, <1>7 DEF SubscribeRaises
  <2>4. unsubscribed' = unsubscribed /\ returned' = returned
    BY <1>7 DEF SubscribeRaises
  <2> HIDE DEF c
  <2>5. /\ c' + unsubscribed'[t][j] >= sending'[t][j] + returned'[t][j]
        /\ c' <= sending'[t][j] + returned'[t][j]
    BY <1>1, <1>2, <2>2, <2>3, <2>4
  <2> QED  BY <2>5 DEF c
<1>8. ASSUME NEW s \in Subject, NEW k \in Callback, Unsubscribe(s, k)  PROVE Goal
  <2>1. RemoveRegistration(s, k)
    BY <1>8 DEF Unsubscribe
  <2>2. /\ c' = IF t = s /\ j = k THEN c - 1 ELSE c
        /\ t = s /\ j = k => c > 0
    <3>1. t = s /\ j = k => c > 0
      BY <1>8 DEF Unsubscribe
    <3> QED  BY <2>1, <3>1, RemoveIs
  <2>3. unsubscribed'[t][j] =
          IF t = s /\ j = k THEN unsubscribed[t][j] + 1 ELSE unsubscribed[t][j]
    BY <1>3, <1>8 DEF Unsubscribe
  <2>4. sending' = sending /\ returned' = returned
    BY <1>8 DEF Unsubscribe, calls
  <2> HIDE DEF c
  <2>5. /\ c' + unsubscribed'[t][j] >= sending'[t][j] + returned'[t][j]
        /\ c' <= sending'[t][j] + returned'[t][j]
    BY <1>1, <1>2, <2>2, <2>3, <2>4
  <2> QED  BY <2>5 DEF c
<1>9. ASSUME UNCHANGED <<callbacks, sending, returned, unsubscribed>>  PROVE Goal
  BY <1>2, <1>9
<1>10. ASSUME Connect \/ Lose  PROVE Goal
  BY <1>9, <1>10 DEF Connect, Lose, registry, calls
<1>11. ASSUME NEW n \in 1 .. MaxConnects,
              ResendFails(n) \/ \E s \in Subject : Resend(n, s)
       PROVE  Goal
  BY <1>9, <1>11 DEF ResendFails, Resend, registry, calls
<1>12. ASSUME NEW s \in Given, Publish(s) \/ Receive(s)  PROVE Goal
  BY <1>9, <1>12 DEF Publish, Receive, registry, calls
<1>13. ASSUME NEW d \in DOMAIN delivery,
              PublishSent(d) \/ Reach(d) \/ Call(d) \/ Delivered(d) \/ Stop(d)
       PROVE  Goal
  BY <1>9, <1>13 DEF PublishSent, Reach, Call, Delivered, Stop, registry, calls
<1>14. CASE UNCHANGED vars
  BY <1>9, <1>14 DEF vars, registry, calls
<1>15. ASSUME Next  PROVE Goal
  <2>1. CASE Connect \/ Lose
    BY <1>10, <2>1
  <2>2. CASE \E n \in 1 .. MaxConnects : ResendFails(n) \/ \E s \in Subject : Resend(n, s)
    BY <1>11, <2>2
  <2>3. CASE \E s \in Given : Publish(s) \/ Receive(s)
    BY <1>12, <2>3
  <2>4. CASE \E s \in Subject, k \in Callback :
               \/ Subscribe(s, k) \/ SubscribeSent(s, k) \/ SubscribeRaises(s, k)
               \/ Unsubscribe(s, k)
    BY <1>5, <1>6, <1>7, <1>8, <2>4
  <2>5. CASE \E d \in DOMAIN delivery :
               PublishSent(d) \/ Reach(d) \/ Call(d) \/ Delivered(d) \/ Stop(d)
    BY <1>13, <2>5
  <2> QED  BY ONLY <1>15, <2>1, <2>2, <2>3, <2>4, <2>5 DEF Next
<1> QED  BY <1>14, <1>15

(* A subscribe that raises takes back its own registration and no other, and an
   unsubscribe takes one. *)
THEOREM Stays == Spec => []StaysRegistered
<1>1. Init => StaysRegistered
  BY CountEmpty DEF Init, StaysRegistered, Nothing
<1> QED
  BY <1>1, CallsTypeInit, CallsType, StaysStep, PTL DEF Spec

-----------------------------------------------------------------------------
(* DeliveredExactly: matching, and what a change of the registry does to the
   deliveries. *)

LEMMA MatchIsInstance ==
  ASSUME NEW g \in Seq(Part), NEW s \in Subject
  PROVE  Match(g, s) <=> g \in Instances(s)
<1>1. s \in Seq(Part \cup {Wildcard})
  BY ClientAssumption
<1>2. /\ DOMAIN s = 1 .. Len(s) /\ Len(s) \in Nat
      /\ DOMAIN g = 1 .. Len(g) /\ Len(g) \in Nat
  BY <1>1, LenProperties
<1> DEFINE like(f) == [i \in DOMAIN s |-> IF s[i] = Wildcard THEN f[i] ELSE s[i]]
<1>3. ASSUME Match(g, s)  PROVE g \in Instances(s)
  <2>1. DOMAIN g = DOMAIN s
    BY <1>2, <1>3 DEF Match
  <2>2. g \in [DOMAIN s -> Part]
    <3>1. PICK n \in Nat : g \in [1 .. n -> Part]
      BY SeqDef
    <3> QED  BY <2>1, <3>1
  <2>3. g = like(g)
    BY <1>3, <2>1, <2>2 DEF Match
  <2> QED  BY <2>2, <2>3 DEF Instances
<1>4. ASSUME g \in Instances(s)  PROVE Match(g, s)
  <2>1. PICK f \in [DOMAIN s -> Part] : g = like(f)
    BY <1>4 DEF Instances
  <2>2. DOMAIN g = DOMAIN s /\ \A i \in DOMAIN s : s[i] = Wildcard \/ g[i] = s[i]
    BY <2>1
  <2>3. Len(g) = Len(s)
    <3> DEFINE m == Len(g)
               n == Len(s)
    <3>1. m \in Nat /\ n \in Nat /\ 1 .. m = 1 .. n
      BY <1>2, <2>2
    <3> HIDE DEF m, n
    <3>2. (m > 0 => m \in 1 .. m) /\ (n > 0 => n \in 1 .. n)
      BY <3>1
    <3>3. (m > 0 => m \in 1 .. n) /\ (n > 0 => n \in 1 .. m)
      BY <3>1, <3>2
    <3>4. m = n
      BY <3>1, <3>3
    <3> QED  BY <3>4 DEF m, n
  <2> QED  BY <2>2, <2>3 DEF Match
<1> QED  BY <1>3, <1>4

(* A delivery after the registrations have become c. *)
Lowest(v, c) == [s \in Subject |-> [k \in Callback |-> Min({v.low[s][k], Count(c[s], k)})]]
Highest(v, c) == [s \in Subject |-> [k \in Callback |-> Max({v.high[s][k], Count(c[s], k)})]]
Seen(v, c) == IF v.sending THEN v
              ELSE [v EXCEPT !.low = Lowest(v, c), !.high = Highest(v, c)]

LEMMA SeenIs ==
  ASSUME NEW v \in Delivery, NEW c \in [Subject -> Seq(Callback)]
  PROVE  /\ Seen(v, c) \in Delivery
         /\ Lowest(v, c) \in Numbers /\ Highest(v, c) \in Numbers
         /\ \A s \in Subject, k \in Callback :
              /\ Count(c[s], k) \in Nat
              /\ Lowest(v, c)[s][k] <= v.low[s][k]
              /\ Lowest(v, c)[s][k] <= Count(c[s], k)
              /\ v.high[s][k] <= Highest(v, c)[s][k]
              /\ Count(c[s], k) <= Highest(v, c)[s][k]
<1>1. v.low \in Numbers /\ v.high \in Numbers
  BY DEF Delivery
<1>2. ASSUME NEW s \in Subject, NEW k \in Callback
      PROVE  /\ Count(c[s], k) \in Nat
             /\ Lowest(v, c)[s][k] \in Nat /\ Highest(v, c)[s][k] \in Nat
             /\ Lowest(v, c)[s][k] <= v.low[s][k]
             /\ Lowest(v, c)[s][k] <= Count(c[s], k)
             /\ v.high[s][k] <= Highest(v, c)[s][k]
             /\ Count(c[s], k) <= Highest(v, c)[s][k]
  <2> DEFINE n == Count(c[s], k)
             lo == v.low[s][k]
             hi == v.high[s][k]
  <2>1. n \in Nat /\ lo \in Nat /\ hi \in Nat
    BY <1>1, CountType DEF Numbers
  <2>2. Lowest(v, c)[s][k] = Min({lo, n}) /\ Highest(v, c)[s][k] = Max({hi, n})
    BY DEF Lowest, Highest
  <2> HIDE DEF n, lo, hi
  <2>3. Min({lo, n}) \in Nat /\ Min({lo, n}) <= lo /\ Min({lo, n}) <= n
    BY <2>1, MinMax
  <2>4. Max({hi, n}) \in Nat /\ hi <= Max({hi, n}) /\ n <= Max({hi, n})
    BY <2>1, MinMax
  <2> QED  BY <2>1, <2>2, <2>3, <2>4 DEF n, lo, hi
<1>3. Lowest(v, c) \in Numbers /\ Highest(v, c) \in Numbers
  BY <1>2 DEF Lowest, Highest, Numbers
<1> DEFINE low == Lowest(v, c)
           high == Highest(v, c)
<1> HIDE DEF low, high
<1>4. [v EXCEPT !.low = low, !.high = high] \in Delivery
  BY <1>3 DEF Delivery, low, high
<1>5. Seen(v, c) \in Delivery
  BY <1>4 DEF Seen, low, high
<1> QED  BY <1>2, <1>3, <1>5

LEMMA SeenKeeps ==
  ASSUME NEW v \in Delivery, NEW c, NEW l, NEW d \in [Subject -> Seq(Callback)], NEW m,
         DeliveryInv(v, c, l),
         \A t \in Subject : l[t] \in Nat /\ m[t] \in Nat
                            /\ (m[t] = l[t] \/ (m[t] = l[t] + 1 /\ d[t] = <<>>))
  PROVE  DeliveryInv(Seen(v, d), d, m)
<1>1. CASE v.sending
  BY <1>1 DEF DeliveryInv, Seen
<1>2. CASE ~ v.sending
  <2> DEFINE low == Lowest(v, d)
             high == Highest(v, d)
             w == [v EXCEPT !.low = low, !.high = high]
  <2> HIDE DEF low, high
  <2>1. /\ w.sending = v.sending /\ w.items = v.items /\ w.now = v.now
        /\ w.rest = v.rest /\ w.calls = v.calls /\ w.subject = v.subject
        /\ w.low = low /\ w.high = high
    BY DEF Delivery
  <2>2. Seen(v, d) = w
    BY <1>2 DEF Seen, low, high
  <2> HIDE DEF w
  <2>3. /\ low \in Numbers /\ high \in Numbers
        /\ \A s \in Subject, k \in Callback :
              /\ Count(d[s], k) \in Nat
              /\ low[s][k] <= v.low[s][k] /\ low[s][k] <= Count(d[s], k)
              /\ v.high[s][k] <= high[s][k] /\ Count(d[s], k) <= high[s][k]
    BY SeenIs DEF low, high
  <2>4. Started(w) /\ Bounded(w, d)
    BY <2>1, <2>3 DEF DeliveryInv, Started, Bounded
  <2>5. Ahead(w, m)
    <3> SUFFICES ASSUME NEW i \in w.items
                 PROVE  /\ i[2] <= m[i[1]]
                        /\ w.rest = <<>> \/ w.now # i[1]
                        /\ \A j \in w.items : i[1] = j[1] => i = j
                        /\ \A k \in Callback : /\ w.calls[i[1]][k] = 0
                                               /\ i[2] # m[i[1]] => w.low[i[1]][k] = 0
      BY DEF Ahead
    <3>1. i \in v.items /\ i[1] \in Subject /\ i[2] \in Nat
      BY <2>1 DEF Delivery
    <3>2. /\ i[2] <= l[i[1]]
          /\ v.rest = <<>> \/ v.now # i[1]
          /\ \A j \in v.items : i[1] = j[1] => i = j
          /\ \A k \in Callback : /\ v.calls[i[1]][k] = 0
                                 /\ i[2] # l[i[1]] => v.low[i[1]][k] = 0
      BY <1>2, <3>1 DEF DeliveryInv, Ahead
    <3>3. i[2] <= m[i[1]]
      BY <3>1, <3>2
    <3>4. ASSUME NEW k \in Callback, i[2] # m[i[1]]  PROVE low[i[1]][k] = 0
      <4>1. low[i[1]][k] \in Nat /\ v.low[i[1]][k] \in Nat
        BY <2>3, <3>1 DEF Numbers, Delivery
      <4>2. CASE m[i[1]] = l[i[1]]
        BY <2>3, <3>1, <3>2, <3>4, <4>1, <4>2
      <4>3. CASE d[i[1]] = <<>>
        BY <2>3, <3>1, <4>1, <4>3, CountEmpty
      <4> QED  BY <3>1, <4>2, <4>3
    <3> QED  BY <2>1, <3>2, <3>3, <3>4
  <2>6. Reached(w)
    <3> SUFFICES ASSUME NEW s \in Subject, \A i \in w.items : i[1] # s, NEW k \in Callback
                 PROVE  IF Match(w.subject, s)
                        THEN /\ w.low[s][k] <= Planned(w, s, k)
                             /\ Planned(w, s, k) <= w.high[s][k]
                        ELSE Planned(w, s, k) = 0
      BY DEF Reached
    <3>1. Planned(w, s, k) = Planned(v, s, k)
      BY <2>1 DEF Planned
    <3>2. /\ Match(v.subject, s) => /\ v.low[s][k] <= Planned(v, s, k)
                                    /\ Planned(v, s, k) <= v.high[s][k]
          /\ ~ Match(v.subject, s) => Planned(v, s, k) = 0
      BY <1>2, <2>1 DEF DeliveryInv, Reached
    <3>3. Planned(v, s, k) \in Nat
      <4>1. v.calls[s][k] \in Nat /\ Count(v.rest, k) \in Nat
        BY CountType DEF Delivery, Numbers
      <4> QED  BY <4>1 DEF Planned
    <3>4. low[s][k] \in Nat /\ v.low[s][k] \in Nat /\ high[s][k] \in Nat /\ v.high[s][k] \in Nat
      BY <2>3 DEF Numbers, Delivery
    <3>5. Match(v.subject, s) => /\ low[s][k] <= Planned(v, s, k)
                                 /\ Planned(v, s, k) <= high[s][k]
      BY <2>3, <3>2, <3>3, <3>4, SMTT(30)
    <3> QED  BY <2>1, <3>1, <3>2, <3>5
  <2> QED  BY <2>2, <2>4, <2>5, <2>6 DEF DeliveryInv
<1> QED  BY <1>1, <1>2

-----------------------------------------------------------------------------
(* The steps of the deliveries. *)

LEMMA WatchKeeps ==
  ASSUME DeliveriesInv, RegistryType,
         NEW d \in [Subject -> Seq(Callback)], NEW m \in [Subject -> Nat],
         \A t \in Subject : m[t] = list[t] \/ (m[t] = list[t] + 1 /\ d[t] = <<>>)
  PROVE  /\ Watch(d) \in Seq(Delivery)
         /\ \A i \in DOMAIN Watch(d) : DeliveryInv(Watch(d)[i], d, m)
<1> DEFINE q == Watch(d)
<1>1. q = [i \in DOMAIN delivery |-> Seen(delivery[i], d)]
  BY DEF Watch, Seen, Lowest, Highest
<1>2. /\ DOMAIN delivery = 1 .. Len(delivery) /\ Len(delivery) \in Nat
      /\ \A i \in DOMAIN delivery : /\ delivery[i] \in Delivery
                                    /\ DeliveryInv(delivery[i], callbacks, list)
  BY LenProperties, ElementOfSeq DEF DeliveriesInv
<1>3. \A t \in Subject : list[t] \in Nat /\ m[t] \in Nat
                         /\ (m[t] = list[t] \/ (m[t] = list[t] + 1 /\ d[t] = <<>>))
  BY DEF RegistryType
<1>4. ASSUME NEW i \in DOMAIN delivery
      PROVE  Seen(delivery[i], d) \in Delivery /\ DeliveryInv(Seen(delivery[i], d), d, m)
  <2>1. delivery[i] \in Delivery /\ DeliveryInv(delivery[i], callbacks, list)
    BY <1>2
  <2>2. Seen(delivery[i], d) \in Delivery
    BY <2>1, SeenIs
  <2>3. DeliveryInv(Seen(delivery[i], d), d, m)
    BY <1>3, <2>1, SeenKeeps
  <2> QED  BY <2>2, <2>3
<1> HIDE DEF q
<1>5. q \in [1 .. Len(delivery) -> Delivery]
  BY <1>1, <1>2, <1>4
<1>6. q \in Seq(Delivery)
  BY <1>2, <1>5, SeqDef
<1>7. \A i \in DOMAIN q : DeliveryInv(q[i], d, m)
  BY <1>1, <1>4
<1> QED  BY <1>6, <1>7 DEF q

LEMMA BeginIs ==
  ASSUME RegistryType, NEW g \in Seq(Part), NEW on \in Nat
  PROVE  Begin(g, on) \in Delivery /\ DeliveryInv(Begin(g, on), callbacks, list)
<1> DEFINE v == Begin(g, on)
           its == { <<t, list[t]>> : t \in Registered }
<1>1. /\ v.subject = g /\ v.sending = FALSE /\ v.items = its /\ v.now = <<>>
      /\ v.rest = <<>> /\ v.calls = Nothing /\ v.low = Counts /\ v.high = Counts
  BY DEF Begin
<1>2. \A s \in Subject, k \in Callback : /\ Count(callbacks[s], k) \in Nat
                                         /\ Counts[s][k] = Count(callbacks[s], k)
                                         /\ Nothing[s][k] = 0
  BY CountType DEF RegistryType, Counts, Nothing
<1>3. Counts \in Numbers /\ Nothing \in Numbers
  BY <1>2 DEF Counts, Nothing, Numbers
<1>4. its \in SUBSET (Subject \X Nat)
  BY DEF Registered, RegistryType
<1>5. v \in Delivery
  BY <1>3, <1>4 DEF Begin, Delivery
<1> HIDE DEF v
<1>6. Started(v) /\ Bounded(v, callbacks)
  BY <1>1, <1>2 DEF Started, Bounded
<1>7. Ahead(v, list)
  <2> SUFFICES ASSUME NEW i \in its
               PROVE  /\ i[2] = list[i[1]] /\ i[1] \in Subject
                      /\ \A j \in its : i[1] = j[1] => i = j
    BY <1>1, <1>2 DEF Ahead, RegistryType
  <2> QED  BY DEF Registered
<1>8. Reached(v)
  <2> SUFFICES ASSUME NEW s \in Subject, \A i \in its : i[1] # s, NEW k \in Callback
               PROVE  Planned(v, s, k) = 0 /\ v.low[s][k] = 0 /\ v.high[s][k] = 0
    BY <1>1 DEF Reached
  <2>1. s \notin Registered
    <3>1. s \in Registered => <<s, list[s]>> \in its
      OBVIOUS
    <3> HIDE DEF its
    <3> QED  BY <3>1
  <2>2. callbacks[s] = <<>>
    BY <2>1 DEF Registered
  <2>3. Planned(v, s, k) = 0
    BY <1>1, <1>2, CountEmpty DEF Planned
  <2> QED  BY <1>1, <1>2, <2>2, <2>3, CountEmpty
<1> QED  BY <1>5, <1>6, <1>7, <1>8 DEF DeliveryInv, v

(* The next subject is reached. *)
LEMMA ReachKeeps ==
  ASSUME RegistryType, NEW v \in Delivery, DeliveryInv(v, callbacks, list),
         v.rest = <<>>, NEW item \in v.items, NEW copy,
         copy = IF list[item[1]] = item[2] THEN callbacks[item[1]] ELSE <<>>,
         NEW w, w = [v EXCEPT !.items = @ \ {item}, !.now = item[1],
                              !.rest = IF Match(v.subject, item[1]) THEN copy ELSE <<>>]
  PROVE  w \in Delivery /\ DeliveryInv(w, callbacks, list)
<1> DEFINE s == item[1]
<1>1. s \in Subject /\ item[2] \in Nat /\ copy \in Seq(Callback)
  BY DEF Delivery, RegistryType
<1>2. w \in Delivery
  BY <1>1 DEF Delivery
<1>3. /\ w.sending = v.sending /\ w.items = v.items \ {item} /\ w.now = s
      /\ w.rest = (IF Match(v.subject, s) THEN copy ELSE <<>>)
      /\ w.calls = v.calls /\ w.subject = v.subject
      /\ w.low = v.low /\ w.high = v.high
  BY DEF Delivery
<1>4. ~ v.sending
  BY DEF DeliveryInv, Started
<1>5. /\ v.calls \in Numbers /\ v.low \in Numbers /\ v.high \in Numbers
  BY DEF Delivery
<1>6. /\ item[2] <= list[s]
      /\ \A j \in v.items : s = j[1] => item = j
      /\ \A k \in Callback : /\ v.calls[s][k] = 0
                             /\ item[2] # list[s] => v.low[s][k] = 0
  BY <1>4 DEF DeliveryInv, Ahead
<1> HIDE DEF s
<1>7. Started(w) /\ Bounded(w, callbacks)
  BY <1>1, <1>3, <1>4 DEF DeliveryInv, Started, Bounded
<1>8. Ahead(w, list)
  <2> SUFFICES ASSUME NEW i \in v.items, i # item
               PROVE  /\ i[2] <= list[i[1]]
                      /\ s # i[1]
                      /\ \A j \in v.items : i[1] = j[1] => i = j
                      /\ \A k \in Callback : /\ v.calls[i[1]][k] = 0
                                             /\ i[2] # list[i[1]] => v.low[i[1]][k] = 0
    BY <1>3 DEF Ahead
  <2> QED  BY <1>4, <1>6 DEF DeliveryInv, Ahead
<1>9. Reached(w)
  <2> SUFFICES ASSUME NEW t \in Subject, \A i \in w.items : i[1] # t, NEW k \in Callback
               PROVE  IF Match(v.subject, t)
                      THEN /\ v.low[t][k] <= Planned(w, t, k)
                           /\ Planned(w, t, k) <= v.high[t][k]
                      ELSE Planned(w, t, k) = 0
    BY <1>3 DEF Reached
  <2>1. CASE t = s
    <3>1. Planned(w, s, k) = Count(w.rest, k)
      <4>1. Count(w.rest, k) \in Nat
        BY <1>2, CountType DEF Delivery
      <4> QED  BY <1>3, <1>6, <2>1, <4>1 DEF Planned
    <3>2. CASE ~ Match(v.subject, s)
      BY <1>3, <2>1, <3>1, <3>2, CountEmpty
    <3>3. CASE Match(v.subject, s) /\ list[s] = item[2]
      <4>1. w.rest = callbacks[s]
        BY <1>3, <3>3 DEF s
      <4> QED  BY <1>4, <2>1, <3>1, <3>3, <4>1 DEF DeliveryInv, Bounded
    <3>4. CASE Match(v.subject, s) /\ list[s] # item[2]
      <4>1. w.rest = <<>>
        BY <1>3, <3>4 DEF s
      <4>2. v.low[s][k] = 0 /\ v.high[s][k] \in Nat
        BY <1>1, <1>5, <1>6, <3>4 DEF Numbers
      <4> QED  BY <2>1, <3>1, <3>4, <4>1, <4>2, CountEmpty
    <3> QED  BY <3>2, <3>3, <3>4
  <2>2. CASE t # s
    <3>1. \A i \in v.items : i[1] # t
      BY <1>3, <2>2 DEF s
    <3>2. Planned(w, t, k) = Planned(v, t, k)
      <4>1. v.calls[t][k] \in Nat
        BY <1>5 DEF Numbers
      <4> QED  BY <1>3, <2>2, <4>1, CountEmpty DEF Planned
    <3> QED  BY <1>4, <3>1, <3>2 DEF DeliveryInv, Reached
  <2> QED  BY <2>1, <2>2
<1> QED  BY <1>2, <1>7, <1>8, <1>9 DEF DeliveryInv

(* The next callback is called. *)
LEMMA CallKeeps ==
  ASSUME NEW v \in Delivery, DeliveryInv(v, callbacks, list), v.rest # <<>>,
         NEW w, w = [v EXCEPT !.rest = Tail(@), !.calls[v.now][Head(v.rest)] = @ + 1]
  PROVE  w \in Delivery /\ DeliveryInv(w, callbacks, list)
<1> DEFINE s == v.now
           h == Head(v.rest)
           c == [v.calls EXCEPT ![s][h] = @ + 1]
<1>1. s \in Subject
  BY DEF DeliveryInv, Started
<1>2. v.rest \in Seq(Callback) /\ v.calls \in Numbers
  BY DEF Delivery
<1>3. h \in Callback /\ Tail(v.rest) \in Seq(Callback)
  BY <1>2, HeadTailProperties
<1>4. w = [v EXCEPT !.rest = Tail(v.rest), !.calls = c]
  BY DEF Delivery
<1> HIDE DEF s, h
<1>5. c \in Numbers /\ \A t \in Subject, k \in Callback :
                         c[t][k] = v.calls[t][k] + (IF t = s /\ k = h THEN 1 ELSE 0)
  BY <1>1, <1>2, <1>3 DEF Numbers
<1> HIDE DEF c
<1>6. /\ w.sending = v.sending /\ w.items = v.items /\ w.now = v.now
      /\ w.rest = Tail(v.rest) /\ w.calls = c /\ w.subject = v.subject
      /\ w.low = v.low /\ w.high = v.high
  BY <1>4 DEF Delivery
<1>7. w \in Delivery
  BY <1>3, <1>4, <1>5 DEF Delivery
<1>8. ~ v.sending
  BY DEF DeliveryInv, Started
<1>9. Started(w) /\ Bounded(w, callbacks)
  BY <1>1, <1>6, <1>8 DEF DeliveryInv, Started, Bounded, s
<1>10. Ahead(w, list)
  <2>0. ASSUME NEW i \in v.items
        PROVE  /\ i[2] <= list[i[1]]
               /\ v.now # i[1]
               /\ \A j \in v.items : i[1] = j[1] => i = j
               /\ \A k \in Callback : /\ c[i[1]][k] = 0
                                      /\ i[2] # list[i[1]] => v.low[i[1]][k] = 0
    <3>1. /\ i[2] <= list[i[1]]
          /\ v.now # i[1]
          /\ \A j \in v.items : i[1] = j[1] => i = j
          /\ \A k \in Callback : /\ v.calls[i[1]][k] = 0
                                 /\ i[2] # list[i[1]] => v.low[i[1]][k] = 0
      BY <1>8 DEF DeliveryInv, Ahead
    <3>2. i[1] \in Subject
      BY DEF Delivery
    <3>3. \A k \in Callback : c[i[1]][k] = 0
      BY <1>5, <3>1, <3>2 DEF s
    <3> QED  BY <3>1, <3>3
  <2> QED  BY ONLY <1>6, <2>0 DEF Ahead
<1>11. ASSUME NEW t \in Subject, NEW k \in Callback
       PROVE  Planned(w, t, k) = Planned(v, t, k)
  <2>1. Count(Tail(v.rest), k) = IF h = k THEN Count(v.rest, k) - 1 ELSE Count(v.rest, k)
    BY <1>2, CountTail DEF h
  <2>2. Count(v.rest, k) \in Nat /\ v.calls[t][k] \in Nat
    BY <1>2, CountType DEF Numbers
  <2>3. c[t][k] = v.calls[t][k] + (IF t = s /\ k = h THEN 1 ELSE 0)
    BY <1>5
  <2> DEFINE a == Count(Tail(v.rest), k)
             b == Count(v.rest, k)
  <2>4. Planned(w, t, k) = c[t][k] + (IF s = t THEN a ELSE 0)
        /\ Planned(v, t, k) = v.calls[t][k] + (IF s = t THEN b ELSE 0)
    BY ONLY <1>6 DEF Planned, s
  <2> HIDE DEF a, b
  <2> QED  BY <2>1, <2>2, <2>3, <2>4 DEF a, b
<1>12. Reached(w)
  BY <1>6, <1>8, <1>11 DEF DeliveryInv, Reached
<1> QED  BY <1>7, <1>9, <1>10, <1>12 DEF DeliveryInv

LEMMA DeliveriesStep ==
  RegistryType /\ NodeType /\ DeliveriesInv /\ [Next]_vars => DeliveriesInv'
<1> SUFFICES ASSUME RegistryType, NodeType, DeliveriesInv, [Next]_vars
             PROVE  DeliveriesInv'
  OBVIOUS
<1>1. /\ delivery \in Seq(Delivery)
      /\ DOMAIN delivery = 1 .. Len(delivery) /\ Len(delivery) \in Nat
      /\ \A i \in DOMAIN delivery : /\ delivery[i] \in Delivery
                                    /\ DeliveryInv(delivery[i], callbacks, list)
  BY LenProperties, ElementOfSeq DEF DeliveriesInv
<1>2. ASSUME UNCHANGED <<callbacks, list, delivery>>  PROVE DeliveriesInv'
  BY <1>2 DEF DeliveriesInv
<1>3. ASSUME UNCHANGED registry, NEW w, w \in Delivery, DeliveryInv(w, callbacks, list),
             delivery' = Append(delivery, w)
      PROVE  DeliveriesInv'
  <2>1. callbacks' = callbacks /\ list' = list
    BY <1>3 DEF registry
  <2>2. /\ delivery' \in Seq(Delivery) /\ DOMAIN delivery' = 1 .. Len(delivery) + 1
        /\ \A i \in 1 .. Len(delivery) : delivery'[i] = delivery[i]
        /\ delivery'[Len(delivery) + 1] = w
    BY <1>1, <1>3, AppendProperties, LenProperties
  <2>3. ASSUME NEW i \in DOMAIN delivery'  PROVE DeliveryInv(delivery'[i], callbacks, list)
    <3>1. CASE i \in 1 .. Len(delivery)
      BY <1>1, <2>2, <3>1
    <3>2. CASE i = Len(delivery) + 1
      BY <1>3, <2>2, <3>2
    <3> QED  BY <1>1, <2>2, <3>1, <3>2
  <2> QED  BY <2>1, <2>2, <2>3 DEF DeliveriesInv
<1>4. ASSUME UNCHANGED registry, NEW d \in DOMAIN delivery, NEW w, w \in Delivery,
             DeliveryInv(w, callbacks, list), delivery' = [delivery EXCEPT ![d] = w]
      PROVE  DeliveriesInv'
  <2>1. callbacks' = callbacks /\ list' = list
    BY <1>4 DEF registry
  <2>2. /\ delivery' \in Seq(Delivery) /\ DOMAIN delivery' = DOMAIN delivery
        /\ \A i \in DOMAIN delivery : delivery'[i] = IF i = d THEN w ELSE delivery[i]
    BY <1>1, <1>4, ExceptSeq
  <2>3. ASSUME NEW i \in DOMAIN delivery'  PROVE DeliveryInv(delivery'[i], callbacks, list)
    BY <1>1, <1>4, <2>2
  <2> QED  BY <2>1, <2>2, <2>3 DEF DeliveriesInv
<1>5. ASSUME UNCHANGED registry, NEW d \in DOMAIN delivery,
             delivery' = RemoveAt(delivery, d)
      PROVE  DeliveriesInv'
  <2>1. callbacks' = callbacks /\ list' = list
    BY <1>5 DEF registry
  <2>2. /\ delivery' \in Seq(Delivery) /\ IsLess(delivery', delivery, d)
    BY <1>1, <1>5, RemoveAtIs
  <2>3. DOMAIN delivery' = 1 .. Len(delivery) - 1 /\ d \in 1 .. Len(delivery)
        /\ \A i \in DOMAIN delivery' : delivery'[i] = delivery[IF i < d THEN i ELSE i + 1]
    BY <1>1, <2>2, LenProperties DEF IsLess
  <2>4. ASSUME NEW i \in DOMAIN delivery'  PROVE DeliveryInv(delivery'[i], callbacks, list)
    <3> DEFINE j == IF i < d THEN i ELSE i + 1
    <3>1. j \in DOMAIN delivery /\ delivery'[i] = delivery[j]
      BY <1>1, <2>3
    <3> QED  BY <1>1, <3>1
  <2> QED  BY <2>1, <2>2, <2>4 DEF DeliveriesInv
<1>6. ASSUME NEW s \in Subject, NEW k \in Callback, RemoveRegistration(s, k)
      PROVE  DeliveriesInv'
  <2>1. /\ callbacks' \in [Subject -> Seq(Callback)] /\ list' \in [Subject -> Nat]
        /\ \A t \in Subject : \/ list'[t] = list[t]
                              \/ list'[t] = list[t] + 1 /\ callbacks'[t] = <<>>
    BY <1>6, RemoveIs
  <2>2. delivery' = Watch(callbacks')
    BY <1>6 DEF RemoveRegistration
  <2>3. /\ Watch(callbacks') \in Seq(Delivery)
        /\ \A i \in DOMAIN Watch(callbacks') :
             DeliveryInv(Watch(callbacks')[i], callbacks', list')
    BY <2>1, WatchKeeps
  <2> QED  BY <2>2, <2>3 DEF DeliveriesInv
<1>7. ASSUME NEW s \in Subject, NEW k \in Callback, Subscribe(s, k)  PROVE DeliveriesInv'
  <2>1. Register(s, k) /\ list' = list
    BY <1>7 DEF Subscribe
  <2>2. callbacks' \in [Subject -> Seq(Callback)] /\ list' \in [Subject -> Nat]
    BY <2>1, RegisterIs DEF RegistryType
  <2>3. delivery' = Watch(callbacks')
    BY <2>1 DEF Register
  <2>4. /\ Watch(callbacks') \in Seq(Delivery)
        /\ \A i \in DOMAIN Watch(callbacks') :
             DeliveryInv(Watch(callbacks')[i], callbacks', list')
    BY <2>1, <2>2, WatchKeeps
  <2> QED  BY <2>3, <2>4 DEF DeliveriesInv
<1>8. ASSUME NEW s \in Given, Publish(s)  PROVE DeliveriesInv'
  <2> DEFINE w == [subject |-> s, on |-> 0, sending |-> TRUE, items |-> {},
                   now |-> <<>>, rest |-> <<>>,
                   calls |-> Nothing, low |-> Nothing, high |-> Nothing]
  <2>1. s \in Seq(Part)
    BY <1>8, LiteralSubject DEF Publish, Publishable
  <2>2. Nothing \in Numbers
    BY DEF Nothing, Numbers
  <2>3. w \in Delivery
    BY <2>1, <2>2 DEF Delivery
  <2>4. DeliveryInv(w, callbacks, list)
    BY DEF DeliveryInv, Started
  <2>5. delivery' = Append(delivery, w) /\ UNCHANGED registry
    BY <1>8 DEF Publish
  <2> HIDE DEF w
  <2> QED  BY <1>3, <2>3, <2>4, <2>5
<1>9. connection \in Nat
  BY ClientAssumption DEF NodeType
<1>10. ASSUME NEW s \in Given, Receive(s)  PROVE DeliveriesInv'
  <2>1. s \in Seq(Part)
    BY <1>10, LiteralSubject DEF Receive
  <2>2. Begin(s, connection) \in Delivery /\ DeliveryInv(Begin(s, connection), callbacks, list)
    BY <1>9, <2>1, BeginIs
  <2>3. delivery' = Append(delivery, Begin(s, connection)) /\ UNCHANGED registry
    BY <1>10 DEF Receive
  <2> QED  BY <1>3, <2>2, <2>3
<1>11. ASSUME NEW d \in DOMAIN delivery, PublishSent(d)  PROVE DeliveriesInv'
  <2> DEFINE g == delivery[d].subject
  <2>1. g \in Seq(Part)
    BY <1>1 DEF Delivery
  <2>2. delivery' = [delivery EXCEPT ![d] = Begin(g, 0)] /\ UNCHANGED registry
    BY <1>11 DEF PublishSent
  <2> HIDE DEF g
  <2>3. Begin(g, 0) \in Delivery /\ DeliveryInv(Begin(g, 0), callbacks, list)
    BY <2>1, BeginIs
  <2> QED  BY <1>4, <2>2, <2>3
<1>12. ASSUME NEW d \in DOMAIN delivery, Reach(d)  PROVE DeliveriesInv'
  <2> DEFINE v == delivery[d]
  <2>1. PICK item \in v.items :
          delivery' = [delivery EXCEPT
            ![d].items = @ \ {item}, ![d].now = item[1],
            ![d].rest = IF Match(v.subject, item[1])
                        THEN (IF list[item[1]] = item[2] THEN callbacks[item[1]] ELSE <<>>)
                        ELSE <<>>]
    BY <1>12 DEF Reach
  <2> DEFINE copy == IF list[item[1]] = item[2] THEN callbacks[item[1]] ELSE <<>>
             w == [v EXCEPT !.items = @ \ {item}, !.now = item[1],
                            !.rest = IF Match(v.subject, item[1]) THEN copy ELSE <<>>]
  <2>2. delivery' = [delivery EXCEPT ![d] = w] /\ UNCHANGED registry
    <3>1. UNCHANGED registry
      BY <1>12 DEF Reach
    <3> QED  BY <1>1, <2>1, <3>1
  <2>3. v \in Delivery /\ DeliveryInv(v, callbacks, list) /\ v.rest = <<>>
    BY <1>1, <1>12 DEF Reach
  <2>4. w \in Delivery /\ DeliveryInv(w, callbacks, list)
    BY <2>3, ReachKeeps
  <2> HIDE DEF w
  <2> QED  BY <1>4, <2>2, <2>4
<1>13. ASSUME NEW d \in DOMAIN delivery, Call(d)  PROVE DeliveriesInv'
  <2> DEFINE v == delivery[d]
             w == [v EXCEPT !.rest = Tail(@), !.calls[v.now][Head(v.rest)] = @ + 1]
  <2>1. v \in Delivery /\ DeliveryInv(v, callbacks, list) /\ v.rest # <<>>
    BY <1>1, <1>13 DEF Call
  <2>2. delivery' = [delivery EXCEPT ![d] = w] /\ UNCHANGED registry
    <3>1. UNCHANGED registry
      BY <1>13 DEF Call
    <3>2. delivery' = [delivery EXCEPT
            ![d].rest = Tail(@),
            ![d].calls[delivery[d].now][Head(delivery[d].rest)] = @ + 1]
      BY <1>13 DEF Call
    <3> QED  BY <1>1, <3>1, <3>2
  <2>3. w \in Delivery /\ DeliveryInv(w, callbacks, list)
    BY <2>1, CallKeeps
  <2> HIDE DEF w
  <2> QED  BY <1>4, <2>2, <2>3
<1>14. ASSUME NEW d \in DOMAIN delivery, Delivered(d) \/ Stop(d)  PROVE DeliveriesInv'
  BY <1>5, <1>14 DEF Delivered, Stop
<1>15. ASSUME Connect \/ Lose  PROVE DeliveriesInv'
  BY <1>2, <1>15 DEF Connect, Lose, registry
<1>16. ASSUME NEW n \in 1 .. MaxConnects,
              ResendFails(n) \/ \E s \in Subject : Resend(n, s)
       PROVE  DeliveriesInv'
  BY <1>2, <1>16 DEF ResendFails, Resend, registry
<1>17. ASSUME NEW s \in Subject, NEW k \in Callback, SubscribeSent(s, k)
       PROVE  DeliveriesInv'
  BY <1>2, <1>17 DEF SubscribeSent
<1>18. ASSUME NEW s \in Subject, NEW k \in Callback, SubscribeRaises(s, k) \/ Unsubscribe(s, k)
       PROVE  DeliveriesInv'
  BY <1>6, <1>18 DEF SubscribeRaises, Unsubscribe
<1>19. CASE UNCHANGED vars
  BY <1>2, <1>19 DEF vars, registry
<1> QED
  BY <1>7, <1>8, <1>10, <1>11, <1>12, <1>13, <1>14, <1>15, <1>16, <1>17, <1>18, <1>19
     DEF Next

LEMMA InvDelivers == DeliveriesInv => DeliveredExactly
<1> SUFFICES ASSUME DeliveriesInv, NEW d \in DOMAIN delivery, Complete(d),
                    NEW s \in Subject, NEW k \in Callback
             PROVE  LET n == delivery[d].calls[s][k]
                    IN IF delivery[d].subject \in Instances(s)
                       THEN delivery[d].low[s][k] <= n /\ n <= delivery[d].high[s][k]
                       ELSE n = 0
  BY DEF DeliveredExactly
<1> DEFINE v == delivery[d]
<1>1. v \in Delivery /\ DeliveryInv(v, callbacks, list)
  BY ElementOfSeq, LenProperties DEF DeliveriesInv
<1>2. ~ v.sending /\ v.rest = <<>> /\ v.items = {}
  BY DEF Complete
<1> HIDE DEF v
<1>3. Match(v.subject, s) <=> v.subject \in Instances(s)
  BY <1>1, MatchIsInstance DEF Delivery
<1>4. Planned(v, s, k) = v.calls[s][k]
  <2>1. v.calls[s][k] \in Nat
    BY <1>1 DEF Delivery, Numbers
  <2> QED  BY <1>2, <2>1, CountEmpty DEF Planned
<1>5. IF Match(v.subject, s)
      THEN v.low[s][k] <= Planned(v, s, k) /\ Planned(v, s, k) <= v.high[s][k]
      ELSE Planned(v, s, k) = 0
  BY <1>1, <1>2 DEF DeliveryInv, Reached
<1> QED  BY <1>3, <1>4, <1>5 DEF v

(* A publish that is delivered to the end calls each callback exactly as often as
   it is registered to a subject that stands for the published one, or was at some
   moment of the delivery. *)
THEOREM Delivers == Spec => []DeliveredExactly
<1>1. Init => DeliveriesInv
  <2>1. <<>> \in Seq(Delivery) /\ DOMAIN <<>> = {}
    OBVIOUS
  <2> QED  BY <2>1 DEF Init, DeliveriesInv
<1> QED
  BY <1>1, CallsTypeInit, CallsType, DeliveriesStep, InvDelivers, PTL DEF Spec

===============================================================================
