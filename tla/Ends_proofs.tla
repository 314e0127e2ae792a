----------------------------- MODULE Ends_proofs -----------------------------
(***************************************************************************)
(* Facts about links, their ends, and forests, for any nodes and links.     *)
(* The argument works on cuts.  The set of cuts that a given link does not  *)
(* cross is closed under symmetric difference, so a cut that shows an old   *)
(* link to be a bridge can be repaired, with the cut that separates the     *)
(* ends of the new link, into one that the new link does not cross.         *)
(***************************************************************************)
EXTENDS Ends, TLAPS

-----------------------------------------------------------------------------
(* Forests. *)

(* Symmetric difference of two sets. *)
SymDiff(S, T) == (S \ T) \cup (T \ S)

(* A link crosses the symmetric difference of two cuts exactly when it
   crosses one of the two and not the other. *)
LEMMA CrossesSymDiff ==
  ASSUME NEW S \in SUBSET Node, NEW T \in SUBSET Node, NEW l \in Link
  PROVE  Crosses(l, SymDiff(S, T)) <=> ~ (Crosses(l, S) <=> Crosses(l, T))
BY LinkEndsAssumption DEF Crosses, SymDiff

(* A link that separates two components of a graph can be added to a forest
   without closing a cycle. *)
LEMMA AddKeepsForest ==
  ASSUME NEW L \in SUBSET Link, NEW new \in Link \ L,
         IsForest(L), Separated(new, L)
  PROVE  IsForest(L \cup {new})
<1>1. PICK S \in SUBSET Node : Closed(S, L) /\ Crosses(new, S)
  BY DEF Separated
<1>2. SUFFICES ASSUME NEW l \in L \cup {new}
               PROVE  Separated(l, (L \cup {new}) \ {l})
  BY DEF IsForest
<1>3. CASE l = new
  <2>1. (L \cup {new}) \ {l} = L
    BY <1>3
  <2> QED  BY <1>3, <2>1
<1>4. CASE l \in L
  <2>1. PICK T \in SUBSET Node : Closed(T, L \ {l}) /\ Crosses(l, T)
    BY <1>4 DEF IsForest, Separated
  <2>2. ~ Crosses(l, S)
    BY <1>1, <1>4 DEF Closed
  <2>3. CASE Crosses(new, T)
    <3> DEFINE U == SymDiff(S, T)
    <3>1. U \in SUBSET Node
      BY DEF SymDiff
    <3>2. Crosses(l, U)
      BY <1>4, <2>1, <2>2, CrossesSymDiff
    <3>3. \A k \in L \ {l} : ~ Crosses(k, U)
      BY <1>1, <2>1, CrossesSymDiff DEF Closed
    <3>4. ~ Crosses(new, U)
      BY <1>1, <2>3, CrossesSymDiff
    <3>5. Closed(U, (L \cup {new}) \ {l})
      BY <3>3, <3>4 DEF Closed
    <3> QED  BY <3>1, <3>2, <3>5 DEF Separated
  <2>4. CASE ~ Crosses(new, T)
    <3>1. Closed(T, (L \cup {new}) \ {l})
      BY <2>1, <2>4 DEF Closed
    <3> QED  BY <2>1, <3>1 DEF Separated
  <2> QED  BY <2>3, <2>4
<1> QED  BY <1>2, <1>3, <1>4

(* A subgraph of a forest is a forest. *)
LEMMA SubsetKeepsForest ==
  ASSUME NEW L \in SUBSET Link, NEW K \in SUBSET L, IsForest(L)
  PROVE  IsForest(K)
<1>1. SUFFICES ASSUME NEW l \in K
               PROVE  Separated(l, K \ {l})
  BY DEF IsForest
<1>2. PICK S \in SUBSET Node : Closed(S, L \ {l}) /\ Crosses(l, S)
  BY DEF IsForest, Separated
<1>3. Closed(S, K \ {l})
  BY <1>2 DEF Closed
<1> QED  BY <1>2, <1>3 DEF Separated

-----------------------------------------------------------------------------
(* Ends. *)

LEMMA EndFacts ==
  ASSUME NEW e \in End
  PROVE  /\ e.link \in Link /\ At(e) \in Node
         /\ Peer(e) \in End /\ Peer(e) # e /\ Peer(Peer(e)) = e
         /\ Peer(e).link = e.link
         /\ \/ e.side = "est" /\ e = EstEnd(e.link) /\ At(e) = Est[e.link]
               /\ Peer(e) = AccEnd(e.link)
            \/ e.side = "acc" /\ e = AccEnd(e.link) /\ At(e) = Acc[e.link]
               /\ Peer(e) = EstEnd(e.link)
<1>1. PICK l \in Link, side \in {"est", "acc"} : e = [link |-> l, side |-> side]
  BY DEF End
<1>2. CASE side = "est"
  BY <1>1, <1>2, LinkEndsAssumption DEF End, EstEnd, AccEnd, At, Peer
<1>3. CASE side = "acc"
  BY <1>1, <1>3, LinkEndsAssumption DEF End, EstEnd, AccEnd, At, Peer
<1> QED  BY <1>1, <1>2, <1>3

LEMMA LinkFacts ==
  ASSUME NEW l \in Link
  PROVE  /\ EstEnd(l) \in End /\ AccEnd(l) \in End /\ EstEnd(l) # AccEnd(l)
         /\ EstEnd(l).side = "est" /\ EstEnd(l).link = l
         /\ AccEnd(l).side = "acc" /\ AccEnd(l).link = l
         /\ At(EstEnd(l)) = Est[l] /\ At(AccEnd(l)) = Acc[l]
         /\ Peer(EstEnd(l)) = AccEnd(l) /\ Peer(AccEnd(l)) = EstEnd(l)
BY DEF End, EstEnd, AccEnd, At, Peer

(* Nothing leads out of a closed set, in either direction of a link. *)
LEMMA ClosedByEnds ==
  ASSUME NEW S, NEW L \in SUBSET Link
  PROVE  Closed(S, L) <=> \A e \in End : e.link \in L /\ At(e) \in S => At(Peer(e)) \in S
<1>1. ASSUME Closed(S, L), NEW e \in End, e.link \in L, At(e) \in S  PROVE At(Peer(e)) \in S
  BY <1>1, EndFacts, LinkFacts DEF Closed, Crosses
<1>2. ASSUME \A e \in End : e.link \in L /\ At(e) \in S => At(Peer(e)) \in S,
             NEW l \in L
      PROVE  ~ Crosses(l, S)
  BY <1>2, LinkFacts DEF Crosses
<1> QED  BY <1>1, <1>2 DEF Closed

-----------------------------------------------------------------------------
(* What lies beyond an end. *)

(* The nodes that n is connected to by the links L. *)
Reached(n, L) ==
  { x \in Node : \A S \in SUBSET Node : Closed(S, L) /\ n \in S => x \in S }

(* The nodes on the other side of the link of e. *)
Beyond(e, L) == Reached(At(Peer(e)), L \ {e.link})

LEMMA ReachedFacts ==
  ASSUME NEW n \in Node, NEW L \in SUBSET Link
  PROVE  /\ n \in Reached(n, L) /\ Reached(n, L) \in SUBSET Node
         /\ Closed(Reached(n, L), L)
         /\ \A S \in SUBSET Node : Closed(S, L) /\ n \in S => Reached(n, L) \subseteq S
<1>1. \A S \in SUBSET Node : Closed(S, L) /\ n \in S => Reached(n, L) \subseteq S
  BY DEF Reached
<1>2. ASSUME NEW l \in L, Crosses(l, Reached(n, L))  PROVE FALSE
  <2>1. PICK x \in Node, y \in Node : /\ x \in Reached(n, L) /\ y \notin Reached(n, L)
                                      /\ {x, y} = {Est[l], Acc[l]}
    BY <1>2, LinkEndsAssumption DEF Crosses
  <2>2. PICK S \in SUBSET Node : Closed(S, L) /\ n \in S /\ y \notin S
    BY <2>1 DEF Reached
  <2>3. x \in S
    BY <1>1, <2>1, <2>2
  <2>4. Crosses(l, S)
    BY <2>1, <2>2, <2>3 DEF Crosses
  <2> QED  BY <2>2, <2>4 DEF Closed
<1> QED  BY <1>1, <1>2 DEF Reached, Closed

(* What no link leads out of has all that is reached from inside it. *)
LEMMA ReachedWithin ==
  ASSUME NEW n \in Node, NEW L \in SUBSET Link, NEW S \in SUBSET Node,
         n \in S, \A l \in L : ~ Crosses(l, S)
  PROVE  Reached(n, L) \subseteq S
BY ReachedFacts DEF Closed

(* Over fewer links, less is reached. *)
LEMMA ReachedLess ==
  ASSUME NEW n \in Node, NEW L \in SUBSET Link, NEW K \in SUBSET L
  PROVE  Reached(n, K) \subseteq Reached(n, L)
<1> DEFINE S == Reached(n, L)
<1>1. S \in SUBSET Node /\ n \in S /\ \A l \in L : ~ Crosses(l, S)
  BY ReachedFacts DEF Closed
<1> HIDE DEF S
<1>2. Reached(n, K) \subseteq S
  BY <1>1, ReachedWithin
<1> QED  BY <1>2 DEF S

(* Being reached goes both ways. *)
LEMMA ReachedBack ==
  ASSUME NEW n \in Node, NEW L \in SUBSET Link, NEW m \in Reached(n, L)
  PROVE  n \in Reached(m, L)
<1>1. m \in Node
  BY ReachedFacts
<1> DEFINE R == Reached(m, L)
           S == Node \ R
<1>2. R \in SUBSET Node /\ m \in R /\ Closed(R, L)
  BY <1>1, ReachedFacts
<1>3. S \in SUBSET Node /\ Closed(S, L)
  BY <1>2, LinkEndsAssumption DEF Closed, Crosses
<1> SUFFICES ASSUME n \notin R  PROVE FALSE
  OBVIOUS
<1>4. n \in S /\ m \notin S
  BY <1>2
<1> HIDE DEF S, R
<1>5. Reached(n, L) \subseteq S
  BY <1>3, <1>4, ReachedFacts
<1> QED  BY <1>4, <1>5

LEMMA BeyondFacts ==
  ASSUME NEW L \in SUBSET Link, NEW e \in End
  PROVE  /\ At(Peer(e)) \in Beyond(e, L) /\ Beyond(e, L) \in SUBSET Node
         /\ \A y \in End : y.link \in L /\ y.link # e.link =>
              (At(y) \in Beyond(e, L) <=> At(Peer(y)) \in Beyond(e, L))
         /\ \A S \in SUBSET Node :
              At(Peer(e)) \in S
              /\ (\A y \in End : y.link \in L /\ y.link # e.link /\ At(y) \in S
                                   => At(Peer(y)) \in S)
              => Beyond(e, L) \subseteq S
<1> DEFINE K == L \ {e.link}
           n == At(Peer(e))
<1>1. K \in SUBSET Link /\ n \in Node
  BY EndFacts
<1>2. \A y \in End : y.link \in K <=> y.link \in L /\ y.link # e.link
  OBVIOUS
<1>3. Beyond(e, L) = Reached(n, K)
  BY DEF Beyond
<1> HIDE DEF K, n
<1>4. /\ n \in Reached(n, K) /\ Reached(n, K) \in SUBSET Node
      /\ Closed(Reached(n, K), K)
      /\ \A S \in SUBSET Node : Closed(S, K) /\ n \in S => Reached(n, K) \subseteq S
  BY <1>1, ReachedFacts
<1>5. \A y \in End : y.link \in K =>
        (At(y) \in Reached(n, K) <=> At(Peer(y)) \in Reached(n, K))
  BY <1>1, <1>4, ClosedByEnds, EndFacts
<1>6. ASSUME NEW S \in SUBSET Node, n \in S,
             \A y \in End : y.link \in L /\ y.link # e.link /\ At(y) \in S => At(Peer(y)) \in S
      PROVE  Reached(n, K) \subseteq S
  BY <1>1, <1>2, <1>4, <1>6, ClosedByEnds
<1> QED  BY <1>2, <1>3, <1>4, <1>5, <1>6 DEF n

(* In a forest, nothing is on both sides of a link. *)
LEMMA SidesDisjoint ==
  ASSUME NEW L \in SUBSET Link, IsForest(L), NEW e \in End, e.link \in L
  PROVE  /\ \A n : ~ (n \in Beyond(e, L) /\ n \in Beyond(Peer(e), L))
         /\ At(e) \notin Beyond(e, L)
<1>1. PICK T \in SUBSET Node : Closed(T, L \ {e.link}) /\ Crosses(e.link, T)
  BY DEF IsForest, Separated
<1> DEFINE U == Node \ T
<1>2. U \in SUBSET Node /\ Closed(U, L \ {e.link})
  BY <1>1, LinkEndsAssumption DEF Closed, Crosses
<1>3. At(e) \in Node /\ At(Peer(e)) \in Node /\ Peer(e) \in End /\ Peer(Peer(e)) = e
      /\ Peer(e).link = e.link
  BY EndFacts
<1>4. (At(e) \in T) # (At(Peer(e)) \in T)
  BY <1>1, EndFacts, LinkFacts DEF Crosses
<1>5. \A S \in SUBSET Node : Closed(S, L \ {e.link}) =>
        /\ At(Peer(e)) \in S => Beyond(e, L) \subseteq S
        /\ At(e) \in S => Beyond(Peer(e), L) \subseteq S
  <2> DEFINE K == L \ {e.link}
  <2>1. K \in SUBSET Link /\ Beyond(e, L) = Reached(At(Peer(e)), K)
        /\ Beyond(Peer(e), L) = Reached(At(e), K)
    BY <1>3 DEF Beyond
  <2> HIDE DEF K
  <2>2. \A n \in Node, S \in SUBSET Node : Closed(S, K) /\ n \in S => Reached(n, K) \subseteq S
    BY <2>1, ReachedFacts
  <2> QED  BY <1>3, <2>1, <2>2 DEF K
<1>6. At(e) \in Beyond(Peer(e), L)
  BY <1>3, BeyondFacts
<1>7. \/ Beyond(e, L) \subseteq U /\ Beyond(Peer(e), L) \subseteq T
      \/ Beyond(e, L) \subseteq T /\ Beyond(Peer(e), L) \subseteq U
  <2>1. CASE At(e) \in T
    BY <1>1, <1>2, <1>3, <1>4, <1>5, <2>1
  <2>2. CASE At(e) \notin T
    <3>1. At(Peer(e)) \in T /\ At(e) \in U
      BY <1>3, <1>4, <2>2
    <3> QED  BY <1>1, <1>2, <1>5, <3>1
  <2> QED  BY <2>1, <2>2
<1> QED  BY <1>6, <1>7

(* What is beyond a next end lies beyond the one before, and is less. *)
LEMMA BeyondNext ==
  ASSUME NEW L \in SUBSET Link, IsForest(L),
         NEW x \in End, x.link \in L, NEW y \in End, y.link \in L,
         At(y) = At(Peer(x)), y # Peer(x)
  PROVE  /\ y.link # x.link
         /\ Beyond(y, L) \subseteq Beyond(x, L)
         /\ At(y) \in Beyond(x, L) /\ At(y) \notin Beyond(y, L)
<1> DEFINE S == Beyond(x, L) \ Beyond(Peer(y), L)
<1>1. /\ Peer(x) \in End /\ Peer(y) \in End /\ Peer(Peer(x)) = x /\ Peer(Peer(y)) = y
      /\ Peer(y).link = y.link /\ (x.link = y.link => y = x \/ y = Peer(x))
  BY EndFacts
<1>2. /\ At(x) \notin Beyond(x, L) /\ At(Peer(x)) \in Beyond(x, L)
      /\ At(y) \notin Beyond(y, L) /\ At(y) \in Beyond(Peer(y), L)
      /\ At(Peer(y)) \notin Beyond(Peer(y), L)
      /\ Beyond(x, L) \in SUBSET Node
  BY <1>1, SidesDisjoint, BeyondFacts
<1>3. y.link # x.link
  BY <1>1, <1>2
<1>4. At(Peer(y)) \in Beyond(x, L)
  BY <1>2, <1>3, BeyondFacts
<1>5. ASSUME NEW z \in End, z.link \in L, z.link # y.link, At(z) \in S
      PROVE  At(Peer(z)) \in S
  <2>1. At(Peer(z)) \notin Beyond(Peer(y), L)
    BY <1>1, <1>5, BeyondFacts
  <2>2. z.link # x.link
    <3>1. z.link = x.link => z = x \/ z = Peer(x)
      BY <1>5, EndFacts
    <3> QED  BY <1>2, <1>5, <3>1
  <2>3. At(Peer(z)) \in Beyond(x, L)
    BY <1>5, <2>2, BeyondFacts
  <2> QED  BY <2>1, <2>3
<1>6. S \in SUBSET Node /\ At(Peer(y)) \in S
  BY <1>2, <1>4
<1> HIDE DEF S
<1>7. Beyond(y, L) \subseteq S
  BY <1>5, <1>6, BeyondFacts
<1> QED  BY <1>2, <1>3, <1>7 DEF S

(* Whatever lies beyond x but the peer itself has a link that leads back. *)
LEMMA LeadsBack ==
  ASSUME NEW L \in SUBSET Link, NEW x \in End,
         NEW n \in Beyond(x, L), n # At(Peer(x))
  PROVE  \E v \in End : /\ v.link \in L /\ v.link # x.link /\ At(v) = n
                        /\ At(Peer(x)) \in Beyond(v, L)
<1> SUFFICES ASSUME \A v \in End : v.link \in L /\ v.link # x.link /\ At(v) = n
                                     => At(Peer(x)) \notin Beyond(v, L)
             PROVE  FALSE
  OBVIOUS
<1> DEFINE K == L \ {x.link}
           Off(v) == v.link \in K /\ At(v) = n
           S == { m \in Node : m # n /\ \A v \in End : Off(v) => m \notin Beyond(v, L) }
<1>1. S \in SUBSET Node /\ At(Peer(x)) \in S /\ n \notin S
  BY EndFacts
<1>2. ASSUME NEW z \in End, z.link \in L, z.link # x.link, At(z) \in S
      PROVE  At(Peer(z)) \in S
  <2>1. At(Peer(z)) \in Node /\ Peer(z) \in End /\ Peer(Peer(z)) = z /\ Peer(z).link = z.link
    BY EndFacts
  <2>2. At(Peer(z)) # n
    <3>1. SUFFICES ASSUME At(Peer(z)) = n PROVE FALSE
      OBVIOUS
    <3>2. Off(Peer(z)) /\ At(z) \in Beyond(Peer(z), L)
      BY <1>2, <2>1, <3>1, BeyondFacts
    <3> QED  BY <1>2, <2>1, <3>2
  <2>3. ASSUME NEW v \in End, Off(v)  PROVE At(Peer(z)) \notin Beyond(v, L)
    <3>1. At(z) \notin Beyond(v, L)
      BY <1>2, <2>3
    <3>2. CASE z.link # v.link
      BY <1>2, <3>1, <3>2, BeyondFacts
    <3>3. CASE z.link = v.link
      <4>1. z = v \/ z = Peer(v)
        BY <3>3, EndFacts
      <4>2. z # v
        BY <1>2, <2>3
      <4>3. At(z) \in Beyond(v, L)
        BY <4>1, <4>2, BeyondFacts
      <4> QED  BY <3>1, <4>3
    <3> QED  BY <3>2, <3>3
  <2> HIDE DEF Off
  <2> QED  BY <2>1, <2>2, <2>3
<1> HIDE DEF S
<1>3. Beyond(x, L) \subseteq S
  BY <1>1, <1>2, BeyondFacts
<1> QED  BY <1>1, <1>3
=============================================================================
