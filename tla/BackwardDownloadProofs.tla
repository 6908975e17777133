------------------------ MODULE BackwardDownloadProofs ------------------------
(***************************************************************************)
(* For every length of the chain, number of peers, batch size and degree   *)
(* of parallelism: what the backward block downloader feeds is complete as *)
(* long as no more than half of the peers have failed, and Synced means    *)
(* that the blocks asked for are there.                                    *)
(***************************************************************************)
EXTENDS BackwardDownload, FiniteSetTheorems, TLAPS

\* What the proofs need of the types.
ConsumerShape ==
  consumer \in [at : {"next", "insert", "exec", "update", "tip", "validate", "Idle", "Synced"},
                blocks : SUBSET (1..Hash), unexecuted : Nat]

Shape ==
  /\ exhausted \subseteq Peers
  /\ producer \in Producer
  /\ producer.at \in {"load", "bodies", "feed"} => producer.low <= Hash
  /\ producer.at \in {"bodies", "feed"} => producer.parts >= 1

\* The inductive invariant behind BatchIsComplete: the peers of a round are
\* distinct and have not failed yet, and unless most have failed there is one for
\* each part that is open.
PeersInv ==
  producer.at = "bodies" =>
    /\ \A i \in DOMAIN producer.available : producer.available[i] \notin exhausted
    /\ \A i, j \in DOMAIN producer.available :
         producer.available[i] = producer.available[j] => i = j

RoundInv ==
  producer.at = "bodies" /\ MostPeersServe => Cardinality(Open) <= Len(producer.available)

\* The inductive invariant behind SyncedMeansHave: the feed ends after the block
\* that was asked for, and the tip is not inserted without it.
Received == known \cup (IF consumer.at = "insert" THEN consumer.blocks ELSE {})

FeedInv ==
  /\ cancelled <=> consumer.at \in {"tip", "validate", "Idle", "Synced"}
  /\ producer.at \in {"end", "closed"} /\ ~cancelled /\ ~stopping /\ MostPeersServe =>
       Hash \in Received
  /\ consumer.at \in {"tip", "validate", "Synced"} => producer.at = "closed"
  /\ consumer.at \in {"tip", "validate"} => trigger # "fcu"
  /\ consumer.at = "validate" => {Hash, Tip} \subseteq known
  /\ SyncedMeansHave

-----------------------------------------------------------------------------
(* Whole numbers.                                                          *)
LEMMA DivIs ==
  ASSUME NEW a \in Nat, NEW b \in Nat \ {0}
  PROVE  /\ a \div b \in Nat /\ b * (a \div b) <= a /\ a < b * (a \div b) + b
  OBVIOUS

(* The remainder, of numbers below twice the divisor.                      *)
LEMMA ModIs ==
  ASSUME NEW a \in Nat, NEW b \in Nat \ {0}
  PROVE  /\ a % b \in 0..(b - 1)
         /\ a < b => a % b = a
         /\ b <= a /\ a < 2 * b => a % b = a - b
  OBVIOUS

(* A product grows with its factor.                                        *)
LEMMA Multiply ==
  ASSUME NEW x \in Nat, NEW y \in Nat, NEW z \in Nat, x <= y
  PROVE  z * x <= z * y
  OBVIOUS

(* CeilDiv rounds up.                                                      *)
LEMMA CeilIs ==
  ASSUME NEW c \in Nat \ {0}, NEW b \in Nat \ {0}
  PROVE  /\ CeilDiv(c, b) \in Nat \ {0}
         /\ c <= b * CeilDiv(c, b)
         /\ b * CeilDiv(c, b) < c + b
<1> DEFINE a == c + b - 1
           q == a \div b
<1>1. a \in Nat
  OBVIOUS
<1>2. q \in Nat /\ b * q <= a /\ a < b * q + b
  BY <1>1, DivIs
<1>3. CeilDiv(c, b) = q
  BY DEF CeilDiv
<1> HIDE DEF q
<1>4. q # 0
  BY <1>2
<1> QED
  BY <1>2, <1>3, <1>4

(* No more parts than peers, however the headers are split.                *)
LEMMA PartsFit ==
  ASSUME NEW c \in Nat \ {0}, NEW n \in Nat \ {0}
  PROVE  CeilDiv(c, CeilDiv(c, n)) \in 1..n
<1> DEFINE s == CeilDiv(c, n)
           p == CeilDiv(c, s)
<1>1. s \in Nat \ {0} /\ c <= n * s
  BY CeilIs
<1>2. p \in Nat \ {0} /\ s * p < c + s
  BY <1>1, CeilIs, Zenon
<1> HIDE DEF s, p
<1>3. ASSUME p > n PROVE FALSE
  <2>1. n + 1 <= p /\ n + 1 \in Nat
    BY <1>2, <1>3
  <2>2. s * (n + 1) <= s * p
    BY <1>1, <1>2, <2>1, Multiply
  <2>3. s * (n + 1) = n * s + s
    BY <1>1
  <2>4. n * s \in Nat /\ s * p \in Nat
    BY <1>1, <1>2
  <2> QED
    BY <1>1, <1>2, <2>2, <2>3, <2>4
<1> QED
  BY <1>2, <1>3 DEF s, p

(* The last header of a batch is in its last part.                         *)
LEMMA LastPart ==
  ASSUME NEW c \in Nat \ {0}, NEW n \in Nat \ {0}
  PROVE  ((c - 1) \div CeilDiv(c, n)) + 1 \in 1..n
<1> DEFINE s == CeilDiv(c, n)
           q == (c - 1) \div s
<1>1. s \in Nat \ {0} /\ c <= n * s
  BY CeilIs
<1>2. q \in Nat /\ s * q <= c - 1
  BY <1>1, DivIs
<1> HIDE DEF s, q
<1>3. ASSUME q >= n PROVE FALSE
  <2>1. s * n <= s * q
    BY <1>1, <1>2, <1>3, Multiply
  <2>2. s * n = n * s /\ n * s \in Nat /\ s * q \in Nat
    BY <1>1, <1>2
  <2> QED
    BY <1>1, <1>2, <2>1, <2>2
<1> QED
  BY <1>2, <1>3 DEF s, q

-----------------------------------------------------------------------------
(* A non-empty set of numbers has a least one.                             *)
LEMMA LeastOf ==
  ASSUME NEW S \in SUBSET Nat, S # {}
  PROVE  \E n \in S : \A m \in S : n <= m
<1>1. PICK n \in S : \A m \in S : ~(<<m, n>> \in OpToRel(<, Nat))
  BY NatLessThanWellFounded, WFMin, Zenon
<1>2. \A m \in S : ~(m < n)
  BY <1>1, Zenon DEF OpToRel
<1> QED
  BY <1>2

(* A bounded set of numbers has a greatest one.                            *)
LEMMA GreatestOf ==
  ASSUME NEW b \in Nat, NEW S \in SUBSET 0..b, S # {}
  PROVE  Max(S) \in S
<1> DEFINE T == {b - x : x \in S}
<1>0. \A x \in S : x \in 0..b /\ b - x \in Nat
  OBVIOUS
<1>1. T \in SUBSET Nat /\ T # {}
  BY <1>0, Zenon
<1>2. PICK t \in T : \A y \in T : t <= y
  BY <1>1, LeastOf, Zenon
<1>3. PICK n \in S : t = b - n
  BY <1>2, Zenon
<1>4. \A x \in S : b - n <= b - x
  BY <1>2, <1>3, Zenon
<1>5. \A x \in S : n >= x
  BY <1>0, <1>4
<1> QED
  BY <1>5, Zenon DEF Max

(* The peers: their number, and those that have not failed.                *)
LEMMA PeersAre ==
  /\ IsFiniteSet(Peers) /\ Cardinality(Peers) = PeerCount
  /\ PeerCount \in Nat \ {0}
  /\ \A E \in SUBSET Peers :
       /\ IsFiniteSet(E) /\ Cardinality(E) \in Nat /\ IsFiniteSet(Peers \ E)
       /\ Cardinality(Peers \ E) = PeerCount - Cardinality(E)
       /\ Cardinality(E) <= PeerCount
       /\ Cardinality(E) = PeerCount => E = Peers
<1>0. PeerCount \in Nat \ {0} /\ PeerCount > 0 /\ PeerCount - 1 \in Int
  BY BackwardAssumption
<1>1. IsFiniteSet(Peers) /\ Cardinality(Peers) = PeerCount
  <2>1. IsFiniteSet(0..(PeerCount - 1))
        /\ Cardinality(0..(PeerCount - 1)) = IF 0 > PeerCount - 1 THEN 0 ELSE PeerCount - 1 - 0 + 1
    BY <1>0, FS_Interval
  <2> QED
    BY <1>0, <2>1 DEF Peers
<1>2. ASSUME NEW E \in SUBSET Peers
      PROVE  /\ IsFiniteSet(E) /\ Cardinality(E) \in Nat /\ IsFiniteSet(Peers \ E)
             /\ Cardinality(Peers \ E) = PeerCount - Cardinality(E)
             /\ Cardinality(E) <= PeerCount
             /\ Cardinality(E) = PeerCount => E = Peers
  <2>1. IsFiniteSet(E) /\ Cardinality(E) <= PeerCount
        /\ (Cardinality(Peers) = Cardinality(E) => Peers = E)
    BY <1>1, FS_Subset
  <2>2. IsFiniteSet(Peers \ E)
    BY <1>1, FS_Subset
  <2>3. Cardinality(E) \in Nat /\ Cardinality(Peers \ E) \in Nat
    BY <2>1, <2>2, FS_CardinalityType
  <2>4. Cardinality(E \cup (Peers \ E)) =
          Cardinality(E) + Cardinality(Peers \ E) - Cardinality(E \cap (Peers \ E))
    BY <2>1, <2>2, FS_Union
  <2>5. E \cup (Peers \ E) = Peers /\ E \cap (Peers \ E) = {}
    OBVIOUS
  <2>6. PeerCount = Cardinality(E) + Cardinality(Peers \ E) - 0
    BY <1>1, <2>4, <2>5, FS_EmptySet
  <2>7. Cardinality(Peers \ E) = PeerCount - Cardinality(E)
    BY <1>0, <2>3, <2>6
  <2> QED
    BY <1>1, <2>1, <2>2, <2>3, <2>7
<1> QED
  BY <1>0, <1>1, <1>2, Zenon

(* The rotation visits each peer once.                                     *)
LEMMA DistanceIs ==
  ASSUME NEW index \in Peers, NEW p \in Peers, NEW q \in Peers
  PROVE  /\ Distance(index, p) \in Nat
         /\ Distance(index, p) = Distance(index, q) => p = q
<1>1. /\ PeerCount \in Nat \ {0} /\ index \in Nat /\ p \in Nat /\ q \in Nat
      /\ index < PeerCount /\ p < PeerCount /\ q < PeerCount
  BY BackwardAssumption DEF Peers
<1>2. ASSUME NEW r \in Nat, r < PeerCount
      PROVE  /\ Distance(index, r) \in Nat
             /\ r >= index => Distance(index, r) = r - index
             /\ r < index => Distance(index, r) = r - index + PeerCount
  <2> DEFINE a == r - index + PeerCount
  <2>1. a \in Nat /\ a < 2 * PeerCount
    BY <1>1, <1>2
  <2>2. /\ a % PeerCount \in 0..(PeerCount - 1)
        /\ a < PeerCount => a % PeerCount = a
        /\ PeerCount <= a /\ a < 2 * PeerCount => a % PeerCount = a - PeerCount
    BY <1>1, <2>1, ModIs, Zenon
  <2>3. Distance(index, r) = a % PeerCount
    BY DEF Distance
  <2>4. Distance(index, r) \in Nat
    BY <1>1, <2>2, <2>3
  <2>5. r >= index => PeerCount <= a /\ a - PeerCount = r - index
    BY <1>1, <1>2
  <2>6. r < index => a < PeerCount
    BY <1>1, <1>2
  <2> QED
    BY <2>1, <2>2, <2>3, <2>4, <2>5, <2>6
<1>3. Distance(index, p) \in Nat /\ Distance(index, q) \in Nat
  BY <1>1, <1>2
<1>4. ASSUME Distance(index, p) = Distance(index, q) PROVE p = q
  BY <1>1, <1>2, <1>4
<1> QED
  BY <1>3, <1>4

\* The peers that have not failed, in the rotation from index up to p.
UpTo(E, index, p) == {q \in Peers \ E : Distance(index, q) <= Distance(index, p)}

(* It is a finite set of serving peers that ends with p.                   *)
LEMMA UpToIs ==
  ASSUME NEW E \in SUBSET Peers, NEW index \in Peers, NEW p \in Peers \ E
  PROVE  /\ IsFiniteSet(UpTo(E, index, p)) /\ p \in UpTo(E, index, p)
         /\ UpTo(E, index, p) \in SUBSET (Peers \ E)
         /\ Cardinality(UpTo(E, index, p)) \in Nat
<1>1. Distance(index, p) \in Nat
  BY DistanceIs
<1>2. p \in UpTo(E, index, p) /\ UpTo(E, index, p) \in SUBSET (Peers \ E)
  BY <1>1 DEF UpTo
<1>3. IsFiniteSet(Peers \ E)
  BY PeersAre, Zenon
<1>4. IsFiniteSet(UpTo(E, index, p))
  BY <1>2, <1>3, FS_Subset
<1> QED
  BY <1>2, <1>4, FS_CardinalityType

(* Of the peers that have not failed there is a k-th one, for each k up to *)
(* their number: the least k without one has none before it either.        *)
LEMMA RankedPeer ==
  ASSUME NEW E \in SUBSET Peers, NEW index \in Peers
  PROVE  \A k \in 1..(PeerCount - Cardinality(E)) :
           \E p \in Peers \ E : Cardinality(UpTo(E, index, p)) = k
<1> DEFINE n == PeerCount - Cardinality(E)
           T == {k \in 1..n : ~ \E p \in Peers \ E : Cardinality(UpTo(E, index, p)) = k}
<1>0. n \in Nat /\ IsFiniteSet(Peers \ E) /\ Cardinality(Peers \ E) = n
  BY PeersAre
<1>d. \A p \in Peers \ E : Distance(index, p) \in Nat
  BY DistanceIs
<1> SUFFICES ASSUME T # {} PROVE FALSE
  BY Zenon
<1>1. T \in SUBSET Nat
  BY <1>0
<1>2. PICK k \in T : \A m \in T : k <= m
  BY <1>1, LeastOf, Zenon
<1>3. k \in Nat /\ k >= 1 /\ k <= n
  BY <1>0, <1>2
<1> HIDE DEF n
\* The nearest of some peers comes right after the peers that are nearer.
<1>4. ASSUME NEW S \in SUBSET (Peers \ E), S # {}
      PROVE  \E p \in S : \A q \in S : Distance(index, p) <= Distance(index, q)
  <2> DEFINE D == {Distance(index, q) : q \in S}
  <2>1. D \in SUBSET Nat /\ D # {}
    BY <1>d, <1>4, Zenon
  <2>2. PICK d \in D : \A m \in D : d <= m
    BY <2>1, LeastOf, Zenon
  <2> QED
    BY <2>2, Zenon
<1>5. CASE k = 1
  <2>1. Peers \ E # {}
    BY <1>0, <1>3, FS_EmptySet
  <2>2. PICK p \in Peers \ E : \A q \in Peers \ E : Distance(index, p) <= Distance(index, q)
    BY <1>4, <2>1, Zenon
  <2>3. ASSUME NEW q \in UpTo(E, index, p) PROVE q = p
    <3>1. q \in Peers \ E /\ Distance(index, q) <= Distance(index, p)
      BY <2>3, Zenon DEF UpTo
    <3>2. Distance(index, q) = Distance(index, p)
      BY <1>d, <2>2, <3>1
    <3> QED
      BY <3>1, <3>2, DistanceIs
  <2>4. UpTo(E, index, p) = {p}
    <3>1. p \in UpTo(E, index, p)
      BY UpToIs
    <3> QED
      BY <2>3, <3>1, Zenon
  <2>5. Cardinality(UpTo(E, index, p)) = 1
    BY <2>4, FS_Singleton
  <2> QED
    BY <1>2, <1>5, <2>5, Zenon
<1>6. CASE k # 1
  <2>1. k - 1 \in 1..n /\ k - 1 \notin T
    BY <1>0, <1>2, <1>3, <1>6
  <2>2. PICK p \in Peers \ E : Cardinality(UpTo(E, index, p)) = k - 1
    BY <2>1, Zenon
  <2> DEFINE S == (Peers \ E) \ UpTo(E, index, p)
  <2>3. S # {}
    <3> SUFFICES ASSUME S = {} PROVE FALSE
      OBVIOUS
    <3>1. UpTo(E, index, p) = Peers \ E
      BY UpToIs
    <3> QED
      BY <1>0, <1>3, <2>2, <3>1
  <2>4. PICK q \in S : \A r \in S : Distance(index, q) <= Distance(index, r)
    BY <1>4, <2>3, Zenon
  <2>5. Distance(index, p) < Distance(index, q)
    BY <1>d, <2>4 DEF UpTo
  <2>6. ASSUME NEW r \in Peers \ E
        PROVE  r \in UpTo(E, index, q) <=> r \in UpTo(E, index, p) \/ r = q
    <3>1. CASE r \in UpTo(E, index, p)
      BY <1>d, <2>5, <3>1 DEF UpTo
    <3>2. CASE r \in S
      <4>1. Distance(index, q) <= Distance(index, r)
        BY <2>4, <3>2
      <4>2. Distance(index, r) <= Distance(index, q) => r = q
        BY <1>d, <4>1, DistanceIs
      <4> QED
        BY <1>d, <3>2, <4>2 DEF UpTo
    <3> QED
      BY <3>1, <3>2
  <2>7. UpTo(E, index, q) = UpTo(E, index, p) \cup {q}
    <3>1. UpTo(E, index, p) \in SUBSET (Peers \ E) /\ UpTo(E, index, q) \in SUBSET (Peers \ E)
      BY <2>4, UpToIs
    <3>2. q \in Peers \ E
      BY <2>4
    <3> QED
      BY <2>6, <3>1, <3>2, Zenon
  <2>8. Cardinality(UpTo(E, index, q)) = Cardinality(UpTo(E, index, p)) + 1
    BY <2>4, <2>7, UpToIs, FS_AddElement, Zenon
  <2>9. Cardinality(UpTo(E, index, q)) = k
    BY <1>3, <2>2, <2>8
  <2> QED
    BY <1>2, <2>4, <2>9, Zenon
<1> QED
  BY <1>5, <1>6

(* nextAvailablePeer: the k-th peer of the rotation that has not failed.   *)
LEMMA AvailablePeerIs ==
  ASSUME NEW E \in SUBSET Peers, NEW index \in Peers, NEW k \in 1..(PeerCount - Cardinality(E))
  PROVE  /\ AvailablePeer(E, index, k) \in Peers \ E
         /\ Cardinality(UpTo(E, index, AvailablePeer(E, index, k))) = k
<1>1. \A j \in 1..(PeerCount - Cardinality(E)) :
        \E p \in Peers \ E : Cardinality(UpTo(E, index, p)) = j
  BY RankedPeer
<1>2. \E p \in Peers \ E : Cardinality(UpTo(E, index, p)) = k
  BY <1>1, Zenon
<1> QED
  BY <1>2, Zenon DEF AvailablePeer, UpTo

(* The smaller of two numbers.                                             *)
LEMMA MinIs ==
  ASSUME NEW a \in Int, NEW b \in Int
  PROVE  Min({a, b}) = IF a <= b THEN a ELSE b
<1>1. CASE a <= b
  <2>1. \A y \in {a, b} : a <= y
    BY <1>1
  <2>2. \A x \in {a, b} : (\A y \in {a, b} : x <= y) => x = a
    BY <1>1
  <2>3. Min({a, b}) = a
    BY <2>1, <2>2, Zenon DEF Min
  <2> QED
    BY <1>1, <2>3
<1>2. CASE ~(a <= b)
  <2>1. \A y \in {a, b} : b <= y
    BY <1>2
  <2>2. \A x \in {a, b} : (\A y \in {a, b} : x <= y) => x = b
    BY <1>2
  <2>3. Min({a, b}) = b
    BY <2>1, <2>2, Zenon DEF Min
  <2> QED
    BY <1>2, <2>3
<1> QED
  BY <1>1, <1>2

(* The rotation goes on at a peer.                                         *)
LEMMA AfterIs ==
  ASSUME NEW p \in Peers
  PROVE  After(p) \in Peers
<1>1. p + 1 \in Nat /\ PeerCount \in Nat \ {0}
  BY PeersAre DEF Peers
<1>2. (p + 1) % PeerCount \in 0..(PeerCount - 1)
  BY <1>1, ModIs, Zenon
<1> QED
  BY <1>2 DEF After, Peers

(* nextAvailablePeers gives distinct peers that have not failed: as many   *)
(* as were asked for, or all there are.                                    *)
Serving(s, E, n) ==
  /\ s \in Seq(Peers) /\ Len(s) \in 1..n
  /\ n <= PeerCount - Cardinality(E) => Len(s) = n
  /\ \A i \in DOMAIN s : s[i] \notin E
  /\ \A i, j \in DOMAIN s : s[i] = s[j] => i = j

(* nextAvailablePeers: distinct peers that have not failed, all there are or n. *)
LEMMA NextPeersAre ==
  ASSUME NEW E \in SUBSET Peers, E # Peers, NEW index \in Peers, NEW n \in Nat \ {0}
  PROVE  Serving(NextAvailablePeers(E, index, n), E, n) /\ IndexAfter(E, index, n) \in Peers
<1> DEFINE s == NextAvailablePeers(E, index, n)
<1> DEFINE left == PeerCount - Cardinality(E)
           m == Min({n, left})
<1>1. left \in Nat \ {0}
  <2>1. /\ Cardinality(E) \in Nat /\ Cardinality(E) <= PeerCount /\ Cardinality(E) # PeerCount
        /\ PeerCount \in Nat
    BY PeersAre, Zenon
  <2> QED
    BY <2>1
<1>2. m \in 1..n /\ m \in 1..left /\ (n <= left => m = n)
  <2>1. m = IF n <= left THEN n ELSE left
    BY <1>1, MinIs
  <2> QED
    BY <1>1, <2>1
<1>3. ASSUME NEW k \in 1..m
      PROVE  /\ AvailablePeer(E, index, k) \in Peers \ E
             /\ Cardinality(UpTo(E, index, AvailablePeer(E, index, k))) = k
  <2>1. k \in 1..left
    BY <1>1, <1>2
  <2> QED
    BY <2>1, AvailablePeerIs, Zenon
<1>4. s = [k \in 1..m |-> AvailablePeer(E, index, k)]
  BY Zenon DEF NextAvailablePeers
<1>5. m \in Nat
  BY <1>2
<1>6. After(AvailablePeer(E, index, IF n <= left THEN n ELSE 1)) \in Peers
  <2> DEFINE k == IF n <= left THEN n ELSE 1
  <2>1. k \in 1..left
    BY <1>1
  <2> DEFINE p == AvailablePeer(E, index, k)
  <2>2. p \in Peers
    BY <2>1, AvailablePeerIs, Zenon
  <2> QED
    BY <2>2, AfterIs, Zenon
<1> HIDE DEF m, s
<1>7. DOMAIN s = 1..m /\ \A i \in 1..m : s[i] = AvailablePeer(E, index, i)
  BY <1>4
<1>8. s \in Seq(Peers) /\ Len(s) = m
  <2>1. s \in [1..m -> Peers]
    BY <1>3, <1>4, Zenon
  <2> QED
    BY <1>5, <2>1
<1>9. \A i \in 1..m : s[i] \notin E /\ Cardinality(UpTo(E, index, s[i])) = i
  BY <1>3, <1>7, Zenon
<1>10. \A i, j \in 1..m : s[i] = s[j] => i = j
  BY <1>9
<1> QED
  BY <1>2, <1>6, <1>7, <1>8, <1>9, <1>10, Zenon DEF IndexAfter, Serving, s

-----------------------------------------------------------------------------
(* The parts that are open, in order.                                      *)
LEMMA OpenIs ==
  ASSUME producer \in Producer, NEW S \in SUBSET Open
  PROVE  S \in SUBSET Nat /\ IsFiniteSet(S) /\ Cardinality(S) \in Nat
<1>1. producer.parts \in Nat
  BY BackwardAssumption DEF Producer
<1>2. IsFiniteSet(1..producer.parts)
  BY <1>1, FS_Interval
<1>3. S \in SUBSET (1..producer.parts)
  BY DEF Open
<1>4. IsFiniteSet(S)
  BY <1>2, <1>3, FS_Subset, Zenon
<1> QED
  BY <1>1, <1>3, <1>4, FS_CardinalityType

Rank(b) == Cardinality({a \in Open : a <= b})

(* Open parts are numbered from 1, each differently.                       *)
LEMMA RankIs ==
  ASSUME producer \in Producer, NEW b \in Open
  PROVE  /\ Rank(b) \in Nat \ {0} /\ Rank(b) <= Cardinality(Open)
         /\ \A a \in Open : Rank(a) = Rank(b) => a = b
<1> DEFINE Below(x) == {a \in Open : a <= x}
<1>1. /\ Open \in SUBSET Nat /\ IsFiniteSet(Open) /\ Cardinality(Open) \in Nat
      /\ \A x \in Open : IsFiniteSet(Below(x)) /\ Cardinality(Below(x)) \in Nat
  BY OpenIs
<1>2. ASSUME NEW x \in Open PROVE x \in Below(x) /\ Rank(x) = Cardinality(Below(x))
  BY <1>1, <1>2 DEF Rank
<1>3. Rank(b) # 0
  <2>1. Below(b) # {}
    BY <1>2, Zenon
  <2> QED
    BY <1>1, <1>2, <2>1, FS_EmptySet, Zenon
<1>4. Rank(b) <= Cardinality(Open)
  <2>1. Below(b) \in SUBSET Open
    BY Zenon
  <2>2. Cardinality(Below(b)) <= Cardinality(Open)
    BY <1>1, <2>1, FS_Subset
  <2>3. Rank(b) = Cardinality(Below(b))
    BY <1>2, Zenon
  <2> QED
    BY <2>2, <2>3, Zenon
<1>5. ASSUME NEW x \in Open, NEW y \in Open, x < y PROVE Rank(x) # Rank(y)
  <2>1. Below(x) \in SUBSET Below(y) /\ y \notin Below(x)
    <3>1. \A a \in Open : a <= x => a <= y
      BY <1>1, <1>5
    <3>2. ~(y <= x)
      BY <1>1, <1>5
    <3> QED
      BY <3>1, <3>2, Zenon
  <2> QED
    BY <1>1, <1>2, <2>1, FS_Subset, Zenon
<1>6. ASSUME NEW a \in Open, Rank(a) = Rank(b) PROVE a = b
  <2>1. ~(a < b) /\ ~(b < a)
    BY <1>5, <1>6, Zenon
  <2> QED
    BY <1>1, <2>1
<1> QED
  BY <1>1, <1>2, <1>3, <1>4, <1>6, Zenon

(* Each part of a round has its own peer.                                  *)
LEMMA AssignedIs ==
  ASSUME Shape, PeersInv, producer.at = "bodies"
  PROVE  /\ Assigned \in SUBSET Open
         /\ \A b \in Assigned : PeerOf(b) \in Peers \ exhausted
         /\ \A a, b \in Assigned : PeerOf(a) = PeerOf(b) => a = b
         /\ Cardinality(Open) <= Len(producer.available) => Assigned = Open
<1>0. producer \in Producer
  BY DEF Shape
<1>1. producer.available \in Seq(Peers)
  BY <1>0 DEF Producer
<1>2. /\ Len(producer.available) \in Nat
      /\ DOMAIN producer.available = 1..Len(producer.available)
      /\ \A i \in DOMAIN producer.available : producer.available[i] \in Peers
  BY <1>1
<1>3. Assigned = {b \in Open : Rank(b) <= Len(producer.available)}
      /\ \A b : PeerOf(b) = producer.available[Rank(b)]
  BY Zenon DEF Assigned, PeerOf, Rank
<1>4. ASSUME NEW b \in Assigned PROVE Rank(b) \in DOMAIN producer.available
  <2>1. Rank(b) \in Nat \ {0} /\ Rank(b) <= Len(producer.available)
    BY <1>0, <1>3, RankIs
  <2> QED
    BY <1>2, <2>1
<1>5. \A b \in Assigned : PeerOf(b) \in Peers \ exhausted
  BY <1>2, <1>3, <1>4, Zenon DEF PeersInv
<1>6. ASSUME NEW a \in Assigned, NEW b \in Assigned, PeerOf(a) = PeerOf(b) PROVE a = b
  <2>1. Rank(a) = Rank(b)
    BY <1>3, <1>4, <1>6, Zenon DEF PeersInv
  <2>2. a \in Open /\ b \in Open
    BY <1>3, Zenon
  <2> QED
    BY <1>0, <2>1, <2>2, RankIs
<1>7. ASSUME Cardinality(Open) <= Len(producer.available), NEW b \in Open
      PROVE  Rank(b) <= Len(producer.available)
  <2>1. Rank(b) \in Nat /\ Rank(b) <= Cardinality(Open)
    BY <1>0, RankIs
  <2>2. Cardinality(Open) \in Nat
    BY <1>0, OpenIs
  <2> QED
    BY <1>2, <1>7, <2>1, <2>2
<1> QED
  BY <1>3, <1>5, <1>6, <1>7, Zenon

(* As many peers as parts failed in a round are exhausted after it.        *)
LEMMA FailedPeers ==
  ASSUME Shape, PeersInv, producer.at = "bodies", NEW failed \in SUBSET Assigned,
         NEW E, E = exhausted \cup {PeerOf(b) : b \in failed}
  PROVE  /\ E \in SUBSET Peers /\ exhausted \subseteq E
         /\ Cardinality(E) \in Nat /\ Cardinality(failed) \in Nat
         /\ Cardinality(failed) <= Cardinality(E)
         /\ Cardinality(exhausted) \in Nat /\ Cardinality(exhausted) <= Cardinality(E)
         /\ failed # {} => Cardinality(failed) # 0
<1>1. producer \in Producer /\ exhausted \subseteq Peers
  BY DEF Shape
<1>2. E \in SUBSET Peers /\ exhausted \in SUBSET E
  BY <1>1, AssignedIs, Zenon
<1>3. IsFiniteSet(E) /\ Cardinality(E) \in Nat /\ Cardinality(exhausted) \in Nat
  BY <1>1, <1>2, PeersAre, Zenon
<1>4. failed \in SUBSET Open
  BY AssignedIs, Zenon
<1>5. IsFiniteSet(failed) /\ Cardinality(failed) \in Nat
  BY <1>1, <1>4, OpenIs, Zenon
<1>6. [b \in failed |-> PeerOf(b)] \in Injection(failed, E)
  <2>1. [b \in failed |-> PeerOf(b)] \in [failed -> E]
    BY Zenon
  <2>2. \A a, b \in failed : PeerOf(a) = PeerOf(b) => a = b
    BY AssignedIs, Zenon
  <2> QED
    BY <2>1, <2>2, Zenon DEF Injection, IsInjective
<1>7. Cardinality(failed) <= Cardinality(E)
  BY <1>3, <1>6, FS_Injection, Zenon
<1>8. Cardinality(exhausted) <= Cardinality(E)
  BY <1>2, <1>3, FS_Subset, Zenon
<1> QED
  BY <1>2, <1>3, <1>5, <1>7, <1>8, FS_EmptySet, Zenon

-----------------------------------------------------------------------------
(* The fields of the producer after a step.                                *)
LEMMA ProducerIs ==
  ASSUME Shape
  PROVE  /\ producer \in Producer /\ exhausted \in SUBSET Peers
         /\ producer.index \in Peers /\ producer.last \in 1..Hash /\ producer.low \in 1..(Hash + 1)
         /\ producer.parts \in 0..BlocksBatchSize /\ producer.available \in Seq(Peers)
         /\ producer.got \in SUBSET (1..BlocksBatchSize)
  BY DEF Shape, Producer

(* A step of the producer that only changes its place.                     *)
LEMMA ProducerGoesIs ==
  ASSUME Shape, NEW place, ProducerGoes(place)
  PROVE  /\ producer'.at = place /\ producer'.low = producer.low
         /\ producer'.parts = producer.parts /\ producer'.got = producer.got
         /\ producer'.available = producer.available
<1>1. producer \in Producer
  BY ProducerIs
<1> QED
  BY <1>1 DEF Producer, ProducerGoes

(* ... is one between states of its type.                                  *)
LEMMA ProducerGoesTyped ==
  ASSUME Shape, ProducerGoes("headers") \/ ProducerGoes("error") \/ ProducerGoes("closed")
  PROVE  producer' \in Producer /\ producer'.at \in {"headers", "error", "closed"}
<1>1. producer \in Producer
  BY ProducerIs
<1>2. ASSUME NEW place \in {"headers", "error", "closed"},
             producer' = [producer EXCEPT !.at = place]
      PROVE  producer' \in Producer
  <2>1. place \in {"initial", "headers", "load", "bodies", "feed", "end", "error", "closed"}
    BY <1>2
  <2> QED
    BY <1>1, <1>2, <2>1, Zenon DEF Producer
<1>3. producer' \in Producer
  BY <1>2, Zenon DEF ProducerGoes
<1> QED
  BY <1>3, ProducerGoesIs

(* A batch of headers ends with the last header or is a full one.          *)
LEMMA HighIs ==
  ASSUME Shape, producer.low <= Hash
  PROVE  /\ High \in Nat /\ producer.low <= High /\ High <= Hash
         /\ Count \in 1..BlocksBatchSize
         /\ producer.low \in Nat /\ producer.low >= 1 /\ Count - 1 = High - producer.low
<1>1. producer.low \in Nat /\ producer.low >= 1
  BY ProducerIs, BackwardAssumption
<1>2. Hash \in Nat /\ BlocksBatchSize \in Nat \ {0}
  BY BackwardAssumption
<1>3. producer.low + BlocksBatchSize - 1 \in Int
  BY <1>1, <1>2
<1>4. High = IF producer.low + BlocksBatchSize - 1 <= Hash
             THEN producer.low + BlocksBatchSize - 1 ELSE Hash
  BY <1>2, <1>3, MinIs DEF High
<1>5. High \in Nat /\ producer.low <= High /\ High <= Hash
      /\ High - producer.low + 1 \in 1..BlocksBatchSize
  BY <1>1, <1>2, <1>4
<1>6. Count = High - producer.low + 1
  BY Zenon DEF Count
<1> QED
  BY <1>1, <1>5, <1>6

(* When every part is there, the highest block of the batch is fed.        *)
LEMMA HighestIsFed ==
  ASSUME Shape, producer.at = "feed", Open = {}
  PROVE  High \in Blocks
<1>0. producer.low <= Hash /\ producer.parts >= 1
  BY DEF Shape
<1>1. /\ High \in Nat /\ producer.low <= High /\ Count \in 1..BlocksBatchSize
      /\ producer.low \in Nat /\ Count - 1 = High - producer.low
  BY <1>0, HighIs, Zenon
<1>2. Count \in Nat \ {0} /\ producer.parts \in Nat \ {0}
  BY <1>0, <1>1, ProducerIs, BackwardAssumption
<1>3. ((Count - 1) \div CeilDiv(Count, producer.parts)) + 1 \in 1..producer.parts
  BY <1>2, LastPart, Zenon
<1>4. ((Count - 1) \div CeilDiv(Count, producer.parts)) + 1 \in producer.got
  BY <1>3, Zenon DEF Open
<1>5. High \in producer.low..High
  BY <1>1
<1> QED
  BY <1>1, <1>4, <1>5, Zenon DEF Blocks

-----------------------------------------------------------------------------
(* The inductive invariant of the producer.                                *)
BatchInv == Shape /\ PeersInv /\ RoundInv /\ BatchIsComplete

(* Outside downloadBlocksForHeaders only the shape matters.                *)
LEMMA NoBatch ==
  ASSUME exhausted' \in SUBSET Peers, producer' \in Producer,
         producer'.at \in {"initial", "headers", "load", "end", "error", "closed"},
         producer'.at = "load" => producer'.low <= Hash
  PROVE  BatchInv'
<1>1. Shape'
  BY DEF Shape
<1>2. PeersInv' /\ RoundInv' /\ BatchIsComplete'
  BY DEF PeersInv, RoundInv, BatchIsComplete
<1> QED
  BY <1>1, <1>2 DEF BatchInv

(* A batch of headers ends at a block above the genesis block.             *)
LEMMA CollectedIs ==
  ASSUME Shape, NEW amount \in Nat, amount > 0, amount <= producer.last - 1
  PROVE  Collected(amount) \in 1..Hash
<1> DEFINE top == producer.last - 1
           links == {b \in (top - amount + 1)..top : Connects(b)}
<1>1. Hash \in Nat /\ producer.last \in Nat /\ producer.last <= Hash
  BY ProducerIs, BackwardAssumption
<1>2. top \in Nat /\ top - amount + 1 \in 1..Hash /\ (top - amount + 1)..top \in SUBSET (1..Hash)
  BY <1>1
<1>3. links \in SUBSET (1..Hash) /\ links \in SUBSET (0..Hash)
  BY <1>1, <1>2
<1>4. CASE links = {}
  BY <1>2, <1>4 DEF Collected
<1>5. CASE links # {}
  <2>1. Max(links) \in links
    BY <1>1, <1>3, <1>5, GreatestOf, Zenon
  <2>2. Collected(amount) = Max(links)
    BY <1>5 DEF Collected
  <2> QED
    BY <1>3, <2>1, <2>2
<1> QED
  BY <1>4, <1>5

(* The headers: no round of bodies is under way.                           *)
LEMMA HeadersStep ==
  ASSUME BatchInv, DownloadInitialHeader \/ DownloadHeaders
  PROVE  BatchInv'
<1>0. Shape
  BY DEF BatchInv
<1>1. producer \in Producer /\ exhausted \in SUBSET Peers
  BY <1>0, ProducerIs
<1>2. ASSUME exhausted' \in SUBSET Peers, ProducerGoes("headers") \/ ProducerGoes("error")
      PROVE  BatchInv'
  <2>1. producer' \in Producer /\ producer'.at \in {"headers", "error", "closed"}
    BY <1>0, <1>2, ProducerGoesTyped, Zenon
  <2> QED
    BY <1>2, <2>1, NoBatch
<1>3. CASE DownloadInitialHeader
  BY <1>2, <1>3, Zenon DEF DownloadInitialHeader
<1>4. CASE DownloadHeaders
  <2> DEFINE amount == Min({producer.last - 1, BlocksBatchSize})
             peer == AvailablePeer(exhausted, producer.index, 1)
  <2>1. Hash \in Nat /\ producer.last \in 1..Hash /\ producer.last \in Nat /\ producer.last >= 1
        /\ BlocksBatchSize \in Nat \ {0}
    BY <1>0, ProducerIs, BackwardAssumption
  <2>2. amount \in Nat /\ amount <= producer.last - 1
    BY <2>1, MinIs
  <2> HIDE DEF amount
  <2>3. CASE ProducerGoes("error") /\ UNCHANGED exhausted
    BY <1>1, <1>2, <2>3
  <2>4. CASE producer' = [producer EXCEPT !.at = "load", !.low = producer.last]
             /\ UNCHANGED exhausted
    <3>1. producer.last \in 1..(Hash + 1) /\ producer.last <= Hash
      BY <2>1
    <3>2. producer' \in Producer
      BY <1>1, <2>4, <3>1, Zenon DEF Producer
    <3>3. producer'.at = "load" /\ producer'.low = producer.last
      BY <1>1, <2>4 DEF Producer
    <3> QED
      BY <1>1, <2>4, <3>1, <3>2, <3>3, NoBatch
  <2>5. ASSUME exhausted # Peers PROVE peer \in Peers /\ After(peer) \in Peers
    <3>1. /\ Cardinality(exhausted) \in Nat /\ Cardinality(exhausted) <= PeerCount
          /\ Cardinality(exhausted) # PeerCount /\ PeerCount \in Nat
      BY <1>1, <2>5, PeersAre, Zenon
    <3>2. 1 \in 1..(PeerCount - Cardinality(exhausted))
      BY <3>1
    <3>3. producer.index \in Peers
      BY <1>0, ProducerIs, Zenon
    <3>4. peer \in Peers
      BY <1>1, <3>2, <3>3, AvailablePeerIs, Zenon
    <3> QED
      BY <3>4, AfterIs, Zenon
  <2>6. CASE /\ exhausted # Peers /\ exhausted' = exhausted \cup {peer}
             /\ producer' = [producer EXCEPT !.index = After(peer)]
    <3>1. producer' \in Producer
      BY <1>1, <2>5, <2>6, Zenon DEF Producer
    <3>2. producer'.at = "headers"
      BY <1>1, <1>4, <2>6 DEF Producer, DownloadHeaders
    <3>3. exhausted' \in SUBSET Peers
      BY <1>1, <2>5, <2>6
    <3> QED
      BY <3>1, <3>2, <3>3, NoBatch
  <2> DEFINE last == Collected(amount)
             place == IF Connects(last) THEN "load" ELSE "headers"
  <2>7. CASE /\ exhausted # Peers /\ amount > 0 /\ UNCHANGED exhausted
             /\ producer' = [producer EXCEPT !.index = After(peer), !.last = last, !.low = last,
                               !.at = place]
    <3>1. last \in 1..Hash
      BY <1>0, <2>2, <2>7, CollectedIs, Zenon
    <3>2. place \in {"load", "headers"}
      OBVIOUS
    <3> HIDE DEF last, place
    <3>3. last \in 1..(Hash + 1) /\ last <= Hash
      BY <2>1, <3>1
    <3>4. place \in {"initial", "headers", "load", "bodies", "feed", "end", "error", "closed"}
      BY <3>2
    <3>5. producer' \in Producer
      BY <1>1, <2>5, <2>7, <3>1, <3>3, <3>4, Zenon DEF Producer
    <3>6. producer'.at = place /\ producer'.low = last
      BY <1>1, <2>7 DEF Producer
    <3> QED
      BY <1>1, <2>7, <3>2, <3>3, <3>5, <3>6, NoBatch
  <2> QED
    BY <1>4, <2>3, <2>4, <2>6, <2>7, Zenon DEF DownloadHeaders, amount
<1> QED
  BY <1>3, <1>4

(* SplitHeaders leaves a peer for each part.                               *)
LEMMA SplitStep ==
  ASSUME BatchInv, SplitHeaders
  PROVE  BatchInv'
<1>0. Shape
  BY DEF BatchInv
<1>1. producer \in Producer /\ exhausted \in SUBSET Peers
  BY <1>0, ProducerIs
<1>2. producer.at = "load" /\ exhausted' = exhausted
  BY Zenon DEF SplitHeaders
<1>3. CASE exhausted = Peers
  <2>1. ProducerGoes("error")
    BY <1>3, Zenon DEF SplitHeaders
  <2>2. producer' \in Producer /\ producer'.at \in {"headers", "error", "closed"}
    BY <1>0, <2>1, ProducerGoesTyped, Zenon
  <2>3. producer'.at = "error"
    BY <1>0, <2>1, ProducerGoesIs, Zenon
  <2> QED
    BY <1>1, <1>2, <2>2, <2>3, NoBatch
<1>4. CASE exhausted # Peers
  <2> DEFINE needed == Min({Count, MaxParallel})
             peers == NextAvailablePeers(exhausted, 0, needed)
             size == CeilDiv(Count, Len(peers))
             parts == CeilDiv(Count, size)
             index == IndexAfter(exhausted, 0, needed)
  <2>1. producer' = [producer EXCEPT !.at = "bodies", !.available = peers, !.parts = parts,
                       !.got = {}, !.index = index]
    BY <1>4, Zenon DEF SplitHeaders
  <2>2. producer.low <= Hash
    BY <1>0, <1>2 DEF Shape
  <2>3. Count \in 1..BlocksBatchSize /\ Count \in Nat \ {0}
    BY <1>0, <2>2, HighIs
  <2>4. MaxParallel \in Nat \ {0} /\ BlocksBatchSize \in Nat /\ 0 \in Peers
    BY BackwardAssumption DEF Peers
  <2>5. needed \in Nat \ {0} /\ needed <= Count
    BY <2>3, <2>4, MinIs
  <2> HIDE DEF needed
  <2>s. Serving(peers, exhausted, needed) /\ index \in Peers
    BY <1>1, <1>4, <2>4, <2>5, NextPeersAre, Zenon
  <2> HIDE DEF peers, index
  <2>6. /\ peers \in Seq(Peers) /\ Len(peers) \in 1..needed
        /\ \A i \in DOMAIN peers : peers[i] \notin exhausted
        /\ \A i, j \in DOMAIN peers : peers[i] = peers[j] => i = j
        /\ index \in Peers
    BY <2>s, Zenon DEF Serving
  <2>7. Len(peers) \in Nat \ {0} /\ Len(peers) <= BlocksBatchSize
    BY <2>3, <2>4, <2>5, <2>6
  <2>8. parts \in 1..Len(peers)
    BY <2>3, <2>7, PartsFit, Zenon
  <2> HIDE DEF parts
  <2>9. parts \in 0..BlocksBatchSize /\ parts \in Nat /\ parts >= 1 /\ parts <= Len(peers)
    BY <2>4, <2>7, <2>8
  <2>10. /\ producer'.at = "bodies" /\ producer'.available = peers /\ producer'.parts = parts
         /\ producer'.got = {} /\ producer'.low = producer.low
    BY <1>1, <2>1 DEF Producer
  <2>11. producer' \in Producer
    BY <1>1, <2>1, <2>6, <2>9, Zenon DEF Producer
  <2>12. Shape'
    BY <1>1, <1>2, <2>2, <2>9, <2>10, <2>11 DEF Shape
  <2>13. PeersInv'
    BY <1>2, <2>6, <2>10, Zenon DEF PeersInv
  <2>14. RoundInv'
    <3>1. Open' = 1..parts
      BY <2>10 DEF Open
    <3>2. Cardinality(1..parts) = parts
      BY <2>9, FS_Interval
    <3>3. Cardinality(Open)' = parts
      BY <3>1, <3>2, Zenon
    <3> QED
      BY <2>9, <2>10, <3>3 DEF RoundInv
  <2>15. BatchIsComplete'
    BY <2>10 DEF BatchIsComplete
  <2> QED
    BY <2>12, <2>13, <2>14, <2>15 DEF BatchInv
<1> QED
  BY <1>3, <1>4

(* A round of downloadBlocksForHeaders: if half of the peers still serve,  *)
(* every open part was asked for, and the parts that failed are no more    *)
(* than the peers that are left.                                           *)
LEMMA BodiesStep ==
  ASSUME BatchInv, DownloadBodies
  PROVE  BatchInv'
<1>0. Shape /\ PeersInv /\ RoundInv
  BY DEF BatchInv
<1>1. producer \in Producer /\ exhausted \in SUBSET Peers /\ producer.at = "bodies"
  BY <1>0, ProducerIs DEF DownloadBodies
<1>2. PICK failed \in SUBSET Assigned :
        LET E == exhausted \cup {PeerOf(b) : b \in failed}
            got == producer.got \cup (Assigned \ failed)
            incomplete == Cardinality(failed)
        IN  /\ exhausted' = E
            /\ IF failed = {} THEN producer' = [producer EXCEPT !.at = "feed", !.got = got]
               ELSE IF E = Peers THEN ProducerGoes("error")
               ELSE producer' = [producer EXCEPT !.got = got,
                                   !.available = NextAvailablePeers(E, producer.index, incomplete),
                                   !.index = IndexAfter(E, producer.index, incomplete)]
  BY Zenon DEF DownloadBodies
<1> DEFINE E == exhausted \cup {PeerOf(b) : b \in failed}
           got == producer.got \cup (Assigned \ failed)
           n == Cardinality(failed)
<1>3. exhausted' = E
  BY <1>2, Zenon
<1>4. /\ E \in SUBSET Peers /\ exhausted \subseteq E
      /\ Cardinality(E) \in Nat /\ n \in Nat /\ n <= Cardinality(E)
      /\ Cardinality(exhausted) \in Nat /\ Cardinality(exhausted) <= Cardinality(E)
      /\ failed # {} => n # 0
  BY <1>0, <1>1, FailedPeers, Zenon
<1>5. /\ Assigned \in SUBSET Open
      /\ Cardinality(Open) <= Len(producer.available) => Assigned = Open
  BY <1>0, <1>1, AssignedIs, Zenon
<1>6. PeerCount \in Nat /\ Cardinality(E) <= PeerCount
  BY <1>4, PeersAre, Zenon
<1>7. MostPeersServe' => MostPeersServe
  BY <1>3, <1>4, <1>6 DEF MostPeersServe
<1>8. MostPeersServe' => Assigned = Open
  BY <1>0, <1>1, <1>5, <1>7, Zenon DEF RoundInv
<1>9. producer.parts \in 0..BlocksBatchSize /\ BlocksBatchSize \in Nat
      /\ producer.got \in SUBSET (1..BlocksBatchSize) /\ producer.parts >= 1
  BY <1>0, <1>1, ProducerIs, BackwardAssumption DEF Shape
<1>10. got \in SUBSET (1..BlocksBatchSize)
  <2>1. Open \in SUBSET (1..BlocksBatchSize)
    BY <1>9 DEF Open
  <2> QED
    BY <1>5, <1>9, <2>1, Zenon
<1>11. MostPeersServe' => (1..producer.parts) \ got = failed
  BY <1>5, <1>8, Zenon DEF Open
<1>l. producer.low <= Hash
  BY <1>0, <1>1 DEF Shape
<1> HIDE DEF E, got
<1>12. CASE failed = {}
  <2>1. producer' = [producer EXCEPT !.at = "feed", !.got = got]
    BY <1>2, <1>12, Zenon DEF got
  <2>2. /\ producer'.at = "feed" /\ producer'.got = got /\ producer'.parts = producer.parts
        /\ producer'.low = producer.low
    BY <1>1, <2>1 DEF Producer
  <2>3. producer' \in Producer
    BY <1>1, <1>10, <2>1, Zenon DEF Producer
  <2>4. Shape'
    BY <1>3, <1>4, <1>9, <1>l, <2>2, <2>3 DEF Shape
  <2>5. PeersInv' /\ RoundInv'
    BY <2>2 DEF PeersInv, RoundInv
  <2>6. BatchIsComplete'
    BY <1>11, <1>12, <2>2, Zenon DEF BatchIsComplete, Open
  <2> QED
    BY <2>4, <2>5, <2>6 DEF BatchInv
<1>13. CASE failed # {} /\ E = Peers
  <2>1. ProducerGoes("error")
    BY <1>2, <1>13, Zenon DEF E
  <2>2. producer' \in Producer /\ producer'.at \in {"headers", "error", "closed"}
    BY <1>0, <2>1, ProducerGoesTyped, Zenon
  <2>3. producer'.at = "error"
    BY <1>0, <2>1, ProducerGoesIs, Zenon
  <2> QED
    BY <1>3, <1>4, <2>2, <2>3, NoBatch
<1>14. CASE failed # {} /\ E # Peers
  <2> DEFINE peers == NextAvailablePeers(E, producer.index, n)
             index == IndexAfter(E, producer.index, n)
  <2>1. producer' = [producer EXCEPT !.got = got, !.available = peers, !.index = index]
    BY <1>2, <1>14, Zenon DEF E, got
  <2>2. n \in Nat \ {0} /\ producer.index \in Peers /\ E \in SUBSET Peers /\ E # Peers
    BY <1>0, <1>4, <1>14, ProducerIs
  <2> HIDE DEF n
  <2>s. Serving(peers, E, n) /\ index \in Peers
    BY <2>2, NextPeersAre, Zenon
  <2> HIDE DEF peers, index
  <2>3. /\ peers \in Seq(Peers) /\ Len(peers) \in 1..n
        /\ n <= PeerCount - Cardinality(E) => Len(peers) = n
        /\ \A i \in DOMAIN peers : peers[i] \notin E
        /\ \A i, j \in DOMAIN peers : peers[i] = peers[j] => i = j
        /\ index \in Peers
    BY <2>s, Zenon DEF Serving
  <2>4. /\ producer'.at = "bodies" /\ producer'.got = got /\ producer'.parts = producer.parts
        /\ producer'.low = producer.low /\ producer'.available = peers
    BY <1>1, <2>1 DEF Producer
  <2>5. producer' \in Producer
    BY <1>1, <1>10, <2>1, <2>3, Zenon DEF Producer
  <2>6. Shape'
    BY <1>3, <1>4, <1>9, <1>l, <2>4, <2>5 DEF Shape
  <2>7. PeersInv'
    BY <1>3, <2>3, <2>4, Zenon DEF PeersInv
  <2>8. RoundInv'
    <3> SUFFICES ASSUME MostPeersServe' PROVE Cardinality(Open)' <= Len(producer.available)'
      BY DEF RoundInv
    <3>1. Open' = failed
      BY <1>11, <2>4, Zenon DEF Open
    <3>2. 2 * Cardinality(E) <= PeerCount
      BY <1>3 DEF MostPeersServe
    <3>3. n <= PeerCount - Cardinality(E)
      BY <1>4, <1>6, <3>2
    <3>4. Len(peers) = n
      BY <2>3, <3>3, Zenon
    <3>5. Cardinality(Open)' = n /\ Len(producer.available)' = n
      BY <2>4, <3>1, <3>4, Zenon DEF n
    <3> QED
      BY <2>2, <3>5
  <2>9. BatchIsComplete'
    BY <2>4 DEF BatchIsComplete
  <2> QED
    BY <2>6, <2>7, <2>8, <2>9 DEF BatchInv
<1> QED
  BY <1>12, <1>13, <1>14

(* Every step keeps what is known of the rounds.                           *)
LEMMA BatchStep ==
  ASSUME BatchInv, [Next]_vars
  PROVE  BatchInv'
<1>0. Shape
  BY DEF BatchInv
<1>1. producer \in Producer /\ exhausted \in SUBSET Peers
  BY <1>0, ProducerIs
<1>2. ASSUME producer' = producer, exhausted' = exhausted PROVE BatchInv'
  <2>1. Shape' /\ PeersInv'
    BY <1>2 DEF BatchInv, Shape, PeersInv
  <2>2. Open' = Open /\ (MostPeersServe' <=> MostPeersServe)
    BY <1>2 DEF Open, MostPeersServe
  <2>3. Cardinality(Open)' = Cardinality(Open) /\ Len(producer.available)' = Len(producer.available)
    BY <1>2, <2>2, Zenon
  <2>4. RoundInv' /\ BatchIsComplete'
    BY <1>2, <2>2, <2>3 DEF BatchInv, RoundInv, BatchIsComplete
  <2> QED
    BY <2>1, <2>4 DEF BatchInv
<1>3. CASE Abort \/ ReceiveEnd
  <2>1. ProducerGoes("closed") /\ exhausted' = exhausted
    BY <1>3, Zenon DEF Abort, ReceiveEnd
  <2>2. producer' \in Producer /\ producer'.at \in {"headers", "error", "closed"}
    BY <1>0, <2>1, ProducerGoesTyped, Zenon
  <2>3. producer'.at = "closed"
    BY <1>0, <2>1, ProducerGoesIs, Zenon
  <2> QED
    BY <1>1, <2>1, <2>2, <2>3, NoBatch
<1>4. CASE ReceiveBlocks
  <2> DEFINE place == IF High < Hash THEN "load"
                      ELSE IF Count = BlocksBatchSize THEN "end" ELSE "closed"
             high == High
  <2>1. producer.at = "feed" /\ exhausted' = exhausted /\ producer' = NextBatch
    BY <1>4, Zenon DEF ReceiveBlocks
  <2>2. producer.low <= Hash
    BY <1>0, <2>1 DEF Shape
  <2>3. high \in Nat /\ high <= Hash /\ Hash \in Nat
    BY <1>0, <2>2, HighIs, BackwardAssumption
  <2>4. place \in {"load", "end", "closed"} /\ (place = "load" => high < Hash)
    OBVIOUS
  <2>5. producer' = [producer EXCEPT !.low = high + 1, !.parts = 0, !.available = <<>>, !.got = {},
                       !.at = place]
    BY <2>1, Zenon DEF NextBatch
  <2> HIDE DEF place, high
  <2>6. high + 1 \in 1..(Hash + 1) /\ 0 \in 0..BlocksBatchSize /\ <<>> \in Seq(Peers)
        /\ place \in {"initial", "headers", "load", "bodies", "feed", "end", "error", "closed"}
    BY <2>3, <2>4, BackwardAssumption
  <2>7. producer' \in Producer
    BY <1>1, <2>5, <2>6, Zenon DEF Producer
  <2>8. producer'.at = place /\ producer'.low = high + 1
    BY <1>1, <2>5 DEF Producer
  <2>9. producer'.at = "load" => producer'.low <= Hash
    BY <2>3, <2>4, <2>8
  <2> QED
    BY <1>1, <2>1, <2>4, <2>7, <2>8, <2>9, NoBatch
<1>5. CASE InsertBlocks \/ ValidateBatch \/ UpdateForkChoice \/ InsertTip \/ ValidateTip
           \/ StopConsumer \/ Stop \/ UNCHANGED vars
  <2>1. producer' = producer /\ exhausted' = exhausted
    BY <1>5, Zenon DEF InsertBlocks, ValidateBatch, UpdateForkChoice, InsertTip, ValidateTip,
       StopConsumer, Stop, vars
  <2> QED
    BY <1>2, <2>1
<1> QED
  BY <1>3, <1>4, <1>5, HeadersStep, SplitStep, BodiesStep, Zenon DEF Next, Produce, Consume

(* The inductive invariant of the rounds, from the start.                  *)
LEMMA BatchAlways == Spec => []BatchInv
<1>1. Init => BatchInv
  <2> SUFFICES ASSUME Init PROVE BatchInv
    OBVIOUS
  <2>1. producer \in Producer
    <3>1. 0 \in Peers /\ Hash \in 1..Hash /\ 1 \in 1..(Hash + 1) /\ 0 \in 0..BlocksBatchSize
      BY BackwardAssumption DEF Peers
    <3> QED
      BY <3>1 DEF Init, Producer
  <2>2. producer.at = "initial" /\ exhausted = {}
    BY DEF Init
  <2>3. Shape /\ PeersInv /\ RoundInv /\ BatchIsComplete
    BY <2>1, <2>2 DEF Shape, PeersInv, RoundInv, BatchIsComplete
  <2> QED
    BY <2>3 DEF BatchInv
<1>2. BatchInv /\ [Next]_vars => BatchInv'
  BY BatchStep
<1> QED
  BY <1>1, <1>2, PTL DEF Spec

(* As long as no more than half of the peers have failed, a batch is not   *)
(* fed before each of its parts was fetched, although the loop of          *)
(* downloadBlocksForHeaders (backward_block_downloader.go) counts only the *)
(* parts of its last round as incomplete: the parts that are open after a  *)
(* round were asked for in it and failed, each with a peer of its own.     *)
THEOREM BatchAlwaysComplete == Spec => []BatchIsComplete
<1>1. BatchInv => BatchIsComplete
  BY DEF BatchInv
<1> QED
  BY <1>1, BatchAlways, PTL

-----------------------------------------------------------------------------
(* The consumer.                                                           *)
LEMMA ConsumerGoesIs ==
  ASSUME ConsumerShape,
         NEW place \in {"next", "insert", "exec", "update", "tip", "validate", "Idle", "Synced"},
         ConsumerGoes(place)
  PROVE  ConsumerShape' /\ consumer'.at = place /\ consumer'.blocks = consumer.blocks
<1>1. ConsumerShape'
  BY Zenon DEF ConsumerShape, ConsumerGoes
<1> QED
  BY <1>1 DEF ConsumerShape, ConsumerGoes

(* The consumer keeps its type.                                            *)
LEMMA ShapeStep ==
  ASSUME Shape, ConsumerShape, [Next]_vars
  PROVE  ConsumerShape'
<1>1. ASSUME NEW ok, EndFeed(ok) PROVE ConsumerShape'
  <2>1. ConsumerGoes("Idle") \/ ConsumerGoes("Synced") \/ ConsumerGoes("tip")
    BY <1>1, Zenon DEF EndFeed
  <2> QED
    BY <2>1, ConsumerGoesIs
<1>2. CASE ReceiveBlocks
  <2>1. consumer' = [consumer EXCEPT !.at = "insert", !.blocks = Blocks] /\ producer.at = "feed"
    BY <1>2, Zenon DEF ReceiveBlocks
  <2>2. producer.low <= Hash
    BY <2>1 DEF Shape
  <2>3. /\ High \in Nat /\ High <= Hash /\ producer.low \in Nat /\ producer.low >= 1
        /\ Hash \in Nat
    BY <2>2, HighIs, BackwardAssumption
  <2>4. producer.low..High \in SUBSET (1..Hash)
    BY <2>3
  <2>5. Blocks \in SUBSET (1..Hash)
    BY <2>4, Zenon DEF Blocks
  <2>6. "insert" \in {"next", "insert", "exec", "update", "tip", "validate", "Idle", "Synced"}
    OBVIOUS
  <2> QED
    BY <2>1, <2>5, <2>6, Zenon DEF ConsumerShape
<1>3. CASE InsertBlocks
  <2> DEFINE n == consumer.unexecuted + Cardinality(consumer.blocks)
             place == IF trigger = "fcu" /\ n >= LoopBlockLimit THEN "exec" ELSE "next"
  <2>1. CASE consumer' = [consumer EXCEPT !.unexecuted = n, !.at = place]
    <3>1. place \in {"next", "insert", "exec", "update", "tip", "validate", "Idle", "Synced"}
      OBVIOUS
    <3>2. consumer.blocks \in SUBSET (1..Hash) /\ consumer.unexecuted \in Nat /\ Hash \in Nat
      BY BackwardAssumption DEF ConsumerShape
    <3>3. IsFiniteSet(consumer.blocks)
      <4>1. IsFiniteSet(1..Hash)
        BY <3>2, FS_Interval
      <4> QED
        BY <3>2, <4>1, FS_Subset, Zenon
    <3>4. Cardinality(consumer.blocks) \in Nat
      BY <3>3, FS_CardinalityType
    <3>5. n \in Nat
      BY <3>2, <3>4
    <3> HIDE DEF n, place
    <3> QED
      BY <2>1, <3>1, <3>5, Zenon DEF ConsumerShape
  <2> QED
    BY <1>1, <1>3, <2>1, Zenon DEF InsertBlocks
<1>4. CASE ValidateBatch
  <2>1. ConsumerGoes("update") => ConsumerShape'
    BY ConsumerGoesIs
  <2> QED
    BY <1>1, <1>4, <2>1, Zenon DEF ValidateBatch
<1>5. CASE UpdateForkChoice
  <2>1. CASE consumer' = [consumer EXCEPT !.at = "next", !.unexecuted = 0]
    <3>1. "next" \in {"next", "insert", "exec", "update", "tip", "validate", "Idle", "Synced"}
          /\ 0 \in Nat
      OBVIOUS
    <3> QED
      BY <2>1, <3>1, Zenon DEF ConsumerShape
  <2> QED
    BY <1>1, <1>5, <2>1, Zenon DEF UpdateForkChoice
<1>6. CASE InsertTip \/ ValidateTip \/ StopConsumer
  <2>1. ConsumerGoes("validate") \/ ConsumerGoes("Idle") \/ ConsumerGoes("Synced")
    BY <1>6, Zenon DEF InsertTip, ValidateTip, StopConsumer
  <2> QED
    BY <2>1, ConsumerGoesIs
<1>7. CASE ReceiveEnd
  BY <1>1, <1>7, Zenon DEF ReceiveEnd
<1>8. CASE Produce \/ Stop \/ UNCHANGED vars
  <2>1. consumer' = consumer
    BY <1>8, Zenon DEF Produce, DownloadInitialHeader, DownloadHeaders, SplitHeaders,
       DownloadBodies, Abort, Stop, vars
  <2> QED
    BY <2>1, Zenon DEF ConsumerShape
<1> QED
  BY <1>2, <1>3, <1>4, <1>5, <1>6, <1>7, <1>8, Zenon DEF Next, Consume

-----------------------------------------------------------------------------
(* The download has failed: nothing is promised.                           *)
LEMMA FeedIdle ==
  ASSUME consumer'.at = "Idle", cancelled' = TRUE
  PROVE  FeedInv'
  BY DEF FeedInv, SyncedMeansHave

(* The deferred cancellation of the feed, and where its result leads.      *)
LEMMA EndFeedIs ==
  ASSUME ConsumerShape, NEW ok, EndFeed(ok)
  PROVE  /\ cancelled' = TRUE
         /\ ~ok => consumer'.at = "Idle"
         /\ ok /\ trigger = "fcu" => consumer'.at = "Synced"
         /\ ok /\ trigger # "fcu" => consumer'.at = "tip"
<1>1. ASSUME NEW place \in {"Idle", "Synced", "tip"}, ConsumerGoes(place)
      PROVE  consumer'.at = place
  BY <1>1, ConsumerGoesIs
<1>2. cancelled' = TRUE
  BY Zenon DEF EndFeed
<1> QED
  BY <1>1, <1>2, Zenon DEF EndFeed

(* The producer goes on: nobody is Synced yet.                             *)
LEMMA FeedGoesOn ==
  ASSUME FeedInv, UNCHANGED <<consumer, cancelled, known, trigger, stopping>>,
         producer.at # "closed", producer'.at \notin {"end", "closed"}
  PROVE  FeedInv'
<1>1. consumer.at \notin {"tip", "validate", "Synced"}
  BY DEF FeedInv
<1> QED
  BY <1>1 DEF FeedInv, SyncedMeansHave

(* Every step of the download keeps what is known about the feed.          *)
LEMMA FeedStep ==
  ASSUME BatchInv, ConsumerShape, FeedInv, [Next]_vars
  PROVE  FeedInv'
<1>0. Shape /\ BatchIsComplete /\ producer \in Producer /\ Hash \in Nat
  BY ProducerIs, BackwardAssumption DEF BatchInv
<1>g. ASSUME NEW place \in {"next", "insert", "exec", "update", "tip", "validate", "Idle",
                              "Synced"},
             ConsumerGoes(place)
      PROVE  consumer'.at = place
  BY <1>g, ConsumerGoesIs, Zenon
<1>1. CASE DownloadInitialHeader \/ DownloadHeaders \/ SplitHeaders \/ DownloadBodies
  <2>1. UNCHANGED <<consumer, cancelled, known, trigger, stopping>>
    BY <1>1, Zenon DEF DownloadInitialHeader, DownloadHeaders, SplitHeaders, DownloadBodies, dbVars
  <2>2. producer.at # "closed"
    BY <1>1, Zenon DEF DownloadInitialHeader, DownloadHeaders, SplitHeaders, DownloadBodies
  <2>3. producer'.at \notin {"end", "closed"}
    <3>1. ASSUME ProducerGoes("error") \/ ProducerGoes("headers")
          PROVE  producer'.at \notin {"end", "closed"}
      BY <1>0, <3>1, ProducerGoesIs
    <3>2. CASE DownloadInitialHeader
      BY <3>1, <3>2, Zenon DEF DownloadInitialHeader
    <3>3. CASE DownloadHeaders
      <4>1. \/ ProducerGoes("error")
            \/ \E i : producer' = [producer EXCEPT !.index = i]
            \/ \E i, x, c : producer' = [producer EXCEPT !.index = i, !.last = x, !.low = x,
                                           !.at = IF c THEN "load" ELSE "headers"]
            \/ \E y : producer' = [producer EXCEPT !.at = "load", !.low = y]
        BY <3>3, Zenon DEF DownloadHeaders
      <4>2. producer.at = "headers"
        BY <3>3, Zenon DEF DownloadHeaders
      <4> QED
        BY <1>0, <3>1, <4>1, <4>2, Zenon DEF Producer
    <3>4. CASE SplitHeaders
      <4>1. CASE exhausted = Peers
        BY <3>1, <3>4, <4>1, Zenon DEF SplitHeaders
      <4>2. CASE exhausted # Peers
        <5> DEFINE needed == Min({Count, MaxParallel})
                   peers == NextAvailablePeers(exhausted, 0, needed)
                   size == CeilDiv(Count, Len(peers))
                   parts == CeilDiv(Count, size)
                   index == IndexAfter(exhausted, 0, needed)
        <5>1. producer' = [producer EXCEPT !.at = "bodies", !.available = peers, !.parts = parts,
                             !.got = {}, !.index = index]
          BY <3>4, <4>2, Zenon DEF SplitHeaders
        <5> HIDE DEF peers, parts, index
        <5> QED
          BY <1>0, <5>1 DEF Producer
      <4> QED
        BY <4>1, <4>2
    <3>5. CASE DownloadBodies
      <4>1. \/ ProducerGoes("error")
            \/ \E a : producer' = [producer EXCEPT !.at = "feed", !.got = a]
            \/ \E a, b, c : producer' = [producer EXCEPT !.got = a, !.available = b, !.index = c]
        BY <3>5, Zenon DEF DownloadBodies
      <4>2. producer.at = "bodies"
        BY <3>5, Zenon DEF DownloadBodies
      <4> QED
        BY <1>0, <3>1, <4>1, <4>2, Zenon DEF Producer
    <3> QED
      BY <1>1, <3>2, <3>3, <3>4, <3>5
  <2> QED
    BY <2>1, <2>2, <2>3, FeedGoesOn
<1>2. CASE Abort
  <2>1. UNCHANGED <<consumer, cancelled, known, trigger, stopping, exhausted>>
        /\ (cancelled \/ stopping)
    BY <1>2, Zenon DEF Abort, dbVars
  <2>2. producer'.at = "closed"
    BY <1>0, <1>2, ProducerGoesIs, Zenon DEF Abort
  <2> QED
    BY <2>1, <2>2 DEF FeedInv, SyncedMeansHave, Requested, MostPeersServe
<1>3. CASE ReceiveBlocks
  <2>1. /\ consumer.at = "next" /\ producer.at = "feed"
        /\ consumer' = [consumer EXCEPT !.at = "insert", !.blocks = Blocks]
        /\ producer' = NextBatch
        /\ UNCHANGED <<trigger, exhausted, cancelled, stopping, known>>
    BY <1>3, Zenon DEF ReceiveBlocks, dbVars
  <2>2. consumer'.at = "insert" /\ consumer'.blocks = Blocks
    BY <2>1 DEF ConsumerShape
  <2>3. producer.low <= Hash
    BY <1>0, <2>1 DEF Shape
  <2>4. High \in Nat /\ High <= Hash
    BY <1>0, <2>3, HighIs
  <2>5. producer'.at \in {"end", "closed"} => ~(High < Hash)
    <3>1. producer'.at = IF High < Hash THEN "load"
                         ELSE IF Count = BlocksBatchSize THEN "end" ELSE "closed"
      BY <1>0, <2>1 DEF NextBatch, Producer
    <3> QED
      BY <3>1
  <2>6. producer'.at \in {"end", "closed"} => High = Hash
    BY <1>0, <2>4, <2>5
  <2>7. MostPeersServe => High \in Blocks
    BY <1>0, <2>1, HighestIsFed, Zenon DEF BatchIsComplete
  <2>8. MostPeersServe' <=> MostPeersServe
    BY <2>1 DEF MostPeersServe
  <2>9. Received' = known \cup Blocks
    BY <2>1, <2>2 DEF Received
  <2>10. producer'.at \in {"end", "closed"} /\ MostPeersServe' => Hash \in Received'
    BY <2>6, <2>7, <2>8, <2>9, Zenon
  <2>11. ~cancelled
    BY <2>1 DEF FeedInv
  <2> QED
    BY <2>1, <2>2, <2>10, <2>11 DEF FeedInv, SyncedMeansHave
<1>4. CASE ReceiveEnd
  <2>1. /\ consumer.at = "next" /\ producer.at \in {"end", "error", "closed"}
        /\ EndFeed(producer.at # "error") /\ ProducerGoes("closed")
        /\ UNCHANGED <<trigger, exhausted, stopping, known>>
    BY <1>4, Zenon DEF ReceiveEnd, dbVars
  <2>2. /\ cancelled' = TRUE
        /\ producer.at = "error" => consumer'.at = "Idle"
        /\ producer.at # "error" /\ trigger = "fcu" => consumer'.at = "Synced"
        /\ producer.at # "error" /\ trigger # "fcu" => consumer'.at = "tip"
    BY <2>1, EndFeedIs, Zenon
  <2>3. producer'.at = "closed"
    BY <1>0, <2>1, ProducerGoesIs, Zenon
  <2>4. CASE producer.at = "error"
    BY <2>2, <2>4, FeedIdle
  <2>5. CASE producer.at # "error" /\ trigger # "fcu"
    BY <2>1, <2>2, <2>3, <2>5 DEF FeedInv, SyncedMeansHave
  <2>6. CASE producer.at # "error" /\ trigger = "fcu"
    <3>1. ~cancelled /\ producer.at \in {"end", "closed"}
      BY <2>1, <2>6 DEF FeedInv
    <3>2. MostPeersServe /\ ~stopping => Hash \in known
      BY <2>1, <3>1 DEF FeedInv, Received
    <3>3. (MostPeersServe' <=> MostPeersServe) /\ Requested' = {Hash}
      BY <2>1, <2>6 DEF MostPeersServe, Requested
    <3>4. SyncedMeansHave'
      BY <2>1, <2>6, <3>2, <3>3 DEF SyncedMeansHave
    <3> QED
      BY <2>2, <2>3, <2>6, <3>4 DEF FeedInv
  <2> QED
    BY <2>4, <2>5, <2>6
<1>5. CASE InsertBlocks
  <2>1. consumer.at = "insert" /\ UNCHANGED <<trigger, exhausted, producer, stopping>>
    BY <1>5, Zenon DEF InsertBlocks
  <2>2. CASE EndFeed(FALSE)
    BY <2>2, EndFeedIs, FeedIdle, Zenon
  <2>3. CASE /\ known' = known \cup consumer.blocks /\ UNCHANGED cancelled
             /\ \E x, c : consumer' = [consumer EXCEPT !.unexecuted = x,
                                           !.at = IF c THEN "exec" ELSE "next"]
    <3>1. consumer'.at \in {"exec", "next"}
      BY <2>3 DEF ConsumerShape
    <3>2. Received' = Received /\ (MostPeersServe' <=> MostPeersServe)
      BY <2>1, <2>3, <3>1 DEF Received, MostPeersServe
    <3>3. Hash \in Received => Hash \in Received'
      BY <3>2
    <3>4. consumer.at \notin {"tip", "validate", "Idle", "Synced"}
      BY <2>1
    <3> QED
      BY <2>1, <2>3, <3>1, <3>2, <3>3, <3>4 DEF FeedInv, SyncedMeansHave
  <2> QED
    BY <1>5, <2>2, <2>3, Zenon DEF InsertBlocks
<1>6. CASE ValidateBatch
  <2>1. consumer.at = "exec" /\ UNCHANGED <<trigger, exhausted, producer, stopping>>
    BY <1>6, Zenon DEF ValidateBatch
  <2>2. CASE EndFeed(FALSE)
    BY <2>2, EndFeedIs, FeedIdle, Zenon
  <2>3. CASE ConsumerGoes("update") /\ known' = known /\ UNCHANGED cancelled
    <3>1. consumer'.at = "update"
      BY <1>g, <2>3
    <3>2. Received' = Received /\ (MostPeersServe' <=> MostPeersServe)
      BY <2>1, <2>3, <3>1 DEF Received, MostPeersServe
    <3> QED
      BY <2>1, <2>3, <3>1, <3>2 DEF FeedInv, SyncedMeansHave
  <2>4. ASSUME NEW st, st \in {"TooFarAway", "Success"} PROVE st # "BadBlock"
    BY <2>4
  <2> QED
    BY <1>6, <2>2, <2>3, <2>4, Zenon DEF ValidateBatch, Purge
<1>7. CASE UpdateForkChoice
  <2>1. consumer.at = "update" /\ UNCHANGED <<trigger, exhausted, producer, stopping, known>>
    BY <1>7, Zenon DEF UpdateForkChoice
  <2>2. CASE EndFeed(FALSE)
    BY <2>2, EndFeedIs, FeedIdle, Zenon
  <2>3. CASE consumer' = [consumer EXCEPT !.at = "next", !.unexecuted = 0] /\ UNCHANGED cancelled
    <3>1. consumer'.at = "next"
      BY <2>3 DEF ConsumerShape
    <3>2. Received' = Received /\ (MostPeersServe' <=> MostPeersServe)
      BY <2>1, <3>1 DEF Received, MostPeersServe
    <3> QED
      BY <2>1, <2>3, <3>1, <3>2 DEF FeedInv, SyncedMeansHave
  <2> QED
    BY <1>7, <2>2, <2>3, Zenon DEF UpdateForkChoice
<1>8. CASE InsertTip
  <2>1. consumer.at = "tip" /\ UNCHANGED <<trigger, producer, cancelled>>
    BY <1>8, Zenon DEF InsertTip
  <2>2. cancelled = TRUE \/ cancelled
    BY <2>1 DEF FeedInv
  <2>3. CASE ConsumerGoes("Idle")
    <3>1. consumer'.at = "Idle"
      BY <1>g, <2>3
    <3> QED
      BY <2>1, <2>2, <3>1 DEF FeedInv, SyncedMeansHave
  <2>4. CASE Insertable({Tip}) /\ known' = known \cup {Tip} /\ ConsumerGoes("validate")
    <3>1. consumer'.at = "validate"
      BY <1>g, <2>4
    <3>2. Hash \in known
      BY <1>0, <2>4 DEF Insertable, Tip
    <3> QED
      BY <2>1, <2>2, <2>4, <3>1, <3>2 DEF FeedInv, SyncedMeansHave
  <2> QED
    BY <1>8, <2>3, <2>4, Zenon DEF InsertTip
<1>9. CASE ValidateTip
  <2>1. consumer.at = "validate" /\ UNCHANGED <<trigger, producer, cancelled>>
    BY <1>9, Zenon DEF ValidateTip
  <2>2. cancelled /\ trigger # "fcu" /\ {Hash, Tip} \subseteq known /\ producer.at = "closed"
    BY <2>1 DEF FeedInv
  <2>3. CASE ConsumerGoes("Idle")
    <3>1. consumer'.at = "Idle"
      BY <1>g, <2>3
    <3> QED
      BY <2>1, <2>2, <3>1 DEF FeedInv, SyncedMeansHave
  <2>4. CASE ConsumerGoes("Synced") /\ known' = known
    <3>1. consumer'.at = "Synced"
      BY <1>g, <2>4
    <3>2. SyncedMeansHave'
      BY <2>1, <2>2, <2>4 DEF SyncedMeansHave, Requested
    <3> QED
      BY <2>1, <2>2, <3>1, <3>2 DEF FeedInv
  <2> QED
    BY <1>9, <2>3, <2>4, Zenon DEF ValidateTip, Purge
<1>10. CASE StopConsumer
  <2>1. ConsumerGoes("Idle") /\ cancelled' = TRUE
    BY <1>10, Zenon DEF StopConsumer
  <2>2. consumer'.at = "Idle"
    BY <1>g, <2>1
  <2> QED
    BY <2>1, <2>2, FeedIdle
<1>11. CASE Stop \/ UNCHANGED vars
  <2>1. UNCHANGED <<trigger, exhausted, producer, consumer, cancelled, known>>
        /\ (stopping' = stopping \/ stopping' = TRUE)
    BY <1>11, Zenon DEF Stop, vars, dbVars
  <2>2. (MostPeersServe' <=> MostPeersServe) /\ Received' = Received /\ Requested' = Requested
    BY <2>1 DEF MostPeersServe, Received, Requested
  <2>3. stopping => stopping'
    BY <2>1, Zenon
  <2> QED
    BY <2>1, <2>2, <2>3 DEF FeedInv, SyncedMeansHave
<1> QED
  BY <1>1, <1>2, <1>3, <1>4, <1>5, <1>6, <1>7, <1>8, <1>9, <1>10, <1>11, Zenon
  DEF Next, Produce, Consume

(* downloadV2 says Synced only when the block that was asked for, and the  *)
(* tip of a request that has one, are in the database: for a fork choice   *)
(* because the feed does not end before its last block was fed and         *)
(* inserted, as long as no more than half of the peers fail and the node   *)
(* is not being stopped; for a tip always (core.go, downloadV2).           *)
THEOREM SyncedAlwaysMeansHave == Spec => []SyncedMeansHave
<1>1. Init => ConsumerShape /\ FeedInv
  <2> SUFFICES ASSUME Init PROVE ConsumerShape /\ FeedInv
    OBVIOUS
  <2>1. ConsumerShape
    BY DEF Init, ConsumerShape
  <2>2. consumer.at = "next" /\ producer.at = "initial" /\ ~cancelled
    BY DEF Init
  <2>3. FeedInv
    BY <2>2 DEF FeedInv, SyncedMeansHave
  <2> QED
    BY <2>1, <2>3
<1>2. BatchInv /\ ConsumerShape /\ FeedInv /\ [Next]_vars => ConsumerShape' /\ FeedInv'
  BY ShapeStep, FeedStep, Zenon DEF BatchInv
<1>3. FeedInv => SyncedMeansHave
  BY DEF FeedInv
<1> QED
  BY <1>1, <1>2, <1>3, BatchAlways, PTL DEF Spec

=============================================================================
