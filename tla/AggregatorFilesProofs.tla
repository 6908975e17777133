----------------------- MODULE AggregatorFilesProofs ------------------------
(***************************************************************************)
(* Theorems about AggregatorFiles, for every number of steps, of readers   *)
(* and of faults: held files stay, what is opened is of pairs, and no      *)
(* marked file is left behind; then that the files and the rows hold every *)
(* committed step, in a transaction that is opened and after a crash at    *)
(* any time.                                                               *)
(***************************************************************************)
EXTENDS AggregatorFilesInvariant

------------------------------------------------------------------------------
(* No transaction loses a file it reads: whatever is merged and cleaned    *)
(* meanwhile, the file stays until the last count of it is gone (if nobody *)
(* runs between refcount.Add(-1) and canDelete.Load of a closing           *)
(* transaction).  For every number of steps, readers and faults.           *)
THEOREM HeldFilesAlwaysStay == ASSUME ~Preempts PROVE Spec => []HeldFilesStay
<1>1. IInv => HeldFilesStay
  BY DEF IInv, SafeInv, HeldFilesStay
<1> QED
  BY <1>1, Inductive, PTL

(* Whoever opens files has accounts and commitment files of the same       *)
(* ranges, whatever failed builds, failed merges and crashes left in the   *)
(* directory: calcVisibleFiles shows pairs only.                           *)
THEOREM AlwaysAligned == Spec => []Aligned
<1>1. IInv => Aligned
  BY DEF IInv, HeldAligned, IsAligned, Aligned
<1> QED
  BY <1>1, Inductive, PTL

(* A file that deleteMergeFile marked and did not remove is removed by     *)
(* somebody: it has a count, or its remover is at work.  With or without   *)
(* the race between the two loads.                                         *)
THEOREM NothingLeaks == Spec => []NoLeak
<1>1. IInv => NoLeak
  <2> SUFFICES ASSUME IInv, NEW f \in canDelete \cap disk,
                      merger.mark # f, \A h \in Holders : f \notin last[h]
               PROVE  RefCount(f) > 0
    BY DEF NoLeak
  <2>1. \E h \in Holders : f \in held[h]
    BY DEF IInv, LeakInv
  <2>2. RefCount(f) \in Nat /\ RefCount(f) # 0
    BY <2>1, RefCountIs
  <2> QED
    BY <2>2
<1> QED
  BY <1>1, Inductive, PTL

------------------------------------------------------------------------------
\* Numbers.

(* Products grow with their factors. *)
LEMMA MulMono ==
  ASSUME NEW a \in Nat, NEW b \in Nat, NEW c \in Nat, a <= b
  PROVE  a * c <= b * c
OBVIOUS

(* The remainder is 0 of multiples only. *)
LEMMA Multiple ==
  ASSUME NEW n \in Nat, NEW b \in Nat, b > 0
  PROVE  n % b = 0 <=> \E k \in Nat : n = k * b
<1>1. n % b \in 0..(b - 1) /\ n \div b \in Nat /\ n = b * (n \div b) + (n % b)
  OBVIOUS
<1>2. ASSUME n % b = 0 PROVE \E k \in Nat : n = k * b
  <2>1. n = (n \div b) * b
    BY <1>1, <1>2
  <2> QED
    BY <1>1, <2>1, Zenon
<1>3. ASSUME NEW k \in Nat, n = k * b PROVE n % b = 0
  <2> DEFINE q == n \div b
             r == n % b
  <2>1. q \in Nat /\ r \in Nat /\ r < b /\ k * b = b * q + r
    BY <1>1, <1>3
  <2> HIDE DEF q, r
  <2>2. ~(k < q)
    <3>1. k * b <= q * b
      BY <2>1
    <3> SUFFICES ASSUME k + 1 <= q PROVE FALSE
      BY <2>1
    <3>2. (k + 1) * b <= q * b
      BY <2>1, MulMono
    <3> QED
      BY <2>1, <3>2
  <2>3. ~(q < k)
    <3> SUFFICES ASSUME q + 1 <= k PROVE FALSE
      BY <2>1
    <3>2. (q + 1) * b <= k * b
      BY <2>1, MulMono
    <3> QED
      BY <2>1, <3>2
  <2>4. q = k
    BY <2>1, <2>2, <2>3
  <2>5. r = 0
    BY <2>1, <2>4
  <2> QED
    BY <2>5 DEF r
<1> QED
  BY <1>2, <1>3, Zenon

(* Half of a power of two is one. *)
LEMMA HalfIs ==
  ASSUME NEW b \in Nat, b > 1, PowerOfTwo(b)
  PROVE  \E h \in Nat : b = 2 * h /\ h > 0 /\ h < b /\ PowerOfTwo(h)
<1>1. b % b = 0
  BY Multiple, b = 1 * b
<1>2. b % 2 = 0
  BY <1>1 DEF PowerOfTwo
<1>3. PICK h \in Nat : b = h * 2
  BY <1>2, Multiple
<1>4. h > 0 /\ h < b
  BY <1>3
<1>5. ASSUME NEW q \in 2..h, h % q = 0 PROVE q % 2 = 0
  <2>1. q \in Nat /\ q > 0 /\ q \in 2..b
    BY <1>4
  <2>2. PICK k \in Nat : h = k * q
    BY <1>5, <2>1, Multiple, Zenon
  <2>3. b = (2 * k) * q /\ 2 * k \in Nat
    BY <1>3, <2>1, <2>2
  <2>4. b % q = 0
    BY <2>1, <2>3, Multiple
  <2> QED
    BY <2>1, <2>4 DEF PowerOfTwo
<1> QED
  BY <1>3, <1>4, <1>5 DEF PowerOfTwo

(* Of two powers of two the smaller divides the larger. *)
LEMMA PowersDivide ==
  ASSUME NEW b \in Nat, NEW c \in Nat, 0 < b, b <= c, PowerOfTwo(b), PowerOfTwo(c)
  PROVE  \E k \in Nat : c = k * b
<1> DEFINE Bad(x, y) == /\ 0 < x /\ x <= y /\ PowerOfTwo(x) /\ PowerOfTwo(y)
                        /\ \A k \in Nat : y # k * x
           S == {x \in Nat : \E y \in Nat : Bad(x, y)}
<1>1. SUFFICES ASSUME S # {} PROVE FALSE
  BY <1>1, Zenon
<1>2. S \in SUBSET Nat
  OBVIOUS
<1>3. PICK x \in S : \A z \in S : x <= z
  <2> HIDE DEF S
  <2> QED
    BY <1>1, <1>2, MinIs, Zenon
<1>4. PICK y \in Nat : Bad(x, y)
  BY <1>3
<1>5. x \in Nat
  BY <1>3
<1>6. x # 1
  BY <1>4, y = y * 1
<1>7. x > 1 /\ y > 1
  BY <1>4, <1>5, <1>6
<1>8. PICK h \in Nat : x = 2 * h /\ h > 0 /\ h < x /\ PowerOfTwo(h)
  BY <1>4, <1>5, <1>7, HalfIs
<1>9. PICK g \in Nat : y = 2 * g /\ g > 0 /\ PowerOfTwo(g)
  BY <1>4, <1>7, HalfIs
<1>10. h \notin S
  BY <1>3, <1>5, <1>8
<1>11. h <= g
  BY <1>4, <1>8, <1>9
<1>12. PICK k \in Nat : g = k * h
  BY <1>8, <1>9, <1>10, <1>11
<1>13. y = k * x
  BY <1>8, <1>9, <1>12
<1> QED
  BY <1>4, <1>13

(* Two aligned ranges whose lengths are powers of two are disjoint, or one *)
(* lies inside the other.                                                  *)
LEMMA Nested ==
  ASSUME NEW b \in Nat, NEW c \in Nat, 0 < b, b <= c, PowerOfTwo(b), PowerOfTwo(c),
         NEW x \in Nat, NEW y \in Nat, x % b = 0, y % c = 0
  PROVE  x + b <= y \/ y + c <= x \/ (y <= x /\ x + b <= y + c)
<1>1. PICK k \in Nat : c = k * b
  BY PowersDivide
<1>b. b > 0
  OBVIOUS
<1>2. PICK i \in Nat : x = i * b
  BY <1>b, Multiple, Zenon
<1>a. c > 0
  OBVIOUS
<1>3. PICK j \in Nat : y = j * c
  BY <1>a, Multiple, Zenon
<1> DEFINE u == j * k
           v == u + k
<1>4. u \in Nat /\ v \in Nat
  OBVIOUS
<1>5. y = u * b /\ y + c = v * b
  BY <1>1, <1>3
<1>6. x + b = (i + 1) * b
  BY <1>2
<1> HIDE DEF u, v
<1>7. CASE i + 1 <= u
  <2>1. (i + 1) * b <= u * b
    BY <1>4, <1>7, MulMono
  <2> QED
    BY <1>5, <1>6, <2>1
<1>8. CASE v <= i
  <2>1. v * b <= i * b
    BY <1>4, <1>8, MulMono
  <2> QED
    BY <1>2, <1>5, <2>1
<1>9. CASE u <= i /\ i + 1 <= v
  <2>1. u * b <= i * b /\ (i + 1) * b <= v * b
    BY <1>4, <1>9, MulMono
  <2> QED
    BY <1>2, <1>5, <1>6, <2>1
<1> QED
  BY <1>4, <1>7, <1>8, <1>9

------------------------------------------------------------------------------
(* What is complete. *)

\* Ranges as findMergeRange cuts them.
Dyadic(f) == PowerOfTwo(f.to - f.from) /\ f.from % (f.to - f.from) = 0

\* Pairs of S leave no gap.
Gapless(S) ==
  \A n \in Nat : Reach(S, n + 1) => \E g \in S : Both(S, g) /\ g.from <= n /\ n < g.to

\* Nor do the files of a view.
Solid(S) == \A f \in S, n \in Nat : n < f.to => \E g \in S : g.from <= n /\ n < g.to

\* n is not above the last step of these rows.
Within(rows, n) == n = 0 \/ \E d \in Domains : \E s \in rows[d] : n <= s

\* Every step up to the last is in the rows or in pairs of S.
Kept(rows, S) ==
  \A n \in Nat, d \in Domains : Within(rows, n) => n \in rows[d] \/ Reach(S, n + 1)

\* The same for a view.
InView(rows, S) ==
  \A n \in Nat, d \in Domains : Within(rows, n) => n \in rows[d] \/ \E f \in S : n < f.to

RangesInv ==
  /\ \A f \in disk : Dyadic(f)
  /\ merger.at = "merge" => \A m \in merger.merged : Dyadic(m)

GaplessInv ==
  /\ Gapless(dirty) /\ Gapless(disk)
  /\ Solid(visible) /\ \A h \in Holders : Solid(held[h])

\* The parts of a merge are all of its range.
PartsInv ==
  merger.at = "merge" =>
    \A m \in merger.merged, n \in Nat :
      m.from <= n /\ n < m.to =>
        \E g \in held["merge"] : IsProperSubsetOf(g, m) /\ g.from <= n /\ n < g.to

\* Files end at a step that is committed: the last one is never collated.
CommittedInv ==
  /\ \A f \in disk : Within(db, f.to)
  /\ Building => Within(db, builder.upto)

RowsInv ==
  /\ Kept(db, dirty)
  /\ \A r \in Readers : tx[r].at = "begun" => Kept(tx[r].rows, dirty)
  /\ tx["writer"].at = "open" =>
       /\ Kept(tx["writer"].rows, dirty)
       /\ \A n \in Nat : Within(db, n) => Within(tx["writer"].rows, n)
       /\ held["writer"] # {} => InView(tx["writer"].rows, held["writer"])

CompleteInv ==
  /\ torn = {}
  /\ RangesInv /\ GaplessInv /\ PartsInv /\ CommittedInv /\ RowsInv

------------------------------------------------------------------------------
\* Ranges.

(* Files of the same range are cut alike. *)
LEMMA DyadicRange ==
  ASSUME NEW f, NEW g, f.from = g.from, f.to = g.to, Dyadic(f)
  PROVE  Dyadic(g)
BY Zenon DEF Dyadic

(* A step is a range that findMergeRange could have cut. *)
LEMMA StepDyadic ==
  ASSUME NEW f \in File, f.to = f.from + 1
  PROVE  Dyadic(f)
<1>1. f.from \in Nat /\ f.to - f.from = 1
  BY FileIs
<1>2. f.from = f.from * 1 /\ 1 > 0
  BY <1>1
<1>3. f.from % 1 = 0
  BY <1>1, <1>2, Multiple
<1>4. PowerOfTwo(1)
  BY DEF PowerOfTwo
<1> QED
  BY <1>1, <1>3, <1>4, Zenon DEF Dyadic

(* So is what a merge step writes. *)
LEMMA MergedDyadic ==
  ASSUME NEW m \in File, m.from = m.to - RightmostBit(m.to)
  PROVE  Dyadic(m)
<1> DEFINE b == RightmostBit(m.to)
<1>1. m.from \in Nat /\ m.to \in Nat /\ m.to # 0
  BY FileIs
<1>2. b \in 1..m.to /\ m.to % b = 0 /\ PowerOfTwo(b)
  BY <1>1, RightmostBitIs
<1>3. m.from = m.to - b
  OBVIOUS
<1> HIDE DEF b
<1>4. b \in Nat /\ b > 0 /\ m.to - m.from = b
  BY <1>1, <1>2, <1>3
<1>5. PICK k \in Nat : m.to = k * b
  BY <1>1, <1>2, <1>4, Multiple
<1>6. k # 0
  BY <1>1, <1>4, <1>5
<1>7. k - 1 \in Nat /\ m.from = (k - 1) * b
  BY <1>1, <1>3, <1>4, <1>5, <1>6
<1>8. m.from % b = 0
  BY <1>1, <1>4, <1>7, Multiple, Zenon
<1> QED
  BY <1>2, <1>4, <1>8, Zenon DEF Dyadic

(* Ranges that share a step lie one inside the other. *)
LEMMA DyadicNested ==
  ASSUME NEW f \in File, NEW g \in File, Dyadic(f), Dyadic(g), NEW n \in Nat,
         f.from <= n, n < f.to, g.from <= n, n < g.to
  PROVE  \/ g.from <= f.from /\ f.to <= g.to
         \/ f.from <= g.from /\ g.to <= f.to
<1> DEFINE b == f.to - f.from
           c == g.to - g.from
<1>1. /\ f.from \in Nat /\ f.to \in Nat /\ g.from \in Nat /\ g.to \in Nat
  BY FileIs
<1>2. /\ b \in Nat /\ c \in Nat /\ 0 < b /\ 0 < c
      /\ f.to = f.from + b /\ g.to = g.from + c
  BY <1>1
<1>3. PowerOfTwo(b) /\ PowerOfTwo(c) /\ f.from % b = 0 /\ g.from % c = 0
  BY DEF Dyadic
<1> HIDE DEF b, c
<1>4. CASE b <= c
  <2>1. \/ f.from + b <= g.from \/ g.from + c <= f.from
        \/ g.from <= f.from /\ f.from + b <= g.from + c
    BY <1>1, <1>2, <1>3, <1>4, Nested, Zenon
  <2> QED
    BY <1>1, <1>2, <2>1
<1>5. CASE c <= b
  <2>1. \/ g.from + c <= f.from \/ f.from + b <= g.from
        \/ f.from <= g.from /\ g.from + c <= f.from + b
    BY <1>1, <1>2, <1>3, <1>5, Nested, Zenon
  <2> QED
    BY <1>1, <1>2, <2>1
<1> QED
  BY <1>2, <1>4, <1>5

------------------------------------------------------------------------------
\* Views.

(* Every pair lies in one that calcVisibleFiles shows. *)
LEMMA PairShows ==
  ASSUME NEW S \in SUBSET File, NEW f \in S, Both(S, f)
  PROVE  \E g \in S : /\ Both(S, g) /\ ~Covered(S, g)
                      /\ g.from <= f.from /\ f.to <= g.to
<1> DEFINE around == {g \in S : Both(S, g) /\ g.from <= f.from /\ f.to <= g.to}
           lengths == {g.to - g.from : g \in around}
<1>0. MaxStep \in Nat /\ \A g \in S : /\ g.to \in 0..MaxStep /\ g.from \in 0..MaxStep
                                      /\ g.to - g.from \in 0..MaxStep
  BY FileIs, AggregatorAssumption DEF Steps
<1>1. f \in around
  BY <1>0
<1>2. lengths \in SUBSET 0..MaxStep /\ lengths # {}
  BY <1>0, <1>1
<1>3. PICK l \in lengths : \A x \in lengths : x <= l
  <2> HIDE DEF lengths
  <2> QED
    BY <1>0, <1>2, MaxIs, Zenon
<1>4. PICK g \in around : g.to - g.from = l
  BY <1>3
<1>5. ASSUME Covered(S, g) PROVE FALSE
  <2>1. PICK h \in S : /\ Both(S, h)
                       /\ h.from <= g.from /\ g.to <= h.to
                       /\ ~(h.from = g.from /\ h.to = g.to)
    BY <1>5 DEF Covered
  <2>2. h \in around
    BY <1>0, <1>4, <2>1
  <2>3. h.to - h.from <= g.to - g.from
    BY <1>3, <1>4, <2>2
  <2> QED
    BY <1>0, <1>4, <2>1, <2>3
<1> QED
  BY <1>4, <1>5

(* What recalcVisibleFiles shows of gapless pairs has no gap. *)
LEMMA CalcSolid ==
  ASSUME NEW S \in SUBSET File, Shaped(S), Gapless(S)
  PROVE  Solid(CalcVisibleFiles(S))
<1> DEFINE view == CalcVisibleFiles(S)
<1>1. view = {f \in S : Both(S, f) /\ ~Covered(S, f)}
  BY CalcIs
<1> HIDE DEF view
<1> SUFFICES ASSUME NEW f \in view, NEW n \in Nat, n < f.to
             PROVE  \E g \in view : g.from <= n /\ n < g.to
  BY DEF Solid, view
<1>2. f \in S /\ Both(S, f) /\ f.to \in Nat
  BY <1>1, FileIs
<1>3. n + 1 <= f.to
  BY <1>2
<1>4. Reach(S, n + 1)
  BY <1>2, <1>3 DEF Reach
<1>5. PICK g \in S : Both(S, g) /\ g.from <= n /\ n < g.to
  BY <1>4 DEF Gapless
<1>6. PICK h \in S : /\ Both(S, h) /\ ~Covered(S, h)
                     /\ h.from <= g.from /\ g.to <= h.to
  BY <1>5, PairShows
<1>7. h.from <= n /\ n < h.to
  <2>1. g.from \in Nat /\ g.to \in Nat /\ h.from \in Nat /\ h.to \in Nat
    BY FileIs
  <2> QED
    BY <1>5, <1>6, <2>1
<1> QED
  BY <1>1, <1>6, <1>7

(* The last step of rows, or 0. *)
LEMMA TopIs ==
  ASSUME NEW rows \in [Domains -> SUBSET Steps]
  PROVE  /\ Top(rows) \in Steps
         /\ \A n \in Nat : n <= Top(rows) <=> Within(rows, n)
<1> DEFINE all == {0} \cup UNION {rows[d] : d \in Domains}
<1>0. MaxStep \in Nat /\ Steps = 0..MaxStep
  BY AggregatorAssumption DEF Steps
<1>1. all \in SUBSET 0..MaxStep /\ all # {}
  BY <1>0
<1>2. Top(rows) = Max(all)
  BY DEF Top
<1>3. Max(all) \in all /\ \A x \in all : x <= Max(all)
  <2> HIDE DEF all
  <2> QED
    BY <1>0, <1>1, MaxIs, Zenon
<1>4. PICK t \in all : t = Top(rows) /\ \A x \in all : x <= t
  BY <1>2, <1>3, Zenon
<1>5. t \in Nat /\ t \in Steps
  BY <1>0, <1>1, <1>4
<1>6. ASSUME NEW n \in Nat, n <= t PROVE Within(rows, n)
  <2>1. CASE t = 0
    BY <1>6, <2>1 DEF Within
  <2>2. CASE t # 0
    <3>1. PICK d \in Domains : t \in rows[d]
      BY <1>4, <2>2
    <3> QED
      BY <1>6, <3>1, Zenon DEF Within
  <2> QED
    BY <2>1, <2>2
<1>7. ASSUME NEW n \in Nat, Within(rows, n) PROVE n <= t
  <2>1. CASE n = 0
    BY <1>5, <2>1
  <2>2. ASSUME NEW d \in Domains, NEW s \in rows[d], n <= s PROVE n <= t
    <3>1. s \in all /\ s \in Nat
      BY <1>0
    <3>2. s <= t
      BY <1>4, <3>1
    <3> QED
      BY <1>5, <2>2, <3>1, <3>2
  <2> QED
    BY <1>7, <2>1, <2>2, Zenon DEF Within
<1> QED
  BY <1>4, <1>5, <1>6, <1>7, Zenon

(* getLatest finds every step: a view without a gap, and the rows above    *)
(* it.                                                                     *)
LEMMA CompleteView ==
  ASSUME torn = {}, NEW rows \in [Domains -> SUBSET Steps], NEW S \in SUBSET File,
         IsAligned(S), Solid(S), InView(rows, S)
  PROVE  Complete(rows, S)
<1> SUFFICES ASSUME NEW d \in Domains, NEW n \in 0..Top(rows)
             PROVE  n \in Seen(rows, S, d)
  BY DEF Complete
<1> DEFINE end == End(S, d)
<1>0. end \in Nat
  BY EndIs, AggregatorAssumption DEF Steps
<1>1. /\ \A f \in S : f.d = d => f.to <= end
      /\ end = 0 \/ \E f \in S : f.d = d /\ f.to = end
  BY EndIs
<1>2. Seen(rows, S, d) = {s \in rows[d] : s >= end} \cup
                         UNION {f.from..(f.to - 1) : f \in Of(S, d) \ torn}
  BY DEF Seen
<1> HIDE DEF end
<1>3. Top(rows) \in Nat
  BY TopIs, AggregatorAssumption DEF Steps
<1>4. n \in Nat /\ n <= Top(rows)
  BY <1>3
<1>5. Within(rows, n)
  BY <1>4, TopIs
<1>6. CASE n < end
  <2>1. PICK f \in S : f.to = end
    BY <1>0, <1>1, <1>4, <1>6
  <2>2. PICK g \in S : g.from <= n /\ n < g.to
    BY <1>4, <1>6, <2>1 DEF Solid
  <2> DEFINE h == SameRange(g, d)
  <2>3. h \in S
    BY DEF IsAligned
  <2>4. h.d = d /\ h.from = g.from /\ h.to = g.to /\ h.from \in Nat /\ h.to \in Nat
    BY SameRangeIs, FileIs
  <2> HIDE DEF h
  <2>5. h \in Of(S, d) \ torn
    BY <2>3, <2>4 DEF Of
  <2>6. n \in h.from..(h.to - 1)
    BY <1>4, <2>2, <2>4
  <2> QED
    BY <1>2, <2>5, <2>6
<1>7. CASE ~(n < end)
  <2>1. ASSUME NEW f \in S, n < f.to PROVE FALSE
    <3>1. SameRange(f, d) \in S /\ SameRange(f, d).d = d /\ SameRange(f, d).to = f.to
      BY SameRangeIs DEF IsAligned
    <3>2. f.to <= end
      BY <1>1, <3>1
    <3>3. f.to \in Nat
      BY FileIs
    <3> QED
      BY <1>0, <1>4, <1>7, <2>1, <3>2, <3>3
  <2>2. n \in rows[d]
    BY <1>4, <1>5, <2>1 DEF InView
  <2>3. n >= end
    BY <1>0, <1>4, <1>7
  <2> QED
    BY <1>2, <2>2, <2>3
<1> QED
  BY <1>6, <1>7

------------------------------------------------------------------------------
\* Gaps.

(* A file that is added makes at most its own pair. *)
LEMMA AddReach ==
  ASSUME NEW S \in SUBSET File, NEW x \in File, NEW n \in Nat, Reach(S \cup {x}, n)
  PROVE  Reach(S, n) \/ (n <= x.to /\ Both(S \cup {x}, x))
<1> DEFINE T == S \cup {x}
<1>0. T \in SUBSET File
  OBVIOUS
<1>1. CASE n = 0
  BY <1>1 DEF Reach
<1>2. CASE n # 0
  <2>1. PICK g \in T : Both(T, g) /\ n <= g.to
    BY <1>2 DEF Reach
  <2>2. CASE Both(S, g)
    <3>1. g \in S
      BY <2>2, BothMember
    <3> QED
      BY <2>1, <2>2, <3>1 DEF Reach
  <2>3. CASE ~Both(S, g)
    <3>1. PICK c \in Domains : SameRange(g, c) = x
      BY <2>1, <2>3 DEF Both
    <3> HIDE DEF T
    <3>2. g \in File /\ g.from = x.from /\ g.to = x.to
      BY <1>0, <3>1, SameRangeIs
    <3>3. Both(T, x)
      BY <2>1, <3>2, BothRange
    <3> QED
      BY <2>1, <3>2, <3>3 DEF T
  <2> QED
    BY <2>2, <2>3
<1> QED
  BY <1>1, <1>2

(* A file that is added leaves no gap: it is of the step that follows the  *)
(* pairs, or of a range that they reach.                                   *)
LEMMA GaplessAdd ==
  ASSUME NEW S \in SUBSET File, Gapless(S), NEW x \in File,
         (x.to = x.from + 1 /\ Reach(S, x.from)) \/ Reach(S, x.to)
  PROVE  Gapless(S \cup {x})
<1> DEFINE T == S \cup {x}
<1> SUFFICES ASSUME NEW n \in Nat, Reach(T, n + 1)
             PROVE  \E g \in T : Both(T, g) /\ g.from <= n /\ n < g.to
  BY Zenon DEF Gapless
<1>0. /\ T \in SUBSET File /\ S \subseteq T /\ x \in T
      /\ x.from \in Nat /\ x.to \in Nat /\ n + 1 \in Nat
  BY FileIs
<1>a. Reach(S, n + 1) \/ (n + 1 <= x.to /\ Both(T, x))
  BY <1>0, AddReach
<1> HIDE DEF T
<1>1. CASE Reach(S, n + 1)
  <2>1. PICK g \in S : Both(S, g) /\ g.from <= n /\ n < g.to
    BY <1>1 DEF Gapless
  <2>2. Both(T, g) /\ g \in T
    BY <1>0, <2>1, Monotone
  <2> QED
    BY <2>1, <2>2
<1>2. CASE ~Reach(S, n + 1)
  <2>1. n + 1 <= x.to /\ Both(T, x)
    BY <1>a, <1>2
  <2>2. ~Reach(S, x.to)
    BY <1>0, <1>2, <2>1, ReachDown
  <2>3. x.to = x.from + 1 /\ Reach(S, x.from)
    BY <2>2
  <2>4. ~(n + 1 <= x.from)
    BY <1>0, <1>2, <2>3, ReachDown
  <2>5. x.from <= n /\ n < x.to
    BY <1>0, <2>1, <2>3, <2>4
  <2> QED
    BY <1>0, <2>1, <2>5
<1> QED
  BY <1>1, <1>2

(* Nor does a pair. *)
LEMMA GaplessPair ==
  ASSUME NEW S \in SUBSET File, Gapless(S), NEW x \in File,
         (x.to = x.from + 1 /\ Reach(S, x.from)) \/ Reach(S, x.to)
  PROVE  Gapless(S \cup {SameRange(x, d) : d \in Domains})
<1> DEFINE a == SameRange(x, Acc)
           c == SameRange(x, Com)
           T == S \cup {a}
<1>1. /\ a \in File /\ a.from = x.from /\ a.to = x.to
      /\ c \in File /\ c.from = x.from /\ c.to = x.to
  BY SameRangeIs DEF Domains
<1>2. S \cup {SameRange(x, d) : d \in Domains} = T \cup {c}
  BY DEF Domains
<1> HIDE DEF a, c
<1>3. Gapless(T)
  BY <1>1, GaplessAdd
<1>4. T \in SUBSET File /\ S \subseteq T
  BY <1>1
<1>5. (c.to = c.from + 1 /\ Reach(T, c.from)) \/ Reach(T, c.to)
  BY <1>1, <1>4, Monotone
<1>6. Gapless(T \cup {c})
  BY <1>1, <1>3, <1>4, <1>5, GaplessAdd, Zenon
<1> QED
  BY <1>2, <1>6

(* Nor do files that are removed from under pairs that stay. *)
LEMMA GaplessRemove ==
  ASSUME NEW S \in SUBSET File, NEW D \in SUBSET S, NEW R \in SUBSET File,
         R \cap D = {}, \A f \in R : Covered(D, f), Gapless(S)
  PROVE  Gapless(S \ R)
<1> DEFINE T == S \ R
<1>0. T \in SUBSET File /\ T \subseteq S /\ D \subseteq T /\ D \in SUBSET File
  OBVIOUS
<1> SUFFICES ASSUME NEW n \in Nat, Reach(T, n + 1)
             PROVE  \E g \in T : Both(T, g) /\ g.from <= n /\ n < g.to
  BY DEF Gapless
<1>1. Reach(S, n + 1)
  BY <1>0, Monotone
<1>2. PICK g \in S : Both(S, g) /\ g.from <= n /\ n < g.to
  BY <1>1 DEF Gapless
<1>3. g \in File /\ g.from \in Nat /\ g.to \in Nat
  BY FileIs
<1>4. CASE Both(T, g)
  <2>1. g \in T
    BY <1>3, <1>4, BothMember
  <2> QED
    BY <1>2, <1>4, <2>1
<1>5. CASE ~Both(T, g)
  <2>1. PICK d \in Domains : SameRange(g, d) \in R
    BY <1>2, <1>5 DEF Both
  <2>2. /\ SameRange(g, d) \in File
        /\ SameRange(g, d).from = g.from /\ SameRange(g, d).to = g.to
    BY <1>3, SameRangeIs
  <2>3. Covered(D, SameRange(g, d))
    BY <2>1
  <2>4. Covered(D, g)
    BY <1>3, <2>2, <2>3, BothRange
  <2>5. PICK h \in D : Both(D, h) /\ h.from <= g.from /\ g.to <= h.to
    BY <2>4 DEF Covered
  <2>6. Both(T, h) /\ h \in T /\ h.from \in Nat /\ h.to \in Nat
    BY <1>0, <2>5, Monotone, FileIs
  <2>7. h.from <= n /\ n < h.to
    BY <1>2, <1>3, <2>5, <2>6
  <2> QED
    BY <2>6, <2>7
<1> QED
  BY <1>4, <1>5, Zenon

------------------------------------------------------------------------------
\* What steps do to the files.

(* How dirtyFiles and what is visible change. *)
LEMMA DirtyChange ==
  ASSUME TypeOK, FilesInv, VisibleInv, BuilderInv, MergerInv, Next
  PROVE  \/ UNCHANGED <<dirty, visible>>
         \/ /\ visible' = CalcVisibleFiles(dirty')
            /\ \/ dirty' = disk /\ disk' = disk
               \/ \E x \in File : /\ IsNext(dirty, x) \/ Reach(dirty, x.to)
                                  /\ dirty' = dirty \cup {SameRange(x, d) : d \in Domains}
         \/ \E f \in File : /\ Covered(dirty \ {f}, f) /\ dirty' = dirty \ {f}
                            /\ UNCHANGED visible
<1>0. merger \in MergerStates
  BY DEF TypeOK
<1>1. CASE (\E h \in Holders : RemoveLast(h)) \/ DeleteFile
  BY <1>0, <1>1, RemoveFrame DEF MergerInv
<1>2. CASE CrashAndOpenFolder
  BY <1>2 DEF CrashAndOpenFolder
<1>3. CASE (\E r \in Readers : Reads(r)) \/ Writes
  BY <1>3, TxFrame
<1>4. CASE BuildFilesInBackground \/ BuildFails \/ BuildEnds
  BY <1>4, BuildFrame
<1>5. CASE \/ MergeLoop \/ MergeLoopStep \/ MergeFails \/ CleanAfterMerge
           \/ LockDirtyFiles \/ Cleaned \/ MergeStepEnds
  BY <1>5, MergeFrame
<1>6. CASE (\E d \in Domains : BuildDomain(d)) \/ MergeFiles
  BY <1>6 DEF BuildDomain, MergeFiles
<1>7. CASE IntegrateDirtyFiles
  <2> DEFINE x == StepFile(Acc)
  <2>1. /\ Building /\ visible' = CalcVisibleFiles(dirty')
        /\ dirty' = dirty \cup {StepFile(d) : d \in Domains}
    BY <1>7 DEF IntegrateDirtyFiles
  <2>2. /\ x \in File /\ IsNext(dirty, x)
        /\ \A d \in Domains : SameRange(x, d) = StepFile(d)
    BY <2>1, StepFileIs DEF Domains
  <2>3. dirty' = dirty \cup {SameRange(x, d) : d \in Domains}
    BY <2>1, <2>2
  <2> HIDE DEF x
  <2> QED
    BY <2>1, <2>2, <2>3, Zenon
<1>8. CASE IntegrateMergedDirtyFiles
  <2>1. /\ merger.at = "merge" /\ visible' = CalcVisibleFiles(dirty')
        /\ dirty' = dirty \cup merger.merged
    BY <1>8 DEF IntegrateMergedDirtyFiles
  <2>2. PICK m \in merger.merged : merger.merged = {SameRange(m, d) : d \in Domains}
    BY <2>1 DEF MergerInv
  <2>3. m \in File /\ Reach(dirty, m.to)
    BY <1>0, <2>1 DEF MergerInv, MergerStates
  <2>4. dirty' = dirty \cup {SameRange(m, d) : d \in Domains}
    BY <2>1, <2>2
  <2> QED
    BY <2>1, <2>3, <2>4, Zenon
<1>9. CASE MarkFile
  <2>1. PICK f \in merger.todo :
          dirty' = dirty \ {f} /\ UNCHANGED visible /\ Covered(dirty \ {f}, f)
    BY <1>9, MarkIs, Zenon
  <2>2. f \in File
    BY <1>0 DEF MergerStates
  <2> QED
    BY <2>1, <2>2, Zenon
<1>10. CASE Builds
  BY <1>4, <1>6, <1>7, <1>10, Zenon DEF Builds
<1>11. CASE Merges
  BY <1>1, <1>5, <1>6, <1>8, <1>9, <1>11, Zenon DEF Merges
<1> QED
  BY <1>1, <1>2, <1>3, <1>4, <1>10, <1>11, Zenon DEF Next

(* How the directory changes. *)
LEMMA DiskChange ==
  ASSUME TypeOK, MergerInv, Next
  PROVE  \/ UNCHANGED <<disk, torn>>
         \/ (\E R \in SUBSET canDelete : disk' = disk \ R) /\ UNCHANGED torn
         \/ \E d \in Domains : BuildDomain(d)
         \/ MergeFiles
<1>0. merger \in MergerStates
  BY DEF TypeOK
<1>1. CASE (\E h \in Holders : RemoveLast(h)) \/ DeleteFile
  <2>1. \E R \in SUBSET canDelete : disk' = disk \ R
    BY <1>0, <1>1, RemoveFrame DEF MergerInv
  <2>2. UNCHANGED torn
    BY <1>1 DEF RemoveLast, DeleteFile
  <2> QED
    BY <2>1, <2>2
<1>2. CASE CrashAndOpenFolder
  BY <1>2 DEF CrashAndOpenFolder
<1>3. CASE (\E r \in Readers : Reads(r)) \/ Writes
  <2>1. ASSUME NEW r \in Readers, Reads(r) PROVE UNCHANGED <<disk, torn>>
    BY <2>1 DEF Reads, BeginRo, OpenFiles, Rollback, files
  <2>2. CASE Writes
    BY <2>2 DEF Writes, BeginRw, WriteStep, Prune, EndRw, files
  <2> QED
    BY <1>3, <2>1, <2>2
<1>4. CASE BuildFilesInBackground \/ BuildFails \/ BuildEnds \/ IntegrateDirtyFiles
  BY <1>4 DEF BuildFilesInBackground, BuildFails, BuildEnds, IntegrateDirtyFiles, files
<1>5. CASE \/ MergeLoop \/ MergeLoopStep \/ MergeFails \/ CleanAfterMerge
           \/ LockDirtyFiles \/ Cleaned \/ MergeStepEnds
  BY <1>5 DEF MergeLoop, MergeLoopStep, MergeFails, CleanAfterMerge, LockDirtyFiles,
       Cleaned, MergeStepEnds, files
<1>6. CASE IntegrateMergedDirtyFiles \/ MarkFile
  BY <1>6 DEF IntegrateMergedDirtyFiles, MarkFile
<1>7. CASE Builds
  BY <1>4, <1>7, Zenon DEF Builds
<1>8. CASE Merges
  BY <1>1, <1>5, <1>6, <1>8, Zenon DEF Merges
<1> QED
  BY <1>1, <1>2, <1>3, <1>4, <1>7, <1>8, Zenon DEF Next

(* Pairs reach as far as before. *)
LEMMA ReachStep ==
  ASSUME TypeOK, FilesInv, VisibleInv, BuilderInv, MergerInv, Next
  PROVE  \A n \in Nat : Reach(dirty, n) => Reach(dirty', n)
<1>0. dirty \in SUBSET File /\ dirty \subseteq disk
  BY DEF TypeOK, FilesInv
<1>1. ASSUME dirty \subseteq dirty' PROVE \A n \in Nat : Reach(dirty, n) => Reach(dirty', n)
  BY <1>1, Monotone
<1>2. ASSUME NEW f \in File, Covered(dirty \ {f}, f), dirty' = dirty \ {f}
      PROVE  \A n \in Nat : Reach(dirty, n) => Reach(dirty', n)
  BY <1>0, <1>2, RemoveFile, Zenon
<1>3. dirty \subseteq dirty' \/ \E f \in File : Covered(dirty \ {f}, f) /\ dirty' = dirty \ {f}
  BY <1>0, DirtyChange
<1> QED
  BY <1>1, <1>2, <1>3, Zenon

(* A holder keeps its files, opens what is visible, or closes. *)
LEMMA HeldChange ==
  ASSUME TypeOK, MergerInv, HoldersInv, Next
  PROVE  \A h \in Holders : held'[h] \in {held[h], visible, {}}
<1>1. ASSUME UNCHANGED held PROVE \A h \in Holders : held'[h] \in {held[h], visible, {}}
  BY <1>1
<1>2. ASSUME NEW h \in Holders, Opens(h) \/ Closes(h)
      PROVE  \A k \in Holders : held'[k] \in {held[k], visible, {}}
  BY <1>2, OpenIs, CloseIs
<1>3. ASSUME NEW h \in Holders, RemoveLast(h) PROVE UNCHANGED held
  BY <1>3 DEF RemoveLast
<1>4. CASE CrashAndOpenFolder
  BY <1>4 DEF CrashAndOpenFolder
<1>5. CASE (\E r \in Readers : Reads(r)) \/ Writes
  BY <1>1, <1>2, <1>5, TxRefs
<1>6. CASE \/ BuildFilesInBackground \/ Builds
           \/ MergeFiles \/ IntegrateMergedDirtyFiles \/ MarkFile \/ DeleteFile
  BY <1>1, <1>6, JobRefs
<1>7. CASE \/ MergeLoop \/ MergeLoopStep \/ MergeFails \/ CleanAfterMerge
           \/ LockDirtyFiles \/ Cleaned \/ MergeStepEnds
  BY <1>1, <1>2, <1>7, MergeRefs, HoldersAre
<1>8. CASE Merges
  BY <1>6, <1>7, <1>8, Zenon DEF Merges
<1> QED
  BY <1>1, <1>3, <1>4, <1>5, <1>6, <1>8, Zenon DEF Next

(* A merge that goes on keeps its ranges and its files. *)
LEMMA MergeGoesOn ==
  ASSUME TypeOK, MergerInv, HoldersInv, Next, merger'.at = "merge", ~MergeLoopStep
  PROVE  /\ merger.at = "merge" /\ merger'.merged = merger.merged
         /\ held'["merge"] = held["merge"]
<1>0. merger \in MergerStates /\ held \in [Holders -> SUBSET File]
  BY DEF TypeOK
<1>1. CASE (\E h \in Holders : RemoveLast(h)) \/ DeleteFile
  BY <1>0, <1>1, RemoveFrame DEF MergerInv
<1>2. CASE CrashAndOpenFolder \/ MergeFails \/ MergeStepEnds
  <2>1. merger' \in {NoMerge, [NoMerge EXCEPT !.at = "idle"], [NoMerge EXCEPT !.at = "loop"]}
    BY <1>2, Zenon DEF CrashAndOpenFolder, MergeFails, MergeStepEnds
  <2> QED
    BY <2>1 DEF NoMerge
<1>3. CASE (\E r \in Readers : Reads(r)) \/ Writes
  <2>1. held'["merge"] = held["merge"]
    <3>1. ASSUME NEW r \in Readers, Reads(r) PROVE held'["merge"] = held["merge"]
      <4>1. r # "merge"
        BY HoldersAre
      <4> QED
        BY <1>0, <3>1, <4>1 DEF Reads, BeginRo, OpenFiles, Rollback, refs, BeginFilesRo,
           CloseFiles, Holders
    <3>2. CASE Writes
      BY <1>0, <3>2 DEF Writes, BeginRw, WriteStep, Prune, EndRw, refs, BeginFilesRo,
         CloseFiles, Holders
    <3> QED
      BY <1>3, <3>1, <3>2
  <2>2. UNCHANGED merger
    BY <1>3, TxFrame
  <2> QED
    BY <2>1, <2>2
<1>4. CASE BuildFilesInBackground \/ Builds
  <2>1. UNCHANGED held
    BY <1>4, JobRefs
  <2>2. UNCHANGED merger
    BY <1>4 DEF BuildFilesInBackground, Builds, BuildDomain, IntegrateDirtyFiles,
       BuildFails, BuildEnds
  <2> QED
    BY <2>1, <2>2
<1>5. CASE MergeLoop
  <2>1. UNCHANGED held
    BY <1>5 DEF MergeLoop, refs
  <2>2. merger' = merger \/ merger'.at = "loop"
    BY <1>0, <1>5 DEF MergeLoop, MergerStates
  <2> QED
    BY <2>1, <2>2
<1>6. CASE MergeFiles
  <2>1. UNCHANGED held /\ merger.at = "merge"
    BY <1>6 DEF MergeFiles, refs
  <2>2. merger'.merged = merger.merged
    BY <1>0, <1>6 DEF MergeFiles, MergerStates
  <2> QED
    BY <2>1, <2>2
<1>7. CASE IntegrateMergedDirtyFiles \/ CleanAfterMerge
  BY <1>0, <1>7, Zenon DEF IntegrateMergedDirtyFiles, CleanAfterMerge, MergerStates
<1>8. CASE LockDirtyFiles \/ MarkFile \/ Cleaned
  BY <1>0, <1>8, Zenon DEF LockDirtyFiles, MarkFile, Cleaned, MergerStates
<1>9. CASE Merges
  BY <1>1, <1>2, <1>5, <1>6, <1>7, <1>8, <1>9, Zenon DEF Merges
<1> QED
  BY <1>1, <1>2, <1>3, <1>4, <1>9, Zenon DEF Next

(* A merge step starts with the ranges of FilesToMerge and what is visible. *)
LEMMA MergeStarts ==
  ASSUME TypeOK, VisibleInv, MergeLoopStep, merger'.at = "merge"
  PROVE  /\ held'["merge"] = visible
         /\ \E m \in File, v \in visible :
              /\ merger'.merged = {SameRange(m, d) : d \in Domains}
              /\ m.to = v.to /\ m.from < v.from
              /\ m.from = m.to - RightmostBit(m.to)
<1> DEFINE merged == FilesToMerge(visible)
<1>1. held'["merge"] = visible
  BY HoldersAre DEF TypeOK, MergeLoopStep, BeginFilesRo
<1>2. merger' = [NoMerge EXCEPT !.at = IF merged = {} THEN "clean" ELSE "merge",
                                !.merged = merged]
  BY DEF MergeLoopStep
<1>3. NoMerge \in MergerStates
  BY DEF NoMerge, MergerStates
<1> HIDE DEF merged
<1>4. merger'.merged = merged /\ merged # {}
  BY <1>2, <1>3 DEF MergerStates
<1>5. visible \in SUBSET File /\ IsAligned(visible)
  BY DEF TypeOK, VisibleInv
<1>6. \E m \in File, v \in visible :
        /\ merged = {SameRange(m, d) : d \in Domains}
        /\ m.to = v.to /\ m.from < v.from
        /\ m.from = m.to - RightmostBit(m.to)
  BY <1>4, <1>5, FilesToMergeIs, Zenon DEF merged
<1> QED
  BY <1>1, <1>4, <1>6, Zenon

------------------------------------------------------------------------------
\* The steps keep it.

(* Ranges are cut at multiples of their length. *)
LEMMA RangesStep ==
  ASSUME TypeOK, VisibleInv, BuilderInv, MergerInv, HoldersInv, RangesInv, Next
  PROVE  RangesInv'
<1>0. merger.merged \subseteq File
  BY DEF TypeOK, MergerStates
<1>1. ASSUME NEW f \in disk' PROVE Dyadic(f)
  <2>1. CASE f \in disk
    BY <2>1 DEF RangesInv
  <2>2. ASSUME NEW d \in Domains, BuildDomain(d), f \notin disk PROVE Dyadic(f)
    <3>1. Building /\ f = StepFile(d)
      BY <2>2 DEF BuildDomain
    <3>2. f \in File /\ f.to = f.from + 1
      BY <3>1, StepFileIs
    <3> QED
      BY <3>2, StepDyadic
  <2>3. CASE MergeFiles /\ f \notin disk
    <3> DEFINE x == First(merger.merged \ merger.wrote)
    <3>1. merger.at = "merge" /\ merger.wrote # merger.merged /\ f = x
      BY <2>3 DEF MergeFiles
    <3>2. x \in merger.merged
      BY <3>1, NextMerged
    <3> QED
      BY <3>1, <3>2 DEF RangesInv
  <2> QED
    BY <2>1, <2>2, <2>3, DiskChange
<1>2. ASSUME merger'.at = "merge", NEW x \in merger'.merged PROVE Dyadic(x)
  <2>1. CASE MergeLoopStep
    <3>1. PICK m \in File : /\ merger'.merged = {SameRange(m, d) : d \in Domains}
                            /\ m.from = m.to - RightmostBit(m.to)
      BY <1>2, <2>1, MergeStarts, Zenon
    <3>2. Dyadic(m)
      BY <3>1, MergedDyadic
    <3>3. PICK d \in Domains : x = SameRange(m, d)
      BY <1>2, <3>1
    <3>4. x.from = m.from /\ x.to = m.to
      BY <3>3, SameRangeIs
    <3> QED
      BY <3>2, <3>4, DyadicRange
  <2>2. CASE ~MergeLoopStep
    <3>1. merger.at = "merge" /\ merger'.merged = merger.merged
      BY <1>2, <2>2, MergeGoesOn
    <3> QED
      BY <1>2, <3>1 DEF RangesInv
  <2> QED
    BY <2>1, <2>2
<1>3. \A f : Dyadic(f)' = Dyadic(f)
  BY DEF Dyadic, PowerOfTwo
<1> QED
  BY <1>1, <1>2 DEF RangesInv

(* Neither dirtyFiles, nor the directory, nor any view has a gap. *)
LEMMA GaplessStep ==
  ASSUME TypeOK, FilesInv, VisibleInv, BuilderInv, MergerInv, HoldersInv, GaplessInv,
         Next, TypeOK', FilesInv'
  PROVE  GaplessInv'
<1>0. /\ dirty \in SUBSET File /\ disk \in SUBSET File /\ dirty \subseteq disk
      /\ dirty' \in SUBSET File /\ Shaped(dirty')
      /\ Gapless(dirty) /\ Gapless(disk) /\ Solid(visible)
  BY DEF TypeOK, FilesInv, GaplessInv
<1>1. Gapless(dirty')
  <2>1. ASSUME NEW x \in File, IsNext(dirty, x) \/ Reach(dirty, x.to),
               dirty' = dirty \cup {SameRange(x, d) : d \in Domains}
        PROVE  Gapless(dirty')
    <3>1. (x.to = x.from + 1 /\ Reach(dirty, x.from)) \/ Reach(dirty, x.to)
      BY <2>1 DEF IsNext
    <3>2. Gapless(dirty \cup {SameRange(x, d) : d \in Domains})
      BY <1>0, <3>1, GaplessPair
    <3> QED
      BY <2>1, <3>2
  <2>2. ASSUME NEW f \in File, Covered(dirty \ {f}, f), dirty' = dirty \ {f}
        PROVE  Gapless(dirty')
    <3>1. /\ dirty \ {f} \in SUBSET dirty /\ {f} \in SUBSET File
          /\ {f} \cap (dirty \ {f}) = {}
          /\ \A g \in {f} : Covered(dirty \ {f}, g)
      BY <2>2
    <3>2. Gapless(dirty \ {f})
      BY <1>0, <3>1, GaplessRemove, Zenon
    <3> QED
      BY <2>2, <3>2
  <2>3. \/ dirty' = dirty \/ dirty' = disk
        \/ \E x \in File : /\ IsNext(dirty, x) \/ Reach(dirty, x.to)
                           /\ dirty' = dirty \cup {SameRange(x, d) : d \in Domains}
        \/ \E f \in File : Covered(dirty \ {f}, f) /\ dirty' = dirty \ {f}
    BY DirtyChange, Zenon
  <2> QED
    BY <1>0, <2>1, <2>2, <2>3, Zenon
<1>2. Gapless(disk')
  <2>1. ASSUME NEW R \in SUBSET canDelete, disk' = disk \ R PROVE Gapless(disk')
    <3>1. R \in SUBSET File /\ R \cap dirty = {} /\ \A f \in R : Covered(dirty, f)
      BY DEF TypeOK, FilesInv
    <3>2. Gapless(disk \ R)
      BY <1>0, <3>1, GaplessRemove, Zenon
    <3> QED
      BY <2>1, <3>2
  <2>2. ASSUME NEW d \in Domains, BuildDomain(d) PROVE Gapless(disk')
    <3> DEFINE x == StepFile(d)
    <3>1. Building /\ disk' = disk \cup {x}
      BY <2>2 DEF BuildDomain
    <3>2. x \in File /\ x.to = x.from + 1 /\ Reach(dirty, x.from)
      BY <3>1, StepFileIs DEF IsNext
    <3> HIDE DEF x
    <3>3. Reach(disk, x.from)
      BY <1>0, <3>2, Monotone
    <3>4. Gapless(disk \cup {x})
      BY <1>0, <3>2, <3>3, GaplessAdd
    <3> QED
      BY <3>1, <3>4
  <2>3. CASE MergeFiles
    <3> DEFINE x == First(merger.merged \ merger.wrote)
    <3>1. merger.at = "merge" /\ merger.wrote # merger.merged /\ disk' = disk \cup {x}
      BY <2>3 DEF MergeFiles
    <3>2. x \in merger.merged /\ x \in File
      BY <3>1, NextMerged
    <3> HIDE DEF x
    <3>3. Reach(dirty, x.to)
      BY <3>1, <3>2 DEF MergerInv
    <3>4. Reach(disk, x.to)
      BY <1>0, <3>3, Monotone
    <3>5. Gapless(disk \cup {x})
      BY <1>0, <3>2, <3>4, GaplessAdd
    <3> QED
      BY <3>1, <3>5
  <2> QED
    BY <1>0, <2>1, <2>2, <2>3, DiskChange
<1>3. Solid(visible')
  <2>1. visible' = visible \/ visible' = CalcVisibleFiles(dirty')
    BY DirtyChange, Zenon
  <2>2. Solid(CalcVisibleFiles(dirty'))
    BY <1>0, <1>1, CalcSolid
  <2> QED
    BY <1>0, <2>1, <2>2
<1>4. ASSUME NEW h \in Holders PROVE Solid(held'[h])
  <2>1. Solid({})
    BY DEF Solid
  <2>2. Solid(held[h])
    BY DEF GaplessInv
  <2> QED
    BY <1>0, <2>1, <2>2, HeldChange, Zenon
<1> QED
  BY <1>1, <1>2, <1>3, <1>4 DEF GaplessInv

(* The files a merge reads fill its range: no file that is visible reaches *)
(* over an end of it.                                                      *)
LEMMA PartsStep ==
  ASSUME TypeOK, FilesInv, VisibleInv, MergerInv, HoldersInv, RangesInv, GaplessInv, PartsInv, Next
  PROVE  PartsInv'
<1> SUFFICES ASSUME merger'.at = "merge", NEW x \in merger'.merged, NEW n \in Nat,
                    x.from <= n, n < x.to
             PROVE  \E g \in held'["merge"] : /\ IsProperSubsetOf(g, x)
                                              /\ g.from <= n /\ n < g.to
  BY DEF PartsInv, IsProperSubsetOf
<1>1. CASE ~MergeLoopStep
  <2>1. /\ merger.at = "merge" /\ merger'.merged = merger.merged
        /\ held'["merge"] = held["merge"]
    BY <1>1, MergeGoesOn
  <2> QED
    BY <2>1 DEF PartsInv
<1>2. CASE MergeLoopStep
  <2>1. held'["merge"] = visible
    BY <1>2, MergeStarts
  <2>2. PICK m \in File, v \in visible :
          /\ merger'.merged = {SameRange(m, d) : d \in Domains}
          /\ m.to = v.to /\ m.from < v.from
          /\ m.from = m.to - RightmostBit(m.to)
    BY <1>2, MergeStarts, Zenon
  <2>3. PICK d \in Domains : x = SameRange(m, d)
    BY <2>2
  <2>4. x \in File /\ x.d = d /\ x.from = m.from /\ x.to = m.to
    BY <2>3, SameRangeIs
  <2>5. ASSUME NEW f \in visible PROVE f \in File /\ f \in dirty /\ Both(dirty, f) /\ Dyadic(f)
    <3>1. f \in File /\ Both(dirty, f)
      BY DEF TypeOK, VisibleInv
    <3>2. f \in dirty
      BY <3>1, BothMember
    <3>3. f \in disk
      BY <3>2 DEF FilesInv
    <3> QED
      BY <3>1, <3>2, <3>3 DEF RangesInv
  <2>6. n < v.to
    BY <2>2, <2>4
  <2>7. PICK g \in visible : g.from <= n /\ n < g.to
    BY <2>6 DEF GaplessInv, Solid
  <2>8. Dyadic(m)
    BY <2>2, MergedDyadic
  <2>9. /\ g.from \in Nat /\ g.to \in Nat /\ m.from \in Nat /\ m.to \in Nat
        /\ v.from \in Nat /\ v.to \in Nat
    BY <2>5, FileIs
  <2>10. \/ m.from <= g.from /\ g.to <= m.to
         \/ g.from <= m.from /\ m.to <= g.to
    BY <2>4, <2>5, <2>7, <2>8, DyadicNested
  <2>11. ~(g.from <= m.from /\ m.to <= g.to)
    <3> SUFFICES ASSUME g.from <= m.from, m.to <= g.to PROVE FALSE
      OBVIOUS
    <3>1. g.from <= v.from /\ v.to <= g.to /\ g.from # v.from
      BY <2>2, <2>9
    <3>2. Covered(dirty, v)
      BY <2>5, <3>1 DEF Covered
    <3> QED
      BY <3>2 DEF VisibleInv
  <2>12. m.from <= g.from /\ g.to <= m.to
    BY <2>10, <2>11
  <2>13. ~(g.from = m.from /\ g.to = m.to)
    BY <2>9, <2>11
  <2> DEFINE h == SameRange(g, d)
  <2>14. h \in visible
    BY DEF VisibleInv, IsAligned
  <2>15. h.d = d /\ h.from = g.from /\ h.to = g.to
    BY <2>5, SameRangeIs
  <2> HIDE DEF h
  <2>16. IsProperSubsetOf(h, x)
    BY <2>4, <2>12, <2>13, <2>15 DEF IsProperSubsetOf
  <2> QED
    BY <2>1, <2>7, <2>14, <2>15, <2>16
<1> QED
  BY <1>1, <1>2

(* What rows have, they have from below. *)
LEMMA WithinDown ==
  ASSUME NEW rows \in [Domains -> SUBSET Steps], NEW n \in Nat, NEW m \in Nat, m <= n,
         Within(rows, n)
  PROVE  Within(rows, m)
<1>1. Top(rows) \in Nat
  BY TopIs, AggregatorAssumption DEF Steps
<1>2. n <= Top(rows)
  BY TopIs
<1>3. m <= Top(rows)
  BY <1>1, <1>2
<1> QED
  BY <1>3, TopIs

(* A step that is being collated has its rows. *)
LEMMA CollatedIs ==
  ASSUME TypeOK, BuilderInv, CommittedInv, RowsInv, Building, NEW d \in Domains
  PROVE  builder.step \in db[d] /\ Within(db, builder.step + 1)
<1>1. /\ builder.step \in Nat /\ builder.upto \in Nat /\ builder.step < builder.upto
      /\ db \in [Domains -> SUBSET Steps]
  BY AggregatorAssumption DEF TypeOK, BuilderStates, Steps, Building
<1>2. Within(db, builder.upto)
  BY DEF CommittedInv
<1>3. builder.step <= builder.upto /\ builder.step + 1 <= builder.upto /\ builder.step + 1 \in Nat
  BY <1>1
<1>4. Within(db, builder.step) /\ Within(db, builder.step + 1)
  BY <1>1, <1>2, <1>3, WithinDown
<1>5. ~Reach(dirty, builder.step + 1)
  BY DEF BuilderInv
<1> QED
  BY <1>1, <1>4, <1>5 DEF RowsInv, Kept

(* Files have every value of their range. *)
LEMMA TornStep ==
  ASSUME TypeOK, BuilderInv, MergerInv, CommittedInv, RowsInv, PartsInv, torn = {}, Next
  PROVE  torn' = {}
<1>1. ASSUME NEW d \in Domains, BuildDomain(d) PROVE torn' = {}
  <2>1. Building
    BY <1>1 DEF BuildDomain
  <2>2. builder.step \in db[d]
    BY <2>1, CollatedIs
  <2>3. torn' = torn \ {StepFile(d)}
    BY <1>1, <2>2, Zenon DEF BuildDomain
  <2> QED
    BY <2>3
<1>2. CASE MergeFiles
  <2> DEFINE x == First(merger.merged \ merger.wrote)
             parts == {g \in held["merge"] : IsProperSubsetOf(g, x)}
  <2>1. /\ merger.at = "merge" /\ merger.wrote # merger.merged
        /\ torn' = IF x.from..(x.to - 1) = UNION {g.from..(g.to - 1) : g \in parts \ torn}
                   THEN torn \ {x} ELSE torn \cup {x}
    BY <1>2 DEF MergeFiles
  <2>2. x \in merger.merged /\ x \in File
    BY <2>1, NextMerged, Zenon
  <2> HIDE DEF x
  <2>3. x.from \in Nat /\ x.to \in Nat
    BY <2>2, FileIs
  <2>4. \A g \in parts : /\ g.from \in Nat /\ g.to \in Nat
                         /\ x.from <= g.from /\ g.to <= x.to
    BY FileIs, HoldersAre DEF TypeOK, IsProperSubsetOf
  <2>5. \A n \in x.from..(x.to - 1) : \E g \in parts : n \in g.from..(g.to - 1)
    <3> TAKE n \in x.from..(x.to - 1)
    <3>1. n \in Nat /\ x.from <= n /\ n < x.to
      BY <2>3
    <3>2. PICK g \in held["merge"] : IsProperSubsetOf(g, x) /\ g.from <= n /\ n < g.to
      BY <2>1, <2>2, <3>1 DEF PartsInv
    <3>3. g \in parts
      BY <3>2
    <3>4. n \in g.from..(g.to - 1)
      BY <2>4, <3>1, <3>2, <3>3
    <3> QED
      BY <3>3, <3>4
  <2>6. \A g \in parts : g.from..(g.to - 1) \subseteq x.from..(x.to - 1)
    BY <2>3, <2>4
  <2> HIDE DEF parts
  <2>7. x.from..(x.to - 1) = UNION {g.from..(g.to - 1) : g \in parts \ torn}
    <3>1. parts \ torn = parts
      OBVIOUS
    <3>2. x.from..(x.to - 1) = UNION {g.from..(g.to - 1) : g \in parts}
      BY <2>5, <2>6, Zenon
    <3> QED
      BY <3>1, <3>2
  <2>8. torn' = torn \ {x}
    BY <2>1, <2>7
  <2> QED
    BY <2>8
<1> QED
  BY <1>1, <1>2, DiskChange

------------------------------------------------------------------------------
(* Nothing that is committed is lost: the rows of a commit go as far as    *)
(* those before.                                                           *)
LEMMA WithinStep ==
  ASSUME TypeOK, RowsInv, Next
  PROVE  \A n \in Nat : Within(db, n) => Within(db', n)
<1>1. ASSUME UNCHANGED db PROVE \A n \in Nat : Within(db, n) => Within(db', n)
  BY <1>1
<1>2. CASE EndRw(TRUE)
  <2>1. tx["writer"].at = "open" /\ db' = tx["writer"].rows
    BY <1>2 DEF EndRw
  <2> QED
    BY <2>1 DEF RowsInv
<1>3. CASE BeginRw \/ WriteStep \/ Prune \/ EndRw(FALSE)
  <2>1. UNCHANGED db
    BY <1>3 DEF BeginRw, WriteStep, Prune, EndRw
  <2> QED
    BY <1>1, <2>1
<1>4. ASSUME NEW r \in Readers, Reads(r) PROVE UNCHANGED db
  BY <1>4 DEF Reads, BeginRo, OpenFiles, Rollback
<1>5. ASSUME NEW h \in Holders, RemoveLast(h) PROVE UNCHANGED db
  BY <1>5 DEF RemoveLast
<1>6. CASE CrashAndOpenFolder \/ BuildFilesInBackground \/ Builds
  <2>1. UNCHANGED db
    BY <1>6 DEF CrashAndOpenFolder, BuildFilesInBackground, Builds, BuildDomain,
       IntegrateDirtyFiles, BuildFails, BuildEnds
  <2> QED
    BY <1>1, <2>1
<1>7. CASE Merges
  <2>1. CASE \/ MergeLoop \/ MergeLoopStep \/ MergeFiles \/ MergeFails
             \/ IntegrateMergedDirtyFiles \/ CleanAfterMerge
    BY <2>1 DEF MergeLoop, MergeLoopStep, MergeFiles, MergeFails,
       IntegrateMergedDirtyFiles, CleanAfterMerge
  <2>2. CASE LockDirtyFiles \/ MarkFile \/ DeleteFile \/ Cleaned \/ MergeStepEnds
    BY <2>2 DEF LockDirtyFiles, MarkFile, DeleteFile, Cleaned, MergeStepEnds
  <2> QED
    BY <1>7, <2>1, <2>2, Zenon DEF Merges
<1>8. CASE Writes
  BY <1>2, <1>3, <1>8, Zenon DEF Writes
<1> QED
  BY <1>1, <1>4, <1>5, <1>6, <1>7, <1>8, Zenon DEF Next

(* Files end where rows are committed. *)
LEMMA CommittedStep ==
  ASSUME TypeOK, FilesInv, BuilderInv, MergerInv, CommittedInv, RowsInv, Next
  PROVE  CommittedInv'
<1>0. db \in [Domains -> SUBSET Steps] /\ builder \in BuilderStates /\ disk \subseteq File
  BY DEF TypeOK
<1>1. \A n \in Nat : Within(db, n) => Within(db', n)
  BY WithinStep
<1>2. ASSUME NEW f \in disk' PROVE f.to \in Nat /\ Within(db, f.to)
  <2>1. CASE f \in disk
    BY <1>0, <2>1, FileIs DEF CommittedInv
  <2>2. ASSUME NEW d \in Domains, BuildDomain(d), f \notin disk
        PROVE  f.to \in Nat /\ Within(db, f.to)
    <3>1. Building /\ f = StepFile(d)
      BY <2>2 DEF BuildDomain
    <3>2. f \in File /\ f.to = builder.step + 1
      BY <3>1, StepFileIs
    <3>3. Within(db, builder.step + 1)
      BY <3>1, CollatedIs
    <3> QED
      BY <3>2, <3>3, FileIs
  <2>3. CASE MergeFiles /\ f \notin disk
    <3> DEFINE x == First(merger.merged \ merger.wrote)
    <3>1. merger.at = "merge" /\ merger.wrote # merger.merged /\ f = x
      BY <2>3 DEF MergeFiles
    <3>2. x \in merger.merged /\ x \in File
      BY <3>1, NextMerged
    <3> HIDE DEF x
    <3>3. x.to \in Nat /\ x.to # 0 /\ Reach(dirty, x.to)
      BY <3>1, <3>2, FileIs DEF MergerInv
    <3>4. PICK g \in dirty : x.to <= g.to
      BY <3>3 DEF Reach
    <3>5. g.to \in Nat /\ Within(db, g.to)
      BY <1>0, FileIs DEF FilesInv, CommittedInv
    <3>6. Within(db, x.to)
      BY <1>0, <3>3, <3>4, <3>5, WithinDown
    <3> QED
      BY <3>1, <3>3, <3>6
  <2> QED
    BY <2>1, <2>2, <2>3, DiskChange
<1>3. ASSUME Building' PROVE builder'.upto \in Nat /\ Within(db, builder'.upto)
  <2>0. builder.upto \in Nat
    BY <1>0, AggregatorAssumption DEF BuilderStates, Steps
  <2>1. CASE builder' = builder
    BY <1>3, <2>0, <2>1 DEF Building, CommittedInv
  <2>2. CASE BuildFilesInBackground
    <3>1. builder'.upto = LastIdInDB
      BY <2>2 DEF BuildFilesInBackground
    <3>2. LastIdInDB = Top(db)
      BY DEF LastIdInDB, Top
    <3>3. Top(db) \in Nat /\ Top(db) <= Top(db)
      BY <1>0, TopIs, AggregatorAssumption DEF Steps
    <3>4. Within(db, Top(db))
      BY <1>0, <3>3, TopIs
    <3> QED
      BY <3>1, <3>2, <3>3, <3>4
  <2>3. CASE (\E d \in Domains : BuildDomain(d)) \/ IntegrateDirtyFiles
    <3>1. Building /\ builder'.upto = builder.upto
      BY <1>0, <2>3, Zenon DEF BuildDomain, IntegrateDirtyFiles, BuilderStates
    <3> QED
      BY <2>0, <3>1 DEF CommittedInv
  <2>4. CASE BuildFails
    <3>1. builder'.upto = builder.step /\ builder'.step = builder.step
      BY <1>0, <2>4 DEF BuildFails, BuilderStates
    <3>2. builder.step \in Nat
      BY <1>0, AggregatorAssumption DEF BuilderStates, Steps
    <3> QED
      BY <1>3, <3>1, <3>2 DEF Building
  <2>5. CASE BuildEnds \/ CrashAndOpenFolder
    <3>1. builder' = NoBuild
      BY <2>5, Zenon DEF BuildEnds, CrashAndOpenFolder
    <3>2. NoBuild.at # "build"
      BY DEF NoBuild
    <3> QED
      BY <1>3, <3>1, <3>2, Zenon DEF Building
  <2>6. CASE (\E r \in Readers : Reads(r)) \/ Writes
    BY <2>1, <2>6, TxFrame
  <2>7. CASE (\E h \in Holders : RemoveLast(h)) \/ DeleteFile
    <3>1. builder' = builder
      BY <2>7 DEF RemoveLast, jobs, DeleteFile
    <3> QED
      BY <2>1, <3>1
  <2>8. CASE \/ MergeLoop \/ MergeLoopStep \/ MergeFails \/ CleanAfterMerge
             \/ LockDirtyFiles \/ Cleaned \/ MergeStepEnds
    BY <2>1, <2>8, MergeFrame
  <2>9. CASE MergeFiles \/ IntegrateMergedDirtyFiles \/ MarkFile
    <3>1. builder' = builder
      BY <2>9 DEF MergeFiles, IntegrateMergedDirtyFiles, MarkFile
    <3> QED
      BY <2>1, <3>1
  <2>10. CASE Builds
    BY <2>3, <2>4, <2>5, <2>10, Zenon DEF Builds
  <2>11. CASE Merges
    BY <2>7, <2>8, <2>9, <2>11, Zenon DEF Merges
  <2> QED
    BY <2>2, <2>5, <2>6, <2>7, <2>10, <2>11, Zenon DEF Next
<1> QED
  BY <1>1, <1>2, <1>3 DEF CommittedInv

------------------------------------------------------------------------------
(* Pairs of dirtyFiles are visible as far as they reach. *)
LEMMA KeptShows ==
  ASSUME TypeOK, VisibleInv, NEW rows, Kept(rows, dirty)
  PROVE  InView(rows, visible)
<1> SUFFICES ASSUME NEW n \in Nat, NEW d \in Domains, Within(rows, n), n \notin rows[d]
             PROVE  \E f \in visible : n < f.to
  BY DEF InView
<1>1. Reach(dirty, n + 1) /\ n + 1 # 0
  BY DEF Kept
<1>2. PICK g \in dirty : Both(dirty, g) /\ n + 1 <= g.to
  BY <1>1 DEF Reach
<1>3. PICK f \in visible : g.to <= f.to
  BY <1>2 DEF VisibleInv
<1>4. f.to \in Nat /\ g.to \in Nat
  BY FileIs DEF TypeOK
<1>5. n < f.to
  BY <1>2, <1>3, <1>4
<1> QED
  BY <1>5

(* The transaction that writes adds a step that follows all others. *)
LEMMA WriteIs ==
  ASSUME TypeOK, NEW rows \in [Domains -> SUBSET Steps],
         \A n \in Nat : Within(db, n) => Within(rows, n),
         NEW next, next = [d \in Domains |-> rows[d] \cup {LastIdInDB + 1}],
         NEW n \in Nat, NEW d \in Domains
  PROVE  /\ Within(rows, n) => Within(next, n)
         /\ Within(next, n) => Within(rows, n) \/ n \in next[d]
         /\ rows[d] \subseteq next[d]
<1>1. LastIdInDB = Top(db) /\ LastIdInDB \in Nat
  BY TopIs, AggregatorAssumption DEF LastIdInDB, Top, TypeOK, Steps
<1>2. \A c \in Domains : next[c] = rows[c] \cup {LastIdInDB + 1}
  OBVIOUS
<1>3. ASSUME Within(rows, n) PROVE Within(next, n)
  BY <1>2, <1>3 DEF Within
<1>4. ASSUME Within(next, n) PROVE Within(rows, n) \/ n \in next[d]
  <2>1. CASE n = 0
    BY <2>1 DEF Within
  <2>2. CASE n # 0
    <3>1. PICK c \in Domains : \E s \in next[c] : n <= s
      BY <1>4, <2>2 DEF Within
    <3>2. PICK s \in next[c] : n <= s
      BY <3>1
    <3>3. CASE s \in rows[c]
      BY <3>2, <3>3 DEF Within
    <3>4. CASE s = LastIdInDB + 1
      <4>1. CASE n = LastIdInDB + 1
        BY <1>2, <4>1
      <4>2. CASE n # LastIdInDB + 1
        <5>1. n <= Top(db)
          BY <1>1, <3>2, <3>4, <4>2
        <5>2. Within(db, n)
          BY <5>1, TopIs DEF TypeOK
        <5> QED
          BY <5>2
      <4> QED
        BY <4>1, <4>2
    <3> QED
      BY <1>2, <3>2, <3>3, <3>4
  <2> QED
    BY <2>1, <2>2
<1> QED
  BY <1>2, <1>3, <1>4

(* Pruning takes steps away that are in files: in those that are visible   *)
(* and, if it has any, in the transaction's own.                           *)
LEMMA PruneIs ==
  ASSUME TypeOK, VisibleInv, HeldAligned, CanPrune, NEW d \in Domains
  PROVE  /\ PruneLimit(d) \in Nat /\ Minimax \in Nat /\ PruneLimit(d) < Minimax
         /\ \E f \in visible : f.to = Minimax
         /\ held["writer"] # {} => \E f \in held["writer"] : PruneLimit(d) < f.to
<1> DEFINE own == End(held["writer"], d)
           bound == IF own > 0 THEN own - 1 ELSE 0
<1>1. /\ Minimax \in Nat /\ Minimax > 0
      /\ \E f \in visible : f.to = Minimax
  BY MinimaxIs, AggregatorAssumption DEF TypeOK, VisibleInv, CanPrune, Steps
<1>2. held["writer"] \in SUBSET File /\ IsAligned(held["writer"])
  BY HoldersAre DEF TypeOK, HeldAligned
<1>3. /\ own \in Nat
      /\ \A f \in held["writer"] : f.d = d => f.to <= own
      /\ own = 0 \/ \E f \in held["writer"] : f.d = d /\ f.to = own
  BY <1>2, EndIs, AggregatorAssumption DEF Steps
<1>4. PruneLimit(d) = Min({Minimax - 1, bound})
  BY DEF PruneLimit
<1> HIDE DEF own
<1>5. Minimax - 1 \in Nat /\ bound \in Nat
  BY <1>1, <1>3
<1> HIDE DEF bound
<1>6. PICK s : s = {Minimax - 1, bound}
  BY Zenon
<1>7. s \in SUBSET Nat /\ s # {}
  BY <1>5, <1>6
<1>8. Min(s) \in s /\ \A x \in s : Min(s) <= x
  BY <1>7, MinIs
<1>9. PruneLimit(d) \in Nat /\ PruneLimit(d) <= Minimax - 1 /\ PruneLimit(d) <= bound
  BY <1>4, <1>6, <1>7, <1>8
<1>10. ASSUME held["writer"] # {} PROVE \E f \in held["writer"] : PruneLimit(d) < f.to
  <2>1. PICK f \in held["writer"] : TRUE
    BY <1>10
  <2>2. /\ SameRange(f, d) \in held["writer"] /\ SameRange(f, d).d = d
        /\ SameRange(f, d).to = f.to /\ f.to \in Nat /\ f.to > 0
    BY <1>2, SameRangeIs, FileIs DEF IsAligned
  <2>3. f.to <= own
    BY <1>3, <2>2
  <2>4. own > 0 /\ bound < own
    BY <1>3, <2>2, <2>3 DEF bound
  <2>5. PICK g \in held["writer"] : g.to = own
    BY <1>3, <2>4
  <2>6. PruneLimit(d) < g.to
    BY <1>3, <1>5, <1>9, <2>4, <2>5
  <2> QED
    BY <2>6
<1> QED
  BY <1>1, <1>9, <1>10

(* Every step stays in rows or in files. *)
LEMMA RowsStep ==
  ASSUME TypeOK, FilesInv, VisibleInv, BuilderInv, MergerInv, HoldersInv, HeldAligned,
         CommittedInv, RowsInv, Next
  PROVE  RowsInv'
<1>0. /\ db \in [Domains -> SUBSET Steps] /\ tx \in [Readers \cup {"writer"} -> TxStates]
      /\ held \in [Holders -> SUBSET File] /\ "writer" \notin Readers
      /\ "writer" \in Holders /\ Readers \subseteq Holders
  BY HoldersAre DEF TypeOK
<1>a. tx["writer"].rows \in [Domains -> SUBSET Steps]
  BY <1>0 DEF TxStates
<1>b. \A rows : Kept(rows, dirty) => Kept(rows, dirty')
  BY ReachStep DEF Kept
\* Neither the database nor a transaction changes.
<1>1. ASSUME UNCHANGED <<db, tx>>, held'["writer"] = held["writer"] PROVE RowsInv'
  BY <1>1, <1>b DEF RowsInv
<1>2. ASSUME NEW r \in Readers, Reads(r) PROVE RowsInv'
  <2>1. r # "writer" /\ r \in Readers \cup {"writer"}
    BY <1>0
  <2>2. UNCHANGED db /\ held'["writer"] = held["writer"]
    BY <1>0, <1>2, <2>1 DEF Reads, BeginRo, OpenFiles, Rollback, BeginFilesRo, CloseFiles, refs
  <2>3. \A t \in (Readers \cup {"writer"}) \ {r} : tx'[t] = tx[t]
    BY <1>0, <1>2, <2>1 DEF Reads, BeginRo, OpenFiles, Rollback
  <2>4. tx'[r].at = "begun" => tx'[r].rows = db
    <3>1. CASE BeginRo(r)
      BY <1>0, <2>1, <3>1 DEF BeginRo
    <3>2. CASE OpenFiles(r) \/ Rollback(r)
      <4>1. tx'[r].at \in {"none", "open"}
        BY <1>0, <2>1, <3>2 DEF OpenFiles, Rollback, Idle
      <4> QED
        BY <4>1
    <3> QED
      BY <1>2, <3>1, <3>2 DEF Reads
  <2>5. ASSUME NEW q \in Readers, tx'[q].at = "begun" PROVE Kept(tx'[q].rows, dirty')
    <3>1. CASE q = r
      BY <1>b, <2>4, <2>5, <3>1 DEF RowsInv
    <3>2. CASE q # r
      <4>1. tx'[q] = tx[q]
        BY <2>3, <3>2
      <4> QED
        BY <1>b, <2>5, <4>1 DEF RowsInv
    <3> QED
      BY <3>1, <3>2
  <2>6. tx'["writer"] = tx["writer"]
    BY <2>1, <2>3
  <2> QED
    BY <1>b, <2>2, <2>5, <2>6 DEF RowsInv
\* The other transactions are left alone.
<1>3. ASSUME Kept(db', dirty'), \A r \in Readers : tx'[r] = tx[r],
             tx'["writer"].at = "open" =>
               /\ Kept(tx'["writer"].rows, dirty')
               /\ \A n \in Nat : Within(db', n) => Within(tx'["writer"].rows, n)
               /\ held'["writer"] # {} => InView(tx'["writer"].rows, held'["writer"])
      PROVE  RowsInv'
  <2>1. ASSUME NEW r \in Readers, tx'[r].at = "begun" PROVE Kept(tx'[r].rows, dirty')
    <3>1. tx'[r] = tx[r]
      BY <1>3
    <3> QED
      BY <1>b, <2>1, <3>1 DEF RowsInv
  <2> QED
    BY <1>3, <2>1 DEF RowsInv
<1>4. CASE BeginRw
  <2>1. /\ UNCHANGED <<db, dirty>> /\ tx'["writer"] = [at |-> "open", rows |-> db]
        /\ \A r \in Readers : tx'[r] = tx[r]
        /\ held'["writer"] = visible
    BY <1>0, <1>4 DEF BeginRw, BeginFilesRo, files
  <2>2. tx'["writer"].rows = db
    BY <2>1
  <2>3. Kept(db, dirty)
    BY DEF RowsInv
  <2>4. InView(db, visible)
    BY <2>3, KeptShows
  <2> QED
    BY <1>3, <2>1, <2>2, <2>3, <2>4
\* Writes to the one transaction that is open.
<1>5. ASSUME tx["writer"].at = "open", UNCHANGED <<db, dirty>>, held'["writer"] = held["writer"],
             NEW rows, tx' = [tx EXCEPT !["writer"].rows = rows],
             Kept(rows, dirty),
             \A n \in Nat : Within(db, n) => Within(rows, n),
             held["writer"] # {} => InView(rows, held["writer"])
      PROVE  RowsInv'
  <2>1. tx'["writer"].rows = rows /\ \A r \in Readers : tx'[r] = tx[r]
    BY <1>0, <1>5 DEF TxStates
  <2>2. Kept(db, dirty)
    BY DEF RowsInv
  <2> QED
    BY <1>3, <1>5, <2>1, <2>2
<1>6. CASE WriteStep
  <2> DEFINE old == tx["writer"].rows
             new == [d \in Domains |-> old[d] \cup {LastIdInDB + 1}]
  <2>1. /\ tx["writer"].at = "open" /\ UNCHANGED <<db, dirty, held>>
        /\ tx' = [tx EXCEPT !["writer"].rows = new]
    BY <1>6 DEF WriteStep, files, refs
  <2>2. /\ Kept(old, dirty) /\ \A n \in Nat : Within(db, n) => Within(old, n)
        /\ held["writer"] # {} => InView(old, held["writer"])
    BY <2>1 DEF RowsInv
  <2>3. old \in [Domains -> SUBSET Steps]
    BY <1>a
  <2>4. PICK next : next = new
    BY Zenon
  <2> HIDE DEF old
  <2>5. ASSUME NEW n \in Nat, NEW d \in Domains
        PROVE  /\ Within(old, n) => Within(next, n)
               /\ Within(next, n) => Within(old, n) \/ n \in next[d]
               /\ old[d] \subseteq next[d]
    BY <2>2, <2>3, <2>4, WriteIs
  <2> HIDE DEF new
  <2>6. Kept(next, dirty)
    BY <2>2, <2>5 DEF Kept
  <2>7. \A n \in Nat : Within(db, n) => Within(next, n)
    BY <2>2, <2>5 DEF Domains
  <2>8. held["writer"] # {} => InView(next, held["writer"])
    BY <2>2, <2>5 DEF InView
  <2> QED
    BY <1>5, <2>1, <2>4, <2>6, <2>7, <2>8, Zenon
<1>7. CASE Prune
  <2> DEFINE old == tx["writer"].rows
             new == [d \in Domains |-> old[d] \ 0..PruneLimit(d)]
  <2>1. /\ tx["writer"].at = "open" /\ UNCHANGED <<db, dirty, held>> /\ CanPrune
        /\ tx' = [tx EXCEPT !["writer"].rows = new]
    BY <1>7 DEF Prune, files, refs
  <2>2. /\ Kept(old, dirty) /\ \A n \in Nat : Within(db, n) => Within(old, n)
        /\ held["writer"] # {} => InView(old, held["writer"])
    BY <2>1 DEF RowsInv
  <2>3. old \in [Domains -> SUBSET Steps]
    BY <1>a
  <2>4. PICK next : next = new
    BY Zenon
  <2> HIDE DEF old
  <2>5. \A d \in Domains : next[d] = old[d] \ 0..PruneLimit(d)
    BY <2>4
  <2> HIDE DEF new
  <2>6. ASSUME NEW d \in Domains
        PROVE  /\ PruneLimit(d) \in Nat /\ Minimax \in Nat /\ PruneLimit(d) < Minimax
               /\ \E f \in visible : f.to = Minimax
               /\ held["writer"] # {} => \E f \in held["writer"] : PruneLimit(d) < f.to
    BY <2>1, PruneIs
  <2>7. Minimax \in Nat
    BY <2>6 DEF Domains
  <2>8. ASSUME NEW n \in Nat, Within(next, n) PROVE Within(old, n)
    BY <2>5, <2>8 DEF Within
  <2>9. Reach(dirty, Minimax) /\ Within(db, Minimax)
    <3>1. PICK f \in visible : f.to = Minimax
      BY <2>6 DEF Domains
    <3>2. f \in File /\ Both(dirty, f)
      BY DEF TypeOK, VisibleInv
    <3>3. f \in dirty /\ Minimax <= f.to
      BY <2>7, <3>1, <3>2, BothMember
    <3>4. f \in disk
      BY <3>3 DEF FilesInv
    <3> QED
      BY <3>1, <3>2, <3>3, <3>4 DEF Reach, CommittedInv
  <2>10. ASSUME NEW n \in Nat, NEW d \in Domains, n \in old[d], n \notin next[d]
         PROVE  n <= PruneLimit(d) /\ Reach(dirty, n + 1)
    <3>1. n <= PruneLimit(d)
      BY <2>5, <2>6, <2>10
    <3>2. n + 1 <= Minimax /\ n + 1 \in Nat
      BY <2>6, <3>1
    <3> QED
      BY <2>7, <2>9, <3>1, <3>2, ReachDown DEF TypeOK
  <2>11. Kept(next, dirty)
    BY <2>2, <2>8, <2>10 DEF Kept
  <2>12. ASSUME NEW n \in Nat, Within(db, n) PROVE Within(next, n)
    <3> DEFINE m == IF n <= Minimax THEN Minimax ELSE n
    <3>1. m \in Nat /\ n <= m /\ Minimax <= m
      BY <2>7
    <3>2. m = n \/ m = Minimax
      OBVIOUS
    <3> HIDE DEF m
    <3>5. Within(old, m)
      BY <2>2, <2>7, <2>9, <2>12, <3>2, Zenon
    <3>3. CASE m = 0
      BY <3>1, <3>3 DEF Within
    <3>4. CASE m # 0
      <4>1. PICK d \in Domains : \E s \in old[d] : m <= s
        BY <3>4, <3>5 DEF Within
      <4>2. PICK s \in old[d] : m <= s
        BY <4>1
      <4>3. s \in Nat
        BY <2>3, AggregatorAssumption DEF Steps
      <4>4. s \notin 0..PruneLimit(d)
        BY <2>6, <2>7, <3>1, <4>2, <4>3
      <4>5. s \in next[d] /\ n <= s
        BY <2>5, <3>1, <4>2, <4>3, <4>4
      <4> QED
        BY <4>5 DEF Within
    <3> QED
      BY <3>3, <3>4
  <2>13. ASSUME held["writer"] # {} PROVE InView(next, held["writer"])
    <3> SUFFICES ASSUME NEW n \in Nat, NEW d \in Domains, Within(next, n), n \notin next[d]
                 PROVE  \E f \in held["writer"] : n < f.to
      BY DEF InView
    <3>1. CASE n \notin old[d]
      BY <2>2, <2>8, <2>13, <3>1 DEF InView
    <3>2. CASE n \in old[d]
      <4>1. n <= PruneLimit(d) /\ PruneLimit(d) \in Nat
        BY <2>6, <2>10, <3>2
      <4>2. PICK f \in held["writer"] : PruneLimit(d) < f.to
        BY <2>6, <2>13
      <4>3. f.to \in Nat
        BY <1>0, FileIs
      <4>4. n < f.to
        BY <4>1, <4>2, <4>3
      <4> QED
        BY <4>4
    <3> QED
      BY <3>1, <3>2
  <2> QED
    BY <1>5, <2>1, <2>4, <2>11, <2>12, <2>13, Zenon
<1>8. ASSUME NEW c \in BOOLEAN, EndRw(c) PROVE RowsInv'
  <2>1. /\ tx["writer"].at = "open" /\ db' \in {db, tx["writer"].rows}
        /\ tx'["writer"] = Idle /\ \A r \in Readers : tx'[r] = tx[r]
    BY <1>0, <1>8 DEF EndRw
  <2>2. tx'["writer"].at # "open"
    BY <2>1 DEF Idle
  <2>3. Kept(db, dirty) /\ Kept(tx["writer"].rows, dirty)
    BY <2>1 DEF RowsInv
  <2>4. Kept(db', dirty')
    BY <1>b, <2>1, <2>3
  <2> QED
    BY <1>3, <2>1, <2>2, <2>4
<1>9. CASE CrashAndOpenFolder
  <2>1. UNCHANGED db /\ tx' = [t \in Readers \cup {"writer"} |-> Idle]
    BY <1>9 DEF CrashAndOpenFolder
  <2>2. \A t \in Readers \cup {"writer"} : tx'[t].at = "none"
    BY <2>1 DEF Idle
  <2> QED
    BY <1>b, <2>1, <2>2 DEF RowsInv
<1>10. ASSUME NEW h \in Holders, RemoveLast(h) PROVE RowsInv'
  BY <1>1, <1>10 DEF RemoveLast
<1>11. CASE \/ BuildFilesInBackground \/ Builds
            \/ MergeFiles \/ IntegrateMergedDirtyFiles \/ MarkFile \/ DeleteFile
  <2>1. UNCHANGED <<held, tx>>
    BY <1>11, JobRefs
  <2>2. UNCHANGED db
    BY <1>11 DEF BuildFilesInBackground, Builds, BuildDomain, IntegrateDirtyFiles, BuildFails,
       BuildEnds, MergeFiles, IntegrateMergedDirtyFiles, MarkFile, DeleteFile
  <2> QED
    BY <1>1, <2>1, <2>2
<1>12. CASE \/ MergeLoop \/ MergeLoopStep \/ MergeFails \/ CleanAfterMerge
            \/ LockDirtyFiles \/ Cleaned \/ MergeStepEnds
  <2>1. UNCHANGED tx
    BY <1>12, MergeFrame
  <2>2. UNCHANGED db
    BY <1>12 DEF MergeLoop, MergeLoopStep, MergeFails, CleanAfterMerge, LockDirtyFiles,
       Cleaned, MergeStepEnds
  <2>3. held'["writer"] = held["writer"]
    BY <1>0, <1>12, MergeRefs, OpenIs, CloseIs, HoldersAre
  <2> QED
    BY <1>1, <2>1, <2>2, <2>3
<1>13. CASE Writes
  BY <1>4, <1>6, <1>7, <1>8, <1>13, Zenon DEF Writes
<1>14. CASE Merges
  BY <1>11, <1>12, <1>14, Zenon DEF Merges
<1> QED
  BY <1>2, <1>9, <1>10, <1>11, <1>13, <1>14, Zenon DEF Next

------------------------------------------------------------------------------
(* An empty directory and the rows of step 0 are complete. *)
LEMMA InitComplete == Init => CompleteInv
<1> SUFFICES ASSUME Init PROVE CompleteInv
  OBVIOUS
<1>1. /\ db = [d \in Domains |-> {0}] /\ disk = {} /\ torn = {} /\ dirty = {} /\ visible = {}
      /\ held = [h \in Holders |-> {}] /\ tx = [t \in Readers \cup {"writer"} |-> Idle]
      /\ builder = NoBuild /\ merger = NoMerge
  BY DEF Init
<1>2. builder.at # "build" /\ merger.at # "merge"
  BY <1>1 DEF NoBuild, NoMerge
<1>3. \A t \in Readers \cup {"writer"} : tx[t].at = "none"
  BY <1>1 DEF Idle
<1>4. GaplessInv
  <2>1. Gapless({})
    BY DEF Gapless, Reach
  <2>2. Solid({})
    BY DEF Solid
  <2> QED
    BY <1>1, <2>1, <2>2 DEF GaplessInv
<1>5. Kept(db, dirty)
  BY <1>1 DEF Kept, Within
<1>6. RowsInv
  BY <1>3, <1>5 DEF RowsInv
<1> QED
  BY <1>1, <1>2, <1>4, <1>6 DEF CompleteInv, RangesInv, PartsInv, CommittedInv, Building

(* Every step keeps rows and files complete. *)
LEMMA StepComplete == IInv /\ CompleteInv /\ [Next]_vars => CompleteInv'
<1> SUFFICES ASSUME IInv, CompleteInv, [Next]_vars PROVE CompleteInv'
  OBVIOUS
<1>0. /\ TypeOK /\ FilesInv /\ VisibleInv /\ BuilderInv /\ MergerInv
      /\ HoldersInv /\ HeldAligned
      /\ torn = {} /\ RangesInv /\ GaplessInv /\ PartsInv /\ CommittedInv /\ RowsInv
  BY DEF IInv, CompleteInv
<1>1. CASE Next
  <2>1. TypeOK' /\ FilesInv'
    BY <1>0, <1>1, TypeStep, FilesStep
  <2>2. RangesInv'
    BY <1>0, <1>1, RangesStep
  <2>3. GaplessInv'
    BY <1>0, <1>1, <2>1, GaplessStep
  <2>4. PartsInv'
    BY <1>0, <1>1, PartsStep
  <2>5. torn' = {}
    BY <1>0, <1>1, TornStep
  <2>6. CommittedInv'
    BY <1>0, <1>1, CommittedStep
  <2>7. RowsInv'
    BY <1>0, <1>1, RowsStep
  <2> QED
    BY <2>2, <2>3, <2>4, <2>5, <2>6, <2>7 DEF CompleteInv
<1>2. CASE UNCHANGED vars
  <2>1. UNCHANGED <<db, disk, torn, dirty, visible, canDelete, held, last, tx,
                    builder, merger, spawned, faults>>
    BY <1>2 DEF vars
  <2>2. RangesInv' /\ GaplessInv'
    BY <1>0, <2>1 DEF RangesInv, GaplessInv
  <2>3. PartsInv' /\ CommittedInv'
    BY <1>0, <2>1 DEF PartsInv, CommittedInv, Building
  <2>4. RowsInv'
    BY <1>0, <2>1 DEF RowsInv
  <2> QED
    BY <1>0, <2>1, <2>2, <2>3, <2>4 DEF CompleteInv
<1> QED
  BY <1>1, <1>2

(* Rows and files are complete in every reachable state. *)
THEOREM AlwaysComplete == Spec => []CompleteInv
BY Inductive, InitComplete, StepComplete, PTL DEF Spec

(* A process that dies at any moment, between any two steps of a build, a  *)
(* merge, a deletion or a prune, finds every step in the directory and in  *)
(* the committed rows when it starts again (OpenFolder): for every number  *)
(* of steps, readers and faults, with or without the race between the two  *)
(* loads of a closing transaction.                                         *)
THEOREM AlwaysCrashSafe == Spec => []CrashSafe
<1>1. IInv /\ CompleteInv => CrashSafe
  <2> SUFFICES ASSUME IInv, CompleteInv PROVE CrashSafe
    OBVIOUS
  <2> DEFINE view == CalcVisibleFiles(disk)
  <2>1. /\ disk \in SUBSET File /\ Shaped(disk) /\ Gapless(disk) /\ dirty \subseteq disk
        /\ db \in [Domains -> SUBSET Steps] /\ torn = {} /\ Kept(db, dirty)
    BY DEF IInv, CompleteInv, TypeOK, FilesInv, GaplessInv, RowsInv
  <2>2. /\ view \subseteq disk /\ IsAligned(view)
        /\ \A f \in disk : Both(disk, f) => \E g \in view : f.to <= g.to
    BY <2>1, CalcShows
  <2>3. Solid(view)
    BY <2>1, CalcSolid
  <2> HIDE DEF view
  <2>4. InView(db, view)
    <3> SUFFICES ASSUME NEW n \in Nat, NEW d \in Domains, Within(db, n), n \notin db[d]
                 PROVE  \E f \in view : n < f.to
      BY DEF InView
    <3>1. Reach(disk, n + 1) /\ n + 1 # 0
      BY <2>1, Monotone DEF Kept
    <3>2. PICK g \in disk : Both(disk, g) /\ n + 1 <= g.to
      BY <3>1 DEF Reach
    <3>3. PICK f \in view : g.to <= f.to
      BY <2>2, <3>2
    <3>4. f.to \in Nat /\ g.to \in Nat
      BY <2>1, <2>2, FileIs
    <3>5. n < f.to
      BY <3>2, <3>3, <3>4
    <3> QED
      BY <3>5
  <2>5. view \in SUBSET File
    BY <2>1, <2>2
  <2>6. Complete(db, view)
    BY <2>1, <2>2, <2>3, <2>4, <2>5, CompleteView
  <2> QED
    BY <2>6 DEF CrashSafe, view
<1> QED
  BY <1>1, Inductive, AlwaysComplete, PTL

(* A reader has its files open only after OpenFiles. *)
LEMMA ReaderOpens ==
  ASSUME TypeOK, MergerInv, HoldersInv, Next, NEW r \in Readers,
         tx[r].at = "begun", tx'[r].at = "open"
  PROVE  OpenFiles(r)
<1>0. /\ tx \in [Readers \cup {"writer"} -> TxStates] /\ r \in Readers \cup {"writer"}
      /\ r # "writer"
  BY HoldersAre DEF TypeOK
<1>1. ASSUME tx'[r] = tx[r] PROVE FALSE
  BY <1>1
<1>2. ASSUME NEW q \in Readers, Reads(q) PROVE OpenFiles(r)
  <2>1. CASE q # r
    <3>1. tx'[r] = tx[r]
      BY <1>0, <1>2, <2>1 DEF Reads, BeginRo, OpenFiles, Rollback
    <3> QED
      BY <1>1, <3>1
  <2>2. CASE q = r
    <3>1. ~BeginRo(r) /\ ~Rollback(r)
      BY DEF BeginRo, Rollback
    <3> QED
      BY <1>2, <2>2, <3>1 DEF Reads
  <2> QED
    BY <2>1, <2>2
<1>3. CASE Writes
  <2>1. tx'[r] = tx[r]
    BY <1>0, <1>3 DEF Writes, BeginRw, WriteStep, Prune, EndRw
  <2> QED
    BY <1>1, <2>1
<1>4. CASE CrashAndOpenFolder
  <2>1. tx'[r].at = "none"
    BY <1>0, <1>4 DEF CrashAndOpenFolder, Idle
  <2> QED
    BY <2>1
<1>5. ASSUME NEW h \in Holders, RemoveLast(h) PROVE FALSE
  BY <1>1, <1>5 DEF RemoveLast
<1>6. CASE \/ BuildFilesInBackground \/ Builds
           \/ MergeFiles \/ IntegrateMergedDirtyFiles \/ MarkFile \/ DeleteFile
  BY <1>1, <1>6, JobRefs
<1>7. CASE \/ MergeLoop \/ MergeLoopStep \/ MergeFails \/ CleanAfterMerge
           \/ LockDirtyFiles \/ Cleaned \/ MergeStepEnds
  BY <1>1, <1>7, MergeFrame
<1>8. CASE Merges
  BY <1>6, <1>7, <1>8, Zenon DEF Merges
<1> QED
  BY <1>2, <1>3, <1>4, <1>5, <1>6, <1>8, Zenon DEF Next

(* A transaction finds every step, in its snapshot or in its files: a      *)
(* reader, whatever was built, merged, deleted, pruned and committed       *)
(* between the opening of its snapshot and of its files; and the writer    *)
(* after each of its writes, as long as it has files, for prune stops at   *)
(* the end of its own.                                                     *)
THEOREM AlwaysSeesAll == Spec => SeesAll
<1>1. ASSUME IInv, CompleteInv, Next, NEW r \in Readers,
             tx[r].at = "begun", tx'[r].at = "open"
      PROVE  Complete(tx[r].rows, held'[r])
  <2>1. OpenFiles(r)
    BY <1>1, ReaderOpens DEF IInv
  <2>2. held'[r] = visible
    BY <1>1, <2>1, HoldersAre DEF OpenFiles, BeginFilesRo, IInv, TypeOK
  <2>3. /\ TypeOK /\ VisibleInv /\ torn = {} /\ Kept(tx[r].rows, dirty) /\ Solid(visible)
    BY <1>1 DEF IInv, CompleteInv, RowsInv, GaplessInv
  <2>4. tx[r].rows \in [Domains -> SUBSET Steps]
    BY <2>3 DEF TypeOK, TxStates
  <2>5. visible \in SUBSET File /\ IsAligned(visible)
    BY <2>3 DEF TypeOK, VisibleInv
  <2>6. InView(tx[r].rows, visible)
    BY <2>3, KeptShows
  <2>7. Complete(tx[r].rows, visible)
    BY <2>3, <2>4, <2>5, <2>6, CompleteView
  <2> QED
    BY <2>2, <2>7
<1>2. ASSUME CompleteInv, IInv', CompleteInv', held'["writer"] # {}
      PROVE  Complete(tx'["writer"].rows, held'["writer"])
  <2>1. /\ tx' \in [Readers \cup {"writer"} -> TxStates] /\ held' \in [Holders -> SUBSET File]
        /\ HoldersInv' /\ HeldAligned' /\ GaplessInv' /\ RowsInv' /\ torn = {}
    BY <1>2 DEF IInv, CompleteInv, TypeOK
  <2>2. tx'["writer"].at = "open"
    BY <1>2, <2>1 DEF HoldersInv
  <2>3. InView(tx'["writer"].rows, held'["writer"])
    BY <1>2, <2>1, <2>2 DEF RowsInv
  <2>4. IsAligned(held'["writer"]) /\ Solid(held'["writer"]) /\ held'["writer"] \in SUBSET File
    BY <2>1, HoldersAre DEF HeldAligned, GaplessInv
  <2>5. tx'["writer"].rows \in [Domains -> SUBSET Steps]
    BY <2>1 DEF TxStates
  <2> QED
    BY <2>1, <2>3, <2>4, <2>5, CompleteView
<1>3. ASSUME IInv, CompleteInv, IInv', CompleteInv', [Next]_vars
      PROVE  [ /\ \A r \in Readers : tx[r].at = "begun" /\ tx'[r].at = "open" =>
                    Complete(tx[r].rows, held'[r])
               /\ tx'["writer"] # tx["writer"] /\ held'["writer"] # {} =>
                    Complete(tx'["writer"].rows, held'["writer"]) ]_vars
  BY <1>1, <1>2, <1>3, Zenon
<1> QED
  BY <1>3, Inductive, AlwaysComplete, PTL DEF Spec, SeesAll
=============================================================================
