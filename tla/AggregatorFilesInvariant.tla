---------------------- MODULE AggregatorFilesInvariant ----------------------
(***************************************************************************)
(* What the operators of AggregatorFiles compute, for every set of files,  *)
(* its inductive invariant, and the proof that every step keeps it, for    *)
(* every number of steps, of readers and of faults.                        *)
(*                                                                         *)
(* The argument is about pairs: two files of one range, one of accounts    *)
(* and one of commitment.  Files that are of no pair and lie in none are   *)
(* merged accounts files whose commitment file was not written, or files   *)
(* of the one step that follows all pairs (Shaped).  In a set of files     *)
(* like this calcVisibleFiles finds the pairs that lie in no other pair.   *)
(*                                                                         *)
(* Whatever is marked or about to be lies in a pair of dirtyFiles, what is *)
(* visible consists of pairs that lie in no other, a build works on the    *)
(* step after all pairs and a merge on a range that no pair holds; so      *)
(* nothing that is written, visible or opened is marked, and what is       *)
(* marked can go without a pair being missed.                              *)
(***************************************************************************)
EXTENDS AggregatorFiles, FiniteSetTheorems, TLAPS

\* f is of a pair of S.
Both(S, f) == \A d \in Domains : SameRange(f, d) \in S

\* f lies inside a pair of S.
Covered(S, f) == \E g \in S : /\ Both(S, g)
                              /\ g.from <= f.from /\ f.to <= g.to
                              /\ ~(g.from = f.from /\ g.to = f.to)

\* Pairs of S reach up to step n.
Reach(S, n) == n = 0 \/ \E g \in S : Both(S, g) /\ n <= g.to

\* A file of the step that follows all pairs of S.
IsNext(S, f) == f.to = f.from + 1 /\ Reach(S, f.from) /\ ~Reach(S, f.to)

Shaped(S) ==
  \A f \in S : \/ IsNext(S, f)
               \/ f.d = Acc /\ Reach(S, f.to)
               \/ f.d = Com /\ (Both(S, f) \/ Covered(S, f))

IsAligned(S) == \A f \in S, d \in Domains : SameRange(f, d) \in S

------------------------------------------------------------------------------
(* A non-empty set of numbers has a least one: Min is defined. *)
LEMMA MinIs ==
  ASSUME NEW S \in SUBSET Nat, S # {}
  PROVE  Min(S) \in S /\ \A x \in S : Min(S) <= x
<1>1. PICK n \in S : \A m \in S : ~(<<m, n>> \in OpToRel(<, Nat))
  BY NatLessThanWellFounded, WFMin
<1>2. \A m \in S : ~(m < n)
  BY <1>1, Zenon DEF OpToRel
<1>3. \A m \in S : n <= m
  BY <1>2
<1> QED
  BY <1>3, Zenon DEF Min

(* A bounded one has a greatest: Max is defined. *)
LEMMA MaxIs ==
  ASSUME NEW b \in Nat, NEW S \in SUBSET 0..b, S # {}
  PROVE  Max(S) \in S /\ \A x \in S : x <= Max(S)
<1> DEFINE T == {b - x : x \in S}
<1>0. \A x \in S : x \in 0..b /\ b - x \in Nat
  OBVIOUS
<1>1. T \in SUBSET Nat /\ T # {}
  BY <1>0, Zenon
<1>2. Min(T) \in T /\ \A y \in T : Min(T) <= y
  BY <1>1, MinIs, Zenon
<1>3. PICK n \in S : Min(T) = b - n
  BY <1>2, Zenon
<1>4. \A x \in S : b - n <= b - x
  BY <1>2, <1>3, Zenon
<1>5. \A x \in S : n >= x
  BY <1>4
<1> QED
  BY <1>5, Zenon DEF Max

(* A file is its domain and its range. *)
LEMMA FileIs ==
  ASSUME NEW f \in File, NEW g \in File
  PROVE  /\ f.d \in Domains /\ f.from \in Nat /\ f.to \in Nat
         /\ f.from \in Steps /\ f.to \in Steps /\ f.from < f.to
         /\ f.d = g.d /\ f.from = g.from /\ f.to = g.to => f = g
BY AggregatorAssumption DEF File, Steps

(* The partner of a file has its range. *)
LEMMA SameRangeIs ==
  ASSUME NEW f \in File, NEW d \in Domains
  PROVE  /\ SameRange(f, d) \in File
         /\ SameRange(f, d).d = d
         /\ SameRange(f, d).from = f.from
         /\ SameRange(f, d).to = f.to
         /\ f.d = d => SameRange(f, d) = f
<1>1. SameRange(f, d) \in [d : Domains, from : Steps, to : Steps]
  BY DEF SameRange, File
<1>2. SameRange(f, d).d = d /\ SameRange(f, d).from = f.from /\ SameRange(f, d).to = f.to
  BY DEF SameRange, File
<1>3. SameRange(f, d) \in File
  BY <1>1, <1>2 DEF File
<1> QED
  BY <1>2, <1>3, FileIs

(* Files of one range have the same partners. *)
LEMMA SameRangeSame ==
  ASSUME NEW f \in File, NEW g \in File, f.from = g.from, f.to = g.to,
         NEW d \in Domains
  PROVE  SameRange(f, d) = SameRange(g, d)
<1>1. SameRange(f, d) \in File /\ SameRange(g, d) \in File
  BY SameRangeIs
<1>2. /\ SameRange(f, d).d = SameRange(g, d).d
      /\ SameRange(f, d).from = SameRange(g, d).from
      /\ SameRange(f, d).to = SameRange(g, d).to
  BY SameRangeIs
<1> QED
  BY <1>1, <1>2, FileIs

(* Being a pair and being covered are matters of the range. *)
LEMMA BothRange ==
  ASSUME NEW S, NEW f \in File, NEW g \in File, f.from = g.from, f.to = g.to
  PROVE  /\ Both(S, f) => Both(S, g) /\ g \in S
         /\ Covered(S, f) => Covered(S, g)
<1>1. \A d \in Domains : SameRange(f, d) = SameRange(g, d)
  BY SameRangeSame
<1>2. g = SameRange(g, g.d) /\ g.d \in Domains
  BY SameRangeIs, FileIs
<1>3. Both(S, f) => Both(S, g) /\ g \in S
  BY <1>1, <1>2 DEF Both
<1>4. Covered(S, f) => Covered(S, g)
  BY DEF Covered
<1> QED
  BY <1>3, <1>4

(* Both files of a pair are there, and each is of a pair. *)
LEMMA BothMember ==
  ASSUME NEW S, NEW f \in File, Both(S, f)
  PROVE  /\ f \in S
         /\ \A d \in Domains : /\ SameRange(f, d) \in S
                               /\ SameRange(f, d) \in File
                               /\ Both(S, SameRange(f, d))
<1>1. f \in S
  BY BothRange
<1>2. ASSUME NEW d \in Domains
      PROVE  SameRange(f, d) \in S /\ SameRange(f, d) \in File /\ Both(S, SameRange(f, d))
  <2>1. /\ SameRange(f, d) \in File
        /\ SameRange(f, d).from = f.from /\ SameRange(f, d).to = f.to
    BY SameRangeIs
  <2> QED
    BY <2>1, BothRange
<1> QED
  BY <1>1, <1>2

(* More files make more pairs. *)
LEMMA Monotone ==
  ASSUME NEW S, NEW T, S \subseteq T
  PROVE  /\ \A f : Both(S, f) => Both(T, f)
         /\ \A f : Covered(S, f) => Covered(T, f)
         /\ \A n : Reach(S, n) => Reach(T, n)
BY DEF Both, Covered, Reach

(* What pairs reach, they reach from below. *)
LEMMA ReachDown ==
  ASSUME NEW S \in SUBSET File, NEW n \in Nat, NEW m \in Nat, m <= n, Reach(S, n)
  PROVE  Reach(S, m)
<1>1. CASE n = 0
  BY <1>1 DEF Reach
<1>2. CASE n # 0
  <2>1. PICK g \in S : Both(S, g) /\ n <= g.to
    BY <1>2 DEF Reach
  <2>2. g.to \in Nat
    BY FileIs
  <2> QED
    BY <2>1, <2>2 DEF Reach
<1> QED
  BY <1>1, <1>2

(* A cover of a cover is a cover. *)
LEMMA CoverTrans ==
  ASSUME NEW S \in SUBSET File, NEW f \in File, NEW g \in File,
         g.from <= f.from, f.to <= g.to, Covered(S, g)
  PROVE  Covered(S, f)
<1>1. PICK h \in S : /\ Both(S, h)
                     /\ h.from <= g.from /\ g.to <= h.to
                     /\ ~(h.from = g.from /\ h.to = g.to)
  BY DEF Covered
<1>2. /\ h.from \in Nat /\ h.to \in Nat /\ g.from \in Nat /\ g.to \in Nat
      /\ f.from \in Nat /\ f.to \in Nat
  BY FileIs
<1>3. /\ h.from <= f.from /\ f.to <= h.to
      /\ ~(h.from = f.from /\ h.to = f.to)
  BY <1>1, <1>2
<1> QED
  BY <1>1, <1>3 DEF Covered

(* calcVisibleFiles shows the pairs that lie in no other pair. *)
LEMMA CalcIs ==
  ASSUME NEW S \in SUBSET File, Shaped(S)
  PROVE  CalcVisibleFiles(S) = {f \in S : Both(S, f) /\ ~Covered(S, f)}
<1> DEFINE can == CanBeVisible(S)
<1>1. ASSUME NEW g \in S, Both(S, g), NEW d \in Domains
      PROVE  SameRange(g, d) \in can
  <2>1. /\ SameRange(g, d) \in S /\ SameRange(g, Acc) \in S
        /\ SameRange(g, Com) \in S
    BY <1>1, BothMember DEF Domains
  <2>2. /\ SameRange(g, d).to = g.to /\ SameRange(g, Acc).to = g.to
        /\ SameRange(g, Acc).d = Acc
        /\ SameRange(g, d).from = g.from /\ SameRange(g, d) \in File
    BY SameRangeIs DEF Domains
  <2>3. SameRange(SameRange(g, d), Com) = SameRange(g, Com)
    BY <2>2, SameRangeSame DEF Domains
  <2>4. g.to \in Nat
    BY FileIs
  <2> QED
    BY <2>1, <2>2, <2>3, <2>4 DEF CanBeVisible, CheckDependentPresent, Of
<1>2. ASSUME NEW f \in S, f \in CalcVisibleFiles(S)
      PROVE  ~Covered(S, f)
  <2> SUFFICES ASSUME Covered(S, f) PROVE FALSE
    OBVIOUS
  <2>1. PICK g \in S : /\ Both(S, g)
                       /\ g.from <= f.from /\ f.to <= g.to
                       /\ ~(g.from = f.from /\ g.to = f.to)
    BY DEF Covered
  <2>2. f.d \in Domains
    BY FileIs
  <2>3. SameRange(g, f.d) \in can
    BY <1>1, <2>1, <2>2
  <2>4. /\ SameRange(g, f.d).d = f.d /\ SameRange(g, f.d).from = g.from
        /\ SameRange(g, f.d).to = g.to
    BY <2>2, SameRangeIs
  <2>5. IsProperSubsetOf(f, SameRange(g, f.d))
    BY <2>1, <2>4 DEF IsProperSubsetOf
  <2> QED
    BY <1>2, <2>3, <2>5 DEF CalcVisibleFiles
<1>3. ASSUME NEW f \in S, f \in CalcVisibleFiles(S)
      PROVE  Both(S, f)
  <2>1. /\ f \in can
        /\ f.d \in Domains /\ f.to \in Nat /\ f.from \in Nat /\ f.from < f.to
    BY <1>3, FileIs DEF CalcVisibleFiles
  <2>2. PICK g \in S : g.d = Acc /\ f.to <= g.to
    BY <2>1 DEF CanBeVisible, Of
  <2>3. CASE f.d = Acc
    <3>1. SameRange(f, Com) \in S
      BY <2>1, <2>3 DEF CanBeVisible, CheckDependentPresent
    <3>2. SameRange(f, Acc) = f
      BY <2>3, SameRangeIs DEF Domains
    <3> QED
      BY <3>1, <3>2 DEF Both, Domains
  <2>4. CASE f.d = Com /\ IsNext(S, f)
    <3>1. g.to \in Nat /\ g.from \in Nat /\ g.from < g.to
      BY FileIs
    <3>2. ~Reach(S, g.to)
      BY <2>1, <2>2, <2>4, <3>1, ReachDown DEF IsNext
    <3>3. IsNext(S, g)
      BY <2>2, <3>2 DEF Shaped, Acc, Com
    <3>4. ~(f.to <= g.from)
      BY <2>1, <2>4, <3>1, <3>3, ReachDown DEF IsNext
    <3>5. f.to = g.to /\ f.from = g.from
      BY <2>1, <2>2, <2>4, <3>1, <3>3, <3>4 DEF IsNext
    <3>6. SameRange(f, Acc) = SameRange(g, Acc)
      BY <3>5, SameRangeSame DEF Domains
    <3>7. SameRange(g, Acc) = g /\ SameRange(f, Com) = f
      BY <2>2, <2>4, SameRangeIs DEF Domains
    <3> QED
      BY <3>6, <3>7 DEF Both, Domains
  <2>5. CASE f.d = Com /\ ~IsNext(S, f)
    <3>1. Both(S, f) \/ Covered(S, f)
      BY <2>5 DEF Shaped, Acc, Com
    <3> QED
      BY <1>2, <1>3, <3>1
  <2> QED
    BY <2>1, <2>3, <2>4, <2>5 DEF Domains
<1>4. ASSUME NEW f \in S, Both(S, f), ~Covered(S, f)
      PROVE  f \in CalcVisibleFiles(S)
  <2>0. f.d \in Domains /\ f.from \in Nat /\ f.to \in Nat /\ f.from < f.to
    BY FileIs
  <2>1. f \in can
    <3>1. SameRange(f, f.d) = f
      BY <2>0, SameRangeIs
    <3> QED
      BY <1>1, <1>4, <2>0, <3>1
  <2>2. ASSUME NEW g \in can, IsProperSubsetOf(f, g)
        PROVE  FALSE
    <3>1. g \in S /\ g \in File
      BY DEF CanBeVisible
    <3>2. g.from \in Nat /\ g.to \in Nat /\ g.d \in Domains
      BY <3>1, FileIs
    <3>3. /\ g.d = f.d /\ g.from <= f.from /\ f.to <= g.to
          /\ ~(g.from = f.from /\ g.to = f.to)
      BY <2>2, <3>1, FileIs DEF IsProperSubsetOf
    <3>4. ~Both(S, g)
      BY <1>4, <3>1, <3>3 DEF Covered
    <3>5. ~Covered(S, g)
      BY <1>4, <3>1, <3>3, CoverTrans
    <3>6. g.d # Acc
      <4> SUFFICES ASSUME g.d = Acc PROVE FALSE
        OBVIOUS
      <4>1. SameRange(g, Com) \in S
        BY DEF CanBeVisible, CheckDependentPresent
      <4>2. SameRange(g, Acc) = g
        BY <3>1, SameRangeIs DEF Domains
      <4> QED
        BY <3>1, <3>4, <4>1, <4>2 DEF Both, Domains
    <3>7. IsNext(S, g)
      BY <3>1, <3>4, <3>5, <3>6 DEF Shaped
    <3> QED
      BY <2>0, <3>2, <3>3, <3>7 DEF IsNext
  <2> QED
    BY <2>1, <2>2 DEF CalcVisibleFiles
<1>5. CalcVisibleFiles(S) \subseteq S
  BY DEF CalcVisibleFiles, CanBeVisible
<1> QED
  BY <1>2, <1>3, <1>4, <1>5

(* The pair that ends last, and of those the longest, lies in no other. *)
LEMMA LastPairShows ==
  ASSUME NEW S \in SUBSET File, NEW f \in S, Both(S, f)
  PROVE  \E g \in S : Both(S, g) /\ ~Covered(S, g) /\ f.to <= g.to
<1> DEFINE pairs == {g \in S : Both(S, g)}
           ends == {g.to : g \in pairs}
<1>0. /\ \A g \in S : g.to \in Steps /\ g.from \in Steps
      /\ Steps = 0..MaxStep /\ MaxStep \in Nat
  BY FileIs, AggregatorAssumption DEF Steps
<1>1. ends \in SUBSET 0..MaxStep /\ f.to \in ends
  BY <1>0
<1>2. PICK end \in ends : \A x \in ends : x <= end
  <2> HIDE DEF ends
  <2> QED
    BY <1>0, <1>1, MaxIs, Zenon
<1> DEFINE froms == {g.from : g \in {h \in pairs : h.to = end}}
<1>3. froms \in SUBSET Nat /\ froms # {}
  BY <1>0, <1>2
<1> HIDE DEF froms
<1>4. Min(froms) \in froms /\ \A x \in froms : Min(froms) <= x
  BY <1>3, MinIs
<1>5. PICK g \in pairs : g.to = end /\ g.from = Min(froms)
  BY <1>4 DEF froms
<1>6. ASSUME Covered(S, g) PROVE FALSE
  <2>1. PICK h \in S : /\ Both(S, h)
                       /\ h.from <= g.from /\ g.to <= h.to
                       /\ ~(h.from = g.from /\ h.to = g.to)
    BY <1>6 DEF Covered
  <2>2. h.to <= end
    BY <1>2, <2>1
  <2>3. h.to = end
    BY <1>0, <1>5, <2>1, <2>2
  <2>4. Min(froms) <= h.from
    BY <1>4, <2>1, <2>3 DEF froms
  <2> QED
    BY <1>0, <1>5, <2>1, <2>3, <2>4
<1>7. f.to <= g.to
  BY <1>1, <1>2, <1>5
<1> QED
  BY <1>5, <1>6, <1>7

(* What recalcVisibleFiles establishes. *)
LEMMA CalcShows ==
  ASSUME NEW S \in SUBSET File, Shaped(S)
  PROVE  /\ CalcVisibleFiles(S) \subseteq S
         /\ IsAligned(CalcVisibleFiles(S))
         /\ \A f \in CalcVisibleFiles(S) : Both(S, f) /\ ~Covered(S, f)
         /\ \A f \in S : Both(S, f) => \E g \in CalcVisibleFiles(S) : f.to <= g.to
<1>1. CalcVisibleFiles(S) = {f \in S : Both(S, f) /\ ~Covered(S, f)}
  BY CalcIs
<1>2. ASSUME NEW f \in S, Both(S, f), ~Covered(S, f), NEW d \in Domains
      PROVE  /\ SameRange(f, d) \in S /\ Both(S, SameRange(f, d))
             /\ ~Covered(S, SameRange(f, d))
  <2>1. /\ SameRange(f, d) \in S /\ SameRange(f, d) \in File
        /\ Both(S, SameRange(f, d))
    BY <1>2, BothMember
  <2>2. SameRange(f, d).from = f.from /\ SameRange(f, d).to = f.to
    BY SameRangeIs
  <2> QED
    BY <1>2, <2>1, <2>2, BothRange
<1>3. IsAligned(CalcVisibleFiles(S))
  BY <1>1, <1>2 DEF IsAligned
<1>4. \A f \in S : Both(S, f) => \E g \in CalcVisibleFiles(S) : f.to <= g.to
  BY <1>1, LastPairShows
<1> QED
  BY <1>1, <1>3, <1>4

(* A file is added that keeps the shape: of the step that follows, or of a *)
(* range that pairs reach, commitment only after accounts.                 *)
LEMMA AddFile ==
  ASSUME NEW S \in SUBSET File, Shaped(S), NEW x \in File,
         \/ IsNext(S, x)
         \/ Reach(S, x.to) /\ (x.d = Com => SameRange(x, Acc) \in S)
  PROVE  Shaped(S \cup {x})
<1> DEFINE T == S \cup {x}
<1>0. /\ T \in SUBSET File /\ S \subseteq T
      /\ \A f \in T : /\ f.from \in Nat /\ f.to \in Nat /\ f.from < f.to
                      /\ f.d \in Domains /\ f \in File
  BY FileIs
<1> HIDE DEF T
\* A new pair is the pair of x.
<1>1. ASSUME NEW g \in T, Both(T, g), ~(g.from = x.from /\ g.to = x.to)
      PROVE  g \in S /\ Both(S, g)
  <2>1. \A d \in Domains : SameRange(g, d) # x
    BY <1>0, <1>1, SameRangeIs
  <2>2. Both(S, g)
    BY <1>1, <2>1 DEF Both, T
  <2> QED
    BY <1>0, <2>2, BothMember
<1>2. ASSUME NEW n \in Nat, Reach(T, n), ~Reach(S, n)
      PROVE  Both(T, x) /\ n <= x.to
  <2>1. PICK g \in T : Both(T, g) /\ n <= g.to
    BY <1>2 DEF Reach
  <2>2. g.from = x.from /\ g.to = x.to
    BY <1>1, <1>2, <2>1 DEF Reach
  <2> QED
    BY <1>0, <2>1, <2>2, BothRange
<1>3. ASSUME NEW f \in T, IsNext(S, f), Reach(T, f.to)
      PROVE  Both(T, f)
  <2>1. Both(T, x) /\ f.to <= x.to
    BY <1>0, <1>2, <1>3 DEF IsNext
  <2>2. x \in T /\ ~Reach(S, x.to)
    BY <1>0, <1>3, <2>1, ReachDown DEF IsNext, T
  <2>3. IsNext(S, x)
    BY <2>2
  <2>4. ~(f.to <= x.from)
    BY <1>0, <1>3, <2>2, <2>3, ReachDown DEF IsNext
  <2>5. f.to = x.to /\ f.from = x.from
    BY <1>0, <1>3, <2>1, <2>2, <2>3, <2>4 DEF IsNext
  <2> QED
    BY <1>0, <2>1, <2>5, BothRange
<1>4. ASSUME NEW f \in T, IsNext(S, f)
      PROVE  IsNext(T, f) \/ (Reach(T, f.to) /\ Both(T, f))
  BY <1>0, <1>3, <1>4, Monotone DEF IsNext
<1>5. ASSUME NEW f \in T
      PROVE  \/ IsNext(T, f)
             \/ f.d = Acc /\ Reach(T, f.to)
             \/ f.d = Com /\ (Both(T, f) \/ Covered(T, f))
  <2>1. CASE IsNext(S, f)
    BY <1>0, <1>4, <2>1 DEF Domains
  <2>2. CASE f \in S /\ ~IsNext(S, f)
    BY <1>0, <2>2, Monotone DEF Shaped
  <2>3. CASE f = x /\ ~IsNext(S, f)
    <3>1. Reach(T, x.to) /\ (x.d = Com => SameRange(x, Acc) \in T)
      BY <1>0, <2>3, Monotone
    <3>2. x \in T /\ (x.d = Com => SameRange(x, Com) = x)
      BY <1>0, SameRangeIs DEF T, Domains
    <3>3. x.d = Com => Both(T, x)
      BY <3>1, <3>2 DEF Both, Domains
    <3> QED
      BY <1>0, <2>3, <3>1, <3>2, <3>3 DEF Domains
  <2> QED
    BY <2>1, <2>2, <2>3 DEF T
<1> QED
  BY <1>5 DEF Shaped, T

(* A pair is added: of the step that follows, or of a range that is reached. *)
LEMMA AddPair ==
  ASSUME NEW S \in SUBSET File, Shaped(S), NEW x \in File,
         IsNext(S, x) \/ Reach(S, x.to)
  PROVE  /\ Shaped(S \cup {SameRange(x, d) : d \in Domains})
         /\ \A n \in Nat : Reach(S \cup {SameRange(x, d) : d \in Domains}, n)
                             => Reach(S, n) \/ n <= x.to
<1> DEFINE a == SameRange(x, Acc)
           c == SameRange(x, Com)
           A == S \cup {a}
           T == S \cup {SameRange(x, d) : d \in Domains}
<1>0. /\ a \in File /\ a.d = Acc /\ a.from = x.from /\ a.to = x.to
      /\ c \in File /\ c.d = Com /\ c.from = x.from /\ c.to = x.to
      /\ SameRange(c, Acc) = a
  <2>1. /\ a \in File /\ a.d = Acc /\ a.from = x.from /\ a.to = x.to
        /\ c \in File /\ c.d = Com /\ c.from = x.from /\ c.to = x.to
    BY SameRangeIs DEF Domains
  <2> QED
    BY <2>1, SameRangeSame DEF Domains
<1>1. T = A \cup {c}
  BY DEF Domains
<1> HIDE DEF a, c
<1>2. Acc # Com
  BY DEF Acc, Com
<1>3. Shaped(A) /\ A \in SUBSET File
  BY <1>0, <1>2, AddFile DEF IsNext
<1>4. \/ IsNext(A, c)
      \/ Reach(A, c.to) /\ (c.d = Com => SameRange(c, Acc) \in A)
  BY <1>0, Monotone DEF IsNext
<1>5. Shaped(T)
  BY <1>0, <1>1, <1>3, <1>4, AddFile
<1>6. ASSUME NEW n \in Nat, Reach(T, n), ~(n <= x.to)
      PROVE  Reach(S, n)
  <2>1. CASE n = 0
    BY <2>1 DEF Reach
  <2>2. CASE n # 0
    <3>1. PICK g \in T : Both(T, g) /\ n <= g.to
      BY <1>6, <2>2 DEF Reach
    <3>2. g \in File /\ g.to # x.to
      BY <1>0, <1>1, <1>6, <3>1
    <3>3. \A d \in Domains : SameRange(g, d) # a /\ SameRange(g, d) # c
      BY <1>0, <3>2, SameRangeIs
    <3>4. Both(S, g)
      BY <1>1, <3>1, <3>3 DEF Both
    <3>5. g \in S
      BY <3>2, <3>4, BothMember
    <3> QED
      BY <3>1, <3>4, <3>5 DEF Reach
  <2> QED
    BY <2>1, <2>2
<1> QED
  BY <1>5, <1>6

(* Files are removed that lie in pairs of D, which stay. *)
LEMMA RemoveFiles ==
  ASSUME NEW S \in SUBSET File, NEW D \in SUBSET S, NEW R \in SUBSET File,
         R \cap D = {}, \A f \in R : Covered(D, f)
  PROVE  /\ \A f \in File : Covered(S, f) => Covered(S \ R, f)
         /\ \A n \in Nat : Reach(S, n) <=> Reach(S \ R, n)
         /\ Shaped(S) => Shaped(S \ R)
<1> DEFINE T == S \ R
<1>0. T \in SUBSET File /\ T \subseteq S /\ D \subseteq T
  OBVIOUS
<1> HIDE DEF T
<1>1. ASSUME NEW g \in S, Both(S, g)
      PROVE  Both(T, g) \/ Covered(T, g)
  <2> SUFFICES ASSUME ~Both(T, g) PROVE Covered(T, g)
    OBVIOUS
  <2>1. PICK d \in Domains : SameRange(g, d) \in R
    BY <1>1 DEF Both, T
  <2>2. Covered(D, SameRange(g, d))
    BY <2>1
  <2>3. /\ SameRange(g, d) \in File
        /\ SameRange(g, d).from = g.from /\ SameRange(g, d).to = g.to
    BY SameRangeIs
  <2>4. Covered(D, g)
    BY <2>2, <2>3, BothRange
  <2> QED
    BY <1>0, <2>4, Monotone
<1>2. ASSUME NEW f \in File, Covered(S, f)
      PROVE  Covered(T, f)
  <2>1. PICK g \in S : /\ Both(S, g)
                       /\ g.from <= f.from /\ f.to <= g.to
                       /\ ~(g.from = f.from /\ g.to = f.to)
    BY <1>2 DEF Covered
  <2>2. CASE Both(T, g)
    <3>1. g \in T
      BY <1>0, <2>2, BothMember
    <3> QED
      BY <2>1, <2>2, <3>1 DEF Covered
  <2>3. CASE Covered(T, g)
    BY <1>0, <2>1, <2>3, CoverTrans
  <2> QED
    BY <1>1, <2>1, <2>2, <2>3
<1>3. ASSUME NEW n \in Nat, Reach(S, n), n # 0
      PROVE  Reach(T, n)
  <2>1. PICK g \in S : Both(S, g) /\ n <= g.to
    BY <1>3 DEF Reach
  <2>2. CASE Both(T, g)
    <3>1. g \in T
      BY <1>0, <2>2, BothMember
    <3> QED
      BY <2>1, <2>2, <3>1 DEF Reach
  <2>3. CASE Covered(T, g)
    <3>1. PICK h \in T : Both(T, h) /\ g.to <= h.to
      BY <2>3 DEF Covered
    <3>2. n <= h.to
      BY <1>0, <2>1, <3>1, FileIs
    <3> QED
      BY <3>1, <3>2 DEF Reach
  <2> QED
    BY <1>1, <2>1, <2>2, <2>3
<1>4. \A n \in Nat : Reach(S, n) <=> Reach(T, n)
  BY <1>0, <1>3, Monotone DEF Reach
<1>5. ASSUME Shaped(S), NEW f \in T
      PROVE  \/ IsNext(T, f)
             \/ f.d = Acc /\ Reach(T, f.to)
             \/ f.d = Com /\ (Both(T, f) \/ Covered(T, f))
  <2>1. f \in S /\ f \in File /\ f.from \in Nat /\ f.to \in Nat
    BY <1>0, FileIs
  <2>2. CASE IsNext(S, f)
    BY <1>4, <2>1, <2>2 DEF IsNext
  <2>3. CASE f.d = Acc /\ Reach(S, f.to)
    BY <1>4, <2>1, <2>3
  <2>4. CASE f.d = Com /\ (Both(S, f) \/ Covered(S, f))
    BY <1>1, <1>2, <2>1, <2>4
  <2> QED
    BY <1>5, <2>1, <2>2, <2>3, <2>4 DEF Shaped
<1>6. Shaped(S) => Shaped(T)
  BY <1>5 DEF Shaped
<1> QED
  BY <1>2, <1>4, <1>6 DEF T

(* The same for one file. *)
LEMMA RemoveFile ==
  ASSUME NEW S \in SUBSET File, NEW f \in File, Covered(S \ {f}, f)
  PROVE  /\ \A g \in File : Covered(S, g) => Covered(S \ {f}, g)
         /\ \A n \in Nat : Reach(S, n) <=> Reach(S \ {f}, n)
         /\ Shaped(S) => Shaped(S \ {f})
<1>1. /\ S \ {f} \in SUBSET S /\ {f} \in SUBSET File /\ {f} \cap (S \ {f}) = {}
      /\ \A g \in {f} : Covered(S \ {f}, g)
  OBVIOUS
<1> QED
  BY <1>1, RemoveFiles, Zenon

(* The files of a list have a first one: accounts before commitment. *)
LEMMA FirstIs ==
  ASSUME NEW S \in SUBSET File, S # {}
  PROVE  First(S) \in S /\ \A g \in S : Before(First(S), g)
<1> DEFINE D == IF Of(S, Acc) = {} THEN S ELSE Of(S, Acc)
           ends == {f.to : f \in D}
<1>0. /\ \A f \in S : f.to \in Nat /\ f.from \in 0..MaxStep /\ f.d \in {Acc, Com}
      /\ MaxStep \in Nat
  BY FileIs, AggregatorAssumption DEF Domains, Steps
<1>1. /\ D \subseteq S /\ D # {}
      /\ \E d \in {Acc, Com} : \A f \in D : f.d = d
      /\ \A f \in D, g \in S \ D : f.d = Acc /\ g.d = Com
  BY <1>0 DEF Of
<1> HIDE DEF D
<1>2. ends \in SUBSET Nat /\ ends # {}
  BY <1>0, <1>1
<1>3. PICK end \in ends : \A x \in ends : end <= x
  <2> HIDE DEF ends
  <2> QED
    BY <1>2, MinIs, Zenon
<1> DEFINE froms == {f.from : f \in {g \in D : g.to = end}}
<1>4. froms \in SUBSET 0..MaxStep /\ froms # {}
  BY <1>0, <1>1, <1>3
<1>5. PICK from \in froms : \A x \in froms : x <= from
  <2> HIDE DEF froms
  <2> QED
    BY <1>0, <1>4, MaxIs, Zenon
<1>6. PICK f \in D : f.to = end /\ f.from = from
  BY <1>5
<1>7. ASSUME NEW g \in S PROVE Before(f, g)
  <2>1. CASE g \in D
    <3>1. f.d = g.d
      BY <1>1, <2>1
    <3>2. f.to <= g.to
      BY <1>3, <1>6, <2>1
    <3>3. f.to = g.to => g.from <= f.from
      BY <1>5, <1>6, <2>1
    <3> QED
      BY <1>0, <1>1, <3>1, <3>2, <3>3 DEF Before
  <2>2. CASE g \notin D
    BY <1>1, <2>2 DEF Before
  <2> QED
    BY <2>1, <2>2
<1> QED
  BY <1>1, <1>7 DEF First

(* EndTxNum of a domain is the end of its last file. *)
LEMMA EndIs ==
  ASSUME NEW S \in SUBSET File, NEW d \in Domains
  PROVE  /\ End(S, d) \in Steps
         /\ \A f \in S : f.d = d => f.to <= End(S, d)
         /\ End(S, d) = 0 \/ \E f \in S : f.d = d /\ f.to = End(S, d)
<1> DEFINE ends == {f.to : f \in Of(S, d)}
<1>0. (\A f \in S : f.to \in Steps) /\ MaxStep \in Nat /\ Steps = 0..MaxStep
  BY FileIs, AggregatorAssumption DEF Steps
<1>1. CASE Of(S, d) = {}
  <2>1. End(S, d) = 0 /\ \A f \in S : f.d # d
    BY <1>1 DEF End, Of
  <2> QED
    BY <1>0, <2>1
<1>2. CASE Of(S, d) # {}
  <2>1. ends \in SUBSET 0..MaxStep /\ ends # {}
    BY <1>0, <1>2 DEF Of
  <2>2. End(S, d) = Max(ends)
    BY <1>2 DEF End
  <2>3. Max(ends) \in ends /\ \A x \in ends : x <= Max(ends)
    <3> HIDE DEF ends
    <3> QED
      BY <1>0, <2>1, MaxIs, Zenon
  <2>4. End(S, d) \in ends /\ \A x \in ends : x <= End(S, d)
    BY <2>2, <2>3
  <2> QED
    BY <1>0, <2>1, <2>4 DEF Of
<1> QED
  BY <1>1, <1>2

(* Files of both domains end at the same step, the one TxNumsInFiles says. *)
LEMMA MinimaxIs ==
  ASSUME visible \subseteq File, IsAligned(visible)
  PROVE  /\ Minimax \in Steps
         /\ \A f \in visible : f.to <= Minimax
         /\ Minimax = 0 \/ \E f \in visible : f.to = Minimax
<1> DEFINE ends == {End(visible, d) : d \in Domains}
<1>0. Steps \subseteq Nat
  BY AggregatorAssumption DEF Steps
<1>1. ends \in SUBSET Nat /\ ends # {}
  BY <1>0, EndIs, Zenon DEF Domains
<1>2. Minimax = Min(ends)
  BY DEF Minimax
<1>3. Min(ends) \in ends
  <2> HIDE DEF ends
  <2> QED
    BY <1>1, MinIs
<1>4. PICK d \in Domains : Minimax = End(visible, d)
  BY <1>2, <1>3
<1>5. ASSUME NEW f \in visible PROVE f.to <= Minimax
  <2>1. SameRange(f, d) \in visible
    BY DEF IsAligned
  <2>2. SameRange(f, d).d = d /\ SameRange(f, d).to = f.to
    BY SameRangeIs
  <2> QED
    BY <1>4, <2>1, <2>2, EndIs
<1> QED
  BY <1>4, <1>5, EndIs

(* lastIdInDB is a step. *)
LEMMA LastIdIs ==
  ASSUME db \in [Domains -> SUBSET Steps]
  PROVE  LastIdInDB \in Steps
<1> DEFINE ids == {0} \cup UNION {db[d] : d \in Domains}
<1>1. ids \in SUBSET 0..MaxStep /\ ids # {} /\ MaxStep \in Nat
  BY AggregatorAssumption DEF Steps
<1>2. Max(ids) \in ids
  <2> HIDE DEF ids
  <2> QED
    BY <1>1, MaxIs, Zenon
<1>3. LastIdInDB = Max(ids)
  BY DEF LastIdInDB
<1> QED
  BY <1>1, <1>2, <1>3 DEF Steps

(* What the count of a file says. *)
LEMMA RefCountIs ==
  ASSUME NEW f
  PROVE  /\ RefCount(f) \in Nat
         /\ RefCount(f) = 0 <=> \A h \in Holders : f \notin held[h]
         /\ \A h \in Holders : f \in held[h] =>
              (RefCount(f) = 1 <=> \A k \in Holders \ {h} : f \notin held[k])
<1> DEFINE C == {h \in Holders : f \in held[h]}
<1>1. IsFiniteSet(Holders)
  <2>1. IsFiniteSet({"writer", "merge", "clean"})
    <3>1. IsFiniteSet({"writer"}) /\ IsFiniteSet({"merge"}) /\ IsFiniteSet({"clean"})
      BY FS_Singleton
    <3>2. IsFiniteSet({"writer"} \cup {"merge"})
      BY <3>1, FS_Union, Zenon
    <3>3. IsFiniteSet(({"writer"} \cup {"merge"}) \cup {"clean"})
      BY <3>1, <3>2, FS_Union, Zenon
    <3>4. {"writer", "merge", "clean"} = ({"writer"} \cup {"merge"}) \cup {"clean"}
      OBVIOUS
    <3> QED
      BY <3>3, <3>4
  <2> QED
    BY <2>1, AggregatorAssumption, FS_Union, Zenon DEF Holders
<1>2. IsFiniteSet(C)
  BY <1>1, FS_Subset
<1>3. RefCount(f) = Cardinality(C)
  BY DEF RefCount
<1>4. Cardinality(C) \in Nat
  BY <1>2, FS_CardinalityType
<1>5. Cardinality(C) = 0 <=> C = {}
  BY <1>2, FS_EmptySet
<1>6. Cardinality(C) = 1 <=> \E x : C = {x}
  BY <1>2, FS_Singleton, Zenon
<1>7. ASSUME NEW h \in Holders, f \in held[h]
      PROVE  (\E x : C = {x}) <=> \A k \in Holders \ {h} : f \notin held[k]
  <2>1. h \in C
    BY <1>7
  <2>2. (\E x : C = {x}) <=> C = {h}
    BY <2>1
  <2> QED
    BY <2>1, <2>2, Zenon
<1> QED
  BY <1>3, <1>4, <1>5, <1>6, <1>7, Zenon

------------------------------------------------------------------------------
\* Ranges to merge.

\* The lengths of ranges: no odd divisor but 1.
PowerOfTwo(b) == \A q \in 2..b : b % q = 0 => q % 2 = 0

(* The lowest bit of an end is a power of two that divides it. *)
LEMMA RightmostBitIs ==
  ASSUME NEW n \in Nat, n # 0
  PROVE  /\ RightmostBit(n) \in 1..n
         /\ n % RightmostBit(n) = 0 /\ PowerOfTwo(RightmostBit(n))
<1> DEFINE bits == {b \in 1..n : n % b = 0 /\ PowerOfTwo(b)}
<1>1. bits \in SUBSET 0..n /\ bits \subseteq 1..n
  OBVIOUS
<1>2. 1 \in bits
  BY DEF PowerOfTwo
<1>3. RightmostBit(n) = Max(bits)
  BY DEF RightmostBit, PowerOfTwo
<1>4. Max(bits) \in bits
  <2> HIDE DEF bits
  <2> QED
    BY <1>1, <1>2, MaxIs, Zenon
<1> QED
  BY <1>1, <1>3, <1>4

(* findMergeRange of a domain: a range that ends with a file, starts       *)
(* before it and has the length of the end's lowest bit; the same range in *)
(* domains that have the same files.                                       *)
LEMMA MergeRangeIs ==
  ASSUME NEW S \in SUBSET File, NEW e
  PROVE  /\ \A d \in Domains :
              \/ DomainMergeRange(S, d, e) = NoRange
              \/ \E f \in S, n \in Nat :
                   /\ n < f.from /\ n = f.to - RightmostBit(f.to)
                   /\ DomainMergeRange(S, d, e) = [from |-> n, to |-> f.to]
         /\ IsAligned(S) => DomainMergeRange(S, Acc, e) = DomainMergeRange(S, Com, e)
<1> DEFINE Start(f) == f.to - RightmostBit(f.to)
           can(d) == {f \in Of(S, d) : f.to <= e /\ Start(f) < f.from}
           froms(d) == {Start(f) : f \in can(d)}
           tos(d, n) == {f.to : f \in {g \in can(d) : Start(g) = n}}
<1>1. \A d : DomainMergeRange(S, d, e) =
               IF can(d) = {} THEN NoRange
               ELSE [from |-> Min(froms(d)), to |-> Min(tos(d, Min(froms(d))))]
  BY DEF DomainMergeRange
<1>2. ASSUME NEW f \in S PROVE Start(f) \in Nat
  <2>1. f.to \in Nat /\ f.to # 0
    BY FileIs
  <2>2. RightmostBit(f.to) \in 1..f.to
    BY <2>1, RightmostBitIs
  <2> QED
    BY <2>1, <2>2
<1> HIDE DEF Start
<1>3. ASSUME NEW d \in Domains, can(d) # {}
      PROVE  \E f \in S, n \in Nat :
               /\ n < f.from /\ n = f.to - RightmostBit(f.to)
               /\ DomainMergeRange(S, d, e) = [from |-> n, to |-> f.to]
  <2>1. froms(d) \in SUBSET Nat /\ froms(d) # {}
    BY <1>2, <1>3 DEF Of
  <2>2. PICK n : n = Min(froms(d))
    BY Zenon
  <2>3. n \in froms(d)
    <3> HIDE DEF froms
    <3> QED
      BY <2>1, <2>2, MinIs
  <2>4. n \in Nat
    BY <2>1, <2>3
  <2>5. tos(d, n) \in SUBSET Nat /\ tos(d, n) # {}
    BY <2>3, FileIs DEF Of
  <2>6. Min(tos(d, n)) \in tos(d, n)
    <3> HIDE DEF tos
    <3> QED
      BY <2>5, MinIs
  <2>7. PICK f \in can(d) : Start(f) = n /\ Min(tos(d, n)) = f.to
    BY <2>6
  <2>8. DomainMergeRange(S, d, e) = [from |-> n, to |-> f.to]
    <3> HIDE DEF can, froms, tos
    <3> QED
      BY <1>1, <1>3, <2>2, <2>7
  <2>9. f \in S /\ n < f.from
    BY <2>7 DEF Of
  <2>10. n = f.to - RightmostBit(f.to)
    BY <2>7 DEF Start
  <2> HIDE DEF can, froms, tos
  <2> QED
    BY <2>4, <2>8, <2>9, <2>10, Zenon
<1>4. ASSUME IsAligned(S)
      PROVE  DomainMergeRange(S, Acc, e) = DomainMergeRange(S, Com, e)
  <2>1. ASSUME NEW d \in Domains, NEW c \in Domains, NEW f \in can(d)
        PROVE  /\ SameRange(f, c) \in can(c)
               /\ Start(SameRange(f, c)) = Start(f)
               /\ SameRange(f, c).to = f.to
    <3>1. f \in S
      BY DEF Of
    <3>2. /\ SameRange(f, c) \in S /\ SameRange(f, c).d = c
          /\ SameRange(f, c).from = f.from /\ SameRange(f, c).to = f.to
      BY <1>4, <3>1, SameRangeIs DEF IsAligned
    <3>3. Start(SameRange(f, c)) = Start(f)
      BY <3>2 DEF Start
    <3> QED
      BY <3>2, <3>3 DEF Of
  <2>2. Acc \in Domains /\ Com \in Domains
    BY DEF Domains
  <2> HIDE DEF can
  <2>3. can(Acc) = {} <=> can(Com) = {}
    <3>1. can(Acc) # {} => can(Com) # {}
      BY <2>1, <2>2, Zenon
    <3>2. can(Com) # {} => can(Acc) # {}
      BY <2>1, <2>2, Zenon
    <3> QED
      BY <3>1, <3>2
  <2>4. froms(Acc) = froms(Com)
    <3>1. froms(Acc) \subseteq froms(Com)
      BY <2>1, <2>2
    <3>2. froms(Com) \subseteq froms(Acc)
      BY <2>1, <2>2
    <3> QED
      BY <3>1, <3>2
  <2>5. \A n : tos(Acc, n) = tos(Com, n)
    <3> TAKE n
    <3>1. tos(Acc, n) \subseteq tos(Com, n)
      BY <2>1, <2>2
    <3>2. tos(Com, n) \subseteq tos(Acc, n)
      BY <2>1, <2>2
    <3> QED
      BY <3>1, <3>2
  <2> HIDE DEF froms, tos
  <2> QED
    BY <1>1, <2>3, <2>4, <2>5
<1>5. \A d \in Domains : can(d) = {} => DomainMergeRange(S, d, e) = NoRange
  <2> HIDE DEF can, froms, tos
  <2> QED
    BY <1>1
<1> HIDE DEF can
<1> QED
  BY <1>3, <1>4, <1>5

(* A merge step writes a pair or nothing: it ends with a visible file and  *)
(* starts before it.                                                       *)
LEMMA FilesToMergeIs ==
  ASSUME NEW S \in SUBSET File, IsAligned(S), FilesToMerge(S) # {}
  PROVE  \E m \in File, f \in S :
           /\ FilesToMerge(S) = {SameRange(m, d) : d \in Domains}
           /\ m \in FilesToMerge(S)
           /\ m.to = f.to /\ m.from < f.from
           /\ m.from = m.to - RightmostBit(m.to)
<1>1. PICK e : FindMergeRange(S) =
                 LET c == DomainMergeRange(S, Com, e)
                     a == DomainMergeRange(S, Acc, e)
                     behind == c \notin {NoRange, a} /\ (a = NoRange \/ c.to < a.from)
                     exists == [d |-> Acc, from |-> c.from, to |-> c.to] \in dirty
                 IN [accounts   |-> IF behind THEN NoRange ELSE a,
                     commitment |-> IF behind /\ ~exists THEN NoRange ELSE c]
  BY Zenon DEF FindMergeRange
<1>2. PICK r : r = DomainMergeRange(S, Com, e) /\ r = DomainMergeRange(S, Acc, e)
  BY MergeRangeIs
<1>3. FindMergeRange(S) = [accounts |-> r, commitment |-> r]
  BY <1>1, <1>2
<1>4. \A d \in Domains : FindMergeRange(S)[d] = r
  BY <1>3 DEF Domains, Acc, Com
<1>5. FilesToMerge(S) = {[d |-> d, from |-> r.from, to |-> r.to] :
                           d \in {x \in Domains : r # NoRange}}
  BY <1>4 DEF FilesToMerge
<1>6. r # NoRange
  BY <1>5
<1>7. PICK f \in S, n \in Nat : /\ n < f.from /\ n = f.to - RightmostBit(f.to)
                               /\ r = [from |-> n, to |-> f.to]
  BY <1>2, <1>6, MergeRangeIs DEF Domains
<1>8. FilesToMerge(S) = {[d |-> d, from |-> n, to |-> f.to] : d \in Domains}
  BY <1>5, <1>6, <1>7
<1> DEFINE m == [d |-> Acc, from |-> n, to |-> f.to]
<1>9. m \in File
  BY <1>7, FileIs, AggregatorAssumption DEF File, Steps, Domains
<1>10. \A d \in Domains : SameRange(m, d) = [d |-> d, from |-> n, to |-> f.to]
  BY DEF SameRange
<1>11. FilesToMerge(S) = {SameRange(m, d) : d \in Domains}
  <2> HIDE DEF m
  <2> QED
    BY <1>8, <1>10
<1>12. m \in FilesToMerge(S)
  BY <1>8 DEF Domains
<1>13. m.to = f.to /\ m.from = n
  OBVIOUS
<1> HIDE DEF m
<1> QED
  BY <1>7, <1>9, <1>11, <1>12, <1>13, Zenon

------------------------------------------------------------------------------
(* The invariant. *)

\* The files: what is opened, seen and marked.
FilesInv ==
  /\ dirty \subseteq disk
  /\ canDelete \cap dirty = {}
  /\ Shaped(dirty) /\ Shaped(disk)
  /\ \A f \in disk : Reach(dirty, f.to) \/ (f.to = f.from + 1 /\ Reach(dirty, f.from))
  /\ \A f \in canDelete \cup merger.todo : Covered(dirty, f)

VisibleInv ==
  /\ IsAligned(visible)
  /\ \A f \in visible : Both(dirty, f) /\ ~Covered(dirty, f)
  /\ \A f \in dirty : Both(dirty, f) => \E g \in visible : f.to <= g.to

BuilderInv ==
  Building => /\ Reach(dirty, builder.step) /\ ~Reach(dirty, builder.step + 1)
              /\ \A d \in builder.wrote : StepFile(d) \in disk

MergerInv ==
  /\ merger.at = "merge" =>
       /\ \E m \in merger.merged : merger.merged = {SameRange(m, d) : d \in Domains}
       /\ merger.merged \cap canDelete = {}
       /\ \A m \in merger.merged : Reach(dirty, m.to)
       /\ merger.wrote \subseteq merger.merged \cap disk
       /\ \A m \in merger.wrote : SameRange(m, Acc) \in merger.wrote
  /\ merger.at \in {"clean", "lock"} => \A m \in merger.merged : Both(dirty, m)
  /\ merger.at = "lock" => \A f \in held["clean"] : Both(dirty, f)
  /\ ~Locked => merger.todo = {}
  /\ merger.todo \subseteq dirty
  /\ IF merger.at = "delete" THEN merger.mark \in canDelete ELSE merger.mark = NoFile

\* Who holds files, and who is about to look at them.
HoldersInv ==
  /\ \A t \in Readers \cup {"writer"} :
       /\ tx[t].at # "open" => held[t] = {}
       /\ tx[t].at = "none" \/ last[t] = {}
  /\ merger.at \in {"idle", "loop"} => held["merge"] = {}
  /\ merger.at \in {"idle", "loop"} \/ last["merge"] = {}
  /\ merger.at \in {"lock", "mark", "delete"} \/ held["clean"] = {}
  /\ merger.at = "close" \/ last["clean"] = {}

HeldAligned == \A h \in Holders : IsAligned(held[h])

LeakInv ==
  \A f \in canDelete \cap disk :
    \/ merger.mark = f
    \/ \E h \in Holders : f \in held[h] \/ f \in last[h]

SafeInv ==
  /\ \A h \in Holders : held[h] \subseteq disk
  /\ \A h, k \in Holders : last[h] \cap held[k] = {}

IInv ==
  /\ TypeOK /\ FilesInv /\ VisibleInv /\ BuilderInv /\ MergerInv
  /\ HoldersInv /\ HeldAligned /\ LeakInv /\ (~Preempts => SafeInv)

------------------------------------------------------------------------------
(* An empty directory satisfies the invariant. *)
LEMMA InitInv == Init => IInv
<1> SUFFICES ASSUME Init PROVE IInv
  OBVIOUS
<1> USE DEF Init
<1>1. TypeOK
  <2>1. 0 \in Steps /\ MaxFaults \in Nat
    BY AggregatorAssumption DEF Steps
  <2>2. Idle \in TxStates
    BY DEF Idle, TxStates
  <2>3. builder \in BuilderStates
    BY <2>1 DEF NoBuild, BuilderStates
  <2>4. merger \in MergerStates
    BY DEF NoMerge, MergerStates
  <2>5. tx \in [Readers \cup {"writer"} -> TxStates]
    BY <2>2
  <2>6. /\ db \in [Domains -> SUBSET Steps]
        /\ held \in [Holders -> SUBSET File]
        /\ last \in [Holders -> SUBSET File]
        /\ faults \in 0..MaxFaults
    BY <2>1
  <2> QED
    BY <2>3, <2>4, <2>5, <2>6, Zenon DEF TypeOK
<1>2. FilesInv /\ VisibleInv
  BY DEF FilesInv, VisibleInv, Shaped, IsAligned, NoMerge
<1>3. BuilderInv
  BY DEF BuilderInv, Building, NoBuild
<1>4. MergerInv
  BY DEF MergerInv, NoMerge, Locked
<1>5. HoldersInv
  BY DEF HoldersInv, Idle, NoMerge, Holders
<1>6. HeldAligned /\ LeakInv /\ SafeInv
  BY DEF HeldAligned, LeakInv, SafeInv, IsAligned
<1> QED
  BY <1>1, <1>2, <1>3, <1>4, <1>5, <1>6 DEF IInv

(* Updates of the build stay in its type. *)
LEMMA BuilderUpdates ==
  ASSUME NEW b \in BuilderStates, NEW n \in Steps
  PROVE  /\ [b EXCEPT !.step = n, !.wrote = {}] \in BuilderStates
         /\ [b EXCEPT !.upto = n, !.wrote = {}] \in BuilderStates
BY Zenon DEF BuilderStates

(* So do those of the merge. *)
LEMMA MergerUpdates ==
  ASSUME NEW m \in MergerStates, NEW S \in SUBSET File, NEW f \in File \cup {NoFile}
  PROVE  /\ \A at \in {"merge", "clean"} : [m EXCEPT !.at = at, !.merged = S] \in MergerStates
         /\ [m EXCEPT !.at = "clean", !.wrote = S] \in MergerStates
         /\ [m EXCEPT !.at = "mark", !.todo = S] \in MergerStates
         /\ [m EXCEPT !.at = "delete", !.todo = S, !.mark = f] \in MergerStates
         /\ [m EXCEPT !.at = "mark", !.mark = f] \in MergerStates
BY Zenon DEF MergerStates

(* Types are kept. *)
LEMMA TypeStep ==
  ASSUME TypeOK, VisibleInv, MergerInv, Next
  PROVE  TypeOK'
<1>0. /\ "writer" \in Holders /\ "merge" \in Holders /\ "clean" \in Holders
      /\ Readers \subseteq Holders
  BY DEF Holders
<1>1. visible \subseteq File /\ IsAligned(visible)
  BY DEF TypeOK, VisibleInv
<1>2. /\ Idle \in TxStates /\ NoBuild \in BuilderStates
      /\ NoMerge \in MergerStates
  <2>1. 0 \in Steps
    BY AggregatorAssumption DEF Steps
  <2> QED
    BY <2>1 DEF Idle, NoBuild, NoMerge, TxStates, BuilderStates, MergerStates
<1>a. builder \in BuilderStates /\ merger \in MergerStates
  BY DEF TypeOK
<1>3. \A S \in SUBSET File : CalcVisibleFiles(S) \subseteq File
  BY DEF CalcVisibleFiles, CanBeVisible
<1>4. ASSUME NEW h \in Holders, CloseFiles(h)
      PROVE  held' \in [Holders -> SUBSET File] /\ last' \in [Holders -> SUBSET File]
  BY <1>4 DEF TypeOK, CloseFiles
<1>5. ASSUME NEW h \in Holders, BeginFilesRo(h)
      PROVE  held' \in [Holders -> SUBSET File]
  BY <1>5 DEF TypeOK, BeginFilesRo
<1>6. faults < MaxFaults => faults + 1 \in 0..MaxFaults
  BY AggregatorAssumption DEF TypeOK
<1>7. Building => \A d \in Domains : StepFile(d) \in File
  BY AggregatorAssumption DEF TypeOK, Building, StepFile, File, BuilderStates, Steps
<1>10. ASSUME NEW h \in Holders, RemoveLast(h) PROVE TypeOK'
  <2>1. /\ disk' \subseteq File /\ last' \in [Holders -> SUBSET File]
    BY <1>10 DEF TypeOK, RemoveLast
  <2>2. UNCHANGED <<db, torn, dirty, visible, canDelete, held, tx, builder, merger, spawned, faults>>
    BY <1>10 DEF RemoveLast, jobs
  <2> QED
    BY <2>1, <2>2 DEF TypeOK
<1>11. CASE CrashAndOpenFolder
  <2>1. /\ dirty' \subseteq File /\ visible' \subseteq File /\ canDelete' \subseteq File
    BY <1>3, <1>11 DEF TypeOK, CrashAndOpenFolder
  <2>2. /\ held' \in [Holders -> SUBSET File] /\ last' \in [Holders -> SUBSET File]
        /\ tx' \in [Readers \cup {"writer"} -> TxStates]
    BY <1>2, <1>11 DEF CrashAndOpenFolder
  <2>3. builder' \in BuilderStates /\ merger' \in MergerStates /\ spawned' \in BOOLEAN
    BY <1>2, <1>11, Zenon DEF CrashAndOpenFolder
  <2>4. faults' \in 0..MaxFaults
    BY <1>6, <1>11 DEF CrashAndOpenFolder
  <2>5. UNCHANGED <<db, disk, torn>>
    BY <1>11 DEF CrashAndOpenFolder
  <2> QED
    BY <2>1, <2>2, <2>3, <2>4, <2>5 DEF TypeOK
<1>12. ASSUME NEW r \in Readers, BeginRo(r) PROVE TypeOK'
  <2>1. tx' \in [Readers \cup {"writer"} -> TxStates]
    BY <1>12 DEF TypeOK, BeginRo, TxStates
  <2>2. UNCHANGED <<db, disk, torn, dirty, visible, canDelete, held, last, builder, merger, spawned, faults>>
    BY <1>12 DEF BeginRo, files, refs, jobs
  <2> QED
    BY <2>1, <2>2 DEF TypeOK
<1>13. ASSUME NEW r \in Readers, OpenFiles(r) PROVE TypeOK'
  <2>1. [Idle EXCEPT !.at = "open"] \in TxStates
    BY <1>2 DEF TxStates
  <2>2. tx' \in [Readers \cup {"writer"} -> TxStates]
    BY <1>13, <2>1 DEF TypeOK, OpenFiles
  <2>3. held' \in [Holders -> SUBSET File]
    BY <1>0, <1>5, <1>13 DEF OpenFiles
  <2>4. UNCHANGED <<db, disk, torn, dirty, visible, canDelete, last, builder, merger, spawned, faults>>
    BY <1>13 DEF OpenFiles, files, jobs
  <2> QED
    BY <2>2, <2>3, <2>4 DEF TypeOK
<1>14. ASSUME NEW r \in Readers, Rollback(r) PROVE TypeOK'
  <2>1. tx' \in [Readers \cup {"writer"} -> TxStates]
    BY <1>2, <1>14 DEF TypeOK, Rollback
  <2>2. held' \in [Holders -> SUBSET File] /\ last' \in [Holders -> SUBSET File]
    BY <1>0, <1>4, <1>14 DEF Rollback
  <2>3. UNCHANGED <<db, disk, torn, dirty, visible, canDelete, builder, merger, spawned, faults>>
    BY <1>14 DEF Rollback, files, jobs
  <2> QED
    BY <2>1, <2>2, <2>3 DEF TypeOK
<1>15. CASE BeginRw
  <2>1. tx' \in [Readers \cup {"writer"} -> TxStates]
    BY <1>15 DEF TypeOK, BeginRw, TxStates
  <2>2. held' \in [Holders -> SUBSET File]
    BY <1>0, <1>5, <1>15 DEF BeginRw
  <2>3. UNCHANGED <<db, disk, torn, dirty, visible, canDelete, last, builder, merger, spawned, faults>>
    BY <1>15 DEF BeginRw, files, jobs
  <2> QED
    BY <2>1, <2>2, <2>3 DEF TypeOK
<1>16. CASE WriteStep
  <2>0. tx["writer"].rows \in [Domains -> SUBSET Steps]
    BY DEF TypeOK, TxStates
  <2>1. LastIdInDB + 1 \in Steps
    BY <1>16, LastIdIs, AggregatorAssumption DEF TypeOK, WriteStep, Steps
  <2>2. [d \in Domains |-> tx["writer"].rows[d] \cup {LastIdInDB + 1}] \in [Domains -> SUBSET Steps]
    BY <2>0, <2>1
  <2>3. tx' \in [Readers \cup {"writer"} -> TxStates]
    BY <1>16, <2>2 DEF TypeOK, WriteStep, TxStates
  <2>4. UNCHANGED <<db, disk, torn, dirty, visible, canDelete, held, last, builder, merger, spawned, faults>>
    BY <1>16 DEF WriteStep, files, refs, jobs
  <2> QED
    BY <2>3, <2>4 DEF TypeOK
<1>17. CASE Prune
  <2>0. tx["writer"].rows \in [Domains -> SUBSET Steps]
    BY DEF TypeOK, TxStates
  <2>1. [d \in Domains |-> tx["writer"].rows[d] \ 0..PruneLimit(d)] \in [Domains -> SUBSET Steps]
    BY <2>0
  <2>2. tx' \in [Readers \cup {"writer"} -> TxStates]
    BY <1>17, <2>1 DEF TypeOK, Prune, TxStates
  <2>3. UNCHANGED <<db, disk, torn, dirty, visible, canDelete, held, last, builder, merger, spawned, faults>>
    BY <1>17 DEF Prune, files, refs, jobs
  <2> QED
    BY <2>2, <2>3 DEF TypeOK
<1>18. ASSUME NEW commits \in BOOLEAN, EndRw(commits) PROVE TypeOK'
  <2>1. db' \in [Domains -> SUBSET Steps]
    BY <1>18 DEF TypeOK, EndRw, TxStates
  <2>2. tx' \in [Readers \cup {"writer"} -> TxStates]
    BY <1>2, <1>18 DEF TypeOK, EndRw
  <2>3. held' \in [Holders -> SUBSET File] /\ last' \in [Holders -> SUBSET File]
    BY <1>0, <1>4, <1>18 DEF EndRw
  <2>4. UNCHANGED <<disk, torn, dirty, visible, canDelete, builder, merger, spawned, faults>>
    BY <1>18 DEF EndRw, files, jobs
  <2> QED
    BY <2>1, <2>2, <2>3, <2>4 DEF TypeOK
<1>19. CASE BuildFilesInBackground
  <2>1. Minimax \in Steps /\ LastIdInDB \in Steps
    BY <1>1, MinimaxIs, LastIdIs DEF TypeOK
  <2>2. builder' \in BuilderStates
    BY <1>19, <2>1 DEF BuildFilesInBackground, BuilderStates
  <2>3. UNCHANGED <<db, disk, torn, dirty, visible, canDelete, held, last, tx, merger, spawned, faults>>
    BY <1>19 DEF BuildFilesInBackground, files, refs
  <2> QED
    BY <2>2, <2>3 DEF TypeOK
<1>20. ASSUME NEW d \in Domains, BuildDomain(d) PROVE TypeOK'
  <2>1. disk' \subseteq File /\ torn' \subseteq File
    BY <1>7, <1>20 DEF TypeOK, BuildDomain
  <2>2. builder' \in BuilderStates
    BY <1>20 DEF TypeOK, BuildDomain, BuilderStates
  <2>3. UNCHANGED <<db, dirty, visible, canDelete, held, last, tx, merger, spawned, faults>>
    BY <1>20 DEF BuildDomain, refs
  <2> QED
    BY <2>1, <2>2, <2>3 DEF TypeOK
<1>21. CASE IntegrateDirtyFiles
  <2>1. dirty' \subseteq File
    BY <1>7, <1>21 DEF TypeOK, IntegrateDirtyFiles
  <2>2. visible' \subseteq File
    BY <1>3, <1>21, <2>1 DEF IntegrateDirtyFiles
  <2>3. builder.step + 1 \in Steps
    BY <1>21, AggregatorAssumption DEF TypeOK, IntegrateDirtyFiles, Building, BuilderStates, Steps
  <2>4. builder' \in BuilderStates
    <3>1. builder' = [builder EXCEPT !.step = builder.step + 1, !.wrote = {}]
      BY <1>21 DEF IntegrateDirtyFiles
    <3> QED
      BY <1>a, <2>3, <3>1, BuilderUpdates, Zenon
  <2>5. UNCHANGED <<db, disk, torn, canDelete, held, last, tx, merger, spawned, faults>>
    BY <1>21 DEF IntegrateDirtyFiles, refs
  <2> QED
    BY <2>1, <2>2, <2>4, <2>5 DEF TypeOK
<1>22. CASE BuildFails
  <2>1. builder' \in BuilderStates /\ faults' \in 0..MaxFaults
    <3>1. builder' = [builder EXCEPT !.upto = builder.step, !.wrote = {}]
      BY <1>22 DEF BuildFails
    <3>2. builder.step \in Steps
      BY DEF TypeOK, BuilderStates
    <3>3. builder' \in BuilderStates
      BY <1>a, <3>1, <3>2, BuilderUpdates, Zenon
    <3> QED
      BY <1>6, <1>22, <3>3 DEF BuildFails
  <2>2. UNCHANGED <<db, disk, torn, dirty, visible, canDelete, held, last, tx, merger, spawned>>
    BY <1>22 DEF BuildFails, files, refs
  <2> QED
    BY <2>1, <2>2 DEF TypeOK
<1>23. CASE BuildEnds
  <2>1. builder' \in BuilderStates /\ spawned' \in BOOLEAN
    BY <1>2, <1>23, Zenon DEF BuildEnds
  <2>2. UNCHANGED <<db, disk, torn, dirty, visible, canDelete, held, last, tx, merger, faults>>
    BY <1>23 DEF BuildEnds, files, refs
  <2> QED
    BY <2>1, <2>2 DEF TypeOK
<1>24. CASE MergeLoop
  <2>1. [merger EXCEPT !.at = "loop"] \in MergerStates
    BY DEF TypeOK, MergerStates
  <2>2. merger' \in MergerStates
    BY <1>24, <2>1 DEF TypeOK, MergeLoop
  <2>3. spawned' \in BOOLEAN
    BY <1>24, Zenon DEF MergeLoop
  <2>4. UNCHANGED <<db, disk, torn, dirty, visible, canDelete, held, last, tx, builder, faults>>
    BY <1>24 DEF MergeLoop, files, refs
  <2> QED
    BY <2>2, <2>3, <2>4 DEF TypeOK
<1>25. CASE MergeLoopStep
  <2>1. FilesToMerge(visible) \subseteq File
    <3>1. CASE FilesToMerge(visible) = {}
      BY <3>1
    <3>2. CASE FilesToMerge(visible) # {}
      BY <1>1, <3>2, FilesToMergeIs, SameRangeIs
    <3> QED
      BY <3>1, <3>2
  <2>2. merger' \in MergerStates
    <3>1. PICK at \in {"merge", "clean"} :
            merger' = [NoMerge EXCEPT !.at = at, !.merged = FilesToMerge(visible)]
      BY <1>25, Zenon DEF MergeLoopStep
    <3> QED
      BY <1>2, <2>1, <3>1, MergerUpdates, Zenon
  <2>3. held' \in [Holders -> SUBSET File]
    BY <1>0, <1>5, <1>25 DEF MergeLoopStep
  <2>4. UNCHANGED <<db, disk, torn, dirty, visible, canDelete, last, tx, builder, spawned, faults>>
    BY <1>25 DEF MergeLoopStep, files
  <2> QED
    BY <2>2, <2>3, <2>4 DEF TypeOK
<1>26. CASE MergeFiles
  <2> DEFINE f == First(merger.merged \ merger.wrote)
  <2>1. f \in File
    <3>1. /\ merger.merged \ merger.wrote \in SUBSET File
          /\ merger.at = "merge" /\ merger.wrote # merger.merged
      BY <1>26 DEF TypeOK, MergerStates, MergeFiles
    <3>2. merger.wrote \subseteq merger.merged
      BY <3>1 DEF MergerInv
    <3>3. merger.merged \ merger.wrote # {}
      BY <3>1, <3>2, Zenon
    <3> QED
      BY <3>1, <3>3, FirstIs
  <2>2. /\ disk' = disk \cup {f} /\ torn' \in {torn \ {f}, torn \cup {f}}
        /\ merger' = [merger EXCEPT !.wrote = merger.wrote \cup {f}]
    BY <1>26 DEF MergeFiles
  <2> HIDE DEF f
  <2>3. disk' \subseteq File /\ torn' \subseteq File
    BY <2>1, <2>2 DEF TypeOK
  <2>4. merger' \in MergerStates
    BY <2>1, <2>2 DEF TypeOK, MergerStates
  <2>5. UNCHANGED <<db, dirty, visible, canDelete, held, last, tx, builder, spawned, faults>>
    BY <1>26 DEF MergeFiles, refs
  <2> QED
    BY <2>3, <2>4, <2>5 DEF TypeOK
<1>27. CASE MergeFails
  <2>1. merger' \in MergerStates /\ faults' \in 0..MaxFaults
    BY <1>2, <1>6, <1>27 DEF MergeFails
  <2>2. held' \in [Holders -> SUBSET File] /\ last' \in [Holders -> SUBSET File]
    BY <1>0, <1>4, <1>27 DEF MergeFails
  <2>3. UNCHANGED <<db, disk, torn, dirty, visible, canDelete, tx, builder, spawned>>
    BY <1>27 DEF MergeFails, files
  <2> QED
    BY <2>1, <2>2, <2>3 DEF TypeOK
<1>28. CASE IntegrateMergedDirtyFiles
  <2>1. dirty' \subseteq File
    BY <1>28 DEF TypeOK, MergerStates, IntegrateMergedDirtyFiles
  <2>2. visible' \subseteq File
    BY <1>3, <1>28, <2>1 DEF IntegrateMergedDirtyFiles
  <2>3. merger' = [merger EXCEPT !.at = "clean", !.wrote = {}]
    BY <1>28 DEF IntegrateMergedDirtyFiles
  <2>4. merger' \in MergerStates
    BY <1>a, <2>3, MergerUpdates, Zenon
  <2>5. UNCHANGED <<db, disk, torn, canDelete, held, last, tx, builder, spawned, faults>>
    BY <1>28 DEF IntegrateMergedDirtyFiles, refs
  <2> QED
    BY <2>1, <2>2, <2>4, <2>5 DEF TypeOK
<1>29. CASE CleanAfterMerge
  <2>1. merger' \in MergerStates
    BY <1>29 DEF TypeOK, MergerStates, CleanAfterMerge
  <2>2. held' \in [Holders -> SUBSET File]
    BY <1>0, <1>5, <1>29 DEF CleanAfterMerge
  <2>3. UNCHANGED <<db, disk, torn, dirty, visible, canDelete, last, tx, builder, spawned, faults>>
    BY <1>29 DEF CleanAfterMerge, files
  <2> QED
    BY <2>1, <2>2, <2>3 DEF TypeOK
<1>30. CASE LockDirtyFiles
  <2>1. Garbage(merger.merged, held["clean"]) \in SUBSET File
    BY DEF TypeOK, Garbage
  <2>2. merger' = [merger EXCEPT !.at = "mark", !.todo = Garbage(merger.merged, held["clean"])]
    BY <1>30 DEF LockDirtyFiles
  <2>3. merger' \in MergerStates
    BY <1>a, <2>1, <2>2, MergerUpdates, Zenon
  <2>4. UNCHANGED <<db, disk, torn, dirty, visible, canDelete, held, last, tx, builder, spawned, faults>>
    BY <1>30 DEF LockDirtyFiles, files, refs
  <2> QED
    BY <2>3, <2>4 DEF TypeOK
<1>31. CASE MarkFile
  <2> DEFINE f == First(merger.todo)
             rest == merger.todo \ {f}
  <2>1. f \in File /\ rest \in SUBSET File
    BY <1>31, FirstIs DEF TypeOK, MergerStates, MarkFile
  <2>2. merger' = [merger EXCEPT !.at = "delete", !.todo = rest, !.mark = f]
    BY <1>31 DEF MarkFile
  <2>3. merger' \in MergerStates
    BY <1>a, <2>1, <2>2, MergerUpdates, Zenon
  <2>4. dirty' \subseteq File /\ canDelete' \subseteq File
    BY <1>31, <2>1 DEF TypeOK, MarkFile
  <2>5. UNCHANGED <<db, disk, torn, visible, held, last, tx, builder, spawned, faults>>
    BY <1>31 DEF MarkFile, refs
  <2> QED
    BY <2>3, <2>4, <2>5 DEF TypeOK
<1>32. CASE DeleteFile
  <2>1. merger' = [merger EXCEPT !.at = "mark", !.mark = NoFile]
    BY <1>32 DEF DeleteFile
  <2>2. merger' \in MergerStates
    BY <1>a, <2>1, MergerUpdates, Zenon
  <2>3. disk' \subseteq File
    BY <1>32 DEF TypeOK, DeleteFile
  <2>4. UNCHANGED <<db, torn, dirty, visible, canDelete, held, last, tx, builder, spawned, faults>>
    BY <1>32 DEF DeleteFile, refs
  <2> QED
    BY <2>2, <2>3, <2>4 DEF TypeOK
<1>33. CASE Cleaned
  <2>1. merger' \in MergerStates
    BY <1>33 DEF TypeOK, MergerStates, Cleaned
  <2>2. held' \in [Holders -> SUBSET File] /\ last' \in [Holders -> SUBSET File]
    BY <1>0, <1>4, <1>33 DEF Cleaned
  <2>3. UNCHANGED <<db, disk, torn, dirty, visible, canDelete, tx, builder, spawned, faults>>
    BY <1>33 DEF Cleaned, files
  <2> QED
    BY <2>1, <2>2, <2>3 DEF TypeOK
<1>34. CASE MergeStepEnds
  <2>1. \E at \in {"idle", "loop"} : merger' = [NoMerge EXCEPT !.at = at]
    BY <1>34 DEF MergeStepEnds
  <2>2. merger' \in MergerStates
    BY <1>2, <2>1 DEF MergerStates
  <2>3. held' \in [Holders -> SUBSET File] /\ last' \in [Holders -> SUBSET File]
    BY <1>0, <1>4, <1>34 DEF MergeStepEnds
  <2>4. UNCHANGED <<db, disk, torn, dirty, visible, canDelete, tx, builder, spawned, faults>>
    BY <1>34 DEF MergeStepEnds, files
  <2> QED
    BY <2>2, <2>3, <2>4 DEF TypeOK
<1>35. ASSUME NEW r \in Readers, Reads(r) PROVE TypeOK'
  BY <1>12, <1>13, <1>14, <1>35 DEF Reads
<1>36. CASE Writes
  BY <1>15, <1>16, <1>17, <1>18, <1>36, Zenon DEF Writes
<1>37. CASE Builds
  BY <1>20, <1>21, <1>22, <1>23, <1>37, Zenon DEF Builds
<1>38. CASE Merges
  BY <1>24, <1>25, <1>26, <1>27, <1>28, <1>29, <1>30, <1>31, <1>32, <1>33, <1>34,
     <1>38, Zenon DEF Merges
<1> QED
  BY <1>10, <1>11, <1>19, <1>35, <1>36, <1>37, <1>38, Zenon DEF Next

------------------------------------------------------------------------------
(* What steps leave alone: transactions touch no file. *)
LEMMA TxFrame ==
  ASSUME (\E r \in Readers : Reads(r)) \/ Writes
  PROVE  UNCHANGED <<disk, dirty, visible, canDelete, builder, merger>>
<1>1. ASSUME NEW r \in Readers, Reads(r)
      PROVE  UNCHANGED <<disk, dirty, visible, canDelete, builder, merger>>
  BY <1>1 DEF Reads, BeginRo, OpenFiles, Rollback, files, jobs
<1>2. CASE Writes
  BY <1>2 DEF Writes, BeginRw, WriteStep, Prune, EndRw, files, jobs
<1> QED
  BY <1>1, <1>2

(* A build that starts, fails or ends touches no file. *)
LEMMA BuildFrame ==
  ASSUME BuildFilesInBackground \/ BuildFails \/ BuildEnds
  PROVE  UNCHANGED <<disk, dirty, visible, canDelete, held, last, tx, merger>>
BY DEF BuildFilesInBackground, BuildFails, BuildEnds, files, refs

(* Nor do these steps of a merge. *)
LEMMA MergeFrame ==
  ASSUME \/ MergeLoop \/ MergeLoopStep \/ MergeFails \/ CleanAfterMerge
         \/ LockDirtyFiles \/ Cleaned \/ MergeStepEnds
  PROVE  UNCHANGED <<disk, dirty, visible, canDelete, tx, builder>>
BY DEF MergeLoop, MergeLoopStep, MergeFails, CleanAfterMerge, LockDirtyFiles,
       Cleaned, MergeStepEnds, files

(* Files leave the directory only when they are marked. *)
LEMMA RemoveFrame ==
  ASSUME (\E h \in Holders : RemoveLast(h)) \/ DeleteFile, merger \in MergerStates,
         merger.at = "delete" => merger.mark \in canDelete
  PROVE  /\ UNCHANGED <<dirty, visible, canDelete, held, tx, builder>>
         /\ merger'.todo = merger.todo /\ merger'.merged = merger.merged
         /\ merger'.wrote = merger.wrote
         /\ merger' = merger \/ (merger.at = "delete" /\ merger'.at = "mark")
         /\ \E R \in SUBSET canDelete : disk' = disk \ R
<1>1. ASSUME NEW h \in Holders, RemoveLast(h)
      PROVE  /\ UNCHANGED <<dirty, visible, canDelete, held, tx, builder, merger>>
             /\ \E R \in SUBSET canDelete : disk' = disk \ R
  <2>1. UNCHANGED <<dirty, visible, canDelete, held, tx, builder, merger>>
    BY <1>1 DEF RemoveLast, jobs
  <2>2. disk' = disk \ (last[h] \cap canDelete) /\ last[h] \cap canDelete \in SUBSET canDelete
    BY <1>1 DEF RemoveLast
  <2> QED
    BY <2>1, <2>2, Zenon
<1>2. CASE DeleteFile
  <2>1. UNCHANGED <<dirty, visible, canDelete, held, tx, builder>>
    BY <1>2 DEF DeleteFile, refs
  <2>2. /\ merger.at = "delete" /\ merger'.at = "mark"
        /\ merger'.todo = merger.todo /\ merger'.merged = merger.merged
        /\ merger'.wrote = merger.wrote
    BY <1>2 DEF DeleteFile, MergerStates
  <2>3. disk' = disk \ {merger.mark} \/ disk' = disk \ {}
    BY <1>2 DEF DeleteFile
  <2>4. \E R \in SUBSET canDelete : disk' = disk \ R
    <3>1. {merger.mark} \in SUBSET canDelete /\ {} \in SUBSET canDelete
      BY <2>2
    <3> QED
      BY <2>3, <3>1, Zenon
  <2> QED
    BY <2>1, <2>2, <2>4
<1> QED
  BY <1>1, <1>2

(* A file lies in a pair that stays when it goes. *)
LEMMA CoverStays ==
  ASSUME NEW S \in SUBSET File, NEW f \in File, Covered(S, f)
  PROVE  Covered(S \ {f}, f)
<1>1. PICK g \in S : /\ Both(S, g)
                     /\ g.from <= f.from /\ f.to <= g.to
                     /\ ~(g.from = f.from /\ g.to = f.to)
  BY DEF Covered
<1>2. \A d \in Domains : SameRange(g, d) # f
  BY <1>1, SameRangeIs
<1>3. Both(S \ {f}, g)
  BY <1>1, <1>2 DEF Both
<1>4. g \in S \ {f}
  BY <1>1
<1> QED
  BY <1>1, <1>3, <1>4 DEF Covered

(* MarkFile takes a file out of dirtyFiles that lies in a pair. *)
LEMMA MarkIs ==
  ASSUME TypeOK, FilesInv, MergerInv, MarkFile
  PROVE  \E f \in merger.todo :
           /\ dirty' = dirty \ {f} /\ canDelete' = canDelete \cup {f}
           /\ merger'.at = "delete" /\ merger'.todo = merger.todo \ {f}
           /\ merger'.mark = f /\ merger.at = "mark"
           /\ UNCHANGED <<disk, visible, held, last, tx, builder>>
           /\ f \in dirty /\ Covered(dirty, f) /\ Covered(dirty \ {f}, f)
<1> DEFINE f == First(merger.todo)
<1>1. merger.todo \in SUBSET File /\ merger.todo # {} /\ merger.at = "mark"
  BY DEF TypeOK, MergerStates, MarkFile
<1>2. f \in merger.todo /\ f \in File
  BY <1>1, FirstIs
<1>3. /\ dirty' = dirty \ {f} /\ canDelete' = canDelete \cup {f}
      /\ merger'.at = "delete" /\ merger'.todo = merger.todo \ {f} /\ merger'.mark = f
  BY DEF TypeOK, MergerStates, MarkFile
<1>4. UNCHANGED <<disk, visible, held, last, tx, builder>>
  BY DEF MarkFile, refs
<1> HIDE DEF f
<1>5. f \in dirty /\ Covered(dirty, f)
  BY <1>2 DEF MergerInv, FilesInv
<1>6. Covered(dirty \ {f}, f)
  BY <1>2, <1>5, CoverStays DEF TypeOK
<1> QED
  BY <1>1, <1>2, <1>3, <1>4, <1>5, <1>6, Zenon

(* The file a builder writes is of the step that follows dirtyFiles. *)
LEMMA StepFileIs ==
  ASSUME TypeOK, BuilderInv, Building, NEW d \in Domains
  PROVE  /\ StepFile(d) \in File /\ IsNext(dirty, StepFile(d))
         /\ StepFile(d).to = builder.step + 1 /\ StepFile(d).from = builder.step
         /\ StepFile(d).d = d
         /\ ~Covered(dirty, StepFile(d))
         /\ \A c \in Domains : SameRange(StepFile(d), c) = StepFile(c)
<1>1. /\ StepFile(d) \in File
      /\ StepFile(d).to = builder.step + 1 /\ StepFile(d).from = builder.step
      /\ StepFile(d).d = d
  BY AggregatorAssumption DEF TypeOK, Building, StepFile, File, BuilderStates, Steps
<1>2. IsNext(dirty, StepFile(d))
  BY <1>1 DEF BuilderInv, IsNext
<1>3. ~Covered(dirty, StepFile(d))
  BY <1>1, <1>2 DEF IsNext, Covered, Reach
<1>4. \A c \in Domains : SameRange(StepFile(d), c) = StepFile(c)
  BY DEF SameRange, StepFile
<1> QED
  BY <1>1, <1>2, <1>3, <1>4

(* Of the files to merge, commitment comes after accounts. *)
LEMMA NextMerged ==
  ASSUME TypeOK, MergerInv, merger.at = "merge", merger.wrote # merger.merged,
         NEW x, x = First(merger.merged \ merger.wrote)
  PROVE  /\ x \in merger.merged /\ x \notin merger.wrote /\ x \in File
         /\ x.d = Com => SameRange(x, Acc) \in merger.wrote
         /\ x.d = Com => SameRange(x, Acc) \in disk
<1> DEFINE rest == merger.merged \ merger.wrote
<1>1. /\ merger.merged \subseteq File /\ merger.wrote \subseteq merger.merged
      /\ merger.wrote \subseteq disk
      /\ \E m \in merger.merged : merger.merged = {SameRange(m, d) : d \in Domains}
  BY DEF TypeOK, MergerStates, MergerInv
<1>2. rest # {}
  BY <1>1, Zenon
<1>3. rest \in SUBSET File
  BY <1>1
<1>4. x \in rest /\ \A g \in rest : Before(x, g)
  <2> HIDE DEF rest
  <2> QED
    BY <1>2, <1>3, FirstIs DEF rest
<1>5. ASSUME x.d = Com PROVE SameRange(x, Acc) \in merger.wrote
  <2>1. PICK m \in merger.merged : merger.merged = {SameRange(m, d) : d \in Domains}
    BY <1>1
  <2>2. PICK c \in Domains : x = SameRange(m, c)
    BY <1>4, <2>1
  <2>3. x.from = m.from /\ x.to = m.to /\ x \in File /\ m \in File
    <3>1. m \in File
      BY <1>1, Zenon
    <3>2. /\ SameRange(m, c) \in File
          /\ SameRange(m, c).from = m.from /\ SameRange(m, c).to = m.to
      BY <3>1, SameRangeIs
    <3> QED
      BY <2>2, <3>1, <3>2, Zenon
  <2>4. SameRange(x, Acc) = SameRange(m, Acc)
    BY <2>3, SameRangeSame DEF Domains
  <2>5. SameRange(x, Acc) \in merger.merged
    BY <2>1, <2>4 DEF Domains
  <2>6. SameRange(x, Acc).d = Acc
    BY <2>3, SameRangeIs DEF Domains
  <2>7. ~Before(x, SameRange(x, Acc))
    BY <1>5, <2>6 DEF Before, Acc, Com
  <2> QED
    BY <1>4, <2>5, <2>7
<1> QED
  BY <1>1, <1>4, <1>5

(* Steps that touch no file keep the shape. *)
LEMMA FilesQuiet ==
  ASSUME FilesInv, UNCHANGED <<disk, dirty, canDelete>>, merger'.todo \in {merger.todo, {}}
  PROVE  FilesInv'
BY DEF FilesInv

(* The shape of dirtyFiles and of the directory is kept. *)
LEMMA FilesStep ==
  ASSUME TypeOK, FilesInv, VisibleInv, BuilderInv, MergerInv, Next
  PROVE  FilesInv'
<1>0. /\ disk \in SUBSET File /\ dirty \in SUBSET disk /\ dirty \in SUBSET File
      /\ canDelete \in SUBSET File /\ merger \in MergerStates
      /\ merger.todo \subseteq File /\ merger.merged \subseteq File
      /\ Shaped(dirty) /\ Shaped(disk)
      /\ canDelete \cap dirty = {}
  BY DEF TypeOK, FilesInv, MergerStates
<1>a. \A f \in disk \cup canDelete \cup merger.todo :
        f \in File /\ f.to \in Nat /\ f.from \in Nat
  BY <1>0, FileIs
<1>b. /\ \A f \in disk : Reach(dirty, f.to) \/ (f.to = f.from + 1 /\ Reach(dirty, f.from))
      /\ \A f \in canDelete \cup merger.todo : Covered(dirty, f)
  BY DEF FilesInv
<1>1. CASE (\E h \in Holders : RemoveLast(h)) \/ DeleteFile
  <2>1. /\ UNCHANGED <<dirty, canDelete>> /\ merger'.todo = merger.todo
        /\ \E R \in SUBSET canDelete : disk' = disk \ R
    BY <1>0, <1>1, RemoveFrame DEF MergerInv
  <2>2. PICK R \in SUBSET canDelete : disk' = disk \ R
    BY <2>1
  <2>3. R \in SUBSET File /\ R \cap dirty = {} /\ \A f \in R : Covered(dirty, f)
    BY <1>0, <1>b
  <2>4. Shaped(disk')
    <3>1. Shaped(disk \ R)
      BY <1>0, <2>3, RemoveFiles, Zenon
    <3> QED
      BY <2>2, <3>1
  <2>5. dirty \subseteq disk' /\ disk' \subseteq disk
    BY <1>0, <2>2, <2>3
  <2> QED
    BY <1>0, <1>b, <2>1, <2>4, <2>5 DEF FilesInv
<1>2. CASE CrashAndOpenFolder
  <2>1. /\ dirty' = disk /\ disk' = disk /\ canDelete' = {} /\ merger'.todo = {}
    BY <1>2 DEF CrashAndOpenFolder, NoMerge
  <2>2. \A f \in disk : Reach(disk, f.to) \/ (f.to = f.from + 1 /\ Reach(disk, f.from))
    BY <1>0, <1>b, Monotone
  <2> QED
    BY <1>0, <2>1, <2>2 DEF FilesInv
<1>3. CASE (\E r \in Readers : Reads(r)) \/ Writes
  BY <1>3, TxFrame, FilesQuiet
<1>4. CASE BuildFilesInBackground \/ BuildFails \/ BuildEnds
  BY <1>4, BuildFrame, FilesQuiet
<1>5. CASE \/ MergeLoop \/ MergeLoopStep \/ MergeFails \/ CleanAfterMerge
           \/ Cleaned \/ MergeStepEnds
  <2>1. merger'.todo \in {merger.todo, {}}
    <3>1. CASE MergeLoop \/ CleanAfterMerge \/ Cleaned
      BY <1>0, <3>1 DEF MergeLoop, CleanAfterMerge, Cleaned, MergerStates
    <3>2. CASE MergeLoopStep \/ MergeFails \/ MergeStepEnds
      <4>1. NoMerge \in MergerStates /\ NoMerge.todo = {}
        BY DEF NoMerge, MergerStates
      <4> QED
        BY <3>2, <4>1, Zenon DEF MergeLoopStep, MergeFails, MergeStepEnds, MergerStates
    <3> QED
      BY <1>5, <3>1, <3>2
  <2> QED
    BY <1>5, <2>1, MergeFrame, FilesQuiet
<1>6. ASSUME NEW d \in Domains, BuildDomain(d) PROVE FilesInv'
  <2> DEFINE x == StepFile(d)
  <2>1. /\ Building /\ disk' = disk \cup {x} /\ UNCHANGED <<dirty, canDelete, merger>>
    BY <1>6 DEF BuildDomain
  <2>2. /\ x \in File /\ IsNext(dirty, x) /\ x.d = d
        /\ x.to = x.from + 1 /\ x.from \in Nat /\ x.to \in Nat
    BY <2>1, StepFileIs, FileIs
  <2> HIDE DEF x
  <2>3. Reach(disk, x.from)
    BY <1>0, <2>2, Monotone DEF IsNext
  <2>4. CASE Reach(disk, x.to)
    <3>1. PICK g \in disk : Both(disk, g) /\ x.to <= g.to
      BY <2>2, <2>4 DEF Reach
    <3>2. ~Reach(dirty, g.to)
      BY <1>0, <1>a, <2>2, <3>1, ReachDown DEF IsNext
    <3>3. g.to = g.from + 1 /\ Reach(dirty, g.from)
      BY <1>b, <3>2
    <3>4. ~(x.to <= g.from)
      BY <1>0, <1>a, <2>2, <3>3, ReachDown DEF IsNext
    <3>5. g.from = x.from /\ g.to = x.to
      BY <1>a, <2>2, <3>1, <3>3, <3>4
    <3>6. x \in disk
      BY <1>a, <2>2, <3>1, <3>5, BothRange
    <3>7. disk' = disk
      BY <2>1, <3>6
    <3> QED
      BY <2>1, <3>7, FilesQuiet
  <2>5. CASE ~Reach(disk, x.to)
    <3>1. Shaped(disk')
      BY <1>0, <2>1, <2>2, <2>3, <2>5, AddFile DEF IsNext
    <3> QED
      BY <1>0, <1>b, <2>1, <2>2, <3>1 DEF FilesInv, IsNext
  <2> QED
    BY <2>4, <2>5
<1>7. CASE IntegrateDirtyFiles
  <2> DEFINE x == StepFile(Acc)
             all == dirty \cup {SameRange(x, d) : d \in Domains}
  <2>1. /\ Building /\ builder.wrote = Domains /\ UNCHANGED <<disk, canDelete, merger>>
        /\ dirty' = dirty \cup {StepFile(d) : d \in Domains}
    BY <1>7 DEF IntegrateDirtyFiles
  <2>2. /\ x \in File /\ IsNext(dirty, x)
        /\ \A d \in Domains : SameRange(x, d) = StepFile(d)
        /\ \A d \in Domains : ~Covered(dirty, StepFile(d))
    BY <2>1, StepFileIs DEF Domains
  <2>3. \A d \in Domains : StepFile(d) \in disk
    BY <2>1 DEF BuilderInv
  <2>4. dirty' = all
    BY <2>1, <2>2
  <2>5. Shaped(all)
    <3> HIDE DEF x
    <3> QED
      BY <1>0, <2>2, AddPair
  <2>6. all \subseteq disk /\ canDelete \cap all = {}
    BY <1>0, <1>b, <2>2, <2>3
  <2>7. dirty \subseteq dirty' /\ Shaped(dirty') /\ dirty' \subseteq disk /\ canDelete \cap dirty' = {}
    BY <2>4, <2>5, <2>6
  <2> HIDE DEF all, x
  <2>8. \A f \in disk : Reach(dirty', f.to) \/ (f.to = f.from + 1 /\ Reach(dirty', f.from))
    BY <1>b, <2>7, Monotone, Zenon
  <2>9. \A f \in canDelete \cup merger.todo : Covered(dirty', f)
    BY <1>b, <2>7, Monotone
  <2> QED
    BY <1>0, <2>1, <2>7, <2>8, <2>9, Zenon DEF FilesInv
<1>8. CASE IntegrateMergedDirtyFiles
  <2> DEFINE all == dirty \cup merger.merged
  <2>1. /\ merger.at = "merge" /\ merger.wrote = merger.merged
        /\ dirty' = all /\ UNCHANGED <<disk, canDelete>> /\ merger'.todo = merger.todo
    BY <1>0, <1>8 DEF IntegrateMergedDirtyFiles, MergerStates
  <2>2. PICK m \in merger.merged : merger.merged = {SameRange(m, d) : d \in Domains}
    BY <2>1 DEF MergerInv
  <2>3. m \in File /\ Reach(dirty, m.to)
    BY <1>0, <2>1 DEF MergerInv
  <2>4. Shaped(all)
    <3>1. Shaped(dirty \cup {SameRange(m, d) : d \in Domains})
      BY <1>0, <2>3, AddPair
    <3> QED
      BY <2>2, <3>1
  <2>5. all \subseteq disk /\ canDelete \cap all = {}
    BY <1>0, <2>1 DEF MergerInv
  <2> HIDE DEF all
  <2>6. dirty \subseteq all
    BY DEF all
  <2>7. /\ \A f \in disk : Reach(all, f.to) \/ (f.to = f.from + 1 /\ Reach(all, f.from))
        /\ \A f \in canDelete \cup merger.todo : Covered(all, f)
    BY <1>b, <2>6, Monotone
  <2> QED
    BY <1>0, <2>1, <2>4, <2>5, <2>7 DEF FilesInv
<1>9. CASE MergeFiles
  <2> DEFINE x == First(merger.merged \ merger.wrote)
  <2>1. /\ merger.at = "merge" /\ merger.wrote # merger.merged
        /\ disk' = disk \cup {x} /\ UNCHANGED <<dirty, canDelete>> /\ merger'.todo = merger.todo
    BY <1>0, <1>9 DEF MergeFiles, MergerStates
  <2>2. x \in merger.merged /\ x \in File /\ (x.d = Com => SameRange(x, Acc) \in disk)
    BY <1>0, <2>1, NextMerged
  <2> HIDE DEF x
  <2>3. Reach(dirty, x.to)
    BY <2>1, <2>2 DEF MergerInv
  <2>4. Shaped(disk')
    BY <1>0, <2>1, <2>2, <2>3, AddFile, Monotone
  <2> QED
    BY <1>0, <1>b, <2>1, <2>3, <2>4 DEF FilesInv
<1>10. CASE LockDirtyFiles
  <2>1. /\ UNCHANGED <<disk, dirty, canDelete>>
        /\ merger.at = "lock" /\ merger'.todo = Garbage(merger.merged, held["clean"])
    BY <1>0, <1>10, MergeFrame DEF LockDirtyFiles, MergerStates
  <2>2. ASSUME NEW f \in Garbage(merger.merged, held["clean"]) PROVE Covered(dirty, f)
    <3>1. PICK g \in merger.merged \cup held["clean"] : IsProperSubsetOf(f, g)
      BY DEF Garbage, HasCoverVisibleFile, Of
    <3>2. g \in File /\ Both(dirty, g)
      BY <2>1 DEF TypeOK, MergerStates, MergerInv, Holders
    <3>3. f \in File
      BY <1>0 DEF Garbage
    <3>4. g \in dirty
      BY <3>2, BothMember
    <3>5. ~(g.from = f.from /\ g.to = f.to)
      BY <3>1, <3>2, <3>3, FileIs DEF IsProperSubsetOf
    <3> QED
      BY <3>1, <3>2, <3>4, <3>5 DEF Covered, IsProperSubsetOf
  <2> QED
    BY <1>0, <1>b, <2>1, <2>2 DEF FilesInv
<1>11. CASE MarkFile
  <2>1. PICK f \in merger.todo :
           /\ dirty' = dirty \ {f} /\ canDelete' = canDelete \cup {f}
           /\ merger'.todo = merger.todo \ {f} /\ disk' = disk
           /\ Covered(dirty \ {f}, f)
    BY <1>11, MarkIs, Zenon
  <2>2. f \in File
    BY <1>0
  <2>3. /\ \A g \in File : Covered(dirty, g) => Covered(dirty', g)
        /\ \A n \in Nat : Reach(dirty, n) <=> Reach(dirty', n)
        /\ Shaped(dirty')
    BY <1>0, <2>1, <2>2, RemoveFile
  <2>4. \A g \in disk : Reach(dirty', g.to) \/ (g.to = g.from + 1 /\ Reach(dirty', g.from))
    BY <1>a, <1>b, <2>3
  <2>5. \A g \in canDelete' \cup merger'.todo : Covered(dirty', g)
    BY <1>a, <1>b, <2>1, <2>3, Zenon
  <2>6. dirty' \subseteq disk /\ canDelete' \cap dirty' = {}
    BY <1>0, <2>1
  <2> QED
    BY <1>0, <2>1, <2>3, <2>4, <2>5, <2>6, Zenon DEF FilesInv
<1>12. CASE Builds
  BY <1>4, <1>6, <1>7, <1>12, Zenon DEF Builds
<1>13. CASE Merges
  BY <1>1, <1>5, <1>8, <1>9, <1>10, <1>11, <1>13, Zenon DEF Merges
<1> QED
  BY <1>1, <1>2, <1>3, <1>4, <1>12, <1>13, Zenon DEF Next

(* What is visible are pairs of dirtyFiles that lie in no other. *)
LEMMA VisibleStep ==
  ASSUME TypeOK, FilesInv, VisibleInv, MergerInv, TypeOK', FilesInv', Next
  PROVE  VisibleInv'
<1>1. ASSUME visible' = CalcVisibleFiles(dirty') PROVE VisibleInv'
  <2>1. dirty' \in SUBSET File /\ Shaped(dirty')
    BY DEF TypeOK, FilesInv
  <2> QED
    BY <1>1, <2>1, CalcShows DEF VisibleInv
<1>2. ASSUME UNCHANGED <<dirty, visible>> PROVE VisibleInv'
  BY <1>2 DEF VisibleInv
<1>3. CASE MarkFile
  <2>1. PICK f \in merger.todo :
           dirty' = dirty \ {f} /\ visible' = visible /\ Covered(dirty, f)
    BY <1>3, MarkIs, Zenon
  <2>2. f \in File /\ visible \subseteq File /\ dirty' \subseteq dirty
    BY <2>1 DEF TypeOK, MergerStates
  <2>3. ASSUME NEW v \in visible PROVE Both(dirty', v) /\ ~Covered(dirty', v)
    <3>1. v \in File /\ Both(dirty, v) /\ ~Covered(dirty, v)
      BY <2>2 DEF VisibleInv
    <3>2. ASSUME NEW d \in Domains PROVE SameRange(v, d) # f
      <4>1. SameRange(v, d).from = v.from /\ SameRange(v, d).to = v.to
        BY <3>1, SameRangeIs
      <4> QED
        BY <2>1, <2>2, <3>1, <4>1, BothRange
    <3>3. Both(dirty', v)
      BY <2>1, <3>1, <3>2 DEF Both
    <3> QED
      BY <2>2, <3>1, <3>3, Monotone
  <2>4. \A g \in dirty' : Both(dirty', g) => Both(dirty, g)
    BY <2>2, Monotone
  <2> QED
    BY <2>1, <2>2, <2>3, <2>4, Zenon DEF VisibleInv
<1>4. CASE IntegrateDirtyFiles
  BY <1>1, <1>4 DEF IntegrateDirtyFiles
<1>5. CASE IntegrateMergedDirtyFiles
  BY <1>1, <1>5 DEF IntegrateMergedDirtyFiles
<1>6. CASE CrashAndOpenFolder
  BY <1>1, <1>6 DEF CrashAndOpenFolder
<1>7. CASE (\E h \in Holders : RemoveLast(h)) \/ DeleteFile
  BY <1>2, <1>7 DEF RemoveLast, DeleteFile
<1>8. CASE (\E r \in Readers : Reads(r)) \/ Writes
  BY <1>2, <1>8, TxFrame
<1>9. CASE BuildFilesInBackground \/ BuildFails \/ BuildEnds
  BY <1>2, <1>9, BuildFrame
<1>10. CASE (\E d \in Domains : BuildDomain(d)) \/ MergeFiles
  BY <1>2, <1>10 DEF BuildDomain, MergeFiles
<1>11. CASE \/ MergeLoop \/ MergeLoopStep \/ MergeFails \/ CleanAfterMerge
            \/ LockDirtyFiles \/ Cleaned \/ MergeStepEnds
  BY <1>2, <1>11, MergeFrame
<1>12. CASE Builds
  BY <1>4, <1>9, <1>10, <1>12, Zenon DEF Builds
<1>13. CASE Merges
  BY <1>3, <1>5, <1>7, <1>10, <1>11, <1>13, Zenon DEF Merges
<1> QED
  BY <1>6, <1>7, <1>8, <1>9, <1>12, <1>13, Zenon DEF Next

(* A build works on the step that follows dirtyFiles. *)
LEMMA BuilderStep ==
  ASSUME TypeOK, FilesInv, VisibleInv, BuilderInv, MergerInv, Next
  PROVE  BuilderInv'
<1>0. /\ dirty \in SUBSET File /\ visible \subseteq File /\ builder \in BuilderStates
      /\ builder.step \in Nat /\ builder.step + 1 \in Nat /\ merger \in MergerStates
  BY AggregatorAssumption DEF TypeOK, BuilderStates, Steps
<1>1. ASSUME UNCHANGED builder, \A n \in Nat : Reach(dirty', n) <=> Reach(dirty, n),
             \A d \in Domains : StepFile(d) \in disk /\ Building => StepFile(d) \in disk'
      PROVE  BuilderInv'
  <2>1. Building' = Building /\ \A d : StepFile(d)' = StepFile(d)
    BY <1>1 DEF Building, StepFile
  <2>2. builder.wrote \subseteq Domains
    BY <1>0 DEF BuilderStates
  <2> QED
    BY <1>0, <1>1, <2>1, <2>2 DEF BuilderInv
<1>2. ASSUME UNCHANGED <<builder, dirty>>, disk \subseteq disk' PROVE BuilderInv'
  BY <1>1, <1>2
<1>3. CASE BuildFilesInBackground
  <2>1. /\ builder'.step = Minimax /\ builder'.wrote = {} /\ dirty' = dirty
    BY <1>3, BuildFrame DEF BuildFilesInBackground
  <2>2. /\ Minimax \in Nat /\ \A f \in visible : f.to <= Minimax
        /\ Minimax = 0 \/ \E f \in visible : f.to = Minimax
    BY <1>0, MinimaxIs, AggregatorAssumption DEF VisibleInv, Steps
  <2>3. Reach(dirty, Minimax)
    <3>1. CASE Minimax = 0
      BY <3>1 DEF Reach
    <3>2. CASE \E f \in visible : f.to = Minimax
      <4>1. PICK f \in visible : f.to = Minimax
        BY <3>2
      <4>2. f \in File /\ Both(dirty, f)
        BY <1>0 DEF VisibleInv
      <4>3. f \in dirty /\ Minimax <= f.to
        BY <2>2, <4>1, <4>2, BothMember
      <4> QED
        BY <4>2, <4>3 DEF Reach
    <3> QED
      BY <2>2, <3>1, <3>2
  <2>4. ~Reach(dirty, Minimax + 1)
    <3> SUFFICES ASSUME Reach(dirty, Minimax + 1) PROVE FALSE
      OBVIOUS
    <3>1. PICK g \in dirty : Both(dirty, g) /\ Minimax + 1 <= g.to
      BY <2>2 DEF Reach
    <3>2. PICK v \in visible : g.to <= v.to
      BY <3>1 DEF VisibleInv
    <3>3. g.to \in Nat /\ v.to \in Nat /\ v.to <= Minimax
      BY <1>0, <2>2, FileIs
    <3> QED
      BY <2>2, <3>1, <3>2, <3>3
  <2> QED
    BY <2>1, <2>3, <2>4 DEF BuilderInv
<1>4. ASSUME NEW d \in Domains, BuildDomain(d) PROVE BuilderInv'
  <2>1. /\ Building /\ disk' = disk \cup {StepFile(d)} /\ dirty' = dirty
        /\ builder'.step = builder.step /\ builder'.wrote = builder.wrote \cup {d}
    BY <1>0, <1>4 DEF BuildDomain, BuilderStates
  <2>2. \A c : StepFile(c)' = StepFile(c)
    BY <2>1 DEF StepFile
  <2> QED
    BY <2>1, <2>2 DEF BuilderInv
<1>5. CASE IntegrateDirtyFiles
  <2>1. /\ Building /\ builder'.step = builder.step + 1 /\ builder'.wrote = {}
        /\ dirty' = dirty \cup {StepFile(d) : d \in Domains}
    BY <1>0, <1>5 DEF IntegrateDirtyFiles, BuilderStates
  <2> DEFINE x == StepFile(Acc)
  <2>2. /\ x \in File /\ IsNext(dirty, x) /\ x.to = builder.step + 1
        /\ \A d \in Domains : SameRange(x, d) = StepFile(d)
    BY <2>1, StepFileIs DEF Domains
  <2>3. dirty' = dirty \cup {SameRange(x, d) : d \in Domains}
    BY <2>1, <2>2
  <2> HIDE DEF x
  <2>4. \A n \in Nat : Reach(dirty', n) => Reach(dirty, n) \/ n <= x.to
    BY <1>0, <2>2, <2>3, AddPair DEF FilesInv
  <2>5. Reach(dirty', builder.step + 1)
    <3>1. Both(dirty', x)
      BY <2>3 DEF Both
    <3>2. x \in dirty'
      BY <2>2, <3>1, BothMember
    <3> QED
      BY <1>0, <2>2, <3>1, <3>2 DEF Reach
  <2>6. ~Reach(dirty', builder.step + 2)
    <3>1. ~Reach(dirty, builder.step + 2)
      BY <1>0, <2>1, ReachDown DEF BuilderInv
    <3> QED
      BY <1>0, <2>2, <2>4, <3>1
  <2>7. builder.step + 1 + 1 = builder.step + 2
    BY <1>0
  <2> QED
    BY <2>1, <2>5, <2>6, <2>7 DEF BuilderInv
<1>6. CASE BuildFails \/ BuildEnds \/ CrashAndOpenFolder
  <2>1. ~Building'
    <3>1. CASE BuildFails
      BY <1>0, <3>1 DEF BuildFails, Building, BuilderStates
    <3>2. CASE BuildEnds \/ CrashAndOpenFolder
      <4>1. builder' = NoBuild
        BY <3>2, Zenon DEF BuildEnds, CrashAndOpenFolder
      <4>2. NoBuild.at # "build"
        BY DEF NoBuild
      <4> QED
        BY <4>1, <4>2, Zenon DEF Building
    <3> QED
      BY <1>6, <3>1, <3>2
  <2> QED
    BY <2>1 DEF BuilderInv
<1>7. CASE (\E h \in Holders : RemoveLast(h)) \/ DeleteFile
  <2>1. /\ UNCHANGED <<dirty, builder>>
        /\ \E R \in SUBSET canDelete : disk' = disk \ R
    BY <1>0, <1>7, RemoveFrame DEF MergerInv
  <2>2. \A d \in Domains : Building => StepFile(d) \notin canDelete
    BY StepFileIs DEF FilesInv
  <2> QED
    BY <1>1, <2>1, <2>2
<1>8. CASE (\E r \in Readers : Reads(r)) \/ Writes
  BY <1>2, <1>8, TxFrame
<1>9. CASE MergeFiles
  BY <1>2, <1>9 DEF MergeFiles
<1>10. CASE IntegrateMergedDirtyFiles
  <2>1. /\ merger.at = "merge" /\ dirty' = dirty \cup merger.merged
        /\ UNCHANGED <<disk, builder>>
    BY <1>10 DEF IntegrateMergedDirtyFiles
  <2>2. PICK m \in merger.merged : merger.merged = {SameRange(m, d) : d \in Domains}
    BY <2>1 DEF MergerInv
  <2>3. m \in File /\ Reach(dirty, m.to) /\ m.to \in Nat
    BY <2>1, FileIs DEF MergerInv, TypeOK, MergerStates
  <2>4. dirty' = dirty \cup {SameRange(m, d) : d \in Domains} /\ dirty \subseteq dirty'
    BY <2>1, <2>2
  <2>5. \A n \in Nat : Reach(dirty', n) => Reach(dirty, n) \/ n <= m.to
    BY <1>0, <2>3, <2>4, AddPair, Zenon DEF FilesInv
  <2>6. \A n \in Nat : n <= m.to => Reach(dirty, n)
    BY <1>0, <2>3, ReachDown
  <2>7. \A n \in Nat : Reach(dirty', n) <=> Reach(dirty, n)
    BY <2>4, <2>5, <2>6, Monotone
  <2> QED
    BY <1>1, <2>1, <2>7
<1>11. CASE MarkFile
  <2>1. PICK f \in merger.todo :
           dirty' = dirty \ {f} /\ UNCHANGED <<disk, builder>> /\ Covered(dirty \ {f}, f)
    BY <1>11, MarkIs, Zenon
  <2>2. f \in File
    BY DEF TypeOK, MergerStates
  <2>3. \A n \in Nat : Reach(dirty, n) <=> Reach(dirty', n)
    BY <1>0, <2>1, <2>2, RemoveFile, Zenon
  <2> QED
    BY <1>1, <2>1, <2>3
<1>12. CASE \/ MergeLoop \/ MergeLoopStep \/ MergeFails \/ CleanAfterMerge
            \/ LockDirtyFiles \/ Cleaned \/ MergeStepEnds
  BY <1>2, <1>12, MergeFrame
<1>13. CASE Builds
  BY <1>4, <1>5, <1>6, <1>13, Zenon DEF Builds
<1>14. CASE Merges
  BY <1>7, <1>9, <1>10, <1>11, <1>12, <1>14, Zenon DEF Merges
<1> QED
  BY <1>3, <1>6, <1>7, <1>8, <1>13, <1>14, Zenon DEF Next

(* What a merge has written and what a cleaning relies on stays there. *)
LEMMA MergerStep ==
  ASSUME TypeOK, FilesInv, VisibleInv, BuilderInv, MergerInv, Next
  PROVE  MergerInv'
<1>0. /\ dirty \in SUBSET File /\ visible \subseteq File /\ merger \in MergerStates
      /\ merger.merged \subseteq File /\ merger.wrote \subseteq File
      /\ held \in [Holders -> SUBSET File] /\ held["clean"] \subseteq File
  BY DEF TypeOK, MergerStates, Holders
<1>a. NoFile \notin File
  <2>1. NoFile.from = 0 /\ NoFile.to = 0 /\ ~(0 < 0)
    BY DEF NoFile
  <2> QED
    BY <2>1, Zenon DEF File
\* More files, and nobody has marked any.
<1>1. ASSUME UNCHANGED <<merger, canDelete>>, held'["clean"] = held["clean"],
             dirty \subseteq dirty',
             merger.at = "merge" => merger.wrote \subseteq disk'
      PROVE  MergerInv'
  <2>1. /\ \A f : Both(dirty, f) => Both(dirty', f)
        /\ \A n : Reach(dirty, n) => Reach(dirty', n)
    BY <1>1, Monotone
  <2>2. Locked' = Locked
    BY <1>1 DEF Locked
  <2> QED
    BY <1>1, <2>1, <2>2 DEF MergerInv
<1>2. ASSUME NEW h \in Holders, RemoveLast(h) PROVE MergerInv'
  <2>1. /\ UNCHANGED <<merger, canDelete, dirty, held>>
        /\ disk' = disk \ (last[h] \cap canDelete)
    BY <1>2 DEF RemoveLast, jobs
  <2>2. merger.at = "merge" => merger.wrote \subseteq disk'
    BY <2>1 DEF MergerInv
  <2> QED
    BY <1>1, <2>1, <2>2
<1>3. CASE (\E r \in Readers : Reads(r)) \/ Writes
  <2>1. held'["clean"] = held["clean"]
    <3>1. ASSUME NEW r \in Readers, Reads(r) PROVE held'["clean"] = held["clean"]
      <4>1. r # "clean"
        BY AggregatorAssumption
      <4> QED
        BY <1>0, <3>1, <4>1 DEF Reads, BeginRo, OpenFiles, Rollback, refs, BeginFilesRo,
           CloseFiles, Holders
    <3>2. CASE Writes
      BY <1>0, <3>2 DEF Writes, BeginRw, WriteStep, Prune, EndRw, refs, BeginFilesRo,
         CloseFiles, Holders
    <3> QED
      BY <1>3, <3>1, <3>2
  <2>2. UNCHANGED <<disk, dirty, canDelete, merger>>
    BY <1>3, TxFrame
  <2>3. merger.at = "merge" => merger.wrote \subseteq disk'
    BY <2>2 DEF MergerInv
  <2> QED
    BY <1>1, <2>1, <2>2, <2>3
<1>4. CASE BuildFilesInBackground \/ BuildFails \/ BuildEnds
  <2>1. UNCHANGED <<disk, dirty, canDelete, merger, held>>
    BY <1>4, BuildFrame
  <2>2. merger.at = "merge" => merger.wrote \subseteq disk'
    BY <2>1 DEF MergerInv
  <2> QED
    BY <1>1, <2>1, <2>2
<1>5. ASSUME NEW d \in Domains, BuildDomain(d) PROVE MergerInv'
  <2>1. UNCHANGED <<dirty, canDelete, merger, held>> /\ disk \subseteq disk'
    BY <1>5 DEF BuildDomain, refs
  <2>2. merger.at = "merge" => merger.wrote \subseteq disk'
    BY <2>1 DEF MergerInv
  <2> QED
    BY <1>1, <2>1, <2>2
<1>6. CASE IntegrateDirtyFiles
  <2>1. UNCHANGED <<disk, canDelete, merger, held>> /\ dirty \subseteq dirty'
    BY <1>6 DEF IntegrateDirtyFiles, refs
  <2>2. merger.at = "merge" => merger.wrote \subseteq disk'
    BY <2>1 DEF MergerInv
  <2> QED
    BY <1>1, <2>1, <2>2
\* A job that neither merges nor cleans.
<1>7. ASSUME merger'.at \in {"idle", "loop", "close"}, merger'.todo = {}, merger'.mark = NoFile
      PROVE  MergerInv'
  BY <1>7 DEF MergerInv, Locked
<1>8. CASE CrashAndOpenFolder \/ MergeFails \/ MergeStepEnds
  <2>1. merger' \in {NoMerge, [NoMerge EXCEPT !.at = "idle"], [NoMerge EXCEPT !.at = "loop"]}
    BY <1>8 DEF CrashAndOpenFolder, MergeFails, MergeStepEnds
  <2>2. merger'.at \in {"idle", "loop", "close"} /\ merger'.todo = {} /\ merger'.mark = NoFile
    BY <2>1 DEF NoMerge
  <2> QED
    BY <1>7, <2>2
<1>9. CASE MergeLoop
  <2>1. UNCHANGED <<disk, dirty, canDelete, held>>
    BY <1>9, MergeFrame, Zenon DEF MergeLoop, refs
  <2>2. CASE merger' = merger
    <3>1. merger.at = "merge" => merger.wrote \subseteq disk'
      BY <2>1 DEF MergerInv
    <3> QED
      BY <1>1, <2>1, <2>2, <3>1
  <2>3. CASE merger' # merger
    <3>1. merger.at = "idle" /\ merger' = [merger EXCEPT !.at = "loop"]
      BY <1>9, <2>3 DEF MergeLoop
    <3>2. merger'.at = "loop" /\ merger'.todo = merger.todo /\ merger'.mark = merger.mark
      BY <1>0, <3>1 DEF MergerStates
    <3>3. merger.todo = {} /\ merger.mark = NoFile
      BY <3>1 DEF MergerInv, Locked
    <3> QED
      BY <1>7, <3>2, <3>3
  <2> QED
    BY <2>2, <2>3
<1>10. CASE Cleaned
  <2>1. /\ merger.at = "mark" /\ merger.todo = {} /\ merger'.at = "close"
        /\ merger'.todo = merger.todo /\ merger'.mark = merger.mark
    BY <1>0, <1>10 DEF Cleaned, MergerStates
  <2>2. merger.mark = NoFile
    BY <2>1 DEF MergerInv
  <2> QED
    BY <1>7, <2>1, <2>2
<1>11. CASE MergeLoopStep
  <2> DEFINE merged == FilesToMerge(visible)
  <2>1. /\ merger'.merged = merged /\ merger'.wrote = {} /\ merger'.todo = {}
        /\ merger'.mark = NoFile
        /\ merger'.at = IF merged = {} THEN "clean" ELSE "merge"
        /\ UNCHANGED <<dirty, canDelete>>
    <3>1. NoMerge \in MergerStates /\ NoMerge.wrote = {} /\ NoMerge.todo = {} /\ NoMerge.mark = NoFile
      BY DEF NoMerge, MergerStates
    <3>2. merger' = [NoMerge EXCEPT !.at = IF merged = {} THEN "clean" ELSE "merge",
                                    !.merged = merged]
      BY <1>11 DEF MergeLoopStep
    <3>3. UNCHANGED <<dirty, canDelete>>
      BY <1>11, MergeFrame
    <3> HIDE DEF merged
    <3> QED
      BY <3>1, <3>2, <3>3 DEF MergerStates
  <2>2. CASE merged = {}
    <3> HIDE DEF merged
    <3> QED
      BY <2>1, <2>2 DEF MergerInv, Locked
  <2>3. CASE merged # {}
    <3>1. PICK m \in File, v \in visible :
            /\ merged = {SameRange(m, d) : d \in Domains} /\ m \in merged
            /\ m.to = v.to /\ m.from < v.from
      BY <1>0, <2>3, FilesToMergeIs DEF VisibleInv
    <3> HIDE DEF merged
    <3>2. v \in File /\ Both(dirty, v) /\ ~Covered(dirty, v)
      BY <1>0 DEF VisibleInv
    <3>3. /\ m.from \in Nat /\ m.to \in Nat /\ v.from \in Nat /\ v.to \in Nat
      BY <3>1, <3>2, FileIs
    <3>4. ~Covered(dirty, m)
      BY <1>0, <3>1, <3>2, <3>3, CoverTrans
    <3>5. Reach(dirty, m.to)
      BY <3>1, <3>2, <3>3, BothMember DEF Reach
    <3>6. ASSUME NEW x \in merged PROVE x \notin canDelete /\ Reach(dirty, x.to)
      <4>1. PICK d \in Domains : x = SameRange(m, d)
        BY <3>1
      <4>2. x \in File /\ x.from = m.from /\ x.to = m.to
        BY <3>1, <4>1, SameRangeIs
      <4>3. ~Covered(dirty, x)
        BY <3>1, <3>4, <4>2, BothRange
      <4> QED
        BY <3>5, <4>2, <4>3 DEF FilesInv
    <3> QED
      BY <2>1, <2>3, <3>1, <3>6 DEF MergerInv, Locked
  <2> QED
    BY <2>2, <2>3
<1>12. CASE MergeFiles
  <2> DEFINE x == First(merger.merged \ merger.wrote)
  <2>1. /\ merger.at = "merge" /\ merger.wrote # merger.merged
        /\ disk' = disk \cup {x} /\ UNCHANGED <<dirty, canDelete>>
        /\ merger' = [merger EXCEPT !.wrote = merger.wrote \cup {x}]
    BY <1>12 DEF MergeFiles
  <2>2. /\ x \in merger.merged /\ x \in File
        /\ x.d = Com => SameRange(x, Acc) \in merger.wrote
    BY <2>1, NextMerged
  <2> HIDE DEF x
  <2>3. /\ merger'.at = "merge" /\ merger'.merged = merger.merged
        /\ merger'.wrote = merger.wrote \cup {x} /\ merger'.todo = merger.todo
        /\ merger'.mark = merger.mark
    BY <1>0, <2>1 DEF MergerStates
  <2>4. /\ merger.todo = {} /\ merger.mark = NoFile
        /\ \A m \in merger.wrote : SameRange(m, Acc) \in merger.wrote
        /\ merger.wrote \subseteq merger.merged \cap disk
    BY <2>1 DEF MergerInv, Locked
  <2>5. \A m \in merger'.wrote : SameRange(m, Acc) \in merger'.wrote
    <3>1. x.d = Acc => SameRange(x, Acc) = x
      BY <2>2, SameRangeIs DEF Domains
    <3>2. x.d \in {Acc, Com}
      BY <2>2, FileIs DEF Domains
    <3> QED
      BY <2>2, <2>3, <2>4, <3>1, <3>2
  <2>6. merger'.wrote \subseteq merger'.merged \cap disk'
    BY <2>1, <2>2, <2>3, <2>4
  <2>7. /\ \E m \in merger.merged : merger.merged = {SameRange(m, d) : d \in Domains}
        /\ merger.merged \cap canDelete = {}
        /\ \A m \in merger.merged : Reach(dirty, m.to)
    BY <2>1 DEF MergerInv
  <2> QED
    BY <2>1, <2>3, <2>4, <2>5, <2>6, <2>7 DEF MergerInv, Locked
<1>13. CASE IntegrateMergedDirtyFiles
  <2>1. /\ merger.at = "merge" /\ merger'.at = "clean" /\ merger'.merged = merger.merged
        /\ merger'.todo = merger.todo /\ merger'.mark = merger.mark
        /\ dirty' = dirty \cup merger.merged
    BY <1>0, <1>13 DEF IntegrateMergedDirtyFiles, MergerStates
  <2>2. PICK x \in merger.merged : merger.merged = {SameRange(x, d) : d \in Domains}
    BY <2>1 DEF MergerInv
  <2>3. Both(dirty', x)
    BY <2>1, <2>2 DEF Both
  <2>4. ASSUME NEW m \in merger.merged PROVE Both(dirty', m)
    <3>1. PICK d \in Domains : m = SameRange(x, d)
      BY <2>2
    <3> QED
      BY <1>0, <2>3, <3>1, BothMember
  <2>5. merger.todo = {} /\ merger.mark = NoFile
    BY <2>1 DEF MergerInv, Locked
  <2> QED
    BY <2>1, <2>4, <2>5, Zenon DEF MergerInv, Locked
<1>14. CASE CleanAfterMerge
  <2>1. /\ merger.at = "clean" /\ merger'.at = "lock" /\ merger'.merged = merger.merged
        /\ merger'.todo = merger.todo /\ merger'.mark = merger.mark
        /\ held'["clean"] = visible /\ UNCHANGED dirty
    BY <1>0, <1>14, MergeFrame DEF CleanAfterMerge, MergerStates, BeginFilesRo, Holders
  <2>2. merger.todo = {} /\ merger.mark = NoFile /\ \A m \in merger.merged : Both(dirty, m)
    BY <2>1 DEF MergerInv, Locked
  <2>3. \A f \in visible : Both(dirty, f)
    BY DEF VisibleInv
  <2> QED
    BY <2>1, <2>2, <2>3 DEF MergerInv, Locked
<1>15. CASE LockDirtyFiles
  <2>1. /\ merger.at = "lock" /\ merger'.at = "mark" /\ merger'.mark = merger.mark
        /\ merger'.todo = Garbage(merger.merged, held["clean"]) /\ UNCHANGED dirty
    BY <1>0, <1>15, MergeFrame DEF LockDirtyFiles, MergerStates
  <2>2. merger.mark = NoFile
    BY <2>1 DEF MergerInv
  <2>3. Garbage(merger.merged, held["clean"]) \subseteq dirty
    BY DEF Garbage
  <2> QED
    BY <2>1, <2>2, <2>3, Zenon DEF MergerInv, Locked
<1>16. CASE MarkFile
  <2>1. PICK f \in merger.todo :
           /\ dirty' = dirty \ {f} /\ canDelete' = canDelete \cup {f}
           /\ merger'.at = "delete" /\ merger'.todo = merger.todo \ {f} /\ merger'.mark = f
    BY <1>16, MarkIs, Zenon
  <2>2. merger.todo \subseteq dirty
    BY DEF MergerInv
  <2> QED
    BY <2>1, <2>2, Zenon DEF MergerInv, Locked
<1>17. CASE DeleteFile
  <2>1. /\ merger'.at = "mark" /\ merger'.todo = merger.todo /\ merger'.mark = NoFile
        /\ UNCHANGED dirty
    BY <1>0, <1>17 DEF DeleteFile, MergerStates
  <2>2. merger.todo \subseteq dirty
    BY DEF MergerInv
  <2> QED
    BY <2>1, <2>2 DEF MergerInv, Locked
<1>18. CASE Builds
  BY <1>4, <1>5, <1>6, <1>18, Zenon DEF Builds
<1>19. CASE Merges
  BY <1>8, <1>9, <1>10, <1>11, <1>12, <1>13, <1>14, <1>15, <1>16, <1>17, <1>19, Zenon
     DEF Merges
<1> QED
  BY <1>2, <1>3, <1>4, <1>8, <1>18, <1>19, Zenon DEF Next

------------------------------------------------------------------------------
(* Who holds files: a holder opens when it holds none, and closes when it  *)
(* has nothing to look at.                                                 *)
Opens(h) == /\ BeginFilesRo(h) /\ held[h] = {} /\ last[h] = {} /\ UNCHANGED last
Closes(h) == CloseFiles(h) /\ last[h] = {}

(* Readers, the writer, the merge and the cleaning are different holders. *)
LEMMA HoldersAre ==
  /\ "writer" \in Holders /\ "merge" \in Holders /\ "clean" \in Holders
  /\ Readers \subseteq Holders
  /\ "writer" \notin Readers /\ "merge" \notin Readers /\ "clean" \notin Readers
BY AggregatorAssumption DEF Holders

(* A transaction opens its files, closes them, or leaves the counts alone. *)
LEMMA TxRefs ==
  ASSUME TypeOK, HoldersInv, (\E r \in Readers : Reads(r)) \/ Writes
  PROVE  \/ UNCHANGED <<held, last>>
         \/ \E h \in Holders : Opens(h) \/ Closes(h)
<1>1. ASSUME NEW r \in Readers, Reads(r)
      PROVE  UNCHANGED <<held, last>> \/ Opens(r) \/ Closes(r)
  <2>1. CASE BeginRo(r)
    BY <2>1 DEF BeginRo, refs
  <2>2. CASE OpenFiles(r)
    BY <2>2 DEF OpenFiles, Opens, HoldersInv
  <2>3. CASE Rollback(r)
    BY <2>3 DEF Rollback, Closes, HoldersInv
  <2> QED
    BY <1>1, <2>1, <2>2, <2>3 DEF Reads
<1>2. CASE Writes
  <2>1. BeginRw => Opens("writer")
    BY DEF BeginRw, Opens, HoldersInv
  <2>2. WriteStep \/ Prune => UNCHANGED <<held, last>>
    BY DEF WriteStep, Prune, refs
  <2>3. EndRw(TRUE) \/ EndRw(FALSE) => Closes("writer")
    BY DEF EndRw, Closes, HoldersInv
  <2>4. UNCHANGED <<held, last>> \/ Opens("writer") \/ Closes("writer")
    BY <1>2, <2>1, <2>2, <2>3, Zenon DEF Writes
  <2> QED
    BY <2>4, HoldersAre
<1> QED
  BY <1>1, <1>2, HoldersAre

(* So do the merge and the cleaning after it. *)
LEMMA MergeRefs ==
  ASSUME TypeOK, MergerInv, HoldersInv,
         \/ MergeLoop \/ MergeLoopStep \/ MergeFails \/ CleanAfterMerge
         \/ LockDirtyFiles \/ Cleaned \/ MergeStepEnds
  PROVE  /\ merger'.mark = merger.mark
         /\ \/ UNCHANGED <<held, last>>
            \/ \E h \in {"merge", "clean"} : Opens(h) \/ Closes(h)
<1>0. /\ merger \in MergerStates
      /\ NoMerge \in MergerStates /\ NoMerge.mark = NoFile
      /\ merger.at # "delete" => merger.mark = NoFile
  BY DEF TypeOK, MergerStates, NoMerge, MergerInv
<1>1. CASE MergeLoop \/ LockDirtyFiles
  BY <1>0, <1>1, Zenon DEF MergeLoop, LockDirtyFiles, refs, MergerStates
<1>2. CASE MergeLoopStep
  <2>1. Opens("merge")
    BY <1>2 DEF MergeLoopStep, Opens, HoldersInv
  <2>2. merger'.mark = merger.mark
    BY <1>0, <1>2 DEF MergeLoopStep, MergerStates
  <2> QED
    BY <2>1, <2>2
<1>3. CASE MergeFails
  <2>1. Closes("merge")
    BY <1>3 DEF MergeFails, Closes, HoldersInv
  <2>2. merger'.mark = merger.mark
    BY <1>0, <1>3 DEF MergeFails
  <2> QED
    BY <2>1, <2>2
<1>4. CASE CleanAfterMerge
  <2>1. Opens("clean")
    BY <1>4 DEF CleanAfterMerge, Opens, HoldersInv
  <2>2. merger'.mark = merger.mark
    BY <1>0, <1>4 DEF CleanAfterMerge, MergerStates
  <2> QED
    BY <2>1, <2>2
<1>5. CASE Cleaned
  <2>1. Closes("clean")
    BY <1>5 DEF Cleaned, Closes, HoldersInv
  <2>2. merger'.mark = merger.mark
    BY <1>0, <1>5 DEF Cleaned, MergerStates
  <2> QED
    BY <2>1, <2>2
<1>6. CASE MergeStepEnds
  <2>1. Closes("merge")
    BY <1>6 DEF MergeStepEnds, Closes, HoldersInv
  <2>2. merger'.mark = merger.mark
    BY <1>0, <1>6 DEF MergeStepEnds, MergerStates
  <2> QED
    BY <2>1, <2>2
<1> QED
  BY <1>1, <1>2, <1>3, <1>4, <1>5, <1>6

(* The other steps of the jobs leave the counts alone. *)
LEMMA JobRefs ==
  ASSUME \/ BuildFilesInBackground \/ Builds
         \/ MergeFiles \/ IntegrateMergedDirtyFiles \/ MarkFile \/ DeleteFile
  PROVE  UNCHANGED <<held, last, tx>>
BY DEF BuildFilesInBackground, Builds, BuildDomain, IntegrateDirtyFiles, BuildFails,
       BuildEnds, MergeFiles, IntegrateMergedDirtyFiles, MarkFile, DeleteFile, refs

(* What opening and closing do to the counts. *)
LEMMA OpenIs ==
  ASSUME TypeOK, NEW h \in Holders, Opens(h)
  PROVE  /\ held'[h] = visible /\ held[h] = {} /\ last' = last /\ last[h] = {}
         /\ \A k \in Holders \ {h} : held'[k] = held[k]
BY DEF Opens, BeginFilesRo, TypeOK

(* A closing holder looks at the files that nobody else counts. *)
LEMMA CloseIs ==
  ASSUME TypeOK, NEW h \in Holders, Closes(h)
  PROVE  /\ held'[h] = {} /\ last[h] = {}
         /\ \A k \in Holders \ {h} : held'[k] = held[k] /\ last'[k] = last[k]
         /\ \A f : f \in last'[h] <=>
                     f \in held[h] /\ \A k \in Holders \ {h} : f \notin held[k]
<1>1. /\ held'[h] = {} /\ last[h] = {}
      /\ \A k \in Holders \ {h} : held'[k] = held[k] /\ last'[k] = last[k]
      /\ last'[h] = {f \in held[h] : RefCount(f) = 1}
  BY DEF Closes, CloseFiles, TypeOK
<1>2. \A f : f \in last'[h] <=>
               f \in held[h] /\ \A k \in Holders \ {h} : f \notin held[k]
  BY <1>1, RefCountIs
<1> QED
  BY <1>1, <1>2

(* Holders have pairs, for what they opened was visible. *)
LEMMA AlignedStep ==
  ASSUME TypeOK, VisibleInv, MergerInv, HoldersInv, HeldAligned, Next
  PROVE  HeldAligned'
<1>1. ASSUME UNCHANGED held PROVE HeldAligned'
  BY <1>1 DEF HeldAligned
<1>2. ASSUME NEW h \in Holders, Opens(h) \/ Closes(h) PROVE HeldAligned'
  <2>1. IsAligned(visible) /\ IsAligned({})
    BY DEF VisibleInv, IsAligned
  <2>2. /\ \A k \in Holders \ {h} : held'[k] = held[k]
        /\ held'[h] \in {visible, {}}
    BY <1>2, OpenIs, CloseIs
  <2>3. ASSUME NEW k \in Holders PROVE IsAligned(held'[k])
    BY <2>1, <2>2 DEF HeldAligned
  <2> QED
    BY <2>3 DEF HeldAligned
<1>3. ASSUME NEW h \in Holders, RemoveLast(h) PROVE HeldAligned'
  BY <1>1, <1>3 DEF RemoveLast
<1>4. CASE CrashAndOpenFolder
  BY <1>4 DEF CrashAndOpenFolder, HeldAligned, IsAligned
<1>5. CASE (\E r \in Readers : Reads(r)) \/ Writes
  BY <1>1, <1>2, <1>5, TxRefs
<1>6. CASE \/ BuildFilesInBackground \/ Builds
           \/ MergeFiles \/ IntegrateMergedDirtyFiles \/ MarkFile \/ DeleteFile
  BY <1>1, <1>6, JobRefs
<1>7. CASE \/ MergeLoop \/ MergeLoopStep \/ MergeFails \/ CleanAfterMerge
           \/ LockDirtyFiles \/ Cleaned \/ MergeStepEnds
  BY <1>1, <1>2, <1>7, MergeRefs, HoldersAre
<1>8. CASE Merges
  BY <1>6, <1>7, <1>8, Zenon DEF Merges
<1> QED
  BY <1>3, <1>4, <1>5, <1>6, <1>8, Zenon DEF Next

(* A marked file stays with somebody. *)
LEMMA LeakStep ==
  ASSUME TypeOK, FilesInv, BuilderInv, MergerInv, HoldersInv, LeakInv, Next
  PROVE  LeakInv'
<1>0. merger \in MergerStates
  BY DEF TypeOK
<1>1. ASSUME UNCHANGED <<canDelete, held, last>>, merger'.mark = merger.mark,
             canDelete \cap disk' \subseteq disk
      PROVE  LeakInv'
  BY <1>1 DEF LeakInv
<1>2. ASSUME NEW h \in Holders, Opens(h) \/ Closes(h),
             UNCHANGED <<disk, canDelete>>, merger'.mark = merger.mark
      PROVE  LeakInv'
  <2> SUFFICES ASSUME NEW f \in canDelete \cap disk, merger.mark # f
               PROVE  \E k \in Holders : f \in held'[k] \/ f \in last'[k]
    BY <1>2 DEF LeakInv
  <2>1. PICK k \in Holders : f \in held[k] \/ f \in last[k]
    BY DEF LeakInv
  <2>2. CASE Opens(h)
    BY <2>1, <2>2, OpenIs
  <2>3. CASE Closes(h)
    BY <2>1, <2>3, CloseIs
  <2> QED
    BY <1>2, <2>2, <2>3
<1>3. ASSUME NEW h \in Holders, RemoveLast(h) PROVE LeakInv'
  <2>1. /\ disk' = disk \ (last[h] \cap canDelete)
        /\ \A k \in Holders \ {h} : last'[k] = last[k]
        /\ UNCHANGED <<canDelete, held, merger>>
    BY <1>3 DEF RemoveLast, jobs, TypeOK
  <2> SUFFICES ASSUME NEW f \in canDelete \cap disk', merger.mark # f
               PROVE  \E k \in Holders : f \in held'[k] \/ f \in last'[k]
    BY <2>1 DEF LeakInv
  <2>2. f \in disk /\ f \notin last[h]
    BY <2>1
  <2>3. PICK k \in Holders : f \in held[k] \/ f \in last[k]
    BY <2>1, <2>2 DEF LeakInv
  <2> QED
    BY <2>1, <2>2, <2>3
<1>4. CASE CrashAndOpenFolder
  BY <1>4 DEF CrashAndOpenFolder, LeakInv
<1>5. CASE (\E r \in Readers : Reads(r)) \/ Writes
  BY <1>1, <1>2, <1>5, TxRefs, TxFrame
<1>6. CASE BuildFilesInBackground \/ BuildFails \/ BuildEnds
  BY <1>1, <1>6, BuildFrame
<1>7. ASSUME NEW d \in Domains, BuildDomain(d) PROVE LeakInv'
  <2>1. /\ UNCHANGED <<canDelete, held, last, merger>> /\ Building
        /\ disk' = disk \cup {StepFile(d)}
    BY <1>7 DEF BuildDomain, refs
  <2>2. StepFile(d) \notin canDelete
    BY <2>1, StepFileIs DEF FilesInv
  <2> QED
    BY <1>1, <2>1, <2>2
<1>8. CASE IntegrateDirtyFiles
  BY <1>1, <1>8 DEF IntegrateDirtyFiles, refs
<1>9. CASE \/ MergeLoop \/ MergeLoopStep \/ MergeFails \/ CleanAfterMerge
           \/ LockDirtyFiles \/ Cleaned \/ MergeStepEnds
  <2>1. UNCHANGED <<disk, canDelete>> /\ merger'.mark = merger.mark
    BY <1>9, MergeFrame, MergeRefs
  <2>2. UNCHANGED <<held, last>> \/ \E h \in Holders : Opens(h) \/ Closes(h)
    BY <1>9, MergeRefs, HoldersAre
  <2> QED
    BY <1>1, <1>2, <2>1, <2>2
<1>10. CASE MergeFiles
  <2>1. /\ UNCHANGED <<canDelete, held, last>> /\ merger'.mark = merger.mark
        /\ merger.at = "merge" /\ merger.wrote # merger.merged
        /\ disk' = disk \cup {First(merger.merged \ merger.wrote)}
    BY <1>0, <1>10 DEF MergeFiles, refs, MergerStates
  <2>2. First(merger.merged \ merger.wrote) \in merger.merged
    BY <2>1, NextMerged
  <2>3. First(merger.merged \ merger.wrote) \notin canDelete
    BY <2>1, <2>2 DEF MergerInv
  <2> QED
    BY <1>1, <2>1, <2>3
<1>11. CASE IntegrateMergedDirtyFiles
  <2>1. UNCHANGED <<disk, canDelete, held, last>> /\ merger'.mark = merger.mark
    BY <1>0, <1>11 DEF IntegrateMergedDirtyFiles, refs, MergerStates
  <2> QED
    BY <1>1, <2>1
<1>12. CASE MarkFile
  <2>1. PICK f \in merger.todo :
          /\ canDelete' = canDelete \cup {f} /\ merger'.mark = f /\ merger.at = "mark"
          /\ UNCHANGED <<disk, held, last>> /\ f \in dirty
    BY <1>12, MarkIs, Zenon
  <2>0. merger.at # "delete"
    BY <2>1
  <2>2. merger.mark = NoFile
    BY <2>0, Zenon DEF MergerInv
  <2>3. disk \subseteq File
    BY DEF TypeOK
  <2>4. NoFile \notin File
    BY DEF NoFile, File
  <2>5. merger.mark \notin disk
    BY <2>2, <2>3, <2>4, Zenon
  <2> QED
    BY <2>1, <2>5 DEF LeakInv
<1>13. CASE DeleteFile
  <2>1. /\ disk' = IF RefCount(merger.mark) = 0 THEN disk \ {merger.mark} ELSE disk
        /\ UNCHANGED <<canDelete, held, last>>
    BY <1>13 DEF DeleteFile, refs
  <2> SUFFICES ASSUME NEW f \in canDelete \cap disk'
               PROVE  \E k \in Holders : f \in held[k] \/ f \in last[k]
    BY <2>1 DEF LeakInv
  <2>2. CASE f = merger.mark
    <3>1. RefCount(f) # 0
      BY <2>1, <2>2
    <3> QED
      BY <3>1, RefCountIs
  <2>3. CASE f # merger.mark
    BY <2>1, <2>3 DEF LeakInv
  <2> QED
    BY <2>2, <2>3
<1>14. CASE Builds
  BY <1>6, <1>7, <1>8, <1>14, Zenon DEF Builds
<1>15. CASE Merges
  BY <1>9, <1>10, <1>11, <1>12, <1>13, <1>15, Zenon DEF Merges
<1> QED
  BY <1>3, <1>4, <1>5, <1>6, <1>14, <1>15, Zenon DEF Next

(* Transactions and jobs hold files, and look at them, at the places where *)
(* the code does.                                                          *)
LEMMA HoldersStep ==
  ASSUME TypeOK, MergerInv, HoldersInv, Next
  PROVE  HoldersInv'
<1> DEFINE Txs == Readers \cup {"writer"}
<1>0. /\ merger \in MergerStates /\ Txs \subseteq Holders
      /\ "merge" \in Holders /\ "clean" \in Holders
      /\ "merge" \notin Txs /\ "clean" \notin Txs
      /\ tx \in [Txs -> TxStates]
      /\ held \in [Holders -> SUBSET File] /\ last \in [Holders -> SUBSET File]
  BY HoldersAre DEF TypeOK
<1>1. ASSUME UNCHANGED <<held, last, tx>>, merger'.at = merger.at PROVE HoldersInv'
  BY <1>1 DEF HoldersInv
\* A transaction opens, closes or does neither.
<1>2. ASSUME NEW t \in Txs, UNCHANGED merger,
             \A k \in Holders \ {t} : held'[k] = held[k] /\ last'[k] = last[k],
             \A u \in Txs \ {t} : tx'[u] = tx[u],
             tx'[t].at # "open" => held'[t] = {},
             tx'[t].at = "none" \/ last'[t] = {}
      PROVE  HoldersInv'
  BY <1>0, <1>2 DEF HoldersInv
<1>3. ASSUME NEW r \in Readers, Reads(r) PROVE HoldersInv'
  <2>0. r \in Txs /\ r \in Holders /\ UNCHANGED merger
    BY <1>0, <1>3, TxFrame
  <2>1. CASE BeginRo(r)
    <3>1. /\ UNCHANGED <<held, last>> /\ tx[r].at = "none" /\ last[r] = {}
          /\ tx'[r].at = "begun" /\ \A u \in Txs \ {r} : tx'[u] = tx[u]
      BY <1>0, <2>0, <2>1 DEF BeginRo, refs
    <3>2. held[r] = {}
      BY <3>1 DEF HoldersInv
    <3> QED
      BY <1>2, <2>0, <3>1, <3>2
  <2>2. CASE OpenFiles(r)
    <3>1. /\ UNCHANGED last /\ \A k \in Holders \ {r} : held'[k] = held[k]
          /\ \A u \in Txs \ {r} : tx'[u] = tx[u]
          /\ tx[r].at = "begun"
      BY <1>0, <2>0, <2>2 DEF OpenFiles, BeginFilesRo
    <3>2. tx'[r].at = "open"
      BY <1>0, <2>0, <2>2 DEF OpenFiles, Idle
    <3>3. last[r] = {}
      BY <2>0, <3>1 DEF HoldersInv
    <3> QED
      BY <1>2, <2>0, <3>1, <3>2, <3>3
  <2>3. CASE Rollback(r)
    <3>1. /\ tx'[r].at = "none" /\ \A u \in Txs \ {r} : tx'[u] = tx[u]
          /\ held'[r] = {}
          /\ \A k \in Holders \ {r} : held'[k] = held[k] /\ last'[k] = last[k]
      BY <1>0, <2>0, <2>3 DEF Rollback, CloseFiles, Idle
    <3> QED
      BY <1>2, <2>0, <3>1
  <2> QED
    BY <1>3, <2>1, <2>2, <2>3 DEF Reads
<1>4. CASE Writes
  <2>0. "writer" \in Txs /\ "writer" \in Holders /\ UNCHANGED merger
    BY <1>0, <1>4, TxFrame
  <2>1. CASE BeginRw
    <3>1. /\ UNCHANGED last /\ \A k \in Holders \ {"writer"} : held'[k] = held[k]
          /\ \A u \in Txs \ {"writer"} : tx'[u] = tx[u]
          /\ tx'["writer"].at = "open" /\ last["writer"] = {}
      BY <1>0, <2>0, <2>1 DEF BeginRw, BeginFilesRo
    <3> QED
      BY <1>2, <2>0, <3>1
  <2>2. CASE WriteStep \/ Prune
    <3>1. /\ UNCHANGED <<held, last>>
          /\ \A u \in Txs \ {"writer"} : tx'[u] = tx[u]
          /\ tx'["writer"].at = tx["writer"].at
      BY <1>0, <2>0, <2>2 DEF WriteStep, Prune, refs, TxStates
    <3> QED
      BY <1>2, <2>0, <3>1 DEF HoldersInv
  <2>3. CASE EndRw(TRUE) \/ EndRw(FALSE)
    <3>1. /\ tx'["writer"].at = "none" /\ \A u \in Txs \ {"writer"} : tx'[u] = tx[u]
          /\ held'["writer"] = {}
          /\ \A k \in Holders \ {"writer"} : held'[k] = held[k] /\ last'[k] = last[k]
      BY <1>0, <2>0, <2>3 DEF EndRw, CloseFiles, Idle
    <3> QED
      BY <1>2, <2>0, <3>1
  <2> QED
    BY <1>4, <2>1, <2>2, <2>3, Zenon DEF Writes
<1>5. ASSUME NEW h \in Holders, RemoveLast(h) PROVE HoldersInv'
  <2>1. /\ UNCHANGED <<held, tx, merger>>
        /\ \A k \in Holders : last'[k] = last[k] \/ last'[k] = {}
    BY <1>0, <1>5 DEF RemoveLast, jobs
  <2> QED
    BY <1>0, <2>1 DEF HoldersInv
<1>6. CASE CrashAndOpenFolder
  <2>1. /\ \A k \in Holders : held'[k] = {} /\ last'[k] = {}
    BY <1>6 DEF CrashAndOpenFolder
  <2> QED
    BY <1>0, <2>1 DEF HoldersInv
\* A merge opens, closes or does neither.
<1>7. ASSUME UNCHANGED tx, \A t \in Txs : held'[t] = held[t] /\ last'[t] = last[t],
             merger'.at \in {"idle", "loop"} => held'["merge"] = {},
             merger'.at \in {"idle", "loop"} \/ last'["merge"] = {},
             merger'.at \in {"lock", "mark", "delete"} \/ held'["clean"] = {},
             merger'.at = "close" \/ last'["clean"] = {}
      PROVE  HoldersInv'
  BY <1>0, <1>7 DEF HoldersInv
<1>8. CASE BuildFilesInBackground \/ Builds
  <2>1. UNCHANGED <<held, last, tx, merger>>
    BY <1>8, JobRefs, Zenon DEF BuildFilesInBackground, Builds, BuildDomain, IntegrateDirtyFiles,
       BuildFails, BuildEnds
  <2> QED
    BY <1>1, <2>1
<1>9. CASE MergeLoop
  <2>1. /\ UNCHANGED <<held, last, tx>>
        /\ merger' = merger \/ (merger.at = "idle" /\ merger'.at = "loop")
    BY <1>0, <1>9 DEF MergeLoop, refs, MergerStates
  <2> QED
    BY <1>7, <2>1 DEF HoldersInv
<1>10. CASE MergeLoopStep
  <2>1. /\ UNCHANGED <<last, tx>> /\ last["merge"] = {} /\ merger.at = "loop"
        /\ \A k \in Holders \ {"merge"} : held'[k] = held[k]
    BY <1>0, <1>10 DEF MergeLoopStep, BeginFilesRo
  <2>2. merger'.at \in {"clean", "merge"}
    <3>1. NoMerge \in MergerStates
      BY DEF NoMerge, MergerStates
    <3> QED
      BY <1>10, <3>1 DEF MergeLoopStep, MergerStates
  <2> QED
    BY <1>0, <1>7, <2>1, <2>2 DEF HoldersInv
<1>11. CASE MergeFiles \/ IntegrateMergedDirtyFiles
  <2>1. /\ UNCHANGED <<held, last, tx>> /\ merger.at = "merge" /\ merger'.at \in {"merge", "clean"}
    BY <1>0, <1>11, JobRefs, Zenon DEF MergeFiles, IntegrateMergedDirtyFiles, MergerStates
  <2> QED
    BY <1>7, <2>1 DEF HoldersInv
<1>12. CASE MergeFails
  <2>1. /\ UNCHANGED tx /\ merger.at = "merge" /\ merger'.at = "idle" /\ held'["merge"] = {}
        /\ \A k \in Holders \ {"merge"} : held'[k] = held[k] /\ last'[k] = last[k]
    BY <1>0, <1>12 DEF MergeFails, CloseFiles, NoMerge
  <2> QED
    BY <1>0, <1>7, <2>1 DEF HoldersInv
<1>13. CASE CleanAfterMerge
  <2>1. /\ UNCHANGED <<last, tx>> /\ merger.at = "clean" /\ merger'.at = "lock"
        /\ \A k \in Holders \ {"clean"} : held'[k] = held[k]
    BY <1>0, <1>13 DEF CleanAfterMerge, BeginFilesRo, MergerStates
  <2> QED
    BY <1>0, <1>7, <2>1 DEF HoldersInv
<1>14. CASE LockDirtyFiles
  <2>1. UNCHANGED <<held, last, tx>> /\ merger.at = "lock" /\ merger'.at = "mark"
    BY <1>0, <1>14 DEF LockDirtyFiles, refs, MergerStates
  <2> QED
    BY <1>7, <2>1 DEF HoldersInv
<1>15. CASE MarkFile \/ DeleteFile
  <2>1. /\ UNCHANGED <<held, last, tx>>
        /\ merger.at \in {"mark", "delete"} /\ merger'.at \in {"mark", "delete"}
    BY <1>0, <1>15, JobRefs, Zenon DEF MarkFile, DeleteFile, MergerStates
  <2> QED
    BY <1>7, <2>1 DEF HoldersInv
<1>16. CASE Cleaned
  <2>1. /\ UNCHANGED tx /\ merger.at = "mark" /\ merger'.at = "close" /\ held'["clean"] = {}
        /\ \A k \in Holders \ {"clean"} : held'[k] = held[k] /\ last'[k] = last[k]
    BY <1>0, <1>16 DEF Cleaned, CloseFiles, MergerStates
  <2> QED
    BY <1>0, <1>7, <2>1 DEF HoldersInv
<1>17. CASE MergeStepEnds
  <2>1. /\ UNCHANGED tx /\ merger.at = "close" /\ held'["merge"] = {} /\ last["clean"] = {}
        /\ \A k \in Holders \ {"merge"} : held'[k] = held[k] /\ last'[k] = last[k]
    BY <1>0, <1>17 DEF MergeStepEnds, CloseFiles
  <2>2. merger'.at \in {"idle", "loop"}
    BY <1>17 DEF MergeStepEnds, NoMerge
  <2> QED
    BY <1>0, <1>7, <2>1, <2>2 DEF HoldersInv
<1>18. CASE Merges
  BY <1>9, <1>10, <1>11, <1>12, <1>13, <1>14, <1>15, <1>16, <1>17, <1>18, Zenon DEF Merges
<1> QED
  BY <1>3, <1>4, <1>5, <1>6, <1>8, <1>18, Zenon DEF Next

(* Files in use stay, if nobody runs between the two loads of a closing    *)
(* transaction: what it looks at, nobody has opened meanwhile.             *)
LEMMA SafeStep ==
  ASSUME TypeOK, FilesInv, VisibleInv, MergerInv, HoldersInv, SafeInv, ~Preempts, Next
  PROVE  SafeInv'
<1>0. visible \subseteq disk
  <2>1. \A v \in visible : v \in File /\ Both(dirty, v)
    BY DEF TypeOK, VisibleInv
  <2>2. visible \subseteq dirty
    BY <2>1, BothMember
  <2> QED
    BY <2>2 DEF FilesInv
<1>1. ASSUME UNCHANGED <<held, last>>, \A h \in Holders : held[h] \subseteq disk' PROVE SafeInv'
  BY <1>1 DEF SafeInv
<1>2. ASSUME UNCHANGED <<held, last>>, disk \subseteq disk' PROVE SafeInv'
  BY <1>1, <1>2 DEF SafeInv
<1>3. ASSUME NEW h \in Holders, Opens(h) \/ Closes(h), NoneCloses, UNCHANGED disk
      PROVE  SafeInv'
  <2>1. CASE Opens(h)
    <3>1. /\ held'[h] = visible /\ last' = last
          /\ \A k \in Holders \ {h} : held'[k] = held[k]
      BY <2>1, OpenIs
    <3>2. \A k \in Holders : last[k] = {}
      BY <1>3 DEF NoneCloses
    <3>3. \A k \in Holders : held'[k] \subseteq disk'
      BY <1>0, <1>3, <3>1 DEF SafeInv
    <3> QED
      BY <3>1, <3>2, <3>3 DEF SafeInv
  <2>2. CASE Closes(h)
    <3>1. /\ held'[h] = {}
          /\ \A k \in Holders \ {h} : held'[k] = held[k] /\ last'[k] = last[k]
          /\ \A f : f \in last'[h] <=>
                      f \in held[h] /\ \A k \in Holders \ {h} : f \notin held[k]
      BY <2>2, CloseIs
    <3>2. \A k \in Holders : last[k] = {}
      BY <1>3 DEF NoneCloses
    <3>3. \A k \in Holders : held'[k] \subseteq disk'
      BY <1>3, <3>1 DEF SafeInv
    <3>4. \A j, k \in Holders : last'[j] \cap held'[k] = {}
      BY <3>1, <3>2
    <3> QED
      BY <3>3, <3>4 DEF SafeInv
  <2> QED
    BY <1>3, <2>1, <2>2
<1>4. ASSUME NEW h \in Holders, RemoveLast(h) PROVE SafeInv'
  <2>1. /\ disk' = disk \ (last[h] \cap canDelete) /\ UNCHANGED held
        /\ \A k \in Holders : last'[k] = last[k] \/ last'[k] = {}
    BY <1>4 DEF RemoveLast, TypeOK
  <2>2. \A k \in Holders : held[k] \subseteq disk'
    BY <2>1 DEF SafeInv
  <2> QED
    BY <2>1, <2>2 DEF SafeInv
<1>5. CASE CrashAndOpenFolder
  BY <1>5 DEF CrashAndOpenFolder, SafeInv
<1>6. CASE NoneCloses /\ ((\E r \in Readers : Reads(r)) \/ Writes)
  BY <1>2, <1>3, <1>6, TxRefs, TxFrame
<1>7. CASE BuildFilesInBackground \/ Builds
  <2>1. UNCHANGED <<held, last>>
    BY <1>7, JobRefs
  <2>2. disk \subseteq disk'
    BY <1>7, BuildFrame DEF Builds, BuildDomain, IntegrateDirtyFiles
  <2> QED
    BY <1>2, <2>1, <2>2
<1>8. CASE MergeFiles \/ IntegrateMergedDirtyFiles \/ MarkFile
  <2>1. UNCHANGED <<held, last>>
    BY <1>8, JobRefs
  <2>2. disk \subseteq disk'
    BY <1>8 DEF MergeFiles, IntegrateMergedDirtyFiles, MarkFile
  <2> QED
    BY <1>2, <2>1, <2>2
<1>9. CASE DeleteFile
  <2>1. /\ disk' = IF RefCount(merger.mark) = 0 THEN disk \ {merger.mark} ELSE disk
        /\ UNCHANGED <<held, last>>
    BY <1>9 DEF DeleteFile, refs
  <2>2. \A k \in Holders : held[k] \subseteq disk'
    BY <2>1, RefCountIs DEF SafeInv
  <2> QED
    BY <1>1, <2>1, <2>2
<1>10. CASE /\ NoneCloses
            /\ \/ MergeLoop \/ MergeLoopStep \/ MergeFails \/ CleanAfterMerge
               \/ LockDirtyFiles \/ Cleaned \/ MergeStepEnds
  <2>1. UNCHANGED disk
    BY <1>10, MergeFrame
  <2>2. UNCHANGED <<held, last>> \/ \E h \in Holders : Opens(h) \/ Closes(h)
    BY <1>10, MergeRefs, HoldersAre
  <2> QED
    BY <1>2, <1>3, <1>10, <2>1, <2>2
<1>11. CASE NoneCloses /\ Merges
  BY <1>8, <1>9, <1>10, <1>11, Zenon DEF Merges
<1> QED
  BY <1>4, <1>5, <1>6, <1>7, <1>11, Zenon DEF Next

------------------------------------------------------------------------------
(* Every step keeps the invariant. *)
LEMMA StepInv == IInv /\ [Next]_vars => IInv'
<1> SUFFICES ASSUME IInv, [Next]_vars PROVE IInv'
  OBVIOUS
<1>1. CASE Next
  <2>0. /\ TypeOK /\ FilesInv /\ VisibleInv /\ BuilderInv /\ MergerInv
        /\ HoldersInv /\ HeldAligned /\ LeakInv /\ (~Preempts => SafeInv)
    BY DEF IInv
  <2>1. TypeOK'
    BY <1>1, <2>0, TypeStep
  <2>2. FilesInv'
    BY <1>1, <2>0, FilesStep
  <2>3. VisibleInv'
    BY <1>1, <2>0, <2>1, <2>2, VisibleStep
  <2>4. BuilderInv'
    BY <1>1, <2>0, BuilderStep
  <2>5. MergerInv'
    BY <1>1, <2>0, MergerStep
  <2>6. HoldersInv'
    BY <1>1, <2>0, HoldersStep
  <2>7. HeldAligned'
    BY <1>1, <2>0, AlignedStep
  <2>8. LeakInv'
    BY <1>1, <2>0, LeakStep
  <2>9. ~Preempts => SafeInv'
    BY <1>1, <2>0, SafeStep
  <2> QED
    BY <2>1, <2>2, <2>3, <2>4, <2>5, <2>6, <2>7, <2>8, <2>9 DEF IInv
<1>2. CASE UNCHANGED vars
  <2>1. UNCHANGED <<db, disk, torn, dirty, visible, canDelete, held, last, tx,
                    builder, merger, spawned, faults>>
    BY <1>2 DEF vars
  <2>2. TypeOK'
    BY <2>1 DEF IInv, TypeOK
  <2>3. FilesInv' /\ VisibleInv'
    BY <2>1 DEF IInv, FilesInv, VisibleInv
  <2>4. BuilderInv'
    BY <2>1 DEF IInv, BuilderInv, Building, StepFile
  <2>5. MergerInv'
    BY <2>1 DEF IInv, MergerInv, Locked
  <2>6. HoldersInv' /\ HeldAligned'
    BY <2>1 DEF IInv, HoldersInv, HeldAligned
  <2>7. LeakInv' /\ (~Preempts => SafeInv')
    BY <2>1 DEF IInv, LeakInv, SafeInv
  <2> QED
    BY <2>2, <2>3, <2>4, <2>5, <2>6, <2>7 DEF IInv
<1> QED
  BY <1>1, <1>2

(* The invariant holds in every reachable state. *)
THEOREM Inductive == Spec => []IInv
BY InitInv, StepInv, PTL DEF Spec
=============================================================================
