----------------------- MODULE ExecutionModuleProofs -----------------------
(***************************************************************************)
(* Proofs about ExecutionModule, for every tree of blocks: the type        *)
(* invariant, that validHashes has valid blocks only, that a validated     *)
(* fork is flushed onto the state it was executed on, and, without batches,*)
(* that canonical hashes and state are those of the head, that the answers *)
(* are right and that the module implements ChainHead.                     *)
(***************************************************************************)
EXTENDS ExecutionModule, WellFoundedInduction, TLAPS

-----------------------------------------------------------------------------
(* The lower and the upper part of a chain.                                *)
Below(b, n) == {x \in Chain[b] : Number[x] <= n}
Above(b, n) == {x \in Chain[b] : Number[x] > n}

\* What every view of the database keeps, also with batches: genesis is canonical,
\* and no number below the head header, or below another canonical hash, is left
\* without one.
Filled(t) ==
  /\ IsCanonical(t, Genesis)
  /\ \A m, n \in Numbers : m <= n /\ t.canonical[n] # None => t.canonical[m] # None
  /\ t.canonical[Number[t.headHeader]] # None

TypeInv ==
  /\ TypeOK
  /\ Filled(db) /\ Filled(tx)
  /\ pc \in {"run", "batch", "end"} => call.head \in Block \ {Genesis} /\ tx.headHeader = call.head
  /\ pc = "validate" => call.head \in Block \ {Genesis}

\* The inductive invariant behind ValidHashesAreValid: what is executed, on disk or
\* in memory, has no defect.
Sound(S) == \A b \in S : Defect[b] = "none"

SoundInv ==
  /\ Sound(db.state) /\ Sound(tx.state) /\ Sound(fv.ran)
  /\ ValidHashesAreValid

\* The inductive invariant behind CanonicalIsChain, without batches.
Follows(t, h) == \A n \in Numbers : n <= Number[h] => t.canonical[n] = At(h, n)

CommittedInv ==
  /\ Follows(db, db.headHeader)
  /\ \A n \in Numbers : n > Number[db.headHeader] => db.canonical[n] = None
  /\ db.headBlock = db.headHeader /\ db.headHeader \in db.headers
  /\ db.exec <= Number[db.headHeader]
  /\ db.state \subseteq Below(db.headHeader, db.exec)

RunningInv ==
  /\ pc # "batch"
  /\ pc \in {"run", "end"} =>
       /\ Follows(tx, call.head)
       /\ call.head \in tx.headers
       /\ tx.headBlock = call.head => tx.exec = Number[call.head]
  /\ pc = "run" =>
       /\ tx.headBlock # call.head
       /\ tx.finish < Number[call.head] /\ tx.exec <= Number[call.head]
       /\ tx.state \subseteq Below(call.head, tx.exec)
  /\ pc = "end" /\ tx.headBlock = call.head => tx.state \subseteq Chain[call.head]

ValidatingInv ==
  pc = "validate" =>
    /\ db.exec <= Number[call.head]
    /\ Below(call.head, db.exec) = Below(db.headHeader, db.exec)

ChainInv == CommittedInv /\ RunningInv /\ ValidatingInv

\* The inductive invariant behind FlushOnBase.
ForkInv ==
  /\ pc = "validate" => fv.ext = None
  /\ pc \in {"idle", "answered"} /\ fv.ext # None =>
       db.exec = fv.from /\ db.state \subseteq Chain[fv.ext]
  /\ fv.ext # None => fv.ran \subseteq Above(fv.ext, fv.from)

\* The inductive invariant behind StateIsCanonical and the verdicts, without
\* batches and failing reads.
StateExact == db.state = Below(db.headHeader, db.exec) /\ Valid(db.headHeader)

ForkExact == fv.ext # None => Valid(fv.ext) /\ fv.ran = Above(fv.ext, fv.from)

RunExact ==
  /\ pc = "run" =>
       /\ tx.state = Below(call.head, tx.exec)
       /\ tx.exec = Number[call.head] => Valid(call.head)
  /\ pc = "end" =>
       /\ tx.headBlock = call.head <=> Valid(call.head)
       /\ tx.headBlock = call.head => tx.state = Chain[call.head]

AnswersExact ==
  /\ pc # "idle" /\ call.reply = "Success" => Valid(call.head)
  /\ NoFalseBadBlock

ExactInv == StateExact /\ ForkExact /\ RunExact /\ AnswersExact

-----------------------------------------------------------------------------
(* The tree of blocks.                                                     *)

(* A non-empty set of numbers has a least one.                             *)
LEMMA LeastOf ==
  ASSUME NEW S \in SUBSET Nat, S # {}
  PROVE  \E n \in S : \A m \in S : n <= m
<1>1. PICK n \in S : \A m \in S : ~(<<m, n>> \in OpToRel(<, Nat))
  BY NatLessThanWellFounded, WFMin, Zenon
<1>2. \A m \in S : ~(m < n)
  BY <1>1, Zenon DEF OpToRel
<1> QED
  BY <1>2

(* A bounded set of numbers has a greatest one.                            *)
LEMMA GreatestOf ==
  ASSUME NEW b \in Nat, NEW S \in SUBSET 0..b, S # {}
  PROVE  \E n \in S : \A m \in S : m <= n
<1> DEFINE T == {b - x : x \in S}
<1>0. \A x \in S : x \in 0..b /\ b - x \in Nat
  OBVIOUS
<1>1. T \in SUBSET Nat /\ T # {}
  BY <1>0, Zenon
<1>2. PICK t \in T : \A y \in T : t <= y
  BY <1>1, LeastOf, Zenon
<1>3. PICK n \in S : t = b - n
  BY <1>2, Zenon
<1>4. \A x \in S : b - n <= b - x
  BY <1>2, <1>3, Zenon
<1>5. \A x \in S : x <= n
  BY <1>0, <1>4
<1> QED
  BY <1>5, Zenon

(* A block and its parent.                                                 *)
LEMMA ParentIs ==
  ASSUME NEW b \in Block
  PROVE  /\ Number[b] \in Nat
         /\ b # Genesis => /\ Parent[b] \in Block /\ Number[Parent[b]] \in Nat
                           /\ Number[b] = Number[Parent[b]] + 1
  BY TreeAssumption

(* Induction along the tree.                                               *)
LEMMA TreeInduction ==
  ASSUME NEW S \in SUBSET Block, Genesis \in S,
         \A b \in Block \ {Genesis} : Parent[b] \in S => b \in S
  PROVE  \A b \in Block : b \in S
<1> SUFFICES ASSUME NEW c \in Block, c \notin S PROVE FALSE
  BY Zenon
<1> DEFINE T == {Number[b] : b \in Block \ S}
<1>0. \A b \in Block \ S : Number[b] \in Nat
  BY ParentIs, Zenon
<1>1. T \in SUBSET Nat
  BY <1>0
<1>e. T # {}
  BY <1>0
<1> HIDE DEF T
<1>2. PICK n \in T : \A m \in T : n <= m
  BY <1>1, <1>e, LeastOf, Zenon
<1>3. PICK b \in Block \ S : n = Number[b]
  BY <1>2, Zenon DEF T
<1>4. b # Genesis /\ Parent[b] \in Block /\ Number[Parent[b]] \in Nat
      /\ Number[b] = Number[Parent[b]] + 1
  BY <1>3, ParentIs, Zenon
<1>5. Parent[b] \notin S
  BY <1>3, <1>4, Zenon
<1>6. Number[Parent[b]] \in T
  BY <1>4, <1>5, Zenon DEF T
<1>7. Number[b] <= Number[Parent[b]]
  BY <1>2, <1>3, <1>6, Zenon
<1> QED
  BY <1>4, <1>7

(* The chain of a block is what every set that has the block and with each *)
(* block its parent has in common; so the equation of Chain has a solution.*)
Closed(S) == \A x \in S : x # Genesis => Parent[x] \in S

Ancestors(b) == {x \in Block : \A S \in SUBSET Block : b \in S /\ Closed(S) => x \in S}

(* The least set closed under parents is the chain, computed step by step. *)
LEMMA AncestorsAre ==
  ASSUME NEW b \in Block
  PROVE  Ancestors(b) = IF b = Genesis THEN {Genesis} ELSE {b} \cup Ancestors(Parent[b])
<1>1. ASSUME NEW c \in Block
      PROVE  c \in Ancestors(c) /\ Ancestors(c) \in SUBSET Block /\ Closed(Ancestors(c))
  <2>1. c \in Ancestors(c) /\ Ancestors(c) \in SUBSET Block
    BY Zenon DEF Ancestors
  <2>2. ASSUME NEW x \in Ancestors(c), x # Genesis PROVE Parent[x] \in Ancestors(c)
    <3>1. Parent[x] \in Block
      BY <2>1, <2>2, ParentIs, Zenon
    <3> QED
      BY <2>2, <3>1, Zenon DEF Ancestors, Closed
  <2> QED
    BY <2>1, <2>2, Zenon DEF Closed
<1>2. ASSUME NEW c \in Block, NEW S \in SUBSET Block, c \in S, Closed(S)
      PROVE  Ancestors(c) \in SUBSET S
  BY <1>2, Zenon DEF Ancestors
<1>3. CASE b = Genesis
  <2>1. {Genesis} \in SUBSET Block /\ Closed({Genesis})
    BY TreeAssumption, Zenon DEF Closed
  <2>2. Ancestors(b) \in SUBSET {Genesis}
    BY <1>2, <1>3, <2>1, Zenon
  <2>3. b \in Ancestors(b)
    BY <1>1, Zenon
  <2> QED
    BY <1>3, <2>2, <2>3, Zenon
<1>4. CASE b # Genesis
  <2> DEFINE p == Parent[b]
             S == {b} \cup Ancestors(p)
  <2>1. p \in Block
    BY <1>4, ParentIs, Zenon
  <2>2. S \in SUBSET Block /\ Closed(S)
    BY <1>1, <2>1, Zenon DEF Closed
  <2>3. Ancestors(b) \in SUBSET S
    BY <1>2, <2>2, Zenon
  <2>4. p \in Ancestors(b)
    BY <1>1, <1>4, Zenon DEF Closed
  <2>5. Ancestors(p) \in SUBSET Ancestors(b)
    BY <1>1, <1>2, <2>1, <2>4, Zenon
  <2>6. Ancestors(b) = S
    BY <1>1, <2>3, <2>5, Zenon
  <2> QED
    BY <1>4, <2>6, Zenon
<1> QED
  BY <1>3, <1>4, Zenon

(* Chain is the function its recursive definition means.                   *)
LEMMA ChainIs ==
  /\ Chain[Genesis] = {Genesis}
  /\ \A b \in Block \ {Genesis} : Chain[b] = {b} \cup Chain[Parent[b]]
<1> DEFINE Eq(f) == f = [b \in Block |-> IF b = Genesis THEN {Genesis} ELSE {b} \cup f[Parent[b]]]
           a == [b \in Block |-> Ancestors(b)]
<1>1. \A b \in Block : a[b] = IF b = Genesis THEN {Genesis} ELSE {b} \cup a[Parent[b]]
  <2> SUFFICES ASSUME NEW b \in Block
               PROVE  a[b] = IF b = Genesis THEN {Genesis} ELSE {b} \cup a[Parent[b]]
    OBVIOUS
  <2>1. b # Genesis => Parent[b] \in Block
    BY ParentIs, Zenon
  <2> QED
    BY <2>1, AncestorsAre, Zenon
<1>2. Eq(a)
  BY <1>1, Zenon
<1>3. Chain = CHOOSE f : Eq(f)
  BY DEF Chain
<1> HIDE DEF a
<1>4. Eq(Chain)
  BY <1>2, <1>3, Zenon
<1> QED
  BY <1>4, TreeAssumption, Zenon

(* A chain ends with its block and starts with genesis.                    *)
LEMMA ChainTyped ==
  ASSUME NEW b \in Block
  PROVE  Chain[b] \in SUBSET Block /\ b \in Chain[b] /\ Genesis \in Chain[b]
<1> DEFINE S == {c \in Block : /\ Chain[c] \in SUBSET Block
                               /\ c \in Chain[c] /\ Genesis \in Chain[c]}
<1>1. Genesis \in S
  <2>1. Genesis \in Block /\ Chain[Genesis] = {Genesis}
    BY ChainIs, TreeAssumption, Zenon
  <2> QED
    BY <2>1, Zenon
<1>2. ASSUME NEW c \in Block \ {Genesis}, Parent[c] \in S PROVE c \in S
  <2>1. Chain[c] = Chain[Parent[c]] \cup {c}
    BY ChainIs, Zenon
  <2> QED
    BY <1>2, <2>1, Zenon
<1> HIDE DEF S
<1>3. S \in SUBSET Block
  BY Zenon DEF S
<1>4. b \in S
  BY <1>1, <1>2, <1>3, TreeInduction, Zenon
<1> QED
  BY <1>4, Zenon DEF S

(* The blocks of a chain are ordered by their numbers, and the chain of    *)
(* one of them is the part up to it.                                       *)
LEMMA ChainBelow ==
  ASSUME NEW b \in Block, NEW x \in Chain[b]
  PROVE  /\ x \in Block /\ Number[x] \in Nat /\ Number[x] <= Number[b]
         /\ Number[x] = Number[b] => x = b
         /\ Chain[x] = Below(b, Number[x])
<1> DEFINE P(c, y) == /\ Number[y] <= Number[c]
                      /\ Number[y] = Number[c] => y = c
                      /\ Chain[y] = Below(c, Number[y])
           S == {c \in Block : \A y \in Chain[c] : P(c, y)}
<1>1. Genesis \in S
  <2>1. Chain[Genesis] = {Genesis} /\ Genesis \in Block /\ Number[Genesis] = 0
    BY ChainIs, TreeAssumption, Zenon
  <2>2. Below(Genesis, Number[Genesis]) = {Genesis}
    BY <2>1 DEF Below
  <2>3. Number[Genesis] <= Number[Genesis]
    BY <2>1
  <2> QED
    BY <2>1, <2>2, <2>3, Zenon
<1>2. ASSUME NEW c \in Block \ {Genesis}, Parent[c] \in S PROVE c \in S
  <2> DEFINE p == Parent[c]
  <2>1. /\ Chain[c] = {c} \cup Chain[p] /\ p \in Block /\ Number[p] \in Nat /\ Number[c] \in Nat
        /\ Number[c] = Number[p] + 1
    BY ChainIs, ParentIs, Zenon
  <2>2. ASSUME NEW y \in Chain[p]
        PROVE  y \in Block /\ Number[y] \in Nat /\ P(p, y) /\ Number[y] < Number[c]
    <3>1. y \in Block /\ Number[y] \in Nat /\ P(p, y)
      BY <1>2, <2>1, <2>2, ChainTyped, ParentIs, Zenon
    <3> QED
      BY <2>1, <3>1
  <2>3. ASSUME NEW y \in Chain[p] PROVE P(c, y)
    <3>1. Number[y] <= Number[c] /\ Number[y] # Number[c] /\ ~(Number[c] <= Number[y])
      BY <2>1, <2>2, <2>3
    <3>2. Below(c, Number[y]) = Below(p, Number[y])
      BY <2>1, <3>1, Zenon DEF Below
    <3>3. Chain[y] = Below(p, Number[y])
      BY <2>2, <2>3, Zenon
    <3> QED
      BY <3>1, <3>2, <3>3, Zenon
  <2>4. P(c, c)
    <3>1. Number[c] <= Number[c] /\ \A y \in Chain[p] : Number[y] <= Number[c]
      BY <2>1, <2>2
    <3>2. Below(c, Number[c]) = Chain[c]
      BY <2>1, <3>1, Zenon DEF Below
    <3> QED
      BY <3>1, <3>2, Zenon
  <2> QED
    BY <2>1, <2>3, <2>4, Zenon
<1> HIDE DEF S
<1>3. S \in SUBSET Block
  BY Zenon DEF S
<1>4. b \in S
  BY <1>1, <1>2, <1>3, TreeInduction, Zenon
<1>5. x \in Block /\ Number[x] \in Nat
  BY ChainTyped, ParentIs, Zenon
<1> QED
  BY <1>4, <1>5, Zenon DEF S

(* Every number up to that of a block belongs to one block of its chain.   *)
LEMMA ChainAt ==
  ASSUME NEW b \in Block, NEW n \in 0..Number[b]
  PROVE  \E x \in Chain[b] : Number[x] = n
<1> DEFINE S == {c \in Block : \A m \in 0..Number[c] : \E x \in Chain[c] : Number[x] = m}
<1>1. Genesis \in S
  <2>1. Chain[Genesis] = {Genesis} /\ Genesis \in Block /\ Number[Genesis] = 0
    BY ChainIs, TreeAssumption, Zenon
  <2>2. \A m \in 0..0 : m = 0
    OBVIOUS
  <2> QED
    BY <2>1, <2>2, Zenon
<1>2. ASSUME NEW c \in Block \ {Genesis}, Parent[c] \in S PROVE c \in S
  <2> DEFINE p == Parent[c]
  <2>1. /\ Chain[c] = {c} \cup Chain[p] /\ p \in Block /\ Number[p] \in Nat /\ Number[c] \in Nat
        /\ Number[c] = Number[p] + 1
    BY ChainIs, ParentIs, Zenon
  <2>2. \A m \in 0..Number[c] : m = Number[c] \/ m \in 0..Number[p]
    BY <2>1
  <2>3. ASSUME NEW m \in 0..Number[c] PROVE \E x \in Chain[c] : Number[x] = m
    BY <1>2, <2>1, <2>2, <2>3, Zenon
  <2> QED
    BY <2>3, Zenon
<1> HIDE DEF S
<1>3. S \in SUBSET Block
  BY Zenon DEF S
<1>4. b \in S
  BY <1>1, <1>2, <1>3, TreeInduction, Zenon
<1> QED
  BY <1>4, Zenon DEF S

(* A chain has one block of a number.                                      *)
LEMMA ChainOnce ==
  ASSUME NEW b \in Block, NEW x \in Chain[b], NEW y \in Chain[b], Number[x] = Number[y]
  PROVE  x = y
<1>1. Chain[x] = Below(b, Number[x]) /\ x \in Block
  BY ChainBelow, Zenon
<1>2. Number[y] <= Number[x]
  BY ChainBelow
<1>3. y \in Chain[x]
  BY <1>1, <1>2, Zenon DEF Below
<1> QED
  BY <1>1, <1>3, ChainBelow, Zenon

(* At is the block of that number on the chain.                            *)
LEMMA AtIs ==
  ASSUME NEW b \in Block, NEW n \in 0..Number[b]
  PROVE  /\ At(b, n) \in Chain[b] /\ At(b, n) \in Block /\ Number[At(b, n)] = n
         /\ \A x \in Chain[b] : Number[x] = n => x = At(b, n)
<1>1. At(b, n) \in Chain[b] /\ Number[At(b, n)] = n
  BY ChainAt, Zenon DEF At
<1> QED
  BY <1>1, ChainOnce, ChainTyped, Zenon

(* The numbers of the tree.                                                *)
LEMMA NumbersAre ==
  /\ 0 \in Numbers /\ Numbers \in SUBSET Nat
  /\ \A b \in Block : Number[b] \in Numbers
  /\ \A n \in Numbers : \A m \in 0..n : m \in Numbers
<1>1. 0 \in Numbers /\ Numbers \in SUBSET Nat /\ \A b \in Block : Number[b] \in Numbers
  BY TreeAssumption, ParentIs, Zenon DEF Numbers
<1>2. ASSUME NEW n \in Numbers, NEW m \in 0..n PROVE m \in Numbers
  <2>1. PICK b \in Block : n = Number[b]
    BY Zenon DEF Numbers
  <2>2. \E x \in Chain[b] : Number[x] = m
    BY <2>1, ChainAt, Zenon
  <2> QED
    BY <1>1, <2>2, ChainTyped, Zenon
<1> QED
  BY <1>1, <1>2, Zenon

(* SidePath is the part of the chain above its highest canonical block,    *)
(* and Ancestor is the number of that block.                               *)
LEMMA SidePathIs ==
  ASSUME NEW t, NEW b \in Block, IsCanonical(t, Genesis)
  PROVE  \E a \in Chain[b] : /\ IsCanonical(t, a) /\ SidePath(t, b) = Above(b, Number[a])
                             /\ Ancestor(t, b) = Number[a]
<1> DEFINE C == {y \in Chain[b] : IsCanonical(t, y)}
           K == {Number[y] : y \in C}
<1>1. Genesis \in C /\ Number[b] \in Nat
  BY ChainTyped, ParentIs, Zenon
<1>2. \A y \in Chain[b] : y \in Block /\ Number[y] \in Nat /\ Number[y] <= Number[b]
  BY ChainBelow, Zenon
<1>3. \A y \in C : Number[y] \in 0..Number[b]
  BY <1>1, <1>2
<1>4. K \in SUBSET (0..Number[b])
  BY <1>3, Zenon
<1>5. K # {}
  BY <1>1, Zenon
<1>6. PICK n \in K : \A m \in K : m <= n
  BY <1>1, <1>4, <1>5, GreatestOf, Zenon
<1>7. PICK a \in C : n = Number[a]
  BY <1>6, Zenon
<1>8. \A y \in C : Number[y] <= Number[a]
  BY <1>6, <1>7, Zenon
<1>9. a \in Chain[b] /\ IsCanonical(t, a) /\ Number[a] \in 0..Number[b]
  BY <1>3, <1>7, Zenon
<1>10. ASSUME NEW x \in SidePath(t, b) PROVE x \in Above(b, Number[a])
  <2>1. x \in Chain[b] /\ ~(Number[a] >= Number[x])
    BY <1>9, <1>10, Zenon DEF SidePath
  <2>2. Number[x] > Number[a]
    BY <1>2, <1>9, <2>1
  <2> QED
    BY <2>1, <2>2, Zenon DEF Above
<1>11. ASSUME NEW x \in Above(b, Number[a]) PROVE x \in SidePath(t, b)
  <2>1. x \in Chain[b] /\ Number[x] > Number[a]
    BY <1>11, Zenon DEF Above
  <2>2. ASSUME NEW y \in Chain[b], Number[y] >= Number[x] PROVE ~(Number[y] <= Number[a])
    BY <1>2, <1>9, <2>1, <2>2
  <2> QED
    BY <1>8, <2>1, <2>2, Zenon DEF SidePath
<1>12. SidePath(t, b) = Above(b, Number[a])
  BY <1>10, <1>11, Zenon
<1> DEFINE Ends(c) == /\ IsCanonical(t, c)
                      /\ \A x \in Chain[b] : Number[x] > Number[c] => x \in SidePath(t, b)
<1>13. Ends(a)
  BY <1>9, <1>12, Zenon DEF Above
<1>14. ASSUME NEW c \in Chain[b], Ends(c) PROVE Number[c] = Number[a]
  <2>1. Number[c] <= Number[a]
    BY <1>8, <1>14, Zenon
  <2>2. a \notin SidePath(t, b)
    <3>1. ~(Number[a] > Number[a])
      BY <1>9
    <3> QED
      BY <1>12, <3>1, Zenon DEF Above
  <2>3. ~(Number[a] > Number[c])
    BY <1>9, <1>14, <2>2, Zenon
  <2> QED
    BY <1>2, <1>9, <2>1, <2>3
<1>15. Ancestor(t, b) = Number[a]
  <2>1. Ancestor(t, b) = Number[CHOOSE c \in Chain[b] : Ends(c)]
    BY Zenon DEF Ancestor
  <2> HIDE DEF Ends
  <2>2. PICK c \in Chain[b] : c = (CHOOSE d \in Chain[b] : Ends(d)) /\ Ends(c)
    BY <1>9, <1>13, Zenon
  <2> QED
    BY <1>14, <2>1, <2>2, Zenon
<1> QED
  BY <1>9, <1>12, <1>15, Zenon

(* The common ancestor is not above the block.                             *)
LEMMA AncestorIs ==
  ASSUME NEW t, NEW b \in Block, IsCanonical(t, Genesis)
  PROVE  Ancestor(t, b) \in 0..Number[b] /\ Ancestor(t, b) \in Numbers
<1>1. PICK a \in Chain[b] : Ancestor(t, b) = Number[a]
  BY SidePathIs, Zenon
<1>2. Number[a] \in Nat /\ Number[a] <= Number[b] /\ a \in Block
  BY ChainBelow, Zenon
<1>3. Number[a] \in 0..Number[b]
  BY <1>2, ParentIs
<1> QED
  BY <1>1, <1>2, <1>3, NumbersAre, Zenon

(* The common ancestor depends on headers and canonical hashes only.       *)
LEMMA AncestorSame ==
  ASSUME NEW t, NEW u, NEW b, t.headers = u.headers, t.canonical = u.canonical
  PROVE  Ancestor(t, b) = Ancestor(u, b)
<1>1. \A x : IsCanonical(t, x) <=> IsCanonical(u, x)
  BY Zenon DEF IsCanonical, CanonicalAt
<1>2. SidePath(t, b) = SidePath(u, b)
  BY <1>1, Zenon DEF SidePath
<1> DEFINE P(v, a) == /\ IsCanonical(v, a)
                      /\ \A x \in Chain[b] : Number[x] > Number[a] => x \in SidePath(v, b)
<1>3. \A a : P(t, a) <=> P(u, a)
  BY <1>1, <1>2, Zenon
<1>4. /\ Ancestor(t, b) = Number[CHOOSE a \in Chain[b] : P(t, a)]
      /\ Ancestor(u, b) = Number[CHOOSE a \in Chain[b] : P(u, a)]
  BY Zenon DEF Ancestor
<1> HIDE DEF P
<1>5. (CHOOSE a \in Chain[b] : P(t, a)) = (CHOOSE a \in Chain[b] : P(u, a))
  BY <1>3
<1> QED
  BY <1>4, <1>5, Zenon

-----------------------------------------------------------------------------
(* The fields of views.                                                    *)
Good(t) == t \in Views /\ Filled(t)

(* The fields of a view of the database.                                   *)
LEMMA ViewIs ==
  ASSUME NEW t \in Views
  PROVE  /\ t.headers \in SUBSET Block /\ t.known \in SUBSET Block
         /\ t.canonical \in [Numbers -> Block \cup {None}]
         /\ t.state \in SUBSET Block /\ t.exec \in Numbers /\ t.finish \in Numbers
         /\ t.changesets \in SUBSET Block /\ t.headHeader \in Block /\ t.headBlock \in Block
         /\ t.safe \in Block \cup {None}
         /\ t.exec \in Nat /\ t.finish \in Nat
  BY NumbersAre, Zenon DEF Views

(* The lesser of two numbers.                                              *)
LEMMA MinIs ==
  ASSUME NEW a \in Nat, NEW b \in Nat
  PROVE  /\ Min(a, b) \in {a, b} /\ Min(a, b) \in Nat /\ Min(a, b) <= a /\ Min(a, b) <= b
         /\ a <= b => Min(a, b) = a
  BY DEF Min

(* RunUnwind.                                                              *)
LEMMA UnwoundIs ==
  ASSUME NEW t \in Views, NEW p \in Numbers
  PROVE  /\ Unwound(t, p) \in Views
         /\ Unwound(t, p).exec = Min(t.exec, p) /\ Unwound(t, p).finish = Min(t.finish, p)
         /\ Unwound(t, p).state = t.state \ {t.canonical[n] : n \in {m \in Numbers : m > p}}
         /\ Unwound(t, p).headers = t.headers /\ Unwound(t, p).canonical = t.canonical
         /\ Unwound(t, p).headHeader = t.headHeader /\ Unwound(t, p).headBlock = t.headBlock
<1> DEFINE S == {t.canonical[n] : n \in {m \in Numbers : m > p}}
<1>1. p \in Nat /\ t.exec \in Nat /\ t.finish \in Nat
  BY ViewIs, NumbersAre, Zenon
<1>2. Min(t.exec, p) \in Numbers /\ Min(t.finish, p) \in Numbers
  BY ViewIs, Zenon DEF Min
<1>3. t.state \ S \in SUBSET Block
  BY ViewIs, Zenon
<1>4. Unwound(t, p) = [t EXCEPT !.exec = Min(t.exec, p), !.finish = Min(t.finish, p),
                                !.state = t.state \ S]
  BY DEF Unwound, Views
<1> HIDE DEF S
<1>5. Unwound(t, p) \in Views
  BY <1>2, <1>3, <1>4, Zenon DEF Views
<1>6. /\ Unwound(t, p).exec = Min(t.exec, p) /\ Unwound(t, p).finish = Min(t.finish, p)
      /\ Unwound(t, p).state = t.state \ S
      /\ Unwound(t, p).headers = t.headers /\ Unwound(t, p).canonical = t.canonical
      /\ Unwound(t, p).headHeader = t.headHeader /\ Unwound(t, p).headBlock = t.headBlock
  BY <1>4 DEF Views
<1> QED
  BY <1>5, <1>6 DEF S

(* The canonical hashes of the new chain and its head header.              *)
Started(h) ==
  [WithCanonical(Unwound(db, Ancestor(db, h)), h) EXCEPT !.headHeader = h]

(* What a fork choice starts from, field by field.                         *)
LEMMA StartedIs ==
  ASSUME Good(db), NEW h \in Block
  PROVE  /\ Started(h) \in Views
         /\ Started(h).exec = Min(db.exec, Ancestor(db, h))
         /\ Started(h).finish = Min(db.finish, Ancestor(db, h))
         /\ Started(h).state = db.state \
              {db.canonical[n] : n \in {m \in Numbers : m > Ancestor(db, h)}}
         /\ Started(h).headers = db.headers
         /\ Started(h).headHeader = h /\ Started(h).headBlock = db.headBlock
         /\ \A n \in Numbers : Started(h).canonical[n] =
              IF Ancestor(db, h) < n /\ n <= Number[h] THEN At(h, n) ELSE db.canonical[n]
<1> DEFINE p == Ancestor(db, h)
           u == Unwound(db, p)
           c == [n \in Numbers |-> IF p < n /\ n <= Number[h] THEN At(h, n) ELSE u.canonical[n]]
<1>1. db \in Views /\ p \in Numbers
  BY AncestorIs, Zenon DEF Good, Filled
<1>2. /\ u \in Views /\ u.exec = Min(db.exec, p) /\ u.finish = Min(db.finish, p)
      /\ u.state = db.state \ {db.canonical[n] : n \in {m \in Numbers : m > p}}
      /\ u.headers = db.headers /\ u.canonical = db.canonical
      /\ u.headHeader = db.headHeader /\ u.headBlock = db.headBlock
  BY <1>1, UnwoundIs, Zenon
<1>3. Ancestor(u, h) = p
  BY <1>2, AncestorSame, Zenon
<1> HIDE DEF u
<1>4. WithCanonical(u, h) = [u EXCEPT !.canonical = c]
  BY <1>2, <1>3 DEF WithCanonical, Views
<1>5. ASSUME NEW n \in Numbers PROVE c[n] \in Block \cup {None}
  <2>1. n \in Nat /\ Number[h] \in Nat /\ p \in Nat /\ u.canonical[n] \in Block \cup {None}
    BY <1>1, <1>2, NumbersAre, ParentIs, ViewIs, Zenon
  <2>2. p < n /\ n <= Number[h] => n \in 0..Number[h]
    BY <2>1
  <2>3. p < n /\ n <= Number[h] => At(h, n) \in Block
    BY <2>2, AtIs, Zenon
  <2> QED
    BY <2>1, <2>3, Zenon
<1>6. c \in [Numbers -> Block \cup {None}]
  BY <1>5, Zenon
<1>7. \A n \in Numbers : c[n] = IF p < n /\ n <= Number[h] THEN At(h, n) ELSE u.canonical[n]
  BY Zenon
<1> HIDE DEF c
<1>8. Started(h) = [u EXCEPT !.canonical = c, !.headHeader = h]
  BY <1>2, <1>4 DEF Started, Views, u
<1>9. Started(h) \in Views
  BY <1>2, <1>6, <1>8, Zenon DEF Views
<1>10. /\ Started(h).exec = u.exec /\ Started(h).finish = u.finish /\ Started(h).state = u.state
       /\ Started(h).headers = u.headers /\ Started(h).headHeader = h
       /\ Started(h).headBlock = u.headBlock /\ Started(h).canonical = c
  BY <1>2, <1>8 DEF Views
<1> QED
  BY <1>2, <1>7, <1>9, <1>10, Zenon

(* Filled depends on canonical hashes, head header and genesis only.       *)
LEMMA FilledSame ==
  ASSUME NEW t, NEW u, Filled(t), Genesis \in u.headers, u.canonical = t.canonical,
         u.headHeader = t.headHeader
  PROVE  Filled(u)
  BY Zenon DEF Filled, IsCanonical, CanonicalAt

(* A fork choice starts with all numbers up to its head filled.            *)
LEMMA StartedFilled ==
  ASSUME Good(db), NEW h \in Block
  PROVE  Good(Started(h))
<1> DEFINE s == Started(h)
           p == Ancestor(db, h)
<1>1. /\ s \in Views /\ s.headers = db.headers /\ s.headHeader = h
      /\ \A n \in Numbers : s.canonical[n] =
              IF p < n /\ n <= Number[h] THEN At(h, n) ELSE db.canonical[n]
  BY StartedIs, Zenon
<1>2. PICK a \in Chain[h] : IsCanonical(db, a) /\ p = Number[a]
  BY SidePathIs, Zenon DEF Good, Filled
<1>3. /\ a \in Block /\ p \in Nat /\ Number[h] \in Nat /\ p \in Numbers /\ p <= Number[h]
      /\ Number[h] \in Numbers
  BY <1>2, ChainBelow, ParentIs, NumbersAre, Zenon
<1>4. db.canonical[p] # None
  BY <1>2, <1>3, TreeAssumption, Zenon DEF IsCanonical, CanonicalAt
<1> HIDE DEF s, p
<1>5. ASSUME NEW m \in Numbers, m <= Number[h] PROVE s.canonical[m] # None
  <2>1. m \in Nat
    BY NumbersAre, Zenon
  <2>2. CASE m <= p
    <3>1. ~(p < m)
      BY <1>3, <2>1, <2>2
    <3>2. db.canonical[m] # None
      BY <1>3, <1>4, <2>2, Zenon DEF Good, Filled
    <3> QED
      BY <1>1, <3>1, <3>2, Zenon
  <2>3. CASE ~(m <= p)
    <3>1. p < m /\ m \in 0..Number[h]
      BY <1>3, <1>5, <2>1, <2>3
    <3>2. At(h, m) \in Block
      BY <3>1, AtIs, Zenon
    <3> QED
      BY <1>1, <1>5, <3>1, <3>2, TreeAssumption, Zenon
  <2> QED
    BY <2>2, <2>3, Zenon
<1>6. ASSUME NEW m \in Numbers, NEW n \in Numbers, m <= n, s.canonical[n] # None
      PROVE  s.canonical[m] # None
  <2>1. CASE m <= Number[h]
    BY <1>5, <2>1, Zenon
  <2>2. CASE ~(m <= Number[h])
    <3>1. ~(n <= Number[h])
      <4>1. m \in Nat /\ n \in Nat
        BY NumbersAre, Zenon
      <4> QED
        BY <1>3, <1>6, <2>2, <4>1
    <3>2. s.canonical[m] = db.canonical[m] /\ s.canonical[n] = db.canonical[n]
      BY <1>1, <2>2, <3>1, Zenon
    <3> QED
      BY <1>6, <3>2, Zenon DEF Good, Filled
  <2> QED
    BY <2>1, <2>2, Zenon
<1>7. IsCanonical(s, Genesis)
  <2>1. 0 \in Numbers /\ Number[Genesis] = 0 /\ ~(p < 0)
    BY <1>3, NumbersAre, TreeAssumption
  <2>2. s.canonical[0] = db.canonical[0]
    BY <1>1, <2>1, Zenon
  <2> QED
    BY <1>1, <2>1, <2>2, Zenon DEF Good, Filled, IsCanonical, CanonicalAt
<1>8. s.canonical[Number[h]] # None
  <2>1. Number[h] <= Number[h]
    BY <1>3
  <2> QED
    BY <1>3, <1>5, <2>1, Zenon
<1>9. Filled(s)
  BY <1>1, <1>6, <1>7, <1>8, Zenon DEF Filled
<1> QED
  BY <1>1, <1>9, Zenon DEF Good, s

(* A view with other progress, state, changesets or head block.            *)
With(t, e, f, S, C, b) ==
  [t EXCEPT !.exec = e, !.finish = f, !.state = S, !.changesets = C, !.headBlock = b]

(* The fields of a view after a run.                                       *)
LEMMA WithIs ==
  ASSUME NEW t, Good(t), NEW e \in Numbers, NEW f \in Numbers, NEW S \in SUBSET Block,
         NEW C \in SUBSET Block, NEW b \in Block
  PROVE  /\ Good(With(t, e, f, S, C, b))
         /\ With(t, e, f, S, C, b).exec = e /\ With(t, e, f, S, C, b).finish = f
         /\ With(t, e, f, S, C, b).state = S /\ With(t, e, f, S, C, b).changesets = C
         /\ With(t, e, f, S, C, b).headBlock = b
         /\ With(t, e, f, S, C, b).headers = t.headers
         /\ With(t, e, f, S, C, b).canonical = t.canonical
         /\ With(t, e, f, S, C, b).headHeader = t.headHeader
<1> DEFINE u == With(t, e, f, S, C, b)
<1>0. t \in Views
  BY Zenon DEF Good
<1>1. u \in Views
  BY <1>0, Zenon DEF Views, With
<1>2. /\ u.exec = e /\ u.finish = f /\ u.state = S /\ u.changesets = C
      /\ u.headBlock = b /\ u.headers = t.headers /\ u.canonical = t.canonical
      /\ u.headHeader = t.headHeader
  BY <1>0 DEF Views, With
<1> HIDE DEF u
<1>3. Genesis \in t.headers
  BY Zenon DEF Good, Filled, IsCanonical
<1>4. Filled(u)
  BY <1>2, <1>3, FilledSame, Zenon DEF Good
<1> QED
  BY <1>1, <1>2, <1>4, Zenon DEF Good, u

(* What a run executes are blocks.                                         *)
LEMMA ToRunIs ==
  ASSUME Good(tx), tx.headHeader = call.head, NEW last \in LastBlocks
  PROVE  /\ ToRun(last) \in SUBSET Block
         /\ last \in Numbers /\ last \in Nat /\ tx.exec < last /\ last <= Number[call.head]
         /\ tx.canonical[last] \in Block
<1>0. /\ last \in Numbers /\ last \in Nat /\ tx.exec < last /\ last <= Number[call.head]
  BY NumbersAre, Zenon DEF LastBlocks
<1>1. /\ call.head \in Block /\ Number[call.head] \in Nat /\ Number[call.head] \in Numbers
      /\ tx.canonical \in [Numbers -> Block \cup {None}]
  BY ViewIs, ParentIs, NumbersAre, Zenon DEF Good
<1>2. ASSUME NEW m \in Numbers, m <= last PROVE tx.canonical[m] \in Block
  <2>1. m <= Number[call.head]
    <3>1. m \in Nat
      BY NumbersAre, Zenon
    <3> QED
      BY <1>0, <1>1, <1>2, <3>1
  <2>2. tx.canonical[m] # None
    BY <1>1, <2>1, Zenon DEF Good, Filled
  <2> QED
    BY <1>1, <2>2, Zenon
<1>3. last <= last
  BY <1>0
<1> QED
  BY <1>0, <1>2, <1>3, Zenon DEF ToRun

(* Changesets are of blocks.                                               *)
LEMMA ChangesetsAre ==
  ASSUME NEW n, NEW S \in SUBSET Block
  PROVE  Changesets(n, S) \in SUBSET Block
  BY TreeAssumption, Zenon DEF Changesets

-----------------------------------------------------------------------------
(* The type invariant.                                                     *)
Fvs == [height : Numbers, ext : Block \cup {None}, from : Numbers,
        ran : SUBSET Block, valid : SUBSET Block]

Calls == [kind : {"none", "forkchoice", "validate"},
          head : Block \cup {None}, safe : Block \cup {None},
          reply : Statuses, outcome : Statuses]

(* clear of the ForkValidator.                                             *)
LEMMA ClearedIs ==
  ASSUME fv \in Fvs
  PROVE  /\ Cleared(fv) \in Fvs
         /\ Cleared(fv).ext = None /\ Cleared(fv).ran = {} /\ Cleared(fv).valid = fv.valid
<1>1. 0 \in Numbers
  BY NumbersAre
<1>2. Cleared(fv) \in Fvs
  BY <1>1, Zenon DEF Cleared, Fvs
<1>3. Cleared(fv).ext = None /\ Cleared(fv).ran = {} /\ Cleared(fv).valid = fv.valid
  BY DEF Cleared, Fvs
<1> QED
  BY <1>2, <1>3

(* A request, before it is answered.                                       *)
LEMMA RequestIs ==
  ASSUME NEW kind \in {"forkchoice", "validate"}, NEW h \in Block, NEW s \in Block \cup {None}
  PROVE  /\ Request(kind, h, s) \in Calls /\ Request(kind, h, s).head = h
         /\ Request(kind, h, s).reply = "none" /\ Request(kind, h, s).outcome = "none"
<1>1. NoCall \in Calls /\ NoCall.reply = "none" /\ NoCall.outcome = "none"
  BY DEF NoCall, Calls, Statuses
<1>2. Request(kind, h, s) \in Calls
  BY <1>1, Zenon DEF Request, Calls
<1>3. /\ Request(kind, h, s).head = h
      /\ Request(kind, h, s).reply = "none" /\ Request(kind, h, s).outcome = "none"
  BY <1>1 DEF Request, Calls
<1> QED
  BY <1>2, <1>3

(* The first answer is the one the client gets.                            *)
LEMMA AnswerIs ==
  ASSUME NEW c \in Calls, NEW st \in Statuses
  PROVE  /\ Answer(c, st) \in Calls /\ Answer(c, st).head = c.head
         /\ Answer(c, st).outcome = st
         /\ Answer(c, st).reply = IF c.reply = "none" THEN st ELSE c.reply
<1> DEFINE r == IF c.reply = "none" THEN st ELSE c.reply
<1>1. r \in Statuses
  BY DEF Calls
<1>2. Answer(c, st) = [c EXCEPT !.reply = r, !.outcome = st]
  BY DEF Answer, Calls
<1> HIDE DEF r
<1>3. Answer(c, st) \in Calls
  BY <1>1, <1>2, Zenon DEF Calls
<1>4. Answer(c, st).head = c.head /\ Answer(c, st).outcome = st /\ Answer(c, st).reply = r
  BY <1>2 DEF Calls
<1> QED
  BY <1>3, <1>4 DEF r

(* FinishForward.                                                          *)
LEMMA FinishIs ==
  ASSUME NEW t, Good(t), fv \in Fvs, FinishAt(t)
  PROVE  /\ Good(tx') /\ tx'.headHeader = t.headHeader /\ tx'.exec = t.exec
         /\ tx'.state = t.state /\ tx'.headers = t.headers /\ tx'.canonical = t.canonical
         /\ t.exec > t.finish => tx'.headBlock = t.headHeader
         /\ ~(t.exec > t.finish) => tx'.headBlock = t.headBlock
         /\ fv' \in Fvs
         /\ fv' = fv \/ (fv'.ext = None /\ fv'.ran = {} /\ fv'.valid = fv.valid)
<1>1. t \in Views /\ t.exec \in Numbers /\ t.headHeader \in Block
  BY ViewIs, Zenon DEF Good
<1>2. CASE t.exec > t.finish
  <2> DEFINE u == With(t, t.exec, t.exec, t.state, t.changesets, t.headHeader)
  <2>1. [t EXCEPT !.finish = t.exec, !.headBlock = t.headHeader] = u
    BY <1>1, Zenon DEF Views, With
  <2>2. tx' = u
    BY <1>2, <2>1, Zenon DEF FinishAt
  <2>3. t.state \in SUBSET Block /\ t.changesets \in SUBSET Block
    BY <1>1, ViewIs, Zenon
  <2>4. /\ Good(u) /\ u.exec = t.exec /\ u.state = t.state
        /\ u.headBlock = t.headHeader /\ u.headers = t.headers /\ u.canonical = t.canonical
        /\ u.headHeader = t.headHeader
    BY <1>1, <2>3, WithIs
  <2> HIDE DEF u
  <2>5. CASE fv.height # t.exec
    <3>1. fv' = [Cleared(fv) EXCEPT !.height = t.exec]
      BY <1>2, <2>5, Zenon DEF FinishAt
    <3>2. fv' \in Fvs
      BY <1>1, <3>1, ClearedIs, Zenon DEF Fvs
    <3>3. fv'.ext = None /\ fv'.ran = {} /\ fv'.valid = fv.valid
      BY <3>1, ClearedIs DEF Fvs
    <3> QED
      BY <1>2, <2>2, <2>4, <3>2, <3>3
  <2>6. CASE fv.height = t.exec
    <3>1. fv' = fv
      BY <2>6, Zenon DEF FinishAt
    <3> QED
      BY <1>2, <2>2, <2>4, <3>1
  <2> QED
    BY <2>5, <2>6
<1>3. CASE ~(t.exec > t.finish)
  <2>1. tx' = t /\ fv' = fv
    BY <1>3, Zenon DEF FinishAt
  <2> QED
    BY <1>3, <2>1
<1> QED
  BY <1>2, <1>3

(* The halving of handleIncorrectRootHashError stays within the batch.     *)
LEMMA HalvedIs ==
  ASSUME NEW last \in Nat, last > 0, NEW x \in Nat
  PROVE  last - Max(1, (last - x) \div 2) \in 0..last
<1>1. (last - x) \div 2 \in Int /\ 2 * ((last - x) \div 2) <= last - x
  OBVIOUS
<1>2. (last - x) \div 2 <= last
  BY <1>1
<1> QED
  BY <1>1, <1>2 DEF Max

(* CanUnwindToBlockNum is a number.                                        *)
LEMMA LowestIs ==
  ASSUME NEW t \in Views
  PROVE  Lowest(t) \in Nat
<1>1. CASE t.changesets = {}
  BY <1>1, ViewIs, Zenon DEF Lowest
<1>2. CASE t.changesets # {}
  <2> DEFINE K == {Number[b] : b \in t.changesets}
  <2>1. \A b \in t.changesets : Number[b] \in Nat
    BY ViewIs, ParentIs, Zenon
  <2>2. K \in SUBSET Nat
    BY <2>1, Zenon
  <2>3. K # {}
    BY <1>2, Zenon
  <2>4. \E n \in K : \A m \in K : n <= m
    BY <2>2, <2>3, LeastOf, Zenon
  <2>5. \E n \in K : \A b \in t.changesets : n <= Number[b]
    BY <2>4, Zenon
  <2>6. Lowest(t) \in K
    BY <1>2, <2>5, Zenon DEF Lowest
  <2> QED
    BY <2>2, <2>6, Zenon
<1> QED
  BY <1>1, <1>2, Zenon

(* The parts of the type invariant that a step may change.                 *)
Places == {"idle", "run", "batch", "end", "validate", "answered"}

(* The type invariant after a step, from its parts.                        *)
LEMMA TypeParts ==
  ASSUME Good(db'), Good(tx'), writer' \in {"none", "handler", "leaked"}, fv' \in Fvs,
         pc' \in Places, call' \in Calls, firstTx' \in BOOLEAN,
         prune' \in {"none", "spawned", "waiting"},
         pc' \in {"run", "batch", "end"} =>
           call'.head \in Block \ {Genesis} /\ tx'.headHeader = call'.head,
         pc' = "validate" => call'.head \in Block \ {Genesis}
  PROVE  TypeInv'
<1>1. TypeOK'
  BY Zenon DEF Good, TypeOK, Views, Fvs, Calls, Places
<1>2. Filled(db)' /\ Filled(tx)'
  BY Zenon DEF Good, Filled, IsCanonical, CanonicalAt
<1> QED
  BY <1>1, <1>2, Zenon DEF TypeInv

(* The type invariant, part by part.                                       *)
LEMMA TypeIs ==
  ASSUME TypeInv
  PROVE  /\ Good(db) /\ Good(tx) /\ writer \in {"none", "handler", "leaked"} /\ fv \in Fvs
         /\ pc \in Places /\ call \in Calls /\ firstTx \in BOOLEAN
         /\ prune \in {"none", "spawned", "waiting"}
         /\ pc \in {"run", "batch", "end"} =>
              call.head \in Block \ {Genesis} /\ tx.headHeader = call.head
         /\ pc = "validate" => call.head \in Block \ {Genesis}
  BY Zenon DEF TypeInv, TypeOK, Good, Fvs, Calls, Places

(* The steps of a run, field by field.                                     *)
LEMMA RunExecutesIs ==
  ASSUME TypeInv, RunExecutes
  PROVE  /\ Good(tx') /\ tx'.headHeader = call.head /\ tx'.headers = tx.headers
         /\ tx'.canonical = tx.canonical /\ pc = "run"
         /\ fv' \in Fvs
         /\ fv' = fv \/ (fv'.ext = None /\ fv'.ran = {} /\ fv'.valid = fv.valid)
         /\ \E last \in LastBlocks :
              /\ \A b \in ToRun(last) : Defect[b] # "invalid"
              /\ RootMatches(last)
              /\ tx'.exec = last /\ tx'.state = tx.state \cup ToRun(last)
              /\ last > tx.finish => tx'.headBlock = call.head
              /\ pc' = IF last < Number[call.head] THEN "batch" ELSE "end"
<1>0. pc = "run" /\ Good(tx) /\ tx \in Views /\ tx.headHeader = call.head /\ fv \in Fvs
  BY TypeIs, Zenon DEF RunExecutes, Good
<1>1. PICK last \in LastBlocks :
        /\ \A b \in ToRun(last) : Defect[b] # "invalid"
        /\ RootMatches(last)
        /\ FinishAt([tx EXCEPT !.exec = last, !.state = @ \cup ToRun(last),
                      !.changesets = @ \cup Changesets(tx.exec, ToRun(last))])
        /\ pc' = IF last < Number[call.head] THEN "batch" ELSE "end"
  BY Zenon DEF RunExecutes
<1>2. ToRun(last) \in SUBSET Block /\ last \in Numbers
  BY <1>0, ToRunIs, Zenon
<1> DEFINE S == tx.state \cup ToRun(last)
           C == tx.changesets \cup Changesets(tx.exec, ToRun(last))
           u == With(tx, last, tx.finish, S, C, tx.headBlock)
<1>3. /\ S \in SUBSET Block /\ tx.finish \in Numbers /\ tx.headBlock \in Block
  BY <1>0, <1>2, ViewIs, Zenon
<1>4. C \in SUBSET Block
  BY <1>0, <1>2, ViewIs, ChangesetsAre, Zenon
<1>5. [tx EXCEPT !.exec = last, !.state = @ \cup ToRun(last),
                 !.changesets = @ \cup Changesets(tx.exec, ToRun(last))] = u
  BY <1>0, Zenon DEF Views, With
<1> HIDE DEF S, C
<1>6. /\ Good(u) /\ u.exec = last /\ u.finish = tx.finish /\ u.state = S /\ u.headers = tx.headers
      /\ u.canonical = tx.canonical /\ u.headHeader = tx.headHeader
  BY <1>0, <1>2, <1>3, <1>4, WithIs
<1>7. FinishAt(u)
  BY <1>1, <1>5, Zenon
<1> HIDE DEF u
<1>8. /\ Good(tx') /\ tx'.headHeader = u.headHeader /\ tx'.exec = u.exec
      /\ tx'.state = u.state /\ tx'.headers = u.headers /\ tx'.canonical = u.canonical
      /\ u.exec > u.finish => tx'.headBlock = u.headHeader
      /\ fv' \in Fvs
      /\ fv' = fv \/ (fv'.ext = None /\ fv'.ran = {} /\ fv'.valid = fv.valid)
  BY <1>0, <1>6, <1>7, FinishIs, Zenon
<1>9. tx'.state = tx.state \cup ToRun(last)
  BY <1>6, <1>8 DEF S
<1>10. last > tx.finish => tx'.headBlock = call.head
  BY <1>0, <1>6, <1>8, Zenon
<1> QED
  BY <1>0, <1>1, <1>6, <1>8, <1>9, <1>10, Zenon

(* Nothing is left to execute.                                             *)
LEMMA RunNothingIs ==
  ASSUME TypeInv, RunNothing
  PROVE  /\ Good(tx') /\ tx'.headHeader = call.head /\ tx'.headers = tx.headers
         /\ tx'.canonical = tx.canonical /\ tx'.exec = tx.exec /\ tx'.state = tx.state
         /\ tx.exec > tx.finish => tx'.headBlock = call.head
         /\ pc = "run" /\ pc' = "end" /\ tx.exec >= Number[call.head]
         /\ fv' \in Fvs
         /\ fv' = fv \/ (fv'.ext = None /\ fv'.ran = {} /\ fv'.valid = fv.valid)
<1>0. pc = "run" /\ pc' = "end" /\ tx.exec >= Number[call.head] /\ FinishAt(tx)
  BY Zenon DEF RunNothing
<1>1. Good(tx) /\ tx.headHeader = call.head /\ fv \in Fvs
  BY <1>0, TypeIs, Zenon
<1>2. /\ Good(tx') /\ tx'.headHeader = tx.headHeader /\ tx'.exec = tx.exec
      /\ tx'.state = tx.state /\ tx'.headers = tx.headers /\ tx'.canonical = tx.canonical
      /\ tx.exec > tx.finish => tx'.headBlock = tx.headHeader
      /\ fv' \in Fvs
      /\ fv' = fv \/ (fv'.ext = None /\ fv'.ran = {} /\ fv'.valid = fv.valid)
  BY <1>0, <1>1, FinishIs, Zenon
<1> QED
  BY <1>0, <1>1, <1>2, Zenon

(* An invalid block or a wrong root leaves state and HeadBlockHash alone.  *)
LEMMA RunFailsIs ==
  ASSUME TypeInv, RunMeetsInvalidBlock \/ RunMeetsWrongRoot
  PROVE  /\ Good(tx') /\ tx'.headHeader = call.head /\ tx'.headers = tx.headers
         /\ tx'.canonical = tx.canonical /\ tx'.state = tx.state
         /\ tx'.headBlock = tx.headBlock /\ pc = "run" /\ fv' = fv
         /\ \E last \in LastBlocks :
              /\ (\E b \in ToRun(last) : Defect[b] = "invalid") \/ ~RootMatches(last)
              /\ pc' = "end" \/ (pc' = "batch" /\ last < Number[call.head])
<1>0. pc = "run" /\ Good(tx) /\ tx \in Views /\ tx.headHeader = call.head /\ fv' = fv
  BY TypeIs, Zenon DEF RunMeetsInvalidBlock, RunMeetsWrongRoot, Good
<1>v. /\ tx.exec \in Numbers /\ tx.exec \in Nat /\ tx.finish \in Numbers /\ tx.finish \in Nat
      /\ tx.state \in SUBSET Block /\ tx.changesets \in SUBSET Block /\ tx.headBlock \in Block
  BY <1>0, ViewIs, Zenon
<1>1. CASE RunMeetsInvalidBlock
  <2> DEFINE invalid(n) == {b \in ToRun(n) : Defect[b] = "invalid"}
             before(n) == {b \in ToRun(n) : \A x \in invalid(n) : Number[b] < Number[x]}
  <2>1. PICK last \in LastBlocks :
          /\ invalid(last) # {}
          /\ tx' = [tx EXCEPT !.changesets = @ \cup Changesets(tx.exec, before(last))]
          /\ pc' = "end"
    BY <1>1, Zenon DEF RunMeetsInvalidBlock
  <2>2. before(last) \in SUBSET Block
    BY <1>0, ToRunIs, Zenon
  <2> DEFINE C == tx.changesets \cup Changesets(tx.exec, before(last))
  <2>3. C \in SUBSET Block
    BY <1>v, <2>2, ChangesetsAre, Zenon
  <2>4. tx' = With(tx, tx.exec, tx.finish, tx.state, C, tx.headBlock)
    BY <1>0, <2>1, Zenon DEF Views, With
  <2> HIDE DEF C
  <2>5. /\ Good(tx') /\ tx'.headHeader = tx.headHeader /\ tx'.headers = tx.headers
        /\ tx'.canonical = tx.canonical /\ tx'.state = tx.state /\ tx'.headBlock = tx.headBlock
    BY <1>0, <1>v, <2>3, <2>4, WithIs
  <2>6. \E b \in ToRun(last) : Defect[b] = "invalid"
    BY <2>1, Zenon
  <2> QED
    BY <1>0, <2>1, <2>5, <2>6, Zenon
<1>2. CASE RunMeetsWrongRoot
  <2> DEFINE t(n) == [tx EXCEPT !.changesets = @ \cup Changesets(tx.exec, ToRun(n))]
             to(n) == n - Max(1, (n - Max(tx.exec, Lowest(t(n)))) \div 2)
  <2>1. PICK last \in LastBlocks :
          /\ ~RootMatches(last)
          /\ tx' = [t(last) EXCEPT !.exec = to(last), !.finish = Min(@, to(last))]
          /\ pc' = "end" \/ (pc' = "batch" /\ last < Number[call.head])
    BY <1>2, Zenon DEF RunMeetsWrongRoot
  <2>2. /\ ToRun(last) \in SUBSET Block /\ last \in Nat /\ last \in Numbers /\ tx.exec < last
    BY <1>0, ToRunIs, Zenon
  <2> DEFINE C == tx.changesets \cup Changesets(tx.exec, ToRun(last))
             u == With(tx, tx.exec, tx.finish, tx.state, C, tx.headBlock)
  <2>3. C \in SUBSET Block
    BY <1>v, <2>2, ChangesetsAre, Zenon
  <2>4. t(last) = u
    BY <1>0, Zenon DEF Views, With
  <2>u. Good(u)
    <3> HIDE DEF C
    <3> QED
      BY <1>0, <1>v, <2>3, WithIs
  <2>5. Lowest(t(last)) \in Nat
    BY <2>4, <2>u, LowestIs, Zenon DEF Good
  <2> DEFINE x == Max(tx.exec, Lowest(t(last)))
             e == to(last)
  <2>6. x \in Nat /\ last > 0
    BY <1>v, <2>2, <2>5 DEF Max
  <2> HIDE DEF x
  <2>7. last - Max(1, (last - x) \div 2) \in 0..last
    BY <2>2, <2>6, HalvedIs, Zenon
  <2>8. e \in 0..last
    BY <2>7 DEF x
  <2>9. e \in Numbers
    BY <2>2, <2>8, NumbersAre, Zenon
  <2> DEFINE f == Min(tx.finish, e)
  <2>10. f \in Numbers
    BY <1>v, <2>9, Zenon DEF Min
  <2> HIDE DEF e
  <2>11. tx' = With(tx, e, f, tx.state, C, tx.headBlock)
    <3>1. tx' = [t(last) EXCEPT !.exec = e, !.finish = Min(@, e)]
      BY <2>1 DEF e
    <3>2. tx' = [u EXCEPT !.exec = e, !.finish = Min(@, e)]
      BY <2>4, <3>1, Zenon
    <3> HIDE DEF C
    <3> QED
      BY <1>0, <3>2, Zenon DEF Views, With
  <2> HIDE DEF C, f
  <2>12. /\ Good(tx') /\ tx'.headHeader = tx.headHeader /\ tx'.headers = tx.headers
         /\ tx'.canonical = tx.canonical /\ tx'.state = tx.state /\ tx'.headBlock = tx.headBlock
    BY <1>0, <1>v, <2>3, <2>9, <2>10, <2>11, WithIs
  <2> QED
    BY <1>0, <2>1, <2>12, Zenon
<1> QED
  BY <1>1, <1>2, Zenon

(* The steps that commit, field by field.                                  *)
LEMMA PrunedIs ==
  ASSUME NEW t, Good(t)
  PROVE  /\ Good(Pruned(t)) /\ Pruned(t).exec = t.exec /\ Pruned(t).state = t.state
         /\ Pruned(t).headers = t.headers /\ Pruned(t).canonical = t.canonical
         /\ Pruned(t).headHeader = t.headHeader /\ Pruned(t).headBlock = t.headBlock
<1> DEFINE C == {b \in t.changesets : Number[b] + MaxReorgDepth >= t.exec}
<1>1. t \in Views
  BY Zenon DEF Good
<1>2. /\ t.exec \in Numbers /\ t.finish \in Numbers /\ t.state \in SUBSET Block
      /\ C \in SUBSET Block /\ t.headBlock \in Block
  BY <1>1, ViewIs, Zenon
<1>3. Pruned(t) = With(t, t.exec, t.finish, t.state, C, t.headBlock)
  BY <1>1, Zenon DEF Pruned, With, Views
<1> HIDE DEF C
<1> QED
  BY <1>2, <1>3, WithIs

(* Only the headers change when a bad chain is purged.                     *)
LEMMA HeadersAre ==
  ASSUME NEW t, Good(t), NEW H \in SUBSET Block, Genesis \in H
  PROVE  LET u == [t EXCEPT !.headers = H]
         IN  /\ Good(u) /\ u.exec = t.exec /\ u.state = t.state /\ u.headers = H
             /\ u.canonical = t.canonical /\ u.headHeader = t.headHeader
             /\ u.headBlock = t.headBlock
<1> DEFINE u == [t EXCEPT !.headers = H]
<1>1. t \in Views
  BY Zenon DEF Good
<1>2. u \in Views
  BY <1>1, Zenon DEF Views
<1>3. /\ u.exec = t.exec /\ u.state = t.state /\ u.headers = H
      /\ u.canonical = t.canonical /\ u.headHeader = t.headHeader /\ u.headBlock = t.headBlock
  BY <1>1 DEF Views
<1> HIDE DEF u
<1>4. Filled(u)
  BY <1>3, FilledSame, Zenon DEF Good
<1> QED
  BY <1>2, <1>3, <1>4 DEF Good, u

(* InsertBlocks adds a header.                                             *)
LEMMA InsertedIs ==
  ASSUME NEW t, Good(t), NEW b \in Block
  PROVE  LET u == [t EXCEPT !.headers = @ \cup {b}, !.known = @ \cup {b}]
         IN  /\ Good(u) /\ u.exec = t.exec /\ u.state = t.state /\ u.headers = t.headers \cup {b}
             /\ u.canonical = t.canonical /\ u.headHeader = t.headHeader
             /\ u.headBlock = t.headBlock
<1> DEFINE u == [t EXCEPT !.headers = @ \cup {b}, !.known = @ \cup {b}]
<1>1. t \in Views /\ Genesis \in t.headers
  BY Zenon DEF Good, Filled, IsCanonical
<1>2. t.headers \cup {b} \in SUBSET Block /\ t.known \cup {b} \in SUBSET Block
  BY <1>1, ViewIs, Zenon
<1>3. u = [t EXCEPT !.headers = t.headers \cup {b}, !.known = t.known \cup {b}]
  BY <1>1 DEF Views
<1>4. u \in Views
  BY <1>1, <1>2, <1>3, Zenon DEF Views
<1>5. /\ u.exec = t.exec /\ u.state = t.state /\ u.headers = t.headers \cup {b}
      /\ u.canonical = t.canonical /\ u.headHeader = t.headHeader /\ u.headBlock = t.headBlock
  BY <1>1 DEF Views
<1> HIDE DEF u
<1>6. Filled(u)
  BY <1>1, <1>5, FilledSame, Zenon DEF Good
<1> QED
  BY <1>4, <1>5, <1>6 DEF Good, u

(* The commit of a fork choice.                                            *)
LEMMA SuccessIs ==
  ASSUME TypeInv, ForkChoiceSuccess
  PROVE  /\ Good(db') /\ tx' = db' /\ db'.exec = tx.exec /\ db'.state = tx.state
         /\ db'.headers = tx.headers /\ db'.headHeader = call.head /\ db'.headBlock = call.head
         /\ \A n \in Numbers : db'.canonical[n] = IF n > Number[call.head] THEN None ELSE tx.canonical[n]
         /\ pc = "end" /\ tx.headBlock = call.head
         /\ fv' = Cleared(fv) /\ pc' = "answered" /\ call' \in {Answer(call, "Success"), Answer(call, "Error")}
<1> DEFINE h == call.head
           s == IF call.safe = None THEN tx.safe ELSE call.safe
           c == [m \in Numbers |-> IF m > Number[h] THEN None ELSE tx.canonical[m]]
<1>0. /\ pc = "end" /\ tx.headBlock = h /\ tx' = db' /\ fv' = Cleared(fv) /\ pc' = "answered"
      /\ db' = [tx EXCEPT !.safe = IF call.safe = None THEN @ ELSE call.safe,
                          !.canonical = Truncated(@, Number[call.head])]
      /\ call' \in {Answer(call, "Success"), Answer(call, "Error")}
  BY Zenon DEF ForkChoiceSuccess
<1>1. Good(tx) /\ tx \in Views /\ h \in Block /\ tx.headHeader = h /\ call \in Calls
  BY <1>0, TypeIs, Zenon DEF Good
<1>2. s \in Block \cup {None}
  BY <1>1, ViewIs DEF Calls
<1>3. \A n \in Numbers : c[n] = IF n > Number[h] THEN None ELSE tx.canonical[n]
  BY Zenon
<1>4. c \in [Numbers -> Block \cup {None}]
  BY <1>1, ViewIs
<1>5. db' = [tx EXCEPT !.safe = s, !.canonical = c]
  BY <1>0, <1>1 DEF Truncated, Views
<1> HIDE DEF s, c
<1>6. db' \in Views
  BY <1>1, <1>2, <1>4, <1>5, Zenon DEF Views
<1>7. /\ db'.exec = tx.exec /\ db'.state = tx.state /\ db'.headers = tx.headers
      /\ db'.headHeader = tx.headHeader /\ db'.headBlock = tx.headBlock /\ db'.canonical = c
  BY <1>1, <1>5 DEF Views
<1>8. 0 \in Numbers /\ Number[Genesis] = 0 /\ Number[h] \in Nat /\ Number[h] \in Numbers
      /\ ~(0 > Number[h]) /\ ~(Number[h] > Number[h])
  BY <1>1, NumbersAre, ParentIs, TreeAssumption
<1>9. ASSUME NEW m \in Numbers, NEW n \in Numbers, m <= n, c[n] # None PROVE c[m] # None
  <2>1. ~(n > Number[h]) /\ tx.canonical[n] # None
    BY <1>3, <1>9, Zenon
  <2>2. ~(m > Number[h])
    <3>1. m \in Nat /\ n \in Nat
      BY NumbersAre, Zenon
    <3> QED
      BY <1>8, <1>9, <2>1, <3>1
  <2>3. tx.canonical[m] # None
    BY <1>1, <1>9, <2>1, Zenon DEF Good, Filled
  <2> QED
    BY <1>3, <2>2, <2>3, Zenon
<1>10. Filled(db')
  <2>1. c[0] = tx.canonical[0] /\ c[Number[h]] = tx.canonical[Number[h]]
    BY <1>3, <1>8, Zenon
  <2>2. IsCanonical(db', Genesis)
    BY <1>1, <1>7, <1>8, <2>1, Zenon DEF Good, Filled, IsCanonical, CanonicalAt
  <2>3. c[Number[h]] # None
    BY <1>1, <2>1, Zenon DEF Good, Filled
  <2> QED
    BY <1>1, <1>7, <1>9, <2>2, <2>3, Zenon DEF Filled
<1> QED
  BY <1>0, <1>1, <1>3, <1>6, <1>7, <1>10, Zenon DEF Good

(* A fork choice starts, with or without a fork that is flushed.           *)
LEMMA StartsIs ==
  ASSUME TypeInv, NEW h \in Block \ {Genesis}, NEW safe \in SafeHashes,
         tx' = IF fv.ext = h THEN Flushed(Started(h), h) ELSE Started(h)
  PROVE  /\ Good(tx') /\ tx'.headHeader = h /\ tx'.headers = db.headers
         /\ tx'.canonical = Started(h).canonical /\ tx'.headBlock = db.headBlock
         /\ tx'.finish = Started(h).finish
         /\ fv.ext = h => tx'.exec = Number[h] /\ tx'.state = Started(h).state \cup fv.ran
         /\ fv.ext # h => tx'.exec = Started(h).exec /\ tx'.state = Started(h).state
<1> DEFINE s == Started(h)
           C == s.changesets \cup Changesets(fv.from, fv.ran)
           S == s.state \cup fv.ran
<1>1. Good(db) /\ fv \in Fvs /\ Number[h] \in Numbers
  BY TypeIs, NumbersAre, Zenon
<1>2. Good(s) /\ s \in Views /\ s.headHeader = h /\ s.headers = db.headers /\ s.headBlock = db.headBlock
  BY <1>1, StartedFilled, StartedIs, Zenon DEF Good
<1> HIDE DEF s
<1>3. CASE fv.ext = h
  <2>1. fv.ran \in SUBSET Block
    BY <1>1 DEF Fvs
  <2>2. S \in SUBSET Block /\ s.finish \in Numbers /\ s.headBlock \in Block
    BY <1>2, <2>1, ViewIs, Zenon
  <2>3. C \in SUBSET Block
    BY <1>2, <2>1, ViewIs, ChangesetsAre, Zenon
  <2>4. Flushed(s, h) = With(s, Number[h], s.finish, S, C, s.headBlock)
    BY <1>2, Zenon DEF Flushed, With, Views
  <2>5. tx' = With(s, Number[h], s.finish, S, C, s.headBlock)
    BY <1>3, <2>4, Zenon DEF s
  <2> HIDE DEF S, C
  <2>6. /\ Good(tx') /\ tx'.headHeader = s.headHeader /\ tx'.headers = s.headers
        /\ tx'.canonical = s.canonical /\ tx'.headBlock = s.headBlock
        /\ tx'.finish = s.finish /\ tx'.exec = Number[h] /\ tx'.state = S
    BY <1>1, <1>2, <2>2, <2>3, <2>5, WithIs
  <2> QED
    BY <1>2, <1>3, <2>6, Zenon DEF s, S
<1>4. CASE fv.ext # h
  <2>1. tx' = s
    BY <1>4, Zenon DEF s
  <2> QED
    BY <1>2, <1>4, <2>1, Zenon DEF s
<1> QED
  BY <1>3, <1>4, Zenon

(* purgeBadChain deletes headers above a block that was executed: genesis  *)
(* stays.                                                                  *)
LEMMA PurgedIs ==
  ASSUME Good(db), call.head \in Block, NEW x \in Block, FailsAt(x)
  PROVE  /\ PurgeBadChain(ProgressAtFailure(x)) \in SUBSET db.headers
         /\ Genesis \in PurgeBadChain(ProgressAtFailure(x))
         /\ db.headBlock \in db.headers => db.headBlock \in PurgeBadChain(ProgressAtFailure(x))
<1>1. db \in Views /\ Genesis \in db.headers /\ IsCanonical(db, Genesis) /\ Number[Genesis] = 0
  BY TreeAssumption, Zenon DEF Good, Filled, IsCanonical
<1>2. Ancestor(db, call.head) \in Nat /\ db.exec \in Nat /\ Number[x] \in Nat
  <2>1. Ancestor(db, call.head) \in 0..Number[call.head]
    BY <1>1, AncestorIs, Zenon
  <2>2. Ancestor(db, call.head) \in Nat
    BY <2>1, ParentIs
  <2> QED
    BY <1>1, <2>2, ViewIs, ParentIs, Zenon
<1> DEFINE n == ProgressAtFailure(x)
<1>3. n \in Nat
  BY <1>2 DEF ProgressAtFailure
<1> HIDE DEF n
<1>4. ~(Number[Genesis] > n)
  BY <1>1, <1>3
<1>5. Genesis \in PurgeBadChain(n) /\ PurgeBadChain(n) \in SUBSET db.headers
  BY <1>1, <1>4, Zenon DEF PurgeBadChain
<1>6. Number[db.headBlock] >= Number[db.headBlock]
  BY <1>1, ViewIs, ParentIs
<1>7. db.headBlock \in db.headers => db.headBlock \in PurgeBadChain(n)
  BY <1>6, Zenon DEF PurgeBadChain
<1> QED
  BY <1>5, <1>7, Zenon DEF n

(* The second transaction of ValidateChain.                                *)
LEMMA EndsIs ==
  ASSUME TypeInv, pc = "validate", NEW st \in Statuses, NEW H \in SUBSET db.headers, Genesis \in H,
         ValidateEnds(st, H)
  PROVE  /\ Good(db') /\ tx' = db' /\ db'.exec = db.exec /\ db'.state = db.state /\ db'.headers = H
         /\ db'.canonical = db.canonical /\ db'.headHeader = db.headHeader
         /\ db'.headBlock = db.headBlock
         /\ call' \in Calls /\ call'.head = call.head /\ call'.outcome = st /\ pc' = "answered"
         /\ call'.reply = IF call.reply = "none" THEN st ELSE call.reply
<1>1. Good(db) /\ call \in Calls /\ H \in SUBSET Block
  BY TypeIs, ViewIs, Zenon DEF Good
<1>2. db' = [db EXCEPT !.headers = H] /\ tx' = db' /\ call' = Answer(call, st) /\ pc' = "answered"
  BY Zenon DEF ValidateEnds
<1>3. /\ Good(db') /\ db'.exec = db.exec /\ db'.state = db.state /\ db'.headers = H
      /\ db'.canonical = db.canonical /\ db'.headHeader = db.headHeader
      /\ db'.headBlock = db.headBlock
  BY <1>1, <1>2, HeadersAre
<1> QED
  BY <1>1, <1>2, <1>3, AnswerIs, Zenon

(* What a validation leaves: a verdict, fewer headers, the fork or none.   *)
LEMMA ValidationIs ==
  ASSUME TypeInv, ValidateSteps \/ ValidateFails
  PROVE  /\ pc = "validate"
         /\ \E st \in Statuses, H \in SUBSET db.headers :
              /\ Genesis \in H /\ ValidateEnds(st, H)
              /\ db.headBlock \in db.headers => db.headBlock \in H
         /\ fv' \in Fvs
         /\ UNCHANGED <<firstTx, prune>> /\ writer' = "none"
<1>0. pc = "validate" /\ UNCHANGED <<firstTx, prune>> /\ writer' = "none"
  BY Zenon DEF ValidateSteps, ValidateKnown, ValidateGood, ValidateBad, ValidateFails,
     MustExecute, FailsAt, ValidateEnds
<1>1. /\ call.head \in Block /\ Good(db) /\ fv \in Fvs /\ Genesis \in db.headers
      /\ db \in Views /\ db.exec \in Numbers
  BY <1>0, TypeIs, ViewIs, Zenon DEF Good, Filled, IsCanonical
<1>2. InMemory \in SUBSET Block
  BY <1>1, ChainTyped, Zenon DEF InMemory
<1>3. {"Success", "MissingSegment", "BadBlock", "Error"} \in SUBSET Statuses
  BY DEF Statuses
<1>4. CASE ValidateKnown
  BY <1>0, <1>1, <1>3, <1>4, Zenon DEF ValidateKnown
<1>5. CASE ValidateGood
  <2>1. ValidateEnds("Success", db.headers)
    BY <1>5, Zenon DEF ValidateGood
  <2>2. fv' \in Fvs
    <3>1. fv.valid \cup {call.head} \in SUBSET Block
      BY <1>1 DEF Fvs
    <3>2. fv' = [fv EXCEPT !.ext = call.head, !.from = db.exec, !.ran = InMemory,
                           !.valid = fv.valid \cup {call.head}]
      BY <1>1, <1>5 DEF ValidateGood, Fvs
    <3> QED
      BY <1>1, <1>2, <3>1, <3>2, Zenon DEF Fvs
  <2> QED
    BY <1>0, <1>1, <1>3, <2>1, <2>2, Zenon
<1>6. CASE ValidateBad
  <2>1. PICK x \in Block : FailsAt(x) /\ ValidateEnds("BadBlock", PurgeBadChain(ProgressAtFailure(x)))
    BY <1>6, Zenon DEF ValidateBad
  <2>2. fv' = Cleared(fv)
    BY <1>6, Zenon DEF ValidateBad
  <2> QED
    BY <1>0, <1>1, <1>3, <2>1, <2>2, PurgedIs, ClearedIs, Zenon
<1>7. CASE ValidateFails
  <2>1. ValidateEnds("Error", db.headers)
    BY <1>7, Zenon DEF ValidateFails
  <2>2. fv' \in Fvs
    <3>1. CASE fv' = Cleared(fv)
      BY <1>1, <3>1, ClearedIs, Zenon
    <3>2. CASE fv' # Cleared(fv)
      <4> DEFINE R(x) == {y \in InMemory : \/ Number[y] < Number[x]
                                           \/ y = x /\ Defect[x] # "invalid"}
      <4>1. PICK x \in Block :
              fv' = [fv EXCEPT !.ext = call.head, !.from = db.exec, !.ran = R(x)]
        BY <1>7, <3>2, Zenon DEF ValidateFails
      <4>2. R(x) \in SUBSET Block
        BY <1>2, Zenon
      <4> HIDE DEF R
      <4> QED
        BY <1>1, <4>1, <4>2, Zenon DEF Fvs
    <3> QED
      BY <3>1, <3>2, Zenon
  <2> QED
    BY <1>0, <1>1, <1>3, <2>1, <2>2, Zenon
<1> QED
  BY <1>4, <1>5, <1>6, <1>7, Zenon DEF ValidateSteps

(* Every step keeps the types.                                             *)
LEMMA TypeStep ==
  ASSUME TypeInv, [Next]_vars
  PROVE  TypeInv'
<1> USE Zenon
<1>0. /\ Good(db) /\ Good(tx) /\ writer \in {"none", "handler", "leaked"} /\ fv \in Fvs
      /\ pc \in Places /\ call \in Calls /\ firstTx \in BOOLEAN
      /\ prune \in {"none", "spawned", "waiting"}
      /\ pc \in {"run", "batch", "end"} =>
           call.head \in Block \ {Genesis} /\ tx.headHeader = call.head
      /\ pc = "validate" => call.head \in Block \ {Genesis}
  BY TypeIs
<1>s. {"Success", "Error", "BadBlock", "InvalidForkchoice", "MissingSegment", "TooFarAway", "Busy"}
        \in SUBSET Statuses
  BY SMT DEF Statuses
<1>p. /\ {"idle", "answered", "run", "batch", "end", "validate"} = Places
      /\ \A p \in {"run", "batch", "end"} : p \notin {"idle", "answered", "validate"}
      /\ "none" \in {"none", "handler", "leaked"} /\ "handler" \in {"none", "handler", "leaked"}
  BY SMT DEF Places
<1>c. Cleared(fv) \in Fvs
  BY <1>0, ClearedIs
<1>f. /\ IsCanonical(db, Genesis) /\ db \in Views /\ SafeHashes \in SUBSET (Block \cup {None})
  BY <1>0, TreeAssumption DEF Good, Filled
<1> USE <1>0
<1>1. CASE InsertBlocks
  <2>1. PICK b \in Block \ {Genesis} :
          db' = IF Parent[b] \in db.known
                THEN [db EXCEPT !.headers = @ \cup {b}, !.known = @ \cup {b}] ELSE db
    BY <1>1 DEF InsertBlocks
  <2>2. Good(db')
    BY <2>1, InsertedIs
  <2>3. pc = "idle" /\ pc' = pc
    BY <1>1 DEF InsertBlocks, Admitted
  <2> QED
    BY <1>1, <1>c, <1>p, <2>2, <2>3, TypeParts DEF InsertBlocks
<1>2. CASE ForkChoiceNotStarted \/ ValidateNotStarted
  <2>1. ASSUME NEW kind \in {"forkchoice", "validate"}, NEW h \in Block \ {Genesis},
               NEW safe \in Block \cup {None}, NEW st \in Statuses,
               AnswerAtOnce(Request(kind, h, safe), st)
        PROVE  TypeInv'
    <3>1. call' \in Calls
      BY <2>1, RequestIs, AnswerIs DEF AnswerAtOnce
    <3>2. pc' = "answered"
      BY <2>1 DEF AnswerAtOnce
    <3> QED
      BY <1>c, <1>p, <2>1, <3>1, <3>2, TypeParts DEF AnswerAtOnce
  <2>2. CASE ForkChoiceNotStarted
    <3>1. PICK h \in Block \ {Genesis}, safe \in SafeHashes :
            \/ AnswerAtOnce(Request("forkchoice", h, safe), "Error")
            \/ AnswerAtOnce(Request("forkchoice", h, safe),
                 IF VerifyForkchoiceHashes(db, h, safe) THEN "Success" ELSE "InvalidForkchoice")
            \/ AnswerAtOnce(Request("forkchoice", h, safe), "MissingSegment")
      BY <2>2 DEF ForkChoiceNotStarted
    <3> QED
      BY <1>f, <1>s, <2>1, <3>1
  <2>3. CASE ValidateNotStarted
    <3>1. PICK b \in Block \ {Genesis} :
            \/ AnswerAtOnce(Request("validate", b, None), "MissingSegment")
            \/ AnswerAtOnce(Request("validate", b, None), "TooFarAway")
            \/ AnswerAtOnce(Request("validate", b, None), "Error")
      BY <2>3 DEF ValidateNotStarted
    <3>2. None \in Block \cup {None}
      OBVIOUS
    <3> QED
      BY <1>s, <2>1, <3>1, <3>2
  <2> QED
    BY <1>2, <2>2, <2>3
<1>3. CASE ForkChoiceStarts
  <2>1. PICK h \in Block \ {Genesis}, safe \in SafeHashes :
          /\ tx' = IF fv.ext = h THEN Flushed(Started(h), h) ELSE Started(h)
          /\ fv' = IF fv.ext = h THEN Cleared(fv) ELSE fv
          /\ call' = [Request("forkchoice", h, safe) EXCEPT
               !.reply = IF fv.ext = h /\ ParallelStateFlushing THEN "Success" ELSE @]
    BY <1>3 DEF ForkChoiceStarts, Started
  <2>2. Good(tx') /\ tx'.headHeader = h
    BY <2>1, StartsIs
  <2>3. Request("forkchoice", h, safe) \in Calls /\ Request("forkchoice", h, safe).head = h
    BY <1>f, RequestIs
  <2>4. call' \in Calls /\ call'.head = h
    <3> DEFINE r == IF fv.ext = h /\ ParallelStateFlushing THEN "Success"
                    ELSE Request("forkchoice", h, safe).reply
               c == Request("forkchoice", h, safe)
    <3>1. call' = [c EXCEPT !.reply = r]
      BY SMT, <2>1, <2>3 DEF Calls
    <3>2. r \in Statuses
      BY SMT, <1>s, <2>3 DEF Calls
    <3> HIDE DEF r, c
    <3>3. c \in Calls /\ c.head = h
      BY SMT, <2>3 DEF c
    <3>4. call' \in Calls
      BY <3>1, <3>2, <3>3 DEF Calls
    <3>5. call'.head = h
      BY SMT, <3>1, <3>3 DEF Calls
    <3> QED
      BY SMT, <3>4, <3>5
  <2>5. fv' \in Fvs
    BY <1>c, <2>1
  <2>6. pc' = "run" /\ writer' = "handler" /\ firstTx' = TRUE /\ UNCHANGED <<db, prune>>
    BY <1>3 DEF ForkChoiceStarts
  <2> QED
    BY <1>p, <2>2, <2>4, <2>5, <2>6, TypeParts
<1>4. CASE RunNothing \/ RunExecutes \/ RunMeetsInvalidBlock \/ RunMeetsWrongRoot
  <2>1. UNCHANGED <<db, writer, call, firstTx, prune>> /\ pc = "run"
    BY <1>4 DEF RunNothing, RunExecutes, RunMeetsInvalidBlock, RunMeetsWrongRoot
  <2>2. Good(tx') /\ tx'.headHeader = call.head /\ fv' \in Fvs
    BY <1>4, RunNothingIs, RunExecutesIs, RunFailsIs
  <2>3. pc' \in {"end", "batch"}
    BY SMT, <1>4, RunNothingIs, RunExecutesIs, RunFailsIs
  <2>4. pc' \in Places /\ pc' # "validate" /\ call.head \in Block \ {Genesis}
    BY SMT, <2>1, <2>3 DEF Places
  <2> QED
    BY <1>p, <2>1, <2>2, <2>4, TypeParts
<1>5. CASE NextBatch
  <2>1. Good(Pruned(tx)) /\ Pruned(tx).headHeader = tx.headHeader
    BY PrunedIs
  <2>2. pc = "batch" /\ pc' = "run" /\ firstTx' = FALSE /\ db' = Pruned(tx) /\ tx' = Pruned(tx)
        /\ UNCHANGED <<writer, fv, call, prune>>
    BY <1>5 DEF NextBatch
  <2>3. call.head \in Block \ {Genesis} /\ tx.headHeader = call.head
    BY SMT, <2>2
  <2> QED
    BY <1>p, <2>1, <2>2, <2>3, TypeParts
<1>6. CASE ForkChoiceBadBlock \/ ForkChoiceInvalid \/ ForkChoiceFails
  <2>1. PICK st \in Statuses : Abandon(st)
    BY <1>6, <1>s DEF ForkChoiceBadBlock, ForkChoiceInvalid, ForkChoiceFails
  <2>2. prune' \in {"none", "spawned", "waiting"}
    BY SMT, <1>6 DEF ForkChoiceBadBlock, ForkChoiceInvalid, ForkChoiceFails, SpawnPrune
  <2>3. call' \in Calls
    BY <2>1, AnswerIs DEF Abandon
  <2>4. writer' \in {"none", "handler", "leaked"} /\ pc' = "answered"
    BY SMT, <2>1 DEF Abandon
  <2> QED
    BY <1>c, <1>p, <2>1, <2>2, <2>3, <2>4, TypeParts DEF Abandon
<1>7. CASE ForkChoiceSuccess
  <2>1. /\ Good(db') /\ tx' = db' /\ fv' = Cleared(fv) /\ pc' = "answered"
        /\ call' \in {Answer(call, "Success"), Answer(call, "Error")}
    BY <1>7, SuccessIs
  <2>a. Answer(call, "Success") \in Calls /\ Answer(call, "Error") \in Calls
    BY <1>s, AnswerIs
  <2>2. call' \in Calls
    BY <2>1, <2>a
  <2>3. prune' \in {"none", "spawned", "waiting"}
    BY SMT, <1>7 DEF ForkChoiceSuccess, SpawnPrune
  <2>4. writer' = "none" /\ UNCHANGED firstTx
    BY <1>7 DEF ForkChoiceSuccess
  <2> QED
    BY <1>c, <1>p, <2>1, <2>2, <2>3, <2>4, TypeParts
<1>8. CASE ValidateUnwinds
  <2>1. PICK b \in Block \ {Genesis} :
          /\ db' = Unwound(db, Ancestor(db, b)) /\ tx' = db' /\ fv' = Cleared(fv)
          /\ call' = Request("validate", b, None) /\ writer' = "handler"
          /\ pc' = "validate" /\ UNCHANGED <<firstTx, prune>>
    BY <1>8 DEF ValidateUnwinds
  <2>2. Ancestor(db, b) \in Numbers
    BY <1>f, AncestorIs
  <2>3. /\ db' \in Views /\ db'.headers = db.headers /\ db'.canonical = db.canonical
        /\ db'.headHeader = db.headHeader
    BY <1>f, <2>1, <2>2, UnwoundIs
  <2>4. Good(db')
    BY <1>f, <2>3, FilledSame DEF Good, IsCanonical
  <2>5. call' \in Calls /\ call'.head = b
    BY SMT, <2>1, RequestIs
  <2> QED
    BY <1>c, <1>p, <2>1, <2>4, <2>5, TypeParts
<1>9. CASE ValidateSteps \/ ValidateFails
  <2>1. /\ pc = "validate" /\ fv' \in Fvs /\ UNCHANGED <<firstTx, prune>> /\ writer' = "none"
        /\ \E st \in Statuses, H \in SUBSET db.headers : Genesis \in H /\ ValidateEnds(st, H)
    BY <1>9, ValidationIs
  <2>2. Good(db') /\ tx' = db' /\ call' \in Calls /\ pc' = "answered"
    BY <2>1, EndsIs
  <2> QED
    BY <1>p, <2>1, <2>2, TypeParts
<1>10. CASE PruneWaits \/ PruneRuns \/ Timeout \/ Return \/ Crash
  <2>n. NoCall \in Calls
    BY SMT DEF NoCall, Calls, Statuses
  <2>1. CASE PruneWaits
    BY <2>1, TypeParts DEF PruneWaits
  <2>2. CASE PruneRuns
    <3>1. Good(db')
      BY <2>2, PrunedIs DEF PruneRuns
    <3>2. pc = "idle" /\ pc' = "idle" /\ tx' = db' /\ prune' = "none"
          /\ UNCHANGED <<writer, fv, call, firstTx>>
      BY <2>2 DEF PruneRuns
    <3> QED
      BY <1>p, <3>1, <3>2, TypeParts
  <2>3. CASE Timeout
    <3>1. call' = [call EXCEPT !.reply = "Busy"] /\ UNCHANGED <<db, tx, writer, fv, pc, firstTx, prune>>
      BY <2>3 DEF Timeout
    <3>2. call' \in Calls
      BY <1>s, <3>1 DEF Calls
    <3>3. call'.head = call.head
      BY SMT, <3>1 DEF Calls
    <3> QED
      BY <3>1, <3>2, <3>3, TypeParts
  <2>4. CASE Return
    <3>1. pc' = "idle" /\ call' = NoCall /\ firstTx' = TRUE /\ UNCHANGED <<db, tx, writer, fv, prune>>
      BY <2>4 DEF Return
    <3> QED
      BY <1>p, <2>n, <3>1, TypeParts
  <2>5. CASE Crash
    <3>1. fv' \in Fvs
      <4>1. Number[db.headBlock] \in Numbers /\ 0 \in Numbers
        BY <1>f, ViewIs, NumbersAre
      <4> QED
        BY SMT, <2>5, <4>1 DEF Crash, Fvs
    <3>2. pc' = "idle" /\ call' = NoCall /\ firstTx' = TRUE /\ tx' = db /\ writer' = "none"
          /\ prune' = "none" /\ UNCHANGED db
      BY <2>5 DEF Crash
    <3> QED
      BY <1>p, <2>n, <3>1, <3>2, TypeParts
  <2> QED
    BY <1>10, <2>1, <2>2, <2>3, <2>4, <2>5
<1>11. CASE UNCHANGED vars
  BY <1>11, TypeParts DEF vars
<1> QED
  BY <1>1, <1>2, <1>3, <1>4, <1>5, <1>6, <1>7, <1>8, <1>9, <1>10, <1>11
  DEF Next, HandlerSteps, ForkChoiceSteps, PruneSteps

(* The type invariant holds, with batches and failing reads too.           *)
LEMMA TypeAlways == Spec => []TypeInv
<1>1. Init => TypeInv
  <2> SUFFICES ASSUME Init PROVE TypeInv
    OBVIOUS
  <2>1. 0 \in Numbers /\ Genesis \in Block /\ Number[Genesis] = 0 /\ None \notin Block
    BY NumbersAre, TreeAssumption, Zenon
  <2> DEFINE c == [n \in Numbers |-> IF n = 0 THEN Genesis ELSE None]
  <2>2. c \in [Numbers -> Block \cup {None}] /\ c[0] = Genesis
    BY <2>1
  <2>3. ASSUME NEW m \in Numbers, NEW n \in Numbers, m <= n, c[n] # None PROVE c[m] # None
    <3>1. n = 0 /\ m \in Nat /\ n \in Nat
      BY <2>3, NumbersAre, Zenon
    <3>2. m = 0
      BY <2>3, <3>1
    <3> QED
      BY <2>1, <2>2, <3>2, Zenon
  <2> HIDE DEF c
  <2>4. /\ db \in Views /\ db.canonical = c /\ db.headers = {Genesis} /\ db.headHeader = Genesis
        /\ tx = db
    BY <2>1, <2>2 DEF Init, Views, c
  <2>5. Filled(db)
    BY <2>1, <2>2, <2>3, <2>4, Zenon DEF Filled, IsCanonical, CanonicalAt
  <2>6. fv \in [height : Numbers, ext : Block \cup {None}, from : Numbers,
                ran : SUBSET Block, valid : SUBSET Block]
    BY <2>1 DEF Init
  <2>7. call \in [kind : {"none", "forkchoice", "validate"},
                  head : Block \cup {None}, safe : Block \cup {None},
                  reply : Statuses, outcome : Statuses]
    BY DEF Init, NoCall, Statuses
  <2>8. writer = "none" /\ pc = "idle" /\ firstTx = TRUE /\ prune = "none"
    BY Zenon DEF Init
  <2>9. TypeOK
    BY <2>4, <2>6, <2>7, <2>8, Zenon DEF TypeOK
  <2> QED
    BY <2>4, <2>5, <2>8, <2>9 DEF TypeInv
<1> QED
  BY <1>1, TypeStep, PTL DEF Spec

(* The state of the module keeps its type, for every tree, with batches    *)
(* and failing reads too: canonical hashes, progress and the notified      *)
(* height are those of blocks of the tree (ethereum_execution.go,          *)
(* forkchoice.go, fork_validator.go).                                      *)
THEOREM TypeCorrect == Spec => []TypeOK
<1>1. TypeInv => TypeOK
  BY DEF TypeInv
<1> QED
  BY <1>1, TypeAlways, PTL

-----------------------------------------------------------------------------
(* The request that is served.                                             *)

\* A request is open from its admission to its outcome.
OpenInv ==
  /\ pc = "idle" => call.kind = "none"
  /\ pc \in {"run", "batch", "end"} => call.kind = "forkchoice" /\ call.outcome = "none"
  /\ pc = "validate" => call.kind = "validate"
  /\ pc = "answered" => call.outcome # "none"

(* The kind of a request is the one of the call that is answered.          *)
LEMMA KindIs ==
  /\ NoCall.kind = "none"
  /\ \A kind \in {"forkchoice", "validate"}, h \in Block, s \in Block \cup {None} :
       Request(kind, h, s).kind = kind
  /\ \A c \in Calls, st \in Statuses : Answer(c, st).kind = c.kind
<1>1. NoCall.kind = "none"
  BY DEF NoCall
<1>2. ASSUME NEW kind, NEW h, NEW s PROVE Request(kind, h, s).kind = kind
  BY DEF Request, NoCall
<1>3. ASSUME NEW c \in Calls, NEW st \in Statuses PROVE Answer(c, st).kind = c.kind
  BY DEF Answer, Calls
<1> QED
  BY <1>1, <1>2, <1>3, Zenon

(* A handler that answers leaves its outcome.                              *)
LEMMA OpenAnswer ==
  ASSUME pc' = "answered", call'.outcome # "none"
  PROVE  OpenInv'
  BY DEF OpenInv

(* Every step opens, serves or answers one request.                        *)
LEMMA OpenStep ==
  ASSUME TypeInv, OpenInv, [Next]_vars
  PROVE  OpenInv'
<1>0. call \in Calls /\ SafeHashes \subseteq Block \cup {None} /\ None \in Block \cup {None}
  BY TypeIs, TreeAssumption, Zenon
<1>1. ASSUME NEW c \in Calls, NEW st \in Statuses \ {"none"}, call' = Answer(c, st), pc' = "answered"
      PROVE  OpenInv'
  BY <1>1, AnswerIs, OpenAnswer
<1>s. {"Success", "BadBlock", "InvalidForkchoice", "MissingSegment", "TooFarAway", "Error"}
        \subseteq Statuses \ {"none"}
  BY DEF Statuses
<1>2. CASE InsertBlocks \/ PruneRuns \/ PruneWaits \/ UNCHANGED vars \/ RunNothing \/ RunExecutes
           \/ RunMeetsInvalidBlock \/ RunMeetsWrongRoot \/ NextBatch
  <2>1. /\ call' = call
        /\ pc' = pc \/ (pc \in {"run", "batch"} /\ pc' \in {"run", "batch", "end"})
    BY <1>2, Zenon DEF InsertBlocks, PruneRuns, PruneWaits, vars, RunNothing, RunExecutes,
       RunMeetsInvalidBlock, RunMeetsWrongRoot, NextBatch
  <2> QED
    BY <2>1 DEF OpenInv
<1>3. CASE ForkChoiceNotStarted
  <2>1. PICK h \in Block \ {Genesis}, safe \in SafeHashes :
          \E st \in {"Error", "Success", "InvalidForkchoice", "MissingSegment"} :
            call' = Answer(Request("forkchoice", h, safe), st)
    BY <1>3 DEF ForkChoiceNotStarted, AnswerAtOnce
  <2>2. pc' = "answered"
    BY <1>3, Zenon DEF ForkChoiceNotStarted, AnswerAtOnce
  <2>3. Request("forkchoice", h, safe) \in Calls
    BY <1>0, RequestIs
  <2> QED
    BY <1>1, <1>s, <2>1, <2>2, <2>3
<1>4. CASE ValidateNotStarted
  <2>1. PICK h \in Block \ {Genesis} : \E st \in {"Error", "TooFarAway", "MissingSegment"} :
          call' = Answer(Request("validate", h, None), st)
    BY <1>4, Zenon DEF ValidateNotStarted, AnswerAtOnce
  <2>2. pc' = "answered"
    BY <1>4, Zenon DEF ValidateNotStarted, AnswerAtOnce
  <2>3. Request("validate", h, None) \in Calls
    BY <1>0, RequestIs
  <2> QED
    BY <1>1, <1>s, <2>1, <2>2, <2>3
<1>5. CASE ForkChoiceStarts
  <2>1. PICK h \in Block \ {Genesis}, safe \in SafeHashes :
          \E r \in {"Success", Request("forkchoice", h, safe).reply} :
            call' = [Request("forkchoice", h, safe) EXCEPT !.reply = r]
    BY <1>5, Zenon DEF ForkChoiceStarts
  <2>2. pc' = "run"
    BY <1>5, Zenon DEF ForkChoiceStarts
  <2> DEFINE q == Request("forkchoice", h, safe)
  <2>3. q \in Calls /\ q.outcome = "none" /\ q.kind = "forkchoice"
    BY <1>0, RequestIs, KindIs
  <2> HIDE DEF q
  <2>4. PICK r : call' = [q EXCEPT !.reply = r]
    BY <2>1, Zenon DEF q
  <2>5. call'.outcome = "none" /\ call'.kind = "forkchoice"
    BY <2>3, <2>4 DEF Calls
  <2> QED
    BY <2>2, <2>5 DEF OpenInv
<1>6. CASE ValidateUnwinds
  <2>1. PICK h \in Block : call' = Request("validate", h, None)
    BY <1>6, Zenon DEF ValidateUnwinds
  <2>2. pc' = "validate"
    BY <1>6, Zenon DEF ValidateUnwinds
  <2>3. call'.kind = "validate"
    BY <1>0, <2>1, KindIs
  <2> QED
    BY <2>2, <2>3 DEF OpenInv
<1>7. CASE ForkChoiceBadBlock \/ ForkChoiceInvalid \/ ForkChoiceFails \/ ForkChoiceSuccess
  <2>1. /\ pc' = "answered"
        /\ \E st \in {"Success", "BadBlock", "InvalidForkchoice", "Error"} : call' = Answer(call, st)
    BY <1>7, Zenon DEF ForkChoiceBadBlock, ForkChoiceInvalid, ForkChoiceFails, ForkChoiceSuccess, Abandon
  <2> QED
    BY <1>0, <1>1, <1>s, <2>1
<1>8. CASE ValidateSteps \/ ValidateFails
  <2>1. /\ pc' = "answered"
        /\ \E st \in {"Success", "BadBlock", "MissingSegment", "Error"} : call' = Answer(call, st)
    BY <1>8, Zenon DEF ValidateSteps, ValidateFails, ValidateKnown, ValidateGood, ValidateBad,
       ValidateEnds
  <2> QED
    BY <1>0, <1>1, <1>s, <2>1
<1>9. CASE Return \/ Crash
  <2>1. pc' = "idle" /\ call' = NoCall
    BY <1>9, Zenon DEF Return, Crash
  <2> QED
    BY <2>1, KindIs DEF OpenInv
<1>10. CASE Timeout
  <2>1. pc' = pc /\ pc \in {"run", "batch", "end"} /\ call' = [call EXCEPT !.reply = "Busy"]
    BY <1>10, Zenon DEF Timeout
  <2>2. call'.kind = call.kind /\ call'.outcome = call.outcome
    BY <1>0, <2>1 DEF Calls
  <2> QED
    BY <2>1, <2>2 DEF OpenInv
<1> QED
  BY <1>2, <1>3, <1>4, <1>5, <1>6, <1>7, <1>8, <1>9, <1>10, Zenon
  DEF Next, HandlerSteps, ForkChoiceSteps, PruneSteps

-----------------------------------------------------------------------------
(* validHashes.                                                            *)
LEMMA SoundFrame ==
  ASSUME SoundInv, Sound(db'.state), Sound(tx'.state), fv'.ran = fv.ran \/ fv'.ran = {},
         fv'.valid = fv.valid
  PROVE  SoundInv'
  BY Zenon DEF SoundInv, Sound, ValidHashesAreValid, Valid

(* No step executes a defective block onto the state, or remembers one.    *)
LEMMA SoundStep ==
  ASSUME ~LookupFails, TypeInv, SoundInv, [Next]_vars
  PROVE  SoundInv'
<1> USE Zenon
<1>0. /\ Good(db) /\ Good(tx) /\ db \in Views /\ fv \in Fvs
      /\ pc = "run" => tx.headHeader = call.head
      /\ IsCanonical(db, Genesis) /\ call \in Calls
  BY TypeIs DEF Good, Filled
<1>i. Sound(db.state) /\ Sound(tx.state) /\ Sound(fv.ran) /\ \A b \in fv.valid : Valid(b)
  BY DEF SoundInv, ValidHashesAreValid
<1>c. Cleared(fv).ran = {} /\ Cleared(fv).valid = fv.valid
  BY <1>0, ClearedIs
<1> USE <1>i, SoundFrame
<1>1. CASE InsertBlocks
  <2>1. PICK b \in Block \ {Genesis} :
          db' = IF Parent[b] \in db.known
                THEN [db EXCEPT !.headers = @ \cup {b}, !.known = @ \cup {b}] ELSE db
    BY <1>1 DEF InsertBlocks
  <2>2. db'.state = db.state
    BY <1>0, <2>1, InsertedIs
  <2>3. tx' = db' /\ fv' = Cleared(fv)
    BY <1>1 DEF InsertBlocks
  <2> QED
    BY <1>c, <2>2, <2>3, SoundFrame
<1>2. CASE ForkChoiceNotStarted \/ ValidateNotStarted
  <2>1. UNCHANGED <<db, tx>> /\ fv' = Cleared(fv)
    BY <1>2 DEF ForkChoiceNotStarted, ValidateNotStarted, AnswerAtOnce
  <2> QED
    BY <1>c, <2>1, SoundFrame
<1>3. CASE ForkChoiceStarts
  <2>1. PICK h \in Block \ {Genesis}, safe \in SafeHashes :
          /\ tx' = IF fv.ext = h THEN Flushed(Started(h), h) ELSE Started(h)
          /\ fv' = IF fv.ext = h THEN Cleared(fv) ELSE fv
    BY <1>3 DEF ForkChoiceStarts, Started
  <2>2. /\ fv.ext = h => tx'.state = Started(h).state \cup fv.ran
        /\ fv.ext # h => tx'.state = Started(h).state
    BY <2>1, StartsIs
  <2>3. Started(h).state \in SUBSET db.state
    BY <1>0, StartedIs
  <2>4. Sound(tx'.state)
    BY <2>2, <2>3 DEF Sound
  <2>5. UNCHANGED db
    BY <1>3 DEF ForkChoiceStarts
  <2>6. (fv'.ran = fv.ran \/ fv'.ran = {}) /\ fv'.valid = fv.valid
    BY <1>c, <2>1
  <2> QED
    BY <2>4, <2>5, <2>6, SoundFrame
<1>4. CASE RunNothing \/ RunMeetsInvalidBlock \/ RunMeetsWrongRoot
  <2>1. tx'.state = tx.state /\ (fv' = fv \/ (fv'.ran = {} /\ fv'.valid = fv.valid))
    BY <1>4, RunNothingIs, RunFailsIs
  <2>2. UNCHANGED db
    BY <1>4 DEF RunNothing, RunMeetsInvalidBlock, RunMeetsWrongRoot
  <2> QED
    BY <2>1, <2>2, SoundFrame
<1>5. CASE RunExecutes
  <2>1. /\ fv' = fv \/ (fv'.ran = {} /\ fv'.valid = fv.valid)
        /\ pc = "run"
        /\ \E last \in LastBlocks :
              /\ \A b \in ToRun(last) : Defect[b] # "invalid"
              /\ RootMatches(last) /\ tx'.state = tx.state \cup ToRun(last)
    BY <1>5, RunExecutesIs
  <2>2. PICK last \in LastBlocks :
          /\ \A b \in ToRun(last) : Defect[b] # "invalid"
          /\ RootMatches(last) /\ tx'.state = tx.state \cup ToRun(last)
    BY <2>1
  <2>3. ToRun(last) \in SUBSET Block
    BY <1>0, <2>1, ToRunIs
  <2>4. \A b \in ToRun(last) : Defect[b] # "root"
    BY <2>2 DEF RootMatches
  <2>5. \A b \in ToRun(last) : Defect[b] \in {"none", "invalid", "root"}
    BY <2>3, TreeAssumption DEF Defects
  <2>6. \A b \in ToRun(last) : Defect[b] = "none"
    BY SMT, <2>2, <2>4, <2>5
  <2>7. Sound(tx'.state)
    BY <2>2, <2>6 DEF Sound
  <2>8. UNCHANGED db
    BY <1>5 DEF RunExecutes
  <2> QED
    BY <2>1, <2>7, <2>8, SoundFrame
<1>6. CASE NextBatch
  <2>1. db' = Pruned(tx) /\ tx' = Pruned(tx) /\ fv' = fv
    BY <1>6 DEF NextBatch
  <2>2. Pruned(tx).state = tx.state
    BY <1>0, PrunedIs
  <2> QED
    BY <2>1, <2>2, SoundFrame
<1>7. CASE ForkChoiceBadBlock \/ ForkChoiceInvalid \/ ForkChoiceFails
  <2>1. tx' = db /\ fv' = Cleared(fv) /\ UNCHANGED db
    BY <1>7 DEF ForkChoiceBadBlock, ForkChoiceInvalid, ForkChoiceFails, Abandon
  <2> QED
    BY <1>c, <2>1, SoundFrame
<1>8. CASE ForkChoiceSuccess
  <2>1. tx' = db' /\ db'.state = tx.state /\ fv' = Cleared(fv)
    BY <1>8, SuccessIs
  <2> QED
    BY <1>c, <2>1, SoundFrame
<1>9. CASE ValidateUnwinds
  <2>1. PICK b \in Block \ {Genesis} :
          db' = Unwound(db, Ancestor(db, b)) /\ tx' = db' /\ fv' = Cleared(fv)
    BY <1>9 DEF ValidateUnwinds
  <2>2. Ancestor(db, b) \in Numbers
    BY <1>0, AncestorIs
  <2>3. db'.state \in SUBSET db.state
    BY <1>0, <2>1, <2>2, UnwoundIs
  <2> QED
    BY <1>c, <2>1, <2>3 DEF Sound
<1>10. CASE ValidateSteps \/ ValidateFails
  <2>1. db'.state = db.state /\ tx' = db' /\ pc = "validate"
    BY <1>10, ValidationIs, EndsIs
  <2>2. CASE fv' = fv \/ fv' = Cleared(fv)
    BY <1>c, <2>1, <2>2, SoundFrame
  <2>3. CASE ValidateGood
    <3>1. /\ ExecutesInMemory
          /\ fv' = [fv EXCEPT !.ext = call.head, !.from = db.exec, !.ran = InMemory,
                              !.valid = @ \cup {call.head}]
      BY <2>3 DEF ValidateGood
    <3>2. fv'.ran = InMemory /\ fv'.valid = fv.valid \cup {call.head}
      BY SMT, <1>0, <3>1 DEF Fvs
    <3>3. Valid(call.head) /\ Sound(InMemory)
      BY <3>1 DEF ExecutesInMemory, Valid, Sound
    <3> QED
      BY <2>1, <3>2, <3>3 DEF SoundInv, Sound, ValidHashesAreValid, Valid
  <2> QED
    BY <1>10, <2>2, <2>3 DEF ValidateSteps, ValidateKnown, ValidateBad, ValidateFails
<1>11. CASE PruneWaits \/ PruneRuns \/ Timeout \/ Return \/ Crash \/ UNCHANGED vars
  <2>1. CASE PruneRuns
    <3>1. db'.state = db.state
      BY <1>0, <2>1, PrunedIs DEF PruneRuns
    <3>2. tx' = db' /\ fv' = fv
      BY <2>1 DEF PruneRuns
    <3> QED
      BY <3>1, <3>2, SoundFrame
  <2>2. CASE Crash
    <3>1. tx' = db /\ UNCHANGED db
      BY <2>2 DEF Crash
    <3>2. fv'.ran = {} /\ fv'.valid = {}
      BY SMT, <2>2 DEF Crash
    <3> QED
      BY <3>1, <3>2 DEF SoundInv, Sound, ValidHashesAreValid
  <2>3. CASE PruneWaits \/ Timeout \/ Return \/ UNCHANGED vars
    <3>1. UNCHANGED <<db, tx, fv>>
      BY <2>3 DEF PruneWaits, Timeout, Return, vars
    <3> QED
      BY <3>1, SoundFrame
  <2> QED
    BY <1>11, <2>1, <2>2, <2>3
<1> QED
  BY <1>1, <1>2, <1>3, <1>4, <1>5, <1>6, <1>7, <1>8, <1>9, <1>10, <1>11
  DEF Next, HandlerSteps, ForkChoiceSteps, PruneSteps

(* What is executed or remembered is sound.                                *)
LEMMA SoundAlways ==
  ASSUME ~LookupFails PROVE Spec => []SoundInv
<1>1. Init => SoundInv
  <2> SUFFICES ASSUME Init PROVE SoundInv
    OBVIOUS
  <2>1. db.state = {Genesis} /\ tx.state = {Genesis} /\ fv.ran = {} /\ fv.valid = {}
    BY DEF Init
  <2> QED
    BY <2>1, TreeAssumption, Zenon DEF SoundInv, Sound, ValidHashesAreValid
<1>2. TypeInv /\ SoundInv /\ [Next]_vars => SoundInv'
  BY SoundStep
<1> QED
  BY <1>1, <1>2, TypeAlways, PTL DEF Spec

(* ForkValidator.validHashes has valid blocks only, for every tree and     *)
(* however fork choices, batches, crashes and validations follow each      *)
(* other (fork_validator.go, validateAndStorePayload), unless reading the  *)
(* latest valid hash fails: then a bad fork may be flushed, on whose state *)
(* other blocks are judged.                                                *)
THEOREM ValidHashesAlwaysValid ==
  ASSUME ~LookupFails PROVE Spec => []ValidHashesAreValid
<1>1. SoundInv => ValidHashesAreValid
  BY DEF SoundInv
<1> QED
  BY <1>1, SoundAlways, PTL

-----------------------------------------------------------------------------
(* The extending fork.                                                     *)

(* A fork choice or a validation that clears the fork leaves none to flush.*)
LEMMA ForkGone ==
  ASSUME fv'.ext = None
  PROVE  ForkInv'
  BY Zenon DEF ForkInv

(* While a fork choice runs only what the fork ran matters.                *)
LEMMA ForkRuns ==
  ASSUME ForkInv, fv' = fv, pc' \in {"run", "batch", "end"}
  PROVE  ForkInv'
<1>1. pc' # "validate" /\ pc' \notin {"idle", "answered"}
  OBVIOUS
<1> QED
  BY <1>1, Zenon DEF ForkInv

(* A validation that keeps a fork executed it on the committed state.      *)
LEMMA ForkKept ==
  ASSUME pc' = "answered", db'.exec = db.exec, db'.state = db.state,
         fv'.ext = call.head, fv'.from = db.exec, fv'.ran \subseteq InMemory,
         db.state \subseteq Chain[call.head]
  PROVE  ForkInv'
<1>1. fv'.ran \subseteq Above(fv'.ext, fv'.from)
  BY Zenon DEF InMemory, Above
<1>2. pc' # "validate"
  OBVIOUS
<1> QED
  BY <1>1, <1>2, Zenon DEF ForkInv, Above

(* Whatever moves the committed state drops the fork.                      *)
LEMMA ForkStep ==
  ASSUME TypeInv, ForkInv, LookupFails => ChainInv, [Next]_vars
  PROVE  ForkInv'
<1> USE Zenon
<1>0. Good(db) /\ db \in Views /\ fv \in Fvs /\ call \in Calls /\ IsCanonical(db, Genesis)
  BY TypeIs DEF Good, Filled
<1>c. Cleared(fv).ext = None
  BY <1>0, ClearedIs
<1>1. CASE InsertBlocks \/ ForkChoiceNotStarted \/ ValidateNotStarted \/ ForkChoiceBadBlock
           \/ ForkChoiceInvalid \/ ForkChoiceFails \/ ForkChoiceSuccess \/ ValidateUnwinds
  <2>1. fv' = Cleared(fv)
    BY <1>1 DEF InsertBlocks, ForkChoiceNotStarted, ValidateNotStarted, AnswerAtOnce,
       ForkChoiceBadBlock, ForkChoiceInvalid, ForkChoiceFails, Abandon, ForkChoiceSuccess,
       ValidateUnwinds
  <2> QED
    BY <1>c, <2>1, ForkGone
<1>2. CASE ForkChoiceStarts \/ NextBatch
  <2>1. pc' = "run" /\ (fv' = fv \/ fv' = Cleared(fv))
    BY <1>2 DEF ForkChoiceStarts, NextBatch
  <2>2. pc' \in {"run", "batch", "end"}
    BY SMT, <2>1
  <2> QED
    BY <1>c, <2>1, <2>2, ForkGone, ForkRuns
<1>3. CASE RunNothing \/ RunExecutes \/ RunMeetsInvalidBlock \/ RunMeetsWrongRoot
  <2>1. fv' = fv \/ fv'.ext = None
    BY <1>3, RunNothingIs, RunExecutesIs, RunFailsIs
  <2>2. pc' = "end" \/ pc' = "batch"
    BY <1>3 DEF RunNothing, RunExecutes, RunMeetsInvalidBlock, RunMeetsWrongRoot
  <2>3. pc' \in {"run", "batch", "end"}
    BY SMT, <2>2
  <2> QED
    BY <2>1, <2>3, ForkGone, ForkRuns
<1>4. CASE ValidateSteps \/ ValidateFails
  <2>1. /\ pc = "validate" /\ pc' = "answered"
        /\ db'.exec = db.exec /\ db'.state = db.state
    BY <1>4, ValidationIs, EndsIs
  <2>2. fv.ext = None
    BY <2>1 DEF ForkInv
  <2>3. CASE ValidateKnown \/ ValidateBad \/ fv' = Cleared(fv)
    BY <1>c, <2>2, <2>3, ForkGone DEF ValidateKnown, ValidateBad
  <2>4. CASE ValidateGood
    <3>1. /\ ExecutesInMemory
          /\ fv' = [fv EXCEPT !.ext = call.head, !.from = db.exec, !.ran = InMemory,
                              !.valid = @ \cup {call.head}]
      BY <2>4 DEF ValidateGood
    <3>2. fv'.ran = InMemory /\ fv'.ext = call.head /\ fv'.from = db.exec
      BY SMT, <1>0, <3>1 DEF Fvs
    <3>3. db.state \subseteq Chain[call.head]
      BY <3>1 DEF ExecutesInMemory
    <3> QED
      BY <2>1, <3>2, <3>3, ForkKept
  <2>5. CASE ValidateFails /\ fv' # Cleared(fv)
    <3>1. LookupFails /\ \E x \in Block :
            fv' = [fv EXCEPT !.ext = call.head, !.from = db.exec,
                !.ran = {y \in InMemory : \/ Number[y] < Number[x]
                                          \/ y = x /\ Defect[x] # "invalid"}]
      BY <2>5 DEF ValidateFails
    <3>2. PICK x \in Block :
            fv' = [fv EXCEPT !.ext = call.head, !.from = db.exec,
                !.ran = {y \in InMemory : \/ Number[y] < Number[x]
                                          \/ y = x /\ Defect[x] # "invalid"}]
      BY <3>1
    <3> DEFINE R == {y \in InMemory : Number[y] < Number[x] \/ (y = x /\ Defect[x] # "invalid")}
    <3>3. R \subseteq InMemory
      BY Zenon
    <3>4. fv' = [fv EXCEPT !.ext = call.head, !.from = db.exec, !.ran = R]
      BY <3>2
    <3> HIDE DEF R
    <3>5. fv'.ran = R /\ fv'.ext = call.head /\ fv'.from = db.exec
      BY SMT, <1>0, <3>4 DEF Fvs
    <3>6. /\ db.state \subseteq Below(db.headHeader, db.exec)
          /\ Below(call.head, db.exec) = Below(db.headHeader, db.exec)
      BY <2>1, <3>1 DEF ChainInv, CommittedInv, ValidatingInv
    <3>7. db.state \subseteq Chain[call.head]
      BY <3>6 DEF Below
    <3> QED
      BY <2>1, <3>3, <3>5, <3>7, ForkKept
  <2> QED
    BY <1>4, <2>3, <2>4, <2>5 DEF ValidateSteps
<1>5. CASE PruneRuns
  <2>1. db' \in {db, Pruned(db)} /\ UNCHANGED <<fv, pc>>
    BY <1>5 DEF PruneRuns
  <2>2. db'.exec = db.exec /\ db'.state = db.state
    BY <1>0, <2>1, PrunedIs
  <2> QED
    BY <2>1, <2>2 DEF ForkInv, Above
<1>6. CASE Crash
  <2>1. fv'.ext = None
    BY SMT, <1>6 DEF Crash
  <2> QED
    BY <2>1, ForkGone
<1>7. CASE Return
  <2>1. pc = "answered" /\ pc' = "idle" /\ UNCHANGED <<db, fv>>
    BY <1>7 DEF Return
  <2>2. pc \in {"idle", "answered"} /\ pc' # "validate"
    BY SMT, <2>1
  <2> QED
    BY <2>1, <2>2 DEF ForkInv, Above
<1>8. CASE PruneWaits \/ Timeout \/ UNCHANGED vars
  <2>1. UNCHANGED <<db, fv, pc>>
    BY <1>8 DEF PruneWaits, Timeout, vars
  <2> QED
    BY <2>1 DEF ForkInv, Above
<1> QED
  BY <1>1, <1>2, <1>3, <1>4, <1>5, <1>6, <1>7, <1>8
  DEF Next, HandlerSteps, ForkChoiceSteps, PruneSteps

-----------------------------------------------------------------------------
(* The canonical chain, without batches.                                   *)

(* Parts of a chain.                                                       *)
LEMMA BelowLess ==
  ASSUME NEW h \in Block, NEW b \in Block, NEW p \in Nat, NEW n \in Nat, n <= p,
         Below(h, p) = Below(b, p)
  PROVE  Below(h, n) = Below(b, n)
<1>1. \A c \in Block : \A x \in Chain[c] : Number[x] <= n => Number[x] <= p
  BY ChainBelow
<1> QED
  BY <1>1, Zenon DEF Below

(* A chain is what is below its head.                                      *)
LEMMA BelowAll ==
  ASSUME NEW h \in Block
  PROVE  Below(h, Number[h]) = Chain[h]
  BY ChainBelow, Zenon DEF Below

(* The block named canonical at its own number is on the chain of the head.*)
LEMMA CanonicalBelow ==
  ASSUME Good(db), CommittedInv, NEW x \in Block, CanonicalAt(db, x)
  PROVE  /\ x \in Chain[db.headHeader] /\ Number[x] <= Number[db.headHeader]
         /\ Number[x] \in Nat /\ Chain[x] = Below(db.headHeader, Number[x])
<1>1. db.headHeader \in Block /\ Number[db.headHeader] \in Nat
  BY ViewIs, ParentIs, Zenon DEF Good
<1>2. Number[x] \in Nat /\ Number[x] \in Numbers /\ db.canonical[Number[x]] # None
  BY ParentIs, NumbersAre, TreeAssumption, Zenon DEF CanonicalAt
<1>3. ~(Number[x] > Number[db.headHeader])
  BY <1>2, Zenon DEF CommittedInv
<1>4. Number[x] <= Number[db.headHeader] /\ Number[x] \in 0..Number[db.headHeader]
  BY <1>1, <1>2, <1>3
<1>5. x = At(db.headHeader, Number[x])
  BY <1>2, <1>4, Zenon DEF CommittedInv, Follows, CanonicalAt
<1>6. At(db.headHeader, Number[x]) \in Chain[db.headHeader]
  BY <1>1, <1>4, AtIs, Zenon
<1>7. x \in Chain[db.headHeader]
  BY <1>5, <1>6
<1> QED
  BY <1>1, <1>2, <1>4, <1>7, ChainBelow, Zenon

(* And conversely.                                                         *)
LEMMA BelowCanonical ==
  ASSUME Good(db), CommittedInv, NEW x \in Chain[db.headHeader]
  PROVE  CanonicalAt(db, x)
<1>1. db.headHeader \in Block /\ Number[db.headHeader] \in Nat
  BY ViewIs, ParentIs, Zenon DEF Good
<1>2. x \in Block /\ Number[x] \in Nat /\ Number[x] <= Number[db.headHeader] /\ Number[x] \in Numbers
  BY <1>1, ChainBelow, NumbersAre, Zenon
<1>3. Number[x] \in 0..Number[db.headHeader]
  BY <1>1, <1>2
<1>4. x = At(db.headHeader, Number[x])
  BY <1>1, <1>3, AtIs, Zenon
<1> QED
  BY <1>2, <1>4, Zenon DEF CommittedInv, Follows, CanonicalAt

(* The common ancestor of a block and the canonical chain.                 *)
LEMMA MeetsIs ==
  ASSUME Good(db), CommittedInv, NEW h \in Block, SidePath(db, h) \subseteq db.headers
  PROVE  /\ Ancestor(db, h) \in Nat /\ Ancestor(db, h) \in Numbers
         /\ Ancestor(db, h) <= Number[h] /\ Ancestor(db, h) <= Number[db.headHeader]
         /\ Below(h, Ancestor(db, h)) = Below(db.headHeader, Ancestor(db, h))
         /\ \A x \in Chain[h] : CanonicalAt(db, x) => Number[x] <= Ancestor(db, h)
         /\ ~IsCanonical(db, h) => Ancestor(db, h) < Number[h]
<1>0. IsCanonical(db, Genesis) /\ Number[h] \in Nat
  BY ParentIs, Zenon DEF Good, Filled
<1>1. PICK a \in Chain[h] : /\ IsCanonical(db, a) /\ SidePath(db, h) = Above(h, Number[a])
                            /\ Ancestor(db, h) = Number[a]
  BY <1>0, SidePathIs, Zenon
<1>2. a \in Block /\ Number[a] \in Nat /\ Number[a] <= Number[h] /\ (Number[a] = Number[h] => a = h)
      /\ Chain[a] = Below(h, Number[a]) /\ Number[a] \in Numbers
  BY ChainBelow, NumbersAre, Zenon
<1>3. Number[a] <= Number[db.headHeader] /\ Chain[a] = Below(db.headHeader, Number[a])
  BY <1>1, <1>2, CanonicalBelow, Zenon DEF IsCanonical
<1>4. ASSUME NEW x \in Chain[h], CanonicalAt(db, x), Number[x] > Number[a] PROVE FALSE
  <2>1. x \in SidePath(db, h)
    BY <1>1, <1>4, Zenon DEF Above
  <2>2. IsCanonical(db, x)
    BY <1>4, <2>1, Zenon DEF IsCanonical
  <2>3. Number[x] >= Number[x]
    BY ChainBelow
  <2> QED
    BY <2>1, <2>2, <2>3, Zenon DEF SidePath
<1>5. \A x \in Chain[h] : Number[x] \in Nat
  BY ChainBelow, Zenon
<1>6. \A x \in Chain[h] : CanonicalAt(db, x) => Number[x] <= Number[a]
  BY <1>2, <1>4, <1>5
<1>7. ~IsCanonical(db, h) => Number[a] # Number[h]
  BY <1>1, <1>2, Zenon
<1>8. ~IsCanonical(db, h) => Number[a] < Number[h]
  BY <1>0, <1>2, <1>7
<1> QED
  BY <1>1, <1>2, <1>3, <1>6, <1>8, Zenon

(* An unwind takes exactly the blocks above the point out of the state.    *)
LEMMA UnwoundState ==
  ASSUME Good(db), CommittedInv, NEW p \in Nat
  PROVE  db.state \ {db.canonical[n] : n \in {m \in Numbers : m > p}}
           = {x \in db.state : Number[x] <= p}
<1>1. /\ db.headHeader \in Block /\ Number[db.headHeader] \in Nat /\ db.state \in SUBSET Block
      /\ db.canonical \in [Numbers -> Block \cup {None}]
  BY ViewIs, ParentIs, Zenon DEF Good
<1>2. ASSUME NEW x \in db.state, Number[x] > p
      PROVE  x \in {db.canonical[n] : n \in {m \in Numbers : m > p}}
  <2>1. x \in Chain[db.headHeader] /\ x \in Block
    BY <1>1, Zenon DEF CommittedInv, Below
  <2>2. x = db.canonical[Number[x]] /\ Number[x] \in Numbers
    BY <2>1, BelowCanonical, NumbersAre, Zenon DEF CanonicalAt
  <2> QED
    BY <1>2, <2>2, Zenon
<1>3. ASSUME NEW n \in Numbers, n > p, db.canonical[n] \in db.state
      PROVE  ~(Number[db.canonical[n]] <= p)
  <2>1. n \in Nat /\ db.canonical[n] # None
    BY <1>1, <1>3, NumbersAre, TreeAssumption, Zenon
  <2>2. ~(n > Number[db.headHeader])
    BY <2>1, Zenon DEF CommittedInv
  <2>3. n <= Number[db.headHeader] /\ n \in 0..Number[db.headHeader]
    BY <1>1, <2>1, <2>2
  <2>4. db.canonical[n] = At(db.headHeader, n)
    BY <2>3, Zenon DEF CommittedInv, Follows
  <2>5. Number[db.canonical[n]] = n
    BY <1>1, <2>3, <2>4, AtIs, Zenon
  <2> QED
    BY <1>3, <2>1, <2>5
<1>4. \A x \in db.state : Number[x] \in Nat
  BY <1>1, ParentIs, Zenon
<1>5. \A x \in db.state : Number[x] <= p \/ Number[x] > p
  BY <1>4
<1> QED
  BY <1>2, <1>3, <1>5, Zenon

(* What a validation commits before it executes, and what a fork choice    *)
(* starts from when it has nothing to flush.                               *)
LEMMA UnwindMeets ==
  ASSUME Good(db), CommittedInv, NEW h \in Block, SidePath(db, h) \subseteq db.headers
  PROVE  LET p == Ancestor(db, h)
             e == Min(db.exec, p)
             S == db.state \ {db.canonical[n] : n \in {m \in Numbers : m > p}}
         IN  /\ e \in Nat /\ e <= p /\ e <= Number[h] /\ e <= Number[db.headHeader]
             /\ S = {x \in db.state : Number[x] <= p}
             /\ S \subseteq Below(db.headHeader, e)
             /\ Below(h, e) = Below(db.headHeader, e)
<1> DEFINE p == Ancestor(db, h)
           e == Min(db.exec, p)
           S == db.state \ {db.canonical[n] : n \in {m \in Numbers : m > p}}
<1>1. /\ p \in Nat /\ p <= Number[h] /\ p <= Number[db.headHeader]
      /\ Below(h, p) = Below(db.headHeader, p)
  BY MeetsIs, Zenon
<1>2. /\ db.headHeader \in Block /\ Number[db.headHeader] \in Nat /\ Number[h] \in Nat
      /\ db.exec \in Nat
  BY ViewIs, ParentIs, Zenon DEF Good
<1>3. S = {x \in db.state : Number[x] <= p}
  BY <1>1, UnwoundState, Zenon
<1> HIDE DEF p, S
<1>4. e \in Nat /\ e <= p /\ e \in {db.exec, p}
  BY <1>1, <1>2, MinIs, Zenon
<1> HIDE DEF e
<1>5. e <= Number[h] /\ e <= Number[db.headHeader]
  BY <1>1, <1>2, <1>4
<1>6. Below(h, e) = Below(db.headHeader, e)
  BY <1>1, <1>2, <1>4, BelowLess, Zenon
<1>7. \A x \in db.state : x \in Chain[db.headHeader] /\ Number[x] <= db.exec
  BY Zenon DEF CommittedInv, Below
<1>8. S \subseteq Below(db.headHeader, e)
  BY <1>3, <1>4, <1>7, Zenon DEF Below
<1> QED
  BY <1>3, <1>4, <1>5, <1>6, <1>8, Zenon DEF p, e, S

(* A fork choice starts on the chain of its head.                          *)
LEMMA StartFollows ==
  ASSUME Good(db), CommittedInv, NEW h \in Block, SidePath(db, h) \subseteq db.headers
  PROVE  Follows(Started(h), h)
<1> DEFINE p == Ancestor(db, h)
<1>1. /\ p \in Nat /\ p <= Number[h] /\ p <= Number[db.headHeader]
      /\ Below(h, p) = Below(db.headHeader, p)
  BY MeetsIs, Zenon
<1>2. /\ db.headHeader \in Block /\ Number[db.headHeader] \in Nat /\ Number[h] \in Nat
  BY ViewIs, ParentIs, Zenon DEF Good
<1>3. \A n \in Numbers : Started(h).canonical[n] =
        IF p < n /\ n <= Number[h] THEN At(h, n) ELSE db.canonical[n]
  BY StartedIs, Zenon
<1> HIDE DEF p
<1>4. ASSUME NEW n \in Numbers, n <= Number[h] PROVE Started(h).canonical[n] = At(h, n)
  <2>1. n \in Nat
    BY NumbersAre, Zenon
  <2>2. CASE p < n
    BY <1>3, <1>4, <2>2, Zenon
  <2>3. CASE ~(p < n)
    <3>1. n <= p /\ n <= Number[db.headHeader] /\ n \in 0..Number[db.headHeader] /\ n \in 0..Number[h]
      BY <1>1, <1>2, <1>4, <2>1, <2>3
    <3>2. At(h, n) \in Chain[h] /\ Number[At(h, n)] = n
      BY <3>1, AtIs, Zenon
    <3>3. At(h, n) \in Below(db.headHeader, p)
      BY <1>1, <3>1, <3>2, Zenon DEF Below
    <3>4. At(h, n) \in Chain[db.headHeader]
      BY <3>3, Zenon DEF Below
    <3>a. \A x \in Chain[db.headHeader] : Number[x] = n => x = At(db.headHeader, n)
      BY <1>2, <3>1, AtIs, Zenon
    <3>5. At(h, n) = At(db.headHeader, n)
      BY <3>2, <3>4, <3>a
    <3>6. db.canonical[n] = At(db.headHeader, n)
      BY <3>1, Zenon DEF CommittedInv, Follows
    <3> QED
      BY <1>3, <2>3, <3>5, <3>6, Zenon
  <2> QED
    BY <2>2, <2>3, Zenon
<1> QED
  BY <1>4, Zenon DEF Follows

(* A step that leaves head, canonical hashes and progress alone.           *)
LEMMA CommittedSame ==
  ASSUME CommittedInv, db'.canonical = db.canonical, db'.headHeader = db.headHeader,
         db'.headBlock = db.headBlock, db.headHeader \in db'.headers,
         db'.exec = db.exec, db'.state = db.state
  PROVE  CommittedInv'
<1>1. Follows(db, db.headHeader)' 
  BY Zenon DEF CommittedInv, Follows
<1> QED
  BY <1>1, Zenon DEF CommittedInv, Below

(* Without batches a run goes to the head in one go.                       *)
LEMMA OneBatch ==
  ASSUME ~Batches, TypeInv, RunningInv, pc = "run", NEW last \in LastBlocks
  PROVE  /\ last = Number[call.head] /\ ~(last < Number[call.head]) /\ last > tx.finish
         /\ tx.canonical[last] = call.head /\ call.head \in Block
<1>1. call.head \in Block /\ Number[call.head] \in Nat /\ Number[call.head] \in Numbers
  <2>1. call.head \in Block
    BY TypeIs
  <2> QED
    BY <2>1, ParentIs, NumbersAre, Zenon
<1>2. tx.finish \in Nat /\ tx.finish < Number[call.head]
  BY TypeIs, ViewIs, Zenon DEF Good, RunningInv
<1>3. last = Number[call.head]
  BY Zenon DEF LastBlocks
<1>4. Number[call.head] <= Number[call.head] /\ Number[call.head] \in 0..Number[call.head]
  BY <1>1
<1>5. tx.canonical[last] = At(call.head, last)
  <2>1. pc \in {"run", "end"}
    OBVIOUS
  <2> QED
    BY <1>1, <1>3, <1>4, <2>1, Zenon DEF RunningInv, Follows
<1>6. call.head = At(call.head, last)
  BY <1>1, <1>3, <1>4, ChainTyped, AtIs, Zenon
<1> QED
  BY <1>1, <1>2, <1>3, <1>5, <1>6

(* A handler that is not running.                                          *)
LEMMA NotRunning ==
  ASSUME pc' = "idle" \/ pc' = "answered"
  PROVE  RunningInv' /\ ValidatingInv'
<1>1. pc' # "batch" /\ pc' \notin {"run", "end"} /\ pc' # "run" /\ pc' # "end" /\ pc' # "validate"
  OBVIOUS
<1> QED
  BY <1>1, Zenon DEF RunningInv, ValidatingInv

(* A run that has ended.                                                   *)
LEMMA RunEnded ==
  ASSUME pc' = "end", call' = call, Follows(tx', call.head), call.head \in tx'.headers,
         tx'.headBlock = call.head =>
           tx'.exec = Number[call.head] /\ tx'.state \subseteq Chain[call.head]
  PROVE  RunningInv' /\ ValidatingInv'
<1>1. pc' # "batch" /\ pc' # "run" /\ pc' # "validate"
  OBVIOUS
<1>2. Follows(tx', call'.head)
  BY Zenon
<1> QED
  BY <1>1, <1>2, Zenon DEF RunningInv, ValidatingInv, Follows

(* Every step keeps the committed chain and that of a run.                 *)
LEMMA ChainStep ==
  ASSUME ~Batches, TypeInv, ForkInv, ChainInv, [Next]_vars
  PROVE  ChainInv'
<1> USE Zenon
<1>0. /\ Good(db) /\ Good(tx) /\ db \in Views /\ fv \in Fvs /\ call \in Calls
      /\ db.headHeader \in Block /\ Number[db.headHeader] \in Nat /\ db.headBlock = db.headHeader
      /\ db.headHeader \in db.headers
  BY TypeIs, ViewIs, ParentIs DEF Good, ChainInv, CommittedInv
<1>i. CommittedInv /\ RunningInv /\ ValidatingInv
  BY SMT DEF ChainInv
<1>u. UNCHANGED db => CommittedInv'
  BY <1>0, <1>i, CommittedSame
<1>s. /\ "run" \notin {"batch", "end", "validate"}
      /\ "validate" \notin {"batch", "run", "end"}
  BY SMT
<1> USE <1>0, <1>i, <1>s
<1>1. CASE InsertBlocks
  <2>1. PICK b \in Block \ {Genesis} :
          db' = IF Parent[b] \in db.known
                THEN [db EXCEPT !.headers = @ \cup {b}, !.known = @ \cup {b}] ELSE db
    BY <1>1 DEF InsertBlocks
  <2>2. /\ db'.state = db.state /\ db'.exec = db.exec /\ db'.canonical = db.canonical
        /\ db'.headHeader = db.headHeader /\ db'.headBlock = db.headBlock
        /\ db'.headers \in {db.headers, db.headers \cup {b}}
    BY <2>1, InsertedIs
  <2>3. db.headHeader \in db'.headers
    BY SMT, <2>2
  <2>4. CommittedInv'
    BY <2>2, <2>3, CommittedSame
  <2>5. pc' = "idle"
    BY <1>1 DEF InsertBlocks, Admitted
  <2> QED
    BY <2>4, <2>5, NotRunning DEF ChainInv
<1>2. CASE ForkChoiceNotStarted \/ ValidateNotStarted \/ ForkChoiceBadBlock \/ ForkChoiceInvalid
           \/ ForkChoiceFails
  <2>1. UNCHANGED db /\ pc' = "answered"
    BY <1>2 DEF ForkChoiceNotStarted, ValidateNotStarted, AnswerAtOnce,
       ForkChoiceBadBlock, ForkChoiceInvalid, ForkChoiceFails, Abandon
  <2> QED
    BY <1>u, <2>1, NotRunning DEF ChainInv
<1>3. CASE ForkChoiceStarts
  <2>1. PICK h \in Block \ {Genesis}, safe \in SafeHashes :
          /\ h \in db.headers /\ ~IsCanonical(db, h) /\ SidePath(db, h) \subseteq db.headers
          /\ tx' = IF fv.ext = h THEN Flushed(Started(h), h) ELSE Started(h)
          /\ call' = [Request("forkchoice", h, safe) EXCEPT
               !.reply = IF fv.ext = h /\ ParallelStateFlushing THEN "Success" ELSE @]
    BY <1>3 DEF ForkChoiceStarts, Started
  <2>2. pc' = "run" /\ UNCHANGED db
    BY <1>3 DEF ForkChoiceStarts
  <2>3. call'.head = h
    <3>1. safe \in Block \cup {None}
      BY TreeAssumption
    <3>2. Request("forkchoice", h, safe) \in Calls /\ Request("forkchoice", h, safe).head = h
      BY SMT, <3>1, RequestIs
    <3> QED
      BY SMT, <2>1, <3>2 DEF Calls
  <2>4. /\ tx'.headers = db.headers
        /\ tx'.canonical = Started(h).canonical /\ tx'.headBlock = db.headBlock
        /\ tx'.finish = Started(h).finish
        /\ fv.ext = h => tx'.exec = Number[h] /\ tx'.state = Started(h).state \cup fv.ran
        /\ fv.ext # h => tx'.exec = Started(h).exec /\ tx'.state = Started(h).state
    BY <2>1, StartsIs
  <2> DEFINE p == Ancestor(db, h)
             e == Min(db.exec, p)
             S == db.state \ {db.canonical[n] : n \in {m \in Numbers : m > p}}
  <2>5. /\ Started(h).exec = e /\ Started(h).finish = Min(db.finish, p) /\ Started(h).state = S
    BY StartedIs
  <2>6. /\ e \in Nat /\ e <= p /\ e <= Number[h] /\ e <= Number[db.headHeader]
        /\ S \subseteq Below(db.headHeader, e) /\ Below(h, e) = Below(db.headHeader, e)
    BY SMT, <2>1, UnwindMeets
  <2>7. p \in Nat /\ p < Number[h] /\ Number[h] \in Nat
    BY <2>1, MeetsIs, ParentIs
  <2> HIDE DEF p, e, S
  <2>8. tx'.finish < Number[h]
    <3>1. db.finish \in Nat
      BY ViewIs
    <3>2. Min(db.finish, p) \in Nat /\ Min(db.finish, p) <= p
      BY <2>7, <3>1, MinIs
    <3> QED
      BY SMT, <2>4, <2>5, <2>7, <3>2
  <2>9. tx'.headBlock # h
    <3>1. CanonicalAt(db, db.headHeader)
      BY ChainTyped, BelowCanonical
    <3> QED
      BY <2>1, <2>4, <3>1 DEF IsCanonical
  <2>10. tx'.exec <= Number[h]
    BY SMT, <2>4, <2>5, <2>6, <2>7
  <2>11. tx'.state \subseteq Below(h, tx'.exec)
    <3>1. CASE fv.ext = h
      <4>1. fv.ran \subseteq Chain[h]
        <5>1. fv.ext # None
          BY <3>1, TreeAssumption
        <5> QED
          BY <3>1, <5>1 DEF ForkInv, Above
      <4>2. S \subseteq Chain[h]
        BY <2>6 DEF Below
      <4> QED
        BY <2>4, <2>5, <3>1, <4>1, <4>2, BelowAll
    <3>2. CASE fv.ext # h
      BY <2>4, <2>5, <2>6, <3>2
    <3> QED
      BY <3>1, <3>2
  <2>12. Follows(tx', h)
    <3>1. Follows(Started(h), h)
      BY <2>1, StartFollows
    <3> QED
      BY <2>4, <3>1 DEF Follows
  <2>13. RunningInv'
    <3>2. Follows(tx', call'.head)
      BY <2>3, <2>12
    <3> QED
      BY <2>1, <2>2, <2>3, <2>4, <2>8, <2>9, <2>10, <2>11, <3>2
      DEF RunningInv, Follows, Below
  <2> QED
    BY <1>u, <2>2, <2>13 DEF ChainInv, ValidatingInv
<1>4. CASE RunNothing \/ RunExecutes \/ RunMeetsInvalidBlock \/ RunMeetsWrongRoot
  <2>1. pc = "run" /\ UNCHANGED <<db, call>>
    BY <1>4 DEF RunNothing, RunExecutes, RunMeetsInvalidBlock, RunMeetsWrongRoot
  <2>2. call.head \in Block /\ Number[call.head] \in Nat
    <3>1. call.head \in Block
      BY SMT, <2>1, TypeIs
    <3> QED
      BY <3>1, ParentIs
  <2>3. /\ Follows(tx, call.head) /\ call.head \in tx.headers /\ tx.headBlock # call.head
        /\ tx.finish < Number[call.head] /\ tx.exec <= Number[call.head]
        /\ tx.state \subseteq Below(call.head, tx.exec)
    <3> QED
      BY <2>1 DEF RunningInv
  <2>4. tx'.headers = tx.headers /\ tx'.canonical = tx.canonical
    BY <1>4, RunNothingIs, RunExecutesIs, RunFailsIs
  <2>5. Follows(tx', call.head) /\ call.head \in tx'.headers
    BY <2>3, <2>4 DEF Follows
  <2>6. CASE RunNothing
    <3>1. /\ tx'.exec = tx.exec /\ tx'.state = tx.state /\ pc' = "end"
          /\ tx.exec >= Number[call.head]
      BY <2>6, RunNothingIs
    <3>2. tx.exec \in Nat
      BY ViewIs DEF Good
    <3>3. tx.exec = Number[call.head]
      BY SMT, <2>2, <2>3, <3>1, <3>2
    <3>4. tx'.state \subseteq Chain[call.head]
      BY <2>3, <3>1 DEF Below
    <3> QED
      BY <1>u, <2>1, <2>5, <3>1, <3>3, <3>4, RunEnded DEF ChainInv
  <2>7. CASE RunExecutes
    <3>1. PICK last \in LastBlocks :
              /\ RootMatches(last)
              /\ tx'.exec = last /\ tx'.state = tx.state \cup ToRun(last)
              /\ pc' = IF last < Number[call.head] THEN "batch" ELSE "end"
      BY <2>7, RunExecutesIs
    <3>2. last = Number[call.head] /\ ~(last < Number[call.head]) /\ tx.canonical[last] = call.head
      BY <2>1, OneBatch
    <3>3. tx'.state = Chain[call.head] /\ pc' = "end" /\ tx'.exec = Number[call.head]
      BY <3>1, <3>2 DEF RootMatches
    <3> QED
      BY <1>u, <2>1, <2>5, <3>3, RunEnded DEF ChainInv
  <2>8. CASE RunMeetsInvalidBlock \/ RunMeetsWrongRoot
    <3>1. PICK last \in LastBlocks : pc' = "end" \/ (pc' = "batch" /\ last < Number[call.head])
      BY <2>8, RunFailsIs
    <3>2. pc' = "end"
      BY <2>1, <3>1, OneBatch
    <3>3. tx'.headBlock # call.head
      BY <2>3, <2>8, RunFailsIs
    <3> QED
      BY <1>u, <2>1, <2>5, <3>2, <3>3, RunEnded DEF ChainInv
  <2> QED
    BY <1>4, <2>6, <2>7, <2>8
<1>5. CASE NextBatch
  BY <1>5 DEF NextBatch, RunningInv
<1>6. CASE ForkChoiceSuccess
  <2>1. /\ db'.exec = tx.exec /\ db'.state = tx.state
        /\ db'.headers = tx.headers /\ db'.headHeader = call.head /\ db'.headBlock = call.head
        /\ \A n \in Numbers : db'.canonical[n] = IF n > Number[call.head] THEN None ELSE tx.canonical[n]
        /\ pc = "end" /\ tx.headBlock = call.head /\ pc' = "answered"
    BY <1>6, SuccessIs
  <2>3. call.head \in Block /\ Number[call.head] \in Nat
    <3>1. call.head \in Block
      BY SMT, <2>1, TypeIs
    <3> QED
      BY <3>1, ParentIs
  <2>4. /\ Follows(tx, call.head) /\ call.head \in tx.headers /\ tx.exec = Number[call.head]
        /\ tx.state \subseteq Chain[call.head]
    BY <2>1 DEF RunningInv
  <2>5. ASSUME NEW n \in Numbers, n <= Number[call.head] PROVE ~(n > Number[call.head])
    <3>1. n \in Nat
      BY NumbersAre
    <3> QED
      BY SMT, <2>3, <2>5, <3>1
  <2>6. Follows(db', call.head)
    BY <2>1, <2>4, <2>5 DEF Follows
  <2>7. /\ \A n \in Numbers : n > Number[call.head] => db'.canonical[n] = None
        /\ db'.exec <= Number[call.head]
    BY SMT, <2>1, <2>3, <2>4
  <2>8. db'.state \subseteq Below(call.head, Number[call.head])
    BY <2>1, <2>3, <2>4, BelowAll
  <2>9. CommittedInv'
    BY <2>1, <2>4, <2>6, <2>7, <2>8 DEF CommittedInv, Follows, Below
  <2> QED
    BY <2>1, <2>9, NotRunning DEF ChainInv
<1>7. CASE ValidateUnwinds
  <2>1. PICK b \in Block \ {Genesis} :
          /\ SidePath(db, b) \subseteq db.headers
          /\ db' = Unwound(db, Ancestor(db, b)) /\ call' = Request("validate", b, None)
    BY <1>7 DEF ValidateUnwinds
  <2>2. call'.head = b
    <3>1. None \in Block \cup {None}
      BY Zenon
    <3> QED
      BY SMT, <2>1, <3>1, RequestIs
  <2> DEFINE p == Ancestor(db, b)
             e == Min(db.exec, p)
             S == db.state \ {db.canonical[n] : n \in {m \in Numbers : m > p}}
  <2>3. /\ e \in Nat /\ e <= p /\ e <= Number[b] /\ e <= Number[db.headHeader]
        /\ S \subseteq Below(db.headHeader, e) /\ Below(b, e) = Below(db.headHeader, e)
    BY SMT, <2>1, UnwindMeets
  <2>4. p \in Numbers
    BY <2>1, MeetsIs
  <2>5. /\ db'.exec = e /\ db'.state = S /\ db'.headers = db.headers
        /\ db'.canonical = db.canonical /\ db'.headHeader = db.headHeader
        /\ db'.headBlock = db.headBlock
    BY <2>1, <2>4, UnwoundIs
  <2> HIDE DEF p, e, S
  <2>6. CommittedInv'
    BY <2>3, <2>5 DEF CommittedInv, Follows, Below
  <2>7. pc' = "validate"
    BY <1>7 DEF ValidateUnwinds
  <2>8. RunningInv'
    BY <2>7 DEF RunningInv
  <2>9. ValidatingInv'
    BY <2>2, <2>3, <2>5 DEF ValidatingInv, Below
  <2> QED
    BY <2>6, <2>8, <2>9 DEF ChainInv
<1>8. CASE ValidateSteps \/ ValidateFails
  <2>1. PICK st \in Statuses, H \in SUBSET db.headers :
              /\ Genesis \in H /\ ValidateEnds(st, H)
              /\ db.headBlock \in db.headers => db.headBlock \in H
    BY <1>8, ValidationIs
  <2>2. pc = "validate"
    BY <1>8, ValidationIs
  <2>3. /\ db'.exec = db.exec /\ db'.state = db.state /\ db'.headers = H
        /\ db'.canonical = db.canonical /\ db'.headHeader = db.headHeader
        /\ db'.headBlock = db.headBlock /\ pc' = "answered"
    BY <2>1, <2>2, EndsIs
  <2>4. CommittedInv'
    BY <2>1, <2>3, CommittedSame
  <2> QED
    BY <2>3, <2>4, NotRunning DEF ChainInv
<1>9. CASE PruneRuns
  <2>1. db' \in {db, Pruned(db)} /\ pc = "idle" /\ pc' = pc
    BY <1>9 DEF PruneRuns
  <2>2. /\ db'.exec = db.exec /\ db'.state = db.state /\ db'.headers = db.headers
        /\ db'.canonical = db.canonical /\ db'.headHeader = db.headHeader
        /\ db'.headBlock = db.headBlock
    BY <2>1, PrunedIs
  <2>3. CommittedInv'
    BY <2>2, CommittedSame
  <2> QED
    BY <2>1, <2>3, NotRunning DEF ChainInv
<1>10. CASE Crash \/ Return
  <2>1. pc' = "idle" /\ UNCHANGED db
    BY <1>10 DEF Crash, Return
  <2> QED
    BY <1>u, <2>1, NotRunning DEF ChainInv
<1>11. CASE PruneWaits \/ Timeout \/ UNCHANGED vars
  <2>1. UNCHANGED <<db, tx, pc>>
    BY <1>11 DEF PruneWaits, Timeout, vars
  <2>2. call'.head = call.head
    <3>1. CASE Timeout
      BY SMT, <3>1 DEF Timeout, Calls
    <3> QED
      BY <1>11, <3>1 DEF PruneWaits, vars
  <2> QED
    BY <1>u, <2>1, <2>2 DEF ChainInv, RunningInv, ValidatingInv, Follows, Below
<1> QED
  BY <1>1, <1>2, <1>3, <1>4, <1>5, <1>6, <1>7, <1>8, <1>9, <1>10, <1>11
  DEF Next, HandlerSteps, ForkChoiceSteps, PruneSteps

(* With batches left out: what CanonicalIsChain and FlushOnBase rest on.   *)
LEMMA ChainAlways ==
  ASSUME ~Batches PROVE Spec => [](TypeInv /\ ForkInv /\ ChainInv)
<1>1. Init => ForkInv /\ ChainInv
  <2> SUFFICES ASSUME Init PROVE ForkInv /\ ChainInv
    OBVIOUS
  <2>1. /\ Genesis \in Block /\ Number[Genesis] = 0 /\ Genesis \in Chain[Genesis]
        /\ Numbers \in SUBSET Nat
    BY TreeAssumption, ChainTyped, NumbersAre, Zenon
  <2>2. /\ db.headers = {Genesis} /\ db.state = {Genesis} /\ db.exec = 0
        /\ db.headHeader = Genesis /\ db.headBlock = Genesis
        /\ db.canonical = [n \in Numbers |-> IF n = 0 THEN Genesis ELSE None]
        /\ fv.ext = None /\ pc = "idle"
    BY DEF Init
  <2>3. ForkInv
    BY <2>2 DEF ForkInv
  <2>4. At(Genesis, 0) = Genesis
    <3>1. 0 \in 0..Number[Genesis]
      BY <2>1
    <3> QED
      BY <2>1, <3>1, AtIs, Zenon
  <2>5. \A n \in Numbers : n <= 0 => n = 0
    BY <2>1
  <2>6. Follows(db, Genesis)
    BY <2>1, <2>2, <2>4, <2>5, Zenon DEF Follows
  <2>7. \A n \in Numbers : n > 0 => db.canonical[n] = None
    BY <2>2
  <2>8. db.state \subseteq Below(Genesis, 0) /\ db.exec <= 0
    BY <2>1, <2>2 DEF Below
  <2>9. CommittedInv
    BY <2>1, <2>2, <2>6, <2>7, <2>8 DEF CommittedInv
  <2>10. RunningInv /\ ValidatingInv
    BY <2>2 DEF RunningInv, ValidatingInv
  <2> QED
    BY <2>3, <2>9, <2>10 DEF ChainInv
<1>2. TypeInv /\ ForkInv /\ ChainInv /\ [Next]_vars => ForkInv' /\ ChainInv'
  BY ForkStep, ChainStep
<1> QED
  BY <1>1, <1>2, TypeAlways, PTL DEF Spec

(* Without failing reads the fork needs no more than itself.               *)
LEMMA ForkAlways ==
  ASSUME ~LookupFails PROVE Spec => []ForkInv
<1>1. Init => ForkInv
  <2> SUFFICES ASSUME Init PROVE ForkInv
    OBVIOUS
  <2>1. fv.ext = None /\ pc = "idle"
    BY DEF Init
  <2> QED
    BY <2>1 DEF ForkInv
<1>2. TypeInv /\ ForkInv /\ [Next]_vars => ForkInv'
  BY ForkStep
<1> QED
  BY <1>1, <1>2, TypeAlways, PTL DEF Spec

(* The fork ValidateChain left in memory sits, when the next request is    *)
(* admitted, on the committed state it was executed on (fork_validator.go, *)
(* ValidatePayload, FlushExtendingFork): for every tree, with batches as   *)
(* long as reading the latest valid hash does not fail, and without them   *)
(* even when it does.                                                      *)
THEOREM ForkAlwaysOnBase ==
  ASSUME ~Batches \/ ~LookupFails PROVE Spec => []FlushOnBase
<1>1. ForkInv => FlushOnBase
  <2> SUFFICES ASSUME ForkInv, pc = "idle", fv.ext # None
               PROVE  db.exec = fv.from /\ db.state \subseteq Chain[fv.ext]
    BY Zenon DEF FlushOnBase
  <2>1. pc \in {"idle", "answered"}
    OBVIOUS
  <2> QED
    BY <2>1, Zenon DEF ForkInv
<1>2. CASE ~LookupFails
  <2>1. Spec => []ForkInv
    BY <1>2, ForkAlways
  <2> QED
    BY <1>1, <2>1, PTL
<1>3. CASE ~Batches
  <2>1. Spec => [](TypeInv /\ ForkInv /\ ChainInv)
    BY <1>3, ChainAlways
  <2> QED
    BY <1>1, <2>1, PTL
<1> QED
  BY <1>2, <1>3

(* Up to HeadHeaderHash the committed canonical hashes are the chain of    *)
(* that header (forkchoice.go, updateForkChoice): fork choices whose run   *)
(* fits one batch leave no mixture of two chains, whether they succeed,    *)
(* are refused, fail or crash, and whatever validations unwound before.    *)
THEOREM CanonicalAlwaysChain ==
  ASSUME ~Batches PROVE Spec => []CanonicalIsChain
<1>1. ChainInv => CanonicalIsChain
  BY DEF ChainInv, CommittedInv, Follows, CanonicalIsChain
<1> QED
  BY <1>1, ChainAlways, PTL

-----------------------------------------------------------------------------
(* State and verdicts, without batches and failing reads.                  *)

(* A chain is its lower and its upper part.                                *)
LEMMA SplitChain ==
  ASSUME NEW h \in Block, NEW n \in Nat
  PROVE  Below(h, n) \cup Above(h, n) = Chain[h]
<1>1. \A x \in Chain[h] : Number[x] <= n \/ Number[x] > n
  BY ChainBelow
<1> QED
  BY <1>1, Zenon DEF Below, Above

(* The ancestors of a valid block are valid.                               *)
LEMMA ValidBelow ==
  ASSUME NEW h \in Block, Valid(h), NEW x \in Chain[h]
  PROVE  Valid(x)
<1>1. Chain[x] = Below(h, Number[x])
  BY ChainBelow, Zenon
<1> QED
  BY <1>1, Zenon DEF Valid, Below

(* A run to the head executes the blocks of its chain above the state.     *)
LEMMA ToRunExact ==
  ASSUME Good(tx), NEW h \in Block, Follows(tx, h)
  PROVE  ToRun(Number[h]) = Above(h, tx.exec)
<1>1. Number[h] \in Nat /\ Number[h] \in Numbers
  BY ParentIs, NumbersAre, Zenon
<1>2. ASSUME NEW m \in Numbers, tx.exec < m, m <= Number[h]
      PROVE  tx.canonical[m] \in Above(h, tx.exec)
  <2>1. m \in Nat
    BY NumbersAre, Zenon
  <2>2. m \in 0..Number[h]
    BY <1>1, <1>2, <2>1
  <2>3. tx.canonical[m] = At(h, m)
    BY <1>2, Zenon DEF Follows
  <2>4. At(h, m) \in Chain[h] /\ Number[At(h, m)] = m
    BY <2>2, AtIs, Zenon
  <2>5. tx.exec \in Nat
    BY ViewIs, Zenon DEF Good
  <2>6. m > tx.exec
    BY <1>2, <2>1, <2>5
  <2> QED
    BY <2>3, <2>4, <2>6, Zenon DEF Above
<1>3. ASSUME NEW x \in Above(h, tx.exec)
      PROVE  x \in ToRun(Number[h])
  <2>1. x \in Chain[h] /\ Number[x] > tx.exec
    BY Zenon DEF Above
  <2>2. x \in Block /\ Number[x] \in Nat /\ Number[x] <= Number[h] /\ Number[x] \in Numbers
    BY <2>1, ChainBelow, NumbersAre, Zenon
  <2>3. Number[x] \in 0..Number[h]
    BY <1>1, <2>2
  <2>4. x = At(h, Number[x])
    BY <2>1, <2>3, AtIs, Zenon
  <2>5. tx.canonical[Number[x]] = x
    BY <2>2, <2>4, Zenon DEF Follows
  <2>6. tx.exec \in Nat
    BY ViewIs, Zenon DEF Good
  <2>7. tx.exec < Number[x]
    BY <2>1, <2>2, <2>6
  <2> QED
    BY <2>2, <2>5, <2>7, Zenon DEF ToRun
<1> QED
  BY <1>2, <1>3, Zenon DEF ToRun

(* The state a fork choice starts from, with the fork it flushes, is that  *)
(* of the chain of its head up to the progress it is given.                *)
LEMMA StartExact ==
  ASSUME TypeInv, ForkInv, CommittedInv, StateExact, ForkExact, pc = "idle",
         NEW h \in Block, SidePath(db, h) \subseteq db.headers
  PROVE  /\ Started(h).state = Below(h, Started(h).exec)
         /\ fv.ext = h => Started(h).state \cup fv.ran = Chain[h]
<1>0. /\ Good(db) /\ db.headHeader \in Block /\ Number[db.headHeader] \in Nat /\ db.exec \in Nat
      /\ db.exec <= Number[db.headHeader] /\ Number[h] \in Nat
      /\ db.state = Below(db.headHeader, db.exec)
  BY TypeIs, ViewIs, ParentIs, Zenon DEF Good, CommittedInv, StateExact
<1> DEFINE p == Ancestor(db, h)
           e == Min(db.exec, p)
           S == db.state \ {db.canonical[n] : n \in {m \in Numbers : m > p}}
<1>1. /\ Started(h).exec = e /\ Started(h).state = S
  BY <1>0, StartedIs, Zenon
<1>2. /\ e \in Nat /\ e <= p /\ S = {x \in db.state : Number[x] <= p}
      /\ S \subseteq Below(db.headHeader, e) /\ Below(h, e) = Below(db.headHeader, e)
  BY <1>0, UnwindMeets
<1>3. p \in Nat /\ \A x \in Chain[h] : CanonicalAt(db, x) => Number[x] <= p
  BY <1>0, MeetsIs, Zenon
<1> HIDE DEF p, S
<1>4. e <= db.exec /\ (db.exec <= p => e = db.exec)
  BY <1>0, <1>3, MinIs, Zenon
<1> HIDE DEF e
<1>5. \A x \in Chain[db.headHeader] : Number[x] <= e => Number[x] <= db.exec /\ Number[x] <= p
  BY <1>0, <1>2, <1>3, <1>4, ChainBelow
<1>6. S = Below(db.headHeader, e)
  BY <1>0, <1>2, <1>5, Zenon DEF Below
<1>7. ASSUME fv.ext = h PROVE S \cup fv.ran = Chain[h]
  <2>1. fv.ext # None /\ pc \in {"idle", "answered"}
    BY <1>7, TreeAssumption
  <2>2. db.exec = fv.from /\ db.state \subseteq Chain[h] /\ fv.ran = Above(h, fv.from)
    BY <1>7, <2>1, Zenon DEF ForkInv, ForkExact
  <2> DEFINE x == At(db.headHeader, db.exec)
  <2>3. x \in Chain[db.headHeader] /\ Number[x] = db.exec
    <3>1. db.exec \in 0..Number[db.headHeader]
      BY <1>0
    <3> QED
      BY <1>0, <3>1, AtIs, Zenon
  <2> HIDE DEF x
  <2>4. Number[x] <= db.exec
    BY <1>0, <2>3
  <2>5. x \in Chain[h] /\ CanonicalAt(db, x)
    BY <1>0, <2>2, <2>3, <2>4, BelowCanonical, Zenon DEF Below
  <2>6. e = db.exec
    BY <1>3, <1>4, <2>3, <2>5, Zenon
  <2>7. S = Below(h, db.exec)
    BY <1>2, <1>6, <2>6, Zenon
  <2>8. fv.ran = Above(h, db.exec)
    BY <2>2, Zenon
  <2>9. Below(h, db.exec) \cup Above(h, db.exec) = Chain[h]
    BY <1>0, SplitChain, Zenon
  <2> QED
    BY <2>7, <2>8, <2>9, Zenon
<1> QED
  BY <1>1, <1>2, <1>6, <1>7, Zenon

(* An answer, given at once or after a run.                                *)
LEMMA AnswerExact ==
  ASSUME NEW c \in Calls, NEW st \in Statuses, call' = Answer(c, st),
         c.reply = "Success" => Valid(c.head),
         st = "Success" => Valid(c.head), st = "BadBlock" => ~Valid(c.head)
  PROVE  AnswersExact'
<1>1. /\ call'.head = c.head /\ call'.outcome = st
      /\ call'.reply = IF c.reply = "none" THEN st ELSE c.reply
  BY AnswerIs, Zenon
<1>2. call'.reply = "Success" => Valid(c.head)
  BY <1>1, Zenon
<1> QED
  BY <1>1, <1>2, Zenon DEF AnswersExact, NoFalseBadBlock, Valid

(* A handler that is neither in a run nor at its end.                      *)
LEMMA NoRunExact ==
  ASSUME pc' = "idle" \/ pc' = "answered" \/ pc' = "validate"
  PROVE  RunExact'
<1>1. pc' # "run" /\ pc' # "end"
  OBVIOUS
<1> QED
  BY <1>1, Zenon DEF RunExact

(* A fork that is kept or cleared.                                         *)
LEMMA ForkExactFrame ==
  ASSUME ForkExact, fv' = fv \/ fv'.ext = None
  PROVE  ForkExact'
  BY Zenon DEF ForkExact, Valid, Above

(* A step that leaves state, progress and head alone.                      *)
LEMMA StateExactFrame ==
  ASSUME StateExact, db'.state = db.state, db'.exec = db.exec, db'.headHeader = db.headHeader
  PROVE  StateExact'
  BY Zenon DEF StateExact, Valid, Below

(* Every step keeps state, fork and verdicts exact.                        *)
LEMMA ExactStep ==
  ASSUME ~Batches, ~LookupFails, TypeInv, SoundInv, SoundInv', ForkInv, ChainInv, ExactInv,
         [Next]_vars
  PROVE  ExactInv'
<1> USE Zenon
<1>0. /\ Good(db) /\ Good(tx) /\ db \in Views /\ fv \in Fvs /\ call \in Calls
      /\ db.headHeader \in Block /\ CommittedInv /\ RunningInv /\ ValidatingInv
  BY TypeIs, ViewIs DEF Good, ChainInv
<1>i. StateExact /\ ForkExact /\ RunExact /\ AnswersExact
  BY SMT DEF ExactInv
<1>c. Cleared(fv).ext = None
  BY <1>0, ClearedIs
<1>u. UNCHANGED db => StateExact'
  BY <1>i, StateExactFrame
<1>v. \A x \in Block : CanonicalAt(db, x) => Valid(x)
  BY <1>0, <1>i, CanonicalBelow, ValidBelow DEF StateExact
<1>s. /\ {"Success", "Error", "BadBlock", "InvalidForkchoice", "MissingSegment", "TooFarAway"}
           \subseteq Statuses \ {"none"}
      /\ "Success" \notin {"Error", "BadBlock", "InvalidForkchoice", "MissingSegment", "TooFarAway"}
      /\ "BadBlock" \notin {"Error", "Success", "InvalidForkchoice", "MissingSegment", "TooFarAway"}
      /\ "answered" \notin {"idle", "run", "end", "validate"} /\ "end" # "run"
      /\ "idle" \notin {"run", "end", "validate"}
  BY SMT DEF Statuses
<1> USE <1>0, <1>i, <1>s, NoRunExact, ForkExactFrame
<1>1. CASE InsertBlocks \/ PruneRuns
  <2>1. db'.state = db.state /\ db'.exec = db.exec /\ db'.headHeader = db.headHeader
    <3>1. CASE InsertBlocks
      <4>1. PICK b \in Block \ {Genesis} :
              db' = IF Parent[b] \in db.known
                    THEN [db EXCEPT !.headers = @ \cup {b}, !.known = @ \cup {b}] ELSE db
        BY <3>1 DEF InsertBlocks
      <4> QED
        BY <4>1, InsertedIs
    <3>2. CASE PruneRuns
      BY <3>2, PrunedIs DEF PruneRuns
    <3> QED
      BY <1>1, <3>1, <3>2
  <2>2. pc' = "idle" /\ (fv' = fv \/ fv' = Cleared(fv))
    BY <1>1 DEF InsertBlocks, PruneRuns, Admitted
  <2>3. AnswersExact'
    <3> QED
      BY <2>2 DEF AnswersExact, NoFalseBadBlock
  <2> QED
    BY <1>c, <2>1, <2>2, <2>3, StateExactFrame
    DEF ExactInv
<1>2. CASE ForkChoiceNotStarted \/ ValidateNotStarted
  <2>1. UNCHANGED db /\ pc' = "answered" /\ fv' = Cleared(fv)
    BY <1>2 DEF ForkChoiceNotStarted, ValidateNotStarted, AnswerAtOnce
  <2>3. PICK kind \in {"forkchoice", "validate"}, h \in Block, safe \in Block \cup {None}, st \in Statuses :
          /\ call' = Answer(Request(kind, h, safe), st)
          /\ st # "BadBlock" /\ (st = "Success" => CanonicalAt(db, h))
    <3>1. CASE ForkChoiceNotStarted
      <4>1. PICK h \in Block \ {Genesis}, safe \in SafeHashes :
              \E st \in {"Error", "Success", "InvalidForkchoice", "MissingSegment"} :
                /\ call' = Answer(Request("forkchoice", h, safe), st)
                /\ st = "Success" => IsCanonical(db, h)
        BY <3>1, SMTT(30) DEF ForkChoiceNotStarted, AnswerAtOnce
      <4>2. PICK st \in {"Error", "Success", "InvalidForkchoice", "MissingSegment"} :
              /\ call' = Answer(Request("forkchoice", h, safe), st)
              /\ st = "Success" => IsCanonical(db, h)
        BY <4>1
      <4>4. safe \in Block \cup {None}
        BY TreeAssumption
      <4>5. st = "Success" => CanonicalAt(db, h)
        BY <4>2 DEF IsCanonical
      <4> QED
        BY <4>2, <4>4, <4>5
    <3>2. CASE ValidateNotStarted
      <4>1. PICK h \in Block \ {Genesis} :
              \E st \in {"Error", "TooFarAway", "MissingSegment"} :
                call' = Answer(Request("validate", h, None), st)
        BY <3>2 DEF ValidateNotStarted, AnswerAtOnce
      <4>2. PICK st \in {"Error", "TooFarAway", "MissingSegment"} :
              call' = Answer(Request("validate", h, None), st)
        BY <4>1
      <4> QED
        BY <4>2
    <3> QED
      BY <1>2, <3>1, <3>2
  <2>4. AnswersExact'
    <3>1. /\ Request(kind, h, safe) \in Calls /\ Request(kind, h, safe).head = h
          /\ Request(kind, h, safe).reply = "none"
      BY SMT, RequestIs
    <3>2. Request(kind, h, safe).reply # "Success"
      BY SMT, <3>1
    <3>3. st = "Success" => Valid(h)
      BY <1>v, <2>3
    <3> QED
      BY <2>3, <3>1, <3>2, <3>3, AnswerExact
  <2> QED
    BY <1>c, <1>u, <2>1, <2>4 DEF ExactInv
<1>3. CASE ForkChoiceStarts
  <2>1. PICK h \in Block \ {Genesis}, safe \in SafeHashes :
          /\ h \in db.headers /\ ~IsCanonical(db, h) /\ SidePath(db, h) \subseteq db.headers
          /\ tx' = IF fv.ext = h THEN Flushed(Started(h), h) ELSE Started(h)
          /\ call' = [Request("forkchoice", h, safe) EXCEPT
               !.reply = IF fv.ext = h /\ ParallelStateFlushing THEN "Success" ELSE @]
          /\ fv' = IF fv.ext = h THEN Cleared(fv) ELSE fv
    BY <1>3 DEF ForkChoiceStarts, Started
  <2>2. pc' = "run" /\ UNCHANGED db /\ pc = "idle"
    BY <1>3 DEF ForkChoiceStarts, Admitted
  <2>3. call'.head = h /\ (call'.reply = "Success" => fv.ext = h)
    <3>1. safe \in Block \cup {None}
      BY TreeAssumption
    <3>2. /\ Request("forkchoice", h, safe) \in Calls /\ Request("forkchoice", h, safe).head = h
          /\ Request("forkchoice", h, safe).reply = "none"
      BY SMT, <3>1, RequestIs
    <3> QED
      BY SMT, <2>1, <3>2 DEF Calls
  <2>4. /\ fv.ext = h => tx'.exec = Number[h] /\ tx'.state = Started(h).state \cup fv.ran
        /\ fv.ext # h => tx'.exec = Started(h).exec /\ tx'.state = Started(h).state
    BY <2>1, StartsIs
  <2>5. /\ Started(h).state = Below(h, Started(h).exec)
        /\ fv.ext = h => Started(h).state \cup fv.ran = Chain[h]
    BY <2>1, <2>2, StartExact
  <2>6. fv.ext = h => Valid(h)
    BY TreeAssumption DEF ForkExact
  <2>7. fv.ext # h => tx'.exec # Number[h]
    <3> DEFINE p == Ancestor(db, h)
               e == Min(db.exec, p)
    <3>1. Started(h).exec = e
      BY StartedIs
    <3>2. p \in Nat /\ p < Number[h] /\ Number[h] \in Nat /\ db.exec \in Nat
      BY <2>1, MeetsIs, ParentIs, ViewIs
    <3> HIDE DEF p
    <3>3. e \in Nat /\ e <= p
      BY <3>2, MinIs
    <3> HIDE DEF e
    <3>4. e # Number[h]
      BY SMT, <3>2, <3>3
    <3> QED
      BY <2>4, <3>1, <3>4
  <2>8. tx'.state = Below(h, tx'.exec) /\ (tx'.exec = Number[h] => Valid(h))
    BY <2>4, <2>5, <2>6, <2>7, BelowAll
  <2>10. RunExact'
    BY <2>2, <2>3, <2>8 DEF RunExact, Valid, Below
  <2>11. AnswersExact'
    BY <2>2, <2>3, <2>6 DEF AnswersExact, NoFalseBadBlock, Valid
  <2>12. ForkExact'
    BY <1>c, <2>1, ForkExactFrame
  <2> QED
    BY <1>u, <2>2, <2>10, <2>11, <2>12 DEF ExactInv
<1>4. CASE RunNothing \/ RunExecutes \/ RunMeetsInvalidBlock \/ RunMeetsWrongRoot
  <2>1. pc = "run" /\ UNCHANGED <<db, call>>
    BY <1>4 DEF RunNothing, RunExecutes, RunMeetsInvalidBlock, RunMeetsWrongRoot
  <2>2. call.head \in Block /\ Number[call.head] \in Nat
    <3>1. call.head \in Block
      BY SMT, <2>1, TypeIs
    <3> QED
      BY <3>1, ParentIs
  <2>3. /\ Follows(tx, call.head) /\ tx.headBlock # call.head
        /\ tx.finish < Number[call.head] /\ tx.exec <= Number[call.head]
    <3> QED
      BY <2>1 DEF RunningInv
  <2>4. /\ tx.state = Below(call.head, tx.exec)
        /\ tx.exec = Number[call.head] => Valid(call.head)
        /\ call.reply = "Success" => Valid(call.head)
    <3> QED
      BY <2>1 DEF RunExact, AnswersExact
  <2>5. tx.exec \in Nat /\ tx.finish \in Nat
    BY ViewIs DEF Good
  <2>6. fv' = fv \/ fv'.ext = None
    BY <1>4, RunNothingIs, RunExecutesIs, RunFailsIs
  <2>7. ForkExact' /\ StateExact'
    BY <1>u, <2>1, <2>6, ForkExactFrame
  <2>8. CASE RunNothing
    <3>1. /\ tx'.exec = tx.exec /\ tx'.state = tx.state /\ pc' = "end"
          /\ tx.exec >= Number[call.head] /\ (tx.exec > tx.finish => tx'.headBlock = call.head)
      BY <2>8, RunNothingIs
    <3>2. tx.exec = Number[call.head] /\ tx.exec > tx.finish
      BY SMT, <2>2, <2>3, <2>5, <3>1
    <3>3. tx'.state = Chain[call.head]
      BY <2>2, <2>4, <3>1, <3>2, BelowAll
    <3>5. RunExact' /\ AnswersExact'
      BY <2>1, <2>4, <3>1, <3>2, <3>3
      DEF RunExact, AnswersExact, NoFalseBadBlock, Valid
    <3> QED
      BY <2>7, <3>5 DEF ExactInv
  <2>9. CASE RunExecutes
    <3>1. PICK last \in LastBlocks :
              /\ RootMatches(last)
              /\ tx'.state = tx.state \cup ToRun(last)
              /\ last > tx.finish => tx'.headBlock = call.head
              /\ pc' = IF last < Number[call.head] THEN "batch" ELSE "end"
      BY <2>9, RunExecutesIs
    <3>2. /\ last = Number[call.head] /\ ~(last < Number[call.head]) /\ last > tx.finish
          /\ tx.canonical[last] = call.head
      BY <2>1, OneBatch
    <3>3. tx'.state = Chain[call.head] /\ pc' = "end" /\ tx'.headBlock = call.head
      BY <3>1, <3>2 DEF RootMatches
    <3>4. Valid(call.head)
      BY <3>3 DEF SoundInv, Sound, Valid
    <3>6. RunExact' /\ AnswersExact'
      BY <2>1, <3>3, <3>4 DEF RunExact, AnswersExact, NoFalseBadBlock, Valid
    <3> QED
      BY <2>7, <3>6 DEF ExactInv
  <2>10. CASE RunMeetsInvalidBlock \/ RunMeetsWrongRoot
    <3>1. PICK last \in LastBlocks :
            /\ (\E b \in ToRun(last) : Defect[b] = "invalid") \/ ~RootMatches(last)
            /\ pc' = "end" \/ (pc' = "batch" /\ last < Number[call.head])
      BY <2>10, RunFailsIs
    <3>2. /\ last = Number[call.head] /\ ~(last < Number[call.head])
          /\ tx.canonical[last] = call.head
      BY <2>1, OneBatch
    <3>3. pc' = "end" /\ tx'.headBlock # call.head
      BY <2>3, <2>10, <3>1, <3>2, RunFailsIs
    <3>4. ToRun(last) = Above(call.head, tx.exec)
      BY <2>2, <2>3, <3>2, ToRunExact
    <3>5. tx.state \cup ToRun(last) = Chain[call.head]
      BY <2>2, <2>4, <2>5, <3>4, SplitChain
    <3>6. ~Valid(call.head)
      <4>1. CASE \E b \in ToRun(last) : Defect[b] = "invalid"
        <5>1. PICK b \in ToRun(last) : Defect[b] = "invalid"
          BY <4>1
        <5>2. b \in Chain[call.head] /\ Defect[b] # "none"
          BY SMT, <3>5, <5>1
        <5> QED
          BY <5>2 DEF Valid
      <4>2. CASE ~RootMatches(last)
        <5>1. PICK b \in Chain[call.head] : Defect[b] = "root"
          BY <3>2, <3>5, <4>2 DEF RootMatches
        <5>2. Defect[b] # "none"
          BY SMT, <5>1
        <5> QED
          BY <5>2 DEF Valid
      <4> QED
        BY <3>1, <4>1, <4>2
    <3>8. RunExact' /\ AnswersExact'
      BY <2>1, <2>4, <3>3, <3>6 DEF RunExact, AnswersExact, NoFalseBadBlock, Valid
    <3> QED
      BY <2>7, <3>8 DEF ExactInv
  <2> QED
    BY <1>4, <2>8, <2>9, <2>10
<1>5. CASE NextBatch
  BY <1>5 DEF NextBatch, RunningInv
<1>6. CASE ForkChoiceBadBlock \/ ForkChoiceInvalid \/ ForkChoiceFails
  <2>1. UNCHANGED db /\ pc' = "answered" /\ fv' = Cleared(fv)
    BY <1>6 DEF ForkChoiceBadBlock, ForkChoiceInvalid, ForkChoiceFails, Abandon
  <2>2. pc # "idle"
    BY SMT, <1>6 DEF ForkChoiceBadBlock, ForkChoiceInvalid, ForkChoiceFails
  <2>3. call.reply = "Success" => Valid(call.head)
    BY <2>2 DEF AnswersExact
  <2>4. PICK st \in {"BadBlock", "InvalidForkchoice", "Error"} :
          /\ call' = Answer(call, st)
          /\ st = "BadBlock" => pc = "end" /\ tx.headBlock # call.head
    BY <1>6, SMTT(30) DEF ForkChoiceBadBlock, ForkChoiceInvalid, ForkChoiceFails, Abandon
  <2>6. st = "BadBlock" => ~Valid(call.head)
    BY <2>4 DEF RunExact
  <2>7. AnswersExact'
    BY <2>3, <2>4, <2>6, AnswerExact
  <2> QED
    BY <1>c, <1>u, <2>1, <2>7 DEF ExactInv
<1>7. CASE ForkChoiceSuccess
  <2>1. /\ db'.exec = tx.exec /\ db'.state = tx.state /\ db'.headHeader = call.head
        /\ pc = "end" /\ tx.headBlock = call.head /\ pc' = "answered"
        /\ fv' = Cleared(fv) /\ call' \in {Answer(call, "Success"), Answer(call, "Error")}
    BY <1>7, SuccessIs
  <2>3. Valid(call.head) /\ tx.state = Chain[call.head] /\ tx.exec = Number[call.head]
    BY <2>1 DEF RunExact, RunningInv
  <2>4. call.head \in Block
    BY SMT, <2>1, TypeIs
  <2>5. StateExact'
    BY <2>1, <2>3, <2>4, BelowAll DEF StateExact, Valid, Below
  <2>6. PICK st \in {"Success", "Error"} : call' = Answer(call, st)
    BY <2>1
  <2>8. AnswersExact'
    BY <2>3, <2>6, AnswerExact
  <2> QED
    BY <1>c, <2>1, <2>5, <2>8 DEF ExactInv
<1>8. CASE ValidateUnwinds
  <2>1. PICK b \in Block \ {Genesis} :
          /\ SidePath(db, b) \subseteq db.headers
          /\ db' = Unwound(db, Ancestor(db, b)) /\ call' = Request("validate", b, None)
    BY <1>8 DEF ValidateUnwinds
  <2>2. pc' = "validate" /\ pc = "idle" /\ fv' = Cleared(fv)
    BY <1>8 DEF ValidateUnwinds, Admitted
  <2>3. call'.reply = "none"
    <3>1. None \in Block \cup {None}
      BY Zenon
    <3> QED
      BY SMT, <2>1, <3>1, RequestIs
  <2>4. pc' # "answered" /\ call'.reply # "Success"
    BY SMT, <2>2, <2>3
  <2>5. AnswersExact'
    BY <2>4 DEF AnswersExact, NoFalseBadBlock
  <2>6. Ancestor(db, b) \in Numbers
    BY <2>1, MeetsIs
  <2>7. /\ db'.exec = Started(b).exec /\ db'.state = Started(b).state
        /\ db'.headHeader = db.headHeader
    <3> DEFINE p == Ancestor(db, b)
               e == Min(db.exec, p)
               S == db.state \ {db.canonical[n] : n \in {m \in Numbers : m > p}}
    <3>1. db'.exec = e /\ db'.state = S /\ db'.headHeader = db.headHeader
      BY <2>1, <2>6, UnwoundIs
    <3>2. Started(b).exec = e /\ Started(b).state = S
      BY StartedIs
    <3> QED
      BY <3>1, <3>2
  <2>8. Started(b).state = Below(b, Started(b).exec)
    BY <2>1, <2>2, StartExact
  <2>9. Below(b, Started(b).exec) = Below(db.headHeader, Started(b).exec)
    <3>1. Started(b).exec = Min(db.exec, Ancestor(db, b))
      BY StartedIs
    <3> QED
      BY <2>1, <3>1, UnwindMeets
  <2>10. StateExact'
    BY <2>7, <2>8, <2>9 DEF StateExact, Valid, Below
  <2> QED
    BY <1>c, <2>2, <2>5, <2>10 DEF ExactInv
<1>9. CASE ValidateSteps \/ ValidateFails
  <2>1. pc = "validate"
    BY <1>9, ValidationIs
  <2>2. /\ db'.exec = db.exec /\ db'.state = db.state /\ db'.headHeader = db.headHeader
        /\ pc' = "answered"
    BY <1>9, <2>1, ValidationIs, EndsIs
  <2>3. call.head \in Block /\ db.exec \in Nat /\ pc # "idle"
    <3>1. call.head \in Block /\ pc # "idle"
      BY SMT, <2>1, TypeIs
    <3> QED
      BY <3>1, ViewIs
  <2>4. call.reply = "Success" => Valid(call.head)
    BY <2>3 DEF AnswersExact
  <2>5. StateExact'
    BY <2>2, StateExactFrame
  <2>7. CASE ValidateKnown
    <3>1. PICK st \in {"MissingSegment", "Success"} :
            /\ call' = Answer(call, st)
            /\ st = "Success" => KnownValid(call.head) \/ CanonicalAt(db, call.head)
      BY <2>7, SMTT(30) DEF ValidateKnown, ValidateEnds
    <3>3. st = "Success" => Valid(call.head)
      BY <1>v, <2>3, <3>1 DEF KnownValid, SoundInv, ValidHashesAreValid
    <3>4. AnswersExact'
      BY <2>4, <3>1, <3>3, AnswerExact
    <3>5. fv' = fv
      BY <2>7 DEF ValidateKnown
    <3> QED
      BY <2>2, <2>5, <3>4, <3>5 DEF ExactInv
  <2>8. CASE ValidateGood
    <3>1. /\ call' = Answer(call, "Success") /\ ExecutesInMemory
          /\ fv' = [fv EXCEPT !.ext = call.head, !.from = db.exec, !.ran = InMemory,
                              !.valid = @ \cup {call.head}]
      BY <2>8 DEF ValidateGood, ValidateEnds
    <3>2. fv'.ran = InMemory /\ fv'.ext = call.head /\ fv'.from = db.exec
      BY SMT, <3>1 DEF Fvs
    <3>3. Valid(call.head)
      BY <3>1 DEF ExecutesInMemory, Valid, SoundInv, Sound
    <3>4. ForkExact'
      BY <3>2, <3>3 DEF ForkExact, Valid, Above, InMemory
    <3>6. AnswersExact'
      BY <3>1, <3>3, AnswerExact
    <3> QED
      BY <2>2, <2>5, <3>4, <3>6 DEF ExactInv
  <2>9. CASE ValidateBad
    <3>1. PICK x \in Block : FailsAt(x)
      BY <2>9 DEF ValidateBad
    <3>2. call' = Answer(call, "BadBlock") /\ fv' = Cleared(fv)
      BY <2>9 DEF ValidateBad, ValidateEnds
    <3>3. ASSUME Valid(call.head) PROVE FALSE
      <4>1. db.state = Below(call.head, db.exec)
        BY <2>1 DEF StateExact, ValidatingInv
      <4>2. InMemory = Above(call.head, db.exec)
        BY DEF InMemory, Above
      <4>3. db.state \cup InMemory = Chain[call.head]
        BY <2>3, <4>1, <4>2, SplitChain
      <4>4. ExecutesInMemory
        BY <3>3, <4>3 DEF ExecutesInMemory, Valid
      <4> QED
        BY <3>1, <4>4 DEF FailsAt
    <3>5. AnswersExact'
      BY <2>4, <3>2, <3>3, AnswerExact
    <3> QED
      BY <1>c, <2>2, <2>5, <3>2, <3>5 DEF ExactInv
  <2>10. CASE ValidateFails
    <3>1. call' = Answer(call, "Error") /\ fv' = Cleared(fv)
      BY <2>10 DEF ValidateFails, ValidateEnds
    <3>3. AnswersExact'
      BY <2>4, <3>1, AnswerExact
    <3> QED
      BY <1>c, <2>2, <2>5, <3>1, <3>3 DEF ExactInv
  <2> QED
    BY <1>9, <2>7, <2>8, <2>9, <2>10 DEF ValidateSteps
<1>10. CASE Crash \/ Return
  <2>1. pc' = "idle" /\ UNCHANGED db
    BY <1>10 DEF Crash, Return
  <2>2. fv' = fv \/ fv'.ext = None
    <3>1. CASE Crash
      BY SMT, <3>1 DEF Crash
    <3> QED
      BY <1>10, <3>1 DEF Return
  <2>3. pc' # "answered" /\ pc' \in {"idle", "answered", "validate"}
    BY SMT, <2>1
  <2>4. AnswersExact'
    BY <2>1, <2>3 DEF AnswersExact, NoFalseBadBlock
  <2> QED
    BY <1>u, <2>1, <2>2, <2>3, <2>4 DEF ExactInv
<1>11. CASE PruneWaits \/ Timeout \/ UNCHANGED vars
  <2>1. UNCHANGED <<db, tx, pc, fv>>
    BY <1>11 DEF PruneWaits, Timeout, vars
  <2>2. call'.head = call.head /\ call'.outcome = call.outcome
        /\ (call'.reply = "Success" => call.reply = "Success")
    <3>1. CASE Timeout
      BY SMT, <3>1 DEF Timeout, Calls
    <3> QED
      BY <1>11, <3>1 DEF PruneWaits, vars
  <2>3. RunExact' /\ AnswersExact'
    BY <2>1, <2>2 DEF RunExact, AnswersExact, NoFalseBadBlock, Valid, Below
  <2> QED
    BY <1>u, <2>1, <2>3 DEF ExactInv
<1> QED
  BY <1>1, <1>2, <1>3, <1>4, <1>5, <1>6, <1>7, <1>8, <1>9, <1>10, <1>11
  DEF Next, HandlerSteps, ForkChoiceSteps, PruneSteps

(* State, fork and verdicts are exact.                                     *)
LEMMA ExactAlways ==
  ASSUME ~Batches, ~LookupFails
  PROVE  Spec => [](TypeInv /\ ChainInv /\ ExactInv)
<1>1. Init => ExactInv
  <2> SUFFICES ASSUME Init PROVE ExactInv
    OBVIOUS
  <2>1. /\ Genesis \in Block /\ Number[Genesis] = 0 /\ Chain[Genesis] = {Genesis}
        /\ Defect[Genesis] = "none"
    BY TreeAssumption, ChainIs, Zenon
  <2>2. /\ db.state = {Genesis} /\ db.exec = 0 /\ db.headHeader = Genesis
        /\ fv.ext = None /\ pc = "idle"
    BY DEF Init
  <2>3. StateExact
    BY <2>1, <2>2 DEF StateExact, Below, Valid
  <2>4. ForkExact /\ RunExact /\ AnswersExact
    BY <2>2 DEF ForkExact, RunExact, AnswersExact, NoFalseBadBlock
  <2> QED
    BY <2>3, <2>4 DEF ExactInv
<1>2. TypeInv /\ SoundInv /\ SoundInv' /\ ForkInv /\ ChainInv /\ ExactInv /\ [Next]_vars => ExactInv'
  BY ExactStep
<1>3. Spec => []SoundInv
  BY SoundAlways
<1>4. Spec => [](TypeInv /\ ForkInv /\ ChainInv)
  BY ChainAlways
<1> QED
  BY <1>1, <1>2, <1>3, <1>4, PTL DEF Spec

(* The committed flat state is that of the canonical block Execution's     *)
(* progress names (RunUnwind, FlushExtendingFork, commit of                *)
(* updateForkChoice), for every tree, when fork choices fit one batch and  *)
(* the latest valid hash can be read.                                      *)
THEOREM StateAlwaysCanonical ==
  ASSUME ~Batches, ~LookupFails PROVE Spec => []StateIsCanonical
<1>1. ASSUME TypeInv, ChainInv, ExactInv PROVE StateIsCanonical
  <2>1. /\ Good(db) /\ CommittedInv /\ db.state = Below(db.headHeader, db.exec)
        /\ db.exec <= Number[db.headHeader]
    BY <1>1, TypeIs, Zenon DEF ChainInv, CommittedInv, ExactInv, StateExact
  <2>2. /\ db.headHeader \in Block /\ Number[db.headHeader] \in Nat /\ db.exec \in Nat
    BY <2>1, ViewIs, ParentIs, Zenon DEF Good
  <2>3. ASSUME NEW x \in Below(db.headHeader, db.exec)
        PROVE  x \in {db.canonical[n] : n \in {m \in Numbers : m <= db.exec}}
    <3>1. x \in Chain[db.headHeader] /\ Number[x] <= db.exec
      BY Zenon DEF Below
    <3>2. x = db.canonical[Number[x]] /\ Number[x] \in Numbers
      BY <2>1, <2>2, <3>1, BelowCanonical, ChainBelow, NumbersAre, Zenon DEF CanonicalAt
    <3> QED
      BY <3>1, <3>2, Zenon
  <2>4. ASSUME NEW n \in Numbers, n <= db.exec
        PROVE  db.canonical[n] \in Below(db.headHeader, db.exec)
    <3>1. n \in Nat
      BY NumbersAre, Zenon
    <3>2. n <= Number[db.headHeader] /\ n \in 0..Number[db.headHeader]
      BY <2>1, <2>2, <2>4, <3>1
    <3>3. db.canonical[n] = At(db.headHeader, n)
      BY <2>1, <3>2, Zenon DEF CommittedInv, Follows
    <3>4. At(db.headHeader, n) \in Chain[db.headHeader] /\ Number[At(db.headHeader, n)] = n
      BY <2>2, <3>2, AtIs, Zenon
    <3> QED
      BY <2>4, <3>3, <3>4, Zenon DEF Below
  <2> QED
    BY <2>1, <2>3, <2>4, Zenon DEF StateIsCanonical
<1> QED
  BY <1>1, ExactAlways, PTL

(* A head the client is told Success for, at once, early or after a run,   *)
(* is the head of a valid chain (updateForkChoice, ValidateChain).         *)
THEOREM SuccessAlwaysValid ==
  ASSUME ~Batches, ~LookupFails PROVE Spec => []SuccessMeansValid
<1>1. ASSUME ExactInv PROVE SuccessMeansValid
  <2>1. pc = "answered" => pc # "idle"
    OBVIOUS
  <2> QED
    BY <1>1, <2>1, Zenon DEF ExactInv, AnswersExact, SuccessMeansValid
<1> QED
  BY <1>1, ExactAlways, PTL

(* BadBlock is answered for chains with a bad block only: no state an      *)
(* earlier call left behind makes a valid chain fail (forkchoice.go,       *)
(* fork_validator.go).                                                     *)
THEOREM NeverFalseBadBlock ==
  ASSUME ~Batches, ~LookupFails PROVE Spec => []NoFalseBadBlock
<1>1. ExactInv => NoFalseBadBlock
  BY DEF ExactInv, AnswersExact
<1> QED
  BY <1>1, ExactAlways, PTL

-----------------------------------------------------------------------------
(* The committed head and its state.                                       *)

(* The head that is asked for is that of the fork choice under way.        *)
LEMMA ServedIs ==
  ASSUME OpenInv
  PROVE  /\ pc \in {"run", "batch", "end"} => Served = call.head
         /\ pc \in {"idle", "validate", "answered"} => Served = None
  BY DEF OpenInv, Served

(* Every step moves the committed head and state as ChainHead says.        *)
LEMMA HeadStep ==
  ASSUME ~Batches, ~LookupFails, TypeInv, TypeInv', OpenInv, OpenInv', ForkInv, ChainInv,
         ExactInv, [Next]_vars
  PROVE  [Committed!Next]_(Committed!vars)
<1> USE Zenon
<1>0. /\ Good(db) /\ Good(tx) /\ db \in Views /\ call \in Calls /\ db.headHeader \in Block
      /\ CommittedInv /\ RunningInv /\ StateExact /\ ForkExact /\ RunExact
  BY TypeIs, ViewIs DEF Good, ChainInv, ExactInv
<1>p. pc \in Places /\ pc' \in Places
  BY DEF TypeInv, TypeOK, Places
<1>i. /\ pc \in {"run", "batch", "end"} => Served = call.head
      /\ pc \in {"idle", "validate", "answered"} => Served = None
  BY ServedIs
<1>n. /\ pc' \in {"run", "batch", "end"} => Served' = call'.head
      /\ pc' \in {"idle", "validate", "answered"} => Served' = None
  BY SMT DEF OpenInv, Served
<1>b. pc \in {"run", "batch", "end"} => call.head \in Block /\ call.head # None
  BY SMT, TreeAssumption DEF TypeInv
<1>1. ASSUME db'.headHeader = db.headHeader, db'.state = db.state, Served' = Served
      PROVE  [Committed!Next]_(Committed!vars)
  BY <1>1 DEF Committed!vars
<1> USE <1>0, <1>b, <1>i, <1>n
<1>2. CASE InsertBlocks \/ PruneRuns
  <2>1. db'.state = db.state /\ db'.headHeader = db.headHeader
    <3>1. CASE InsertBlocks
      <4>1. PICK b \in Block \ {Genesis} :
              db' = IF Parent[b] \in db.known
                    THEN [db EXCEPT !.headers = @ \cup {b}, !.known = @ \cup {b}] ELSE db
        BY <3>1 DEF InsertBlocks
      <4> QED
        BY <4>1, InsertedIs
    <3>2. CASE PruneRuns
      BY <3>2, PrunedIs DEF PruneRuns
    <3> QED
      BY <1>2, <3>1, <3>2
  <2>2. call' = call
    BY <1>2 DEF InsertBlocks, PruneRuns
  <2> QED
    BY <1>1, <2>1, <2>2 DEF Served
<1>3. CASE ForkChoiceNotStarted \/ ValidateNotStarted \/ Return
  <2>1. /\ db' = db /\ pc \in {"idle", "validate", "answered"}
        /\ pc' \in {"idle", "validate", "answered"}
    BY <1>3 DEF ForkChoiceNotStarted, ValidateNotStarted, AnswerAtOnce, Admitted, Return
  <2> QED
    BY <1>1, <2>1
<1>4. CASE ForkChoiceStarts
  <2>1. db' = db /\ pc = "idle" /\ pc' = "run"
    BY <1>4 DEF ForkChoiceStarts, Admitted
  <2>2. call'.head \in Block
    BY <2>1 DEF TypeInv
  <2>3. Served = None /\ Served' \in Block
    BY <2>1, <2>2
  <2> QED
    BY <2>1, <2>3 DEF Committed!Next, Committed!Begin
<1>5. CASE \/ RunNothing \/ RunExecutes \/ RunMeetsInvalidBlock \/ RunMeetsWrongRoot \/ PruneWaits
           \/ UNCHANGED vars
  <2>1. db' = db /\ call' = call
    BY <1>5 DEF RunNothing, RunExecutes, RunMeetsInvalidBlock, RunMeetsWrongRoot,
       PruneWaits, vars
  <2> QED
    BY <1>1, <2>1 DEF Served
<1>6. CASE NextBatch
  BY <1>6 DEF NextBatch, RunningInv
<1>7. CASE ForkChoiceBadBlock \/ ForkChoiceInvalid \/ ForkChoiceFails
  <2>1. db' = db /\ pc \in {"run", "batch", "end"} /\ pc' = "answered"
    BY SMT, <1>7 DEF ForkChoiceBadBlock, ForkChoiceInvalid, ForkChoiceFails, Abandon
  <2>2. Served # None /\ Served' = None
    BY <2>1
  <2> QED
    BY <2>1, <2>2 DEF Committed!Next, Committed!GiveUp
<1>8. CASE ForkChoiceSuccess
  <2>1. /\ db'.state = tx.state /\ db'.headHeader = call.head
        /\ pc = "end" /\ tx.headBlock = call.head /\ pc' = "answered"
    BY <1>8, SuccessIs
  <2>2. Valid(call.head) /\ tx.state = Chain[call.head]
    BY <2>1 DEF RunExact
  <2>3. Served = call.head /\ Served' = None /\ call.head \in Block
    BY <2>1
  <2> QED
    BY <2>1, <2>2, <2>3 DEF Committed!Next, Committed!Accept
<1>9. CASE ValidateUnwinds
  <2>1. PICK b \in Block \ {Genesis} :
          /\ SidePath(db, b) \subseteq db.headers
          /\ db' = Unwound(db, Ancestor(db, b))
    BY <1>9 DEF ValidateUnwinds
  <2>2. pc' = "validate" /\ pc = "idle"
    BY <1>9 DEF ValidateUnwinds, Admitted
  <2>3. Ancestor(db, b) \in Numbers
    BY <2>1, MeetsIs
  <2> DEFINE e == Min(db.exec, Ancestor(db, b))
             S == db.state \ {db.canonical[n] : n \in {m \in Numbers : m > Ancestor(db, b)}}
  <2>4. db'.state = S /\ db'.headHeader = db.headHeader
    BY <2>1, <2>3, UnwoundIs
  <2>5. Started(b).exec = e /\ Started(b).state = S
    BY StartedIs
  <2>6. Started(b).state = Below(b, Started(b).exec)
    BY <2>1, <2>2, StartExact
  <2>7. e \in Nat /\ e <= Number[db.headHeader] /\ Below(b, e) = Below(db.headHeader, e)
    BY SMT, <2>1, UnwindMeets
  <2>8. S = Below(db.headHeader, e) /\ S \subseteq db.state
    BY <2>5, <2>6, <2>7
  <2> HIDE DEF e, S
  <2> DEFINE x == At(db.headHeader, e)
  <2>9. x \in Chain[db.headHeader] /\ Number[x] = e
    <3>1. Number[db.headHeader] \in Nat
      BY ParentIs
    <3>2. e \in 0..Number[db.headHeader]
      BY SMT, <2>7, <3>1
    <3> QED
      BY <3>2, AtIs
  <2> HIDE DEF x
  <2>10. Chain[x] = S
    BY <2>8, <2>9, ChainBelow
  <2>11. Served = None /\ Served' = None
    BY <2>2
  <2> QED
    BY <2>4, <2>8, <2>9, <2>10, <2>11 DEF Committed!Next, Committed!Unwind
<1>10. CASE ValidateSteps \/ ValidateFails
  <2>a. pc = "validate"
    BY <1>10, ValidationIs
  <2>b. PICK st \in Statuses, H \in SUBSET db.headers : Genesis \in H /\ ValidateEnds(st, H)
    BY <1>10, ValidationIs
  <2>1. /\ db'.state = db.state /\ db'.headHeader = db.headHeader
        /\ pc = "validate" /\ pc' = "answered"
    BY <2>a, <2>b, EndsIs
  <2>2. Served = None /\ Served' = None
    BY <2>1
  <2> QED
    BY <1>1, <2>1, <2>2
<1>11. CASE Timeout
  <2>1. db' = db /\ pc' = pc /\ call' = [call EXCEPT !.reply = "Busy"]
    BY <1>11 DEF Timeout
  <2>2. call'.kind = call.kind /\ call'.outcome = call.outcome /\ call'.head = call.head
    BY SMT, <2>1 DEF Calls
  <2> QED
    BY <1>1, <2>1, <2>2 DEF Served
<1>12. CASE Crash
  <2>1. db' = db /\ pc' = "idle"
    BY <1>12 DEF Crash
  <2>2. Served' = None
    BY <2>1
  <2>3. CASE Served = None
    BY <1>1, <2>1, <2>2, <2>3
  <2>4. CASE Served # None
    BY <2>1, <2>2, <2>4 DEF Committed!Next, Committed!GiveUp
  <2> QED
    BY <2>3, <2>4
<1> QED
  BY <1>2, <1>3, <1>4, <1>5, <1>6, <1>7, <1>8, <1>9, <1>10, <1>11, <1>12
  DEF Next, HandlerSteps, ForkChoiceSteps, PruneSteps

(* The execution module implements ChainHead (updateForkChoice,            *)
(* ValidateChain), for every tree, when fork choices fit one batch and the *)
(* latest valid hash can be read: head and state move together, to the     *)
(* valid block a fork choice asks for, and a validation only takes the     *)
(* state back along the chain.                                             *)
THEOREM HeadAlwaysMovesAtOnce ==
  ASSUME ~Batches, ~LookupFails PROVE Spec => HeadMovesAtOnce
<1>1. Init => Committed!Init
  <2> SUFFICES ASSUME Init PROVE Committed!Init
    OBVIOUS
  <2>1. db.headHeader = Genesis /\ db.state = {Genesis} /\ call = NoCall
    BY DEF Init
  <2>2. Served = None
    BY <2>1, KindIs DEF Served
  <2> QED
    BY <2>1, <2>2, Zenon DEF Committed!Init
<1>2. Init => OpenInv
  BY KindIs DEF Init, OpenInv
<1>3. TypeInv /\ OpenInv /\ [Next]_vars => OpenInv'
  BY OpenStep
<1>4. Spec => [](TypeInv /\ OpenInv)
  BY <1>2, <1>3, TypeAlways, PTL DEF Spec
<1>5. Spec => [](TypeInv /\ ForkInv /\ ChainInv)
  BY ChainAlways
<1>6. Spec => [](TypeInv /\ ChainInv /\ ExactInv)
  BY ExactAlways
<1>7. TypeInv /\ TypeInv' /\ OpenInv /\ OpenInv' /\ ForkInv /\ ChainInv /\ ExactInv /\ [Next]_vars
        => [Committed!Next]_(Committed!vars)
  BY HeadStep
<1> QED
  BY <1>1, <1>4, <1>5, <1>6, <1>7, PTL DEF Spec, HeadMovesAtOnce, Committed!Spec
=============================================================================
