-------------------------- MODULE ExecutionModule --------------------------
(***************************************************************************)
(* EthereumExecutionModule (execution/eth1) and its ForkValidator          *)
(* (execution/engineapi/engine_helpers): the writers of the chain, as the  *)
(* consensus client drives them.                                           *)
(*                                                                         *)
(*   InsertBlocks      stores blocks;                                      *)
(*   ValidateChain     commits an unwind of the state to the common        *)
(*                     ancestor, executes the fork in memory, keeps the    *)
(*                     result for a fork choice, purges a bad chain;       *)
(*   UpdateForkChoice  makes a block the head: unwind, canonical hashes,   *)
(*                     flush of the validated fork, batches of execution,  *)
(*                     commit, with a timer that may answer before it;     *)
(*   RunPrune          in the background after a fork choice.              *)
(*                                                                         *)
(* Blocks form a tree and differ by hash; module StagedSync has the stages *)
(* and the error paths inside one run of the pipeline, which is one step   *)
(* here.  All writers share one semaphore and one write transaction.       *)
(***************************************************************************)
EXTENDS Integers

CONSTANTS
  Block,                 \* the blocks of the tree
  Genesis,
  Parent,                \* [Block \ {Genesis} -> Block]
  Number,                \* [Block -> Nat]
  Defect,                \* [Block -> Defects]: what executing a block finds
  SafeHashes,            \* safe (or finalized) hashes a request may carry
  Batches,               \* a run of the pipeline may stop before the head
  LookupFails,           \* reading the latest valid hash may fail
  ParallelStateFlushing, \* syncCfg.ParallelStateFlushing
  MaxForkDepth,          \* maxForkDepth of fork_validator.go
  MaxBlocksLookBehind,   \* maxBlocksLookBehind of ethereum_execution.go
  StartPruneFrom,        \* startPruneFrom of forkchoice.go
  MaxReorgDepth,         \* dbg.MaxReorgDepth: changesets kept by the pruner
  None                   \* the zero hash

(* "invalid": a transaction or the block fails; "root": the state root of  *)
(* the header is not the one computed.                                     *)
Defects == {"none", "invalid", "root"}

ASSUME TreeAssumption ==
  /\ Genesis \in Block /\ None \notin Block
  /\ Parent \in [Block \ {Genesis} -> Block]
  /\ Number \in [Block -> Nat]
  /\ Number[Genesis] = 0
  /\ \A b \in Block \ {Genesis} : Number[b] = Number[Parent[b]] + 1
  /\ Defect \in [Block -> Defects] /\ Defect[Genesis] = "none"
  /\ SafeHashes \subseteq Block \cup {None}

ASSUME BoundsAssumption ==
  /\ {Batches, LookupFails, ParallelStateFlushing} \subseteq BOOLEAN
  /\ {MaxForkDepth, MaxBlocksLookBehind, StartPruneFrom, MaxReorgDepth}
       \subseteq Nat

VARIABLES
  db,       \* the chain database, as committed
  tx,       \* the same as the open write transaction sees it
  writer,   \* who holds MDBX's write transaction: none, handler or leaked
  fv,       \* the ForkValidator
  pc,       \* where the holder of the semaphore is
  call,     \* the request served, its answer and the handler's own verdict
  firstTx,  \* updateForkChoice still has the transaction it began with
  prune     \* runPostForkchoiceInBackground: none, spawned or waiting

vars == <<db, tx, writer, fv, pc, call, firstTx, prune>>

-----------------------------------------------------------------------------
(* The chain.                                                              *)

Max(a, b) == IF a >= b THEN a ELSE b
Min(a, b) == IF a <= b THEN a ELSE b
Distance(a, b) == IF a >= b THEN a - b ELSE b - a

Numbers == {Number[b] : b \in Block}

(* A block and its ancestors.                                              *)
Chain[b \in Block] ==
  IF b = Genesis THEN {Genesis} ELSE {b} \cup Chain[Parent[b]]

At(b, n) == CHOOSE x \in Chain[b] : Number[x] = n

(* A chain whose every block executes to the root in its header.           *)
Valid(b) == \A x \in Chain[b] : Defect[x] = "none"

(* One view of the database: headers (Headers and HeaderNumber), known     *)
(* (HeaderTD and the bodies, which nothing deletes), canonical hashes, the *)
(* blocks whose changes the flat state holds, progress of Execution and of *)
(* Finish, ChangeSets3, HeadHeaderHash, HeadBlockHash, the safe hash.      *)
Views == [headers : SUBSET Block, known : SUBSET Block,
          canonical : [Numbers -> Block \cup {None}],
          state : SUBSET Block, exec : Numbers, finish : Numbers,
          changesets : SUBSET Block, headHeader : Block, headBlock : Block,
          safe : Block \cup {None}]

Statuses == {"none", "Success", "BadBlock", "InvalidForkchoice",
             "MissingSegment", "TooFarAway", "Busy", "Error"}

NoCall == [kind |-> "none", head |-> None, safe |-> None,
           reply |-> "none", outcome |-> "none"]

(* The module's state.  A leaked transaction is one whose handler is gone. *)
TypeOK ==
  /\ db \in Views /\ tx \in Views
  /\ writer \in {"none", "handler", "leaked"}
  /\ fv \in [height : Numbers, ext : Block \cup {None}, from : Numbers,
             ran : SUBSET Block, valid : SUBSET Block]
  /\ pc \in {"idle", "run", "batch", "end", "validate", "answered"}
  /\ call \in [kind : {"none", "forkchoice", "validate"},
               head : Block \cup {None}, safe : Block \cup {None},
               reply : Statuses, outcome : Statuses]
  /\ firstTx \in BOOLEAN
  /\ prune \in {"none", "spawned", "waiting"}

(* A new database: genesis is written, nothing has been executed.          *)
Init ==
  /\ db = [headers |-> {Genesis}, known |-> {Genesis},
           canonical |-> [n \in Numbers |-> IF n = 0 THEN Genesis ELSE None],
           state |-> {Genesis}, exec |-> 0, finish |-> 0, changesets |-> {},
           headHeader |-> Genesis, headBlock |-> Genesis, safe |-> None]
  /\ tx = db
  /\ writer = "none"
  /\ fv = [height |-> 0, ext |-> None, from |-> 0, ran |-> {}, valid |-> {}]
  /\ pc = "idle"
  /\ call = NoCall
  /\ firstTx = TRUE
  /\ prune = "none"

CanonicalAt(t, b) == t.canonical[Number[b]] = b

(* isCanonicalHash looks the number of the hash up first.                  *)
IsCanonical(t, b) == b \in t.headers /\ CanonicalAt(t, b)

(* The blocks from b down to, without it, the first canonical one.         *)
SidePath(t, b) ==
  {x \in Chain[b] :
     \A y \in Chain[b] : Number[y] >= Number[x] => ~IsCanonical(t, y)}

(* The number at which that walk ends.                                     *)
Ancestor(t, b) ==
  Number[CHOOSE a \in Chain[b] :
           /\ IsCanonical(t, a)
           /\ \A x \in Chain[b] : Number[x] > Number[a] => x \in SidePath(t, b)]

(* CanUnwindToBlockNum.                                                    *)
Lowest(t) ==
  IF t.changesets = {} THEN t.exec
  ELSE CHOOSE n \in {Number[b] : b \in t.changesets} :
         \A b \in t.changesets : n <= Number[b]

(* Sync.UnwindTo accepts the point, and unwindExec3 finds the changeset of *)
(* every block it reverts under that block's canonical hash.               *)
CanUnwind(t, point) ==
  /\ point >= Lowest(t)
  /\ \A n \in Numbers :
       point < n /\ n <= t.exec => t.canonical[n] \in t.changesets

(* Mutant: the progress is unwound, the state is not.                      *)
UnwoundKeepsState(t, point) ==
  [t EXCEPT !.exec = Min(@, point), !.finish = Min(@, point)]

(* RunUnwind.                                                              *)
Unwound(t, point) ==
  [t EXCEPT !.exec = Min(@, point), !.finish = Min(@, point),
            !.state = @ \ {t.canonical[n] : n \in {m \in Numbers : m > point}}]

(* PruneExecutionStage.                                                    *)
Pruned(t) ==
  [t EXCEPT !.changesets = {b \in @ : Number[b] + MaxReorgDepth >= t.exec}]

(* The changesets of a run over the blocks bs that started from block      *)
(* number from: a first run executes genesis too.                          *)
Changesets(from, bs) == bs \cup (IF from = 0 THEN {Genesis} ELSE {})

-----------------------------------------------------------------------------
(* The handlers.                                                           *)

(* Mutant: TryAcquire overtakes the goroutine that waits.                  *)
AdmittedOvertaking == pc = "idle" /\ writer = "none"

(* semaphore.TryAcquire succeeds (it fails while someone waits in Acquire) *)
(* and the write transaction can be opened.  Otherwise the answer is Busy, *)
(* or the call blocks, and nothing changes.                                *)
Admitted == pc = "idle" /\ prune # "waiting" /\ writer = "none"

(* Mutant: the extending fork outlives the call.                           *)
ClearedKeepsFork(f) == f

(* clear, by ClearWithUnwind.                                              *)
Cleared(f) == [f EXCEPT !.ext = None, !.from = 0, !.ran = {}]

(* The first answer to reach outcomeCh is the one the client gets.         *)
Answer(c, status) ==
  [c EXCEPT !.reply = IF @ = "none" THEN status ELSE @, !.outcome = status]

Request(kind, head, safe) ==
  [NoCall EXCEPT !.kind = kind, !.head = head, !.safe = safe]

(* A request answered without opening a transaction that is kept.          *)
AnswerAtOnce(c, status) ==
  /\ call' = Answer(c, status)
  /\ pc' = "answered"
  /\ fv' = Cleared(fv)
  /\ UNCHANGED <<db, tx, writer, firstTx, prune>>

(* The response has been written and the semaphore is released.            *)
Return ==
  /\ pc = "answered"
  /\ pc' = "idle"
  /\ call' = NoCall
  /\ firstTx' = TRUE
  /\ UNCHANGED <<db, tx, writer, fv, prune>>

(* A block whose parent has no total difficulty fails the request.         *)
InsertBlocks ==
  \E b \in Block \ {Genesis} :
    /\ Admitted
    /\ db' = IF Parent[b] \in db.known
             THEN [db EXCEPT !.headers = @ \cup {b}, !.known = @ \cup {b}]
             ELSE db
    /\ tx' = db'
    /\ fv' = Cleared(fv)
    /\ UNCHANGED <<writer, pc, call, firstTx, prune>>

(* verifyForkchoiceHashes.                                                 *)
VerifyForkchoiceHashes(t, head, safe) ==
  safe # None /\ safe # head =>
    IsCanonical(t, safe) /\ Number[safe] < Number[head]

(* updateForkChoice: the requests answered before anything is written or   *)
(* with everything rolled back.  The header is unknown, or the unwind or   *)
(* the check of a new header fails; the head is canonical already, which   *)
(* is a no-op; an ancestor is missing.                                     *)
ForkChoiceNotStarted ==
  \E h \in Block \ {Genesis}, safe \in SafeHashes :
    /\ Admitted
    /\ \/ /\ ~IsCanonical(db, h)
          /\ AnswerAtOnce(Request("forkchoice", h, safe), "Error")
       \/ /\ IsCanonical(db, h)
          /\ AnswerAtOnce(Request("forkchoice", h, safe),
               IF VerifyForkchoiceHashes(db, h, safe)
               THEN "Success" ELSE "InvalidForkchoice")
       \/ /\ h \in db.headers /\ ~IsCanonical(db, h)
          /\ ~(SidePath(db, h) \subseteq db.headers)
          /\ AnswerAtOnce(Request("forkchoice", h, safe), "MissingSegment")

(* The canonical hashes of the new chain, up to the head.                  *)
WithCanonical(t, h) ==
  [t EXCEPT !.canonical = [n \in Numbers |->
     IF Ancestor(t, h) < n /\ n <= Number[h] THEN At(h, n) ELSE @[n]]]

(* FlushExtendingFork: the changes of the blocks the in-memory run did,    *)
(* fv.ran, from block number fv.from on, are written over the state of the *)
(* transaction.                                                            *)
Flushed(t, h) ==
  [t EXCEPT !.state = @ \cup fv.ran, !.exec = Number[h],
            !.changesets = @ \cup Changesets(fv.from, fv.ran)]

(* updateForkChoice up to the first Run.  (An ancestor below the lowest    *)
(* changeset, where the unwind is capped, is left to module StagedSync.)   *)
ForkChoiceStarts ==
  \E h \in Block \ {Genesis}, safe \in SafeHashes :
    LET flush == fv.ext = h
        t     == [WithCanonical(Unwound(db, Ancestor(db, h)), h)
                    EXCEPT !.headHeader = h]
    IN  /\ Admitted
        /\ h \in db.headers /\ ~IsCanonical(db, h)
        /\ SidePath(db, h) \subseteq db.headers
        /\ CanUnwind(db, Ancestor(db, h))
        /\ tx' = IF flush THEN Flushed(t, h) ELSE t
        /\ fv' = IF flush THEN Cleared(fv) ELSE fv
        /\ call' = [Request("forkchoice", h, safe) EXCEPT
             !.reply = IF flush /\ ParallelStateFlushing THEN "Success" ELSE @]
        /\ writer' = "handler"
        /\ pc' = "run"
        /\ firstTx' = TRUE
        /\ UNCHANGED <<db, prune>>

(* The timer of UpdateForkChoice: the client is told Busy, the handler goes*)
(* on.                                                                     *)
Timeout ==
  /\ pc \in {"run", "batch", "end"} /\ call.reply = "none"
  /\ call' = [call EXCEPT !.reply = "Busy"]
  /\ UNCHANGED <<db, tx, writer, fv, pc, firstTx, prune>>

(* One run of the pipeline on the transaction.                             *)
ToRun(last) == {tx.canonical[n] : n \in {m \in Numbers : tx.exec < m /\ m <= last}}

LastBlocks ==
  {n \in Numbers : /\ tx.exec < n /\ n <= Number[call.head]
                   /\ Batches \/ n = Number[call.head]}

RootMatches(last) ==
  /\ tx.state \cup ToRun(last) = Chain[tx.canonical[last]]
  /\ \A b \in Chain[tx.canonical[last]] : Defect[b] # "root"

(* Mutant: one new block is taken for none.                                *)
FinishAtSkipsOne(t) ==
  /\ tx' = IF t.exec > t.finish + 1
           THEN [t EXCEPT !.finish = t.exec, !.headBlock = t.headHeader] ELSE t
  /\ UNCHANGED fv

(* FinishForward: HeadBlockHash takes the value of HeadHeaderHash whenever *)
(* Execution has moved, and NotifyCurrentHeight drops the extending fork.  *)
FinishAt(t) ==
  /\ tx' = IF t.exec > t.finish
           THEN [t EXCEPT !.finish = t.exec, !.headBlock = t.headHeader] ELSE t
  /\ fv' = IF t.exec > t.finish /\ fv.height # t.exec
           THEN [Cleared(fv) EXCEPT !.height = t.exec] ELSE fv

(* Mutant: hasMore although nothing is left.                               *)
RunNothingHasMore ==
  /\ pc = "run" /\ tx.exec >= Number[call.head]
  /\ FinishAt(tx)
  /\ pc' = "batch"
  /\ UNCHANGED <<db, writer, call, firstTx, prune>>

RunNothing ==
  /\ pc = "run" /\ tx.exec >= Number[call.head]
  /\ FinishAt(tx)
  /\ pc' = "end"
  /\ UNCHANGED <<db, writer, call, firstTx, prune>>

RunExecutes ==
  /\ pc = "run"
  /\ \E last \in LastBlocks :
       /\ \A b \in ToRun(last) : Defect[b] # "invalid"
       /\ RootMatches(last)
       /\ FinishAt([tx EXCEPT !.exec = last, !.state = @ \cup ToRun(last),
                     !.changesets = @ \cup Changesets(tx.exec, ToRun(last))])
       /\ pc' = IF last < Number[call.head] THEN "batch" ELSE "end"
  /\ UNCHANGED <<db, writer, call, firstTx, prune>>

(* Mutant: the blocks before the invalid one are kept and Finish still     *)
(* runs.                                                                   *)
RunMeetsInvalidBlockFinishes ==
  /\ pc = "run"
  /\ \E last \in LastBlocks :
       LET invalid == {b \in ToRun(last) : Defect[b] = "invalid"}
           before  == {b \in ToRun(last) :
                         \A x \in invalid : Number[b] < Number[x]}
       IN  /\ invalid # {}
           /\ FinishAt([tx EXCEPT !.changesets = @ \cup before,
                          !.state = @ \cup before,
                          !.exec = CHOOSE n \in Numbers : n + 1 \in {Number[x] : x \in invalid}])
  /\ pc' = "end"
  /\ UNCHANGED <<db, writer, call, firstTx, prune>>

(* An invalid block: nothing is flushed, but the changesets of the blocks  *)
(* before it are written.                                                  *)
RunMeetsInvalidBlock ==
  /\ pc = "run"
  /\ \E last \in LastBlocks :
       LET invalid == {b \in ToRun(last) : Defect[b] = "invalid"}
           before  == {b \in ToRun(last) :
                         \A x \in invalid : Number[b] < Number[x]}
       IN  /\ invalid # {}
           /\ tx' = [tx EXCEPT !.changesets =
                       @ \cup Changesets(tx.exec, before)]
  /\ pc' = "end"
  /\ UNCHANGED <<db, writer, fv, call, firstTx, prune>>

(* handleIncorrectRootHashError: the progress is moved to the last block   *)
(* and half of the batch is unwound, but the state was not flushed.  The   *)
(* loop goes on if it was the block limit, of two or more, that ended the  *)
(* batch.                                                                  *)
RunMeetsWrongRoot ==
  /\ pc = "run"
  /\ \E last \in LastBlocks :
       LET t  == [tx EXCEPT !.changesets =
                    @ \cup Changesets(tx.exec, ToRun(last))]
           to == last - Max(1, (last - Max(tx.exec, Lowest(t))) \div 2)
       IN  /\ \A b \in ToRun(last) : Defect[b] # "invalid"
           /\ ~RootMatches(last)
           /\ tx' = [t EXCEPT !.exec = to, !.finish = Min(@, to)]
           /\ \/ pc' = "end"
              \/ /\ tx.exec + 2 <= last /\ last < Number[call.head]
                 /\ pc' = "batch"
  /\ UNCHANGED <<db, writer, fv, call, firstTx, prune>>

(* hasMore: RunPrune, commit, and a second transaction, which the deferred *)
(* Rollback (bound to the first one) does not know.                        *)
NextBatch ==
  /\ pc = "batch"
  /\ db' = Pruned(tx)
  /\ tx' = db'
  /\ firstTx' = FALSE
  /\ pc' = "run"
  /\ UNCHANGED <<writer, fv, call, prune>>

(* Mutant: the deferred call commits what the run left behind.             *)
AbandonCommits(status) ==
  /\ call' = Answer(call, status)
  /\ pc' = "answered"
  /\ db' = tx
  /\ writer' = IF firstTx THEN "none" ELSE "leaked"
  /\ fv' = Cleared(fv)
  /\ UNCHANGED <<tx, firstTx>>

(* The handler returns without a commit.                                   *)
Abandon(status) ==
  /\ call' = Answer(call, status)
  /\ pc' = "answered"
  /\ tx' = db
  /\ writer' = IF firstTx THEN "none" ELSE "leaked"
  /\ fv' = Cleared(fv)
  /\ UNCHANGED <<db, firstTx>>

SpawnPrune(headNumber) ==
  prune' = IF headNumber >= StartPruneFrom /\ prune = "none"
           THEN "spawned" ELSE prune

(* Mutant: the hash of the head itself is cut off.                         *)
TruncatedAtHead(canonical, n) ==
  [m \in Numbers |-> IF m >= n THEN None ELSE canonical[m]]

(* TruncateCanonicalChain from n + 1.                                      *)
Truncated(canonical, n) ==
  [m \in Numbers |-> IF m > n THEN None ELSE canonical[m]]

(* "if head hash was set then success otherwise no".                       *)
ForkChoiceBadBlock ==
  /\ pc = "end" /\ tx.headBlock # call.head
  /\ Abandon("BadBlock")
  /\ SpawnPrune(Number[tx.headBlock])

ForkChoiceInvalid ==
  /\ pc = "end" /\ tx.headBlock = call.head
  /\ ~VerifyForkchoiceHashes(tx, call.head, call.safe)
  /\ Abandon("InvalidForkchoice")
  /\ UNCHANGED prune

(* Committed.  Should the hook that notifies the subscribers fail after    *)
(* it, the answer is an error and nothing is pruned.                       *)
ForkChoiceSuccess ==
  /\ pc = "end" /\ tx.headBlock = call.head
  /\ VerifyForkchoiceHashes(tx, call.head, call.safe)
  /\ db' = [tx EXCEPT
       !.safe = IF call.safe = None THEN @ ELSE call.safe,
       !.canonical = Truncated(@, Number[call.head])]
  /\ tx' = db'
  /\ \/ call' = Answer(call, "Success") /\ SpawnPrune(Number[call.head])
     \/ call' = Answer(call, "Error") /\ UNCHANGED prune
  /\ pc' = "answered"
  /\ writer' = "none"
  /\ fv' = Cleared(fv)
  /\ UNCHANGED firstTx

(* A stage, a prune, a write or a commit fails.                            *)
ForkChoiceFails ==
  /\ pc \in {"run", "batch", "end"}
  /\ Abandon("Error")
  /\ UNCHANGED prune

(* ValidateChain: the checks, and the unwind to the common ancestor (to    *)
(* the block itself when it is canonical), committed on its own.  It fails *)
(* if an ancestor is missing, or the unwind does.                          *)
ValidateNotStarted ==
  \E b \in Block \ {Genesis} :
    LET c == Request("validate", b, None)
    IN  /\ Admitted
        /\ \/ b \notin db.headers /\ AnswerAtOnce(c, "MissingSegment")
           \/ /\ b \in db.headers
              /\ Distance(Number[db.headHeader], Number[b]) >= MaxBlocksLookBehind
              /\ AnswerAtOnce(c, "TooFarAway")
           \/ /\ b \in db.headers
              /\ Distance(Number[db.headHeader], Number[b]) < MaxBlocksLookBehind
              /\ AnswerAtOnce(c, "Error")

ValidateUnwinds ==
  \E b \in Block \ {Genesis} :
    /\ Admitted
    /\ b \in db.headers
    /\ Distance(Number[db.headHeader], Number[b]) < MaxBlocksLookBehind
    /\ SidePath(db, b) \subseteq db.headers
    /\ CanUnwind(db, Ancestor(db, b))
    /\ db' = Unwound(db, Ancestor(db, b))
    /\ tx' = db'
    /\ fv' = Cleared(fv)
    /\ call' = Request("validate", b, None)
    /\ writer' = "handler"
    /\ pc' = "validate"
    /\ UNCHANGED <<firstTx, prune>>

(* The second transaction of ValidateChain, committed with what it purged. *)
ValidateEnds(status, headers) ==
  /\ db' = [db EXCEPT !.headers = headers]
  /\ tx' = db'
  /\ call' = Answer(call, status)
  /\ writer' = "none"
  /\ pc' = "answered"
  /\ UNCHANGED <<firstTx, prune>>

(* ForkValidator.ValidatePayload answers without executing: a block found  *)
(* valid before, one too far from the height last notified, a canonical    *)
(* one.                                                                    *)
KnownValid(b) == b \in fv.valid

OutOfRange(b) == Distance(fv.height, Number[b]) > MaxForkDepth

ValidateKnown ==
  /\ pc = "validate"
  /\ KnownValid(call.head) \/ OutOfRange(call.head) \/ CanonicalAt(db, call.head)
  /\ ValidateEnds(IF ~KnownValid(call.head) /\ OutOfRange(call.head)
                  THEN "MissingSegment" ELSE "Success", db.headers)
  /\ UNCHANGED fv

(* The in-memory run (StateStep): the canonical blocks above the state and *)
(* the first block of the fork in one go, then the fork block by block.    *)
(* badBlockHalt is set, so the first bad block ends it.                    *)
MustExecute ==
  /\ pc = "validate" /\ ~KnownValid(call.head)
  /\ ~OutOfRange(call.head) /\ ~CanonicalAt(db, call.head)

InMemory == {x \in Chain[call.head] : Number[x] > db.exec}

ExecutesInMemory ==
  /\ db.state \cup InMemory = Chain[call.head]
  /\ \A x \in InMemory : Defect[x] = "none"

ValidateGood ==
  /\ MustExecute /\ ExecutesInMemory
  /\ fv' = [fv EXCEPT !.ext = call.head, !.from = db.exec, !.ran = InMemory,
                      !.valid = @ \cup {call.head}]
  /\ ValidateEnds("Success", db.headers)

(* The block at which the in-memory run ends.                              *)
FailsAt(x) ==
  /\ MustExecute /\ ~ExecutesInMemory
  /\ x \in InMemory
  /\ \/ Defect[x] # "none"
     \/ Number[x] = Ancestor(db, call.head) + 1 /\ Valid(call.head)
  /\ \A y \in InMemory : Number[y] < Number[x] => Defect[y] = "none"

(* Execution's progress in the discarded transaction when block x failed:  *)
(* what latestValidNumber is taken from.                                   *)
ProgressAtFailure(x) ==
  IF Number[x] > Ancestor(db, call.head) + 1 THEN Number[x] - 1
  ELSE IF Defect[x] = "invalid" THEN db.exec ELSE Ancestor(db, call.head)

(* purgeBadChain: the headers from the block down to the latest valid hash *)
(* or to HeadBlockHash.                                                    *)
PurgeBadChain(latestValid) ==
  db.headers \ {x \in Chain[call.head] :
     /\ Number[x] > latestValid
     /\ \A y \in Chain[call.head] : Number[y] >= Number[x] => y # db.headBlock}

(* Mutant: the hash goes to validHashes before the verdict is looked at.   *)
ValidateBadRemembers ==
  /\ \E x \in Block :
       /\ FailsAt(x)
       /\ ValidateEnds("BadBlock", PurgeBadChain(ProgressAtFailure(x)))
  /\ fv' = [Cleared(fv) EXCEPT !.valid = @ \cup {call.head}]

ValidateBad ==
  /\ \E x \in Block :
       /\ FailsAt(x)
       /\ ValidateEnds("BadBlock", PurgeBadChain(ProgressAtFailure(x)))
  /\ fv' = Cleared(fv)

(* A critical error between the two transactions.  validateAndStorePayload *)
(* sets the head of the extending fork before it looks at the verdict, and *)
(* leaves it set if it cannot read the latest valid hash then.             *)
ValidateFails ==
  /\ pc = "validate"
  /\ \/ fv' = Cleared(fv)
     \/ \E x \in Block :
          /\ LookupFails /\ FailsAt(x)
          /\ fv' = [fv EXCEPT !.ext = call.head, !.from = db.exec,
                !.ran = {y \in InMemory : \/ Number[y] < Number[x]
                                          \/ y = x /\ Defect[x] # "invalid"}]
  /\ ValidateEnds("Error", db.headers)

(* The pruning goroutine: waits in Acquire while a handler holds the       *)
(* semaphore, and is next in line then.                                    *)
PruneWaits ==
  /\ prune = "spawned" /\ pc # "idle"
  /\ prune' = "waiting"
  /\ UNCHANGED <<db, tx, writer, fv, pc, call, firstTx>>

PruneRuns ==
  /\ prune # "none" /\ pc = "idle" /\ writer = "none"
  /\ prune' = "none"
  /\ db' \in {db, Pruned(db)}
  /\ tx' = db'
  /\ UNCHANGED <<writer, fv, pc, call, firstTx>>

(* The process dies and comes back.                                        *)
Crash ==
  /\ tx' = db
  /\ writer' = "none"
  /\ fv' = [height |-> Number[db.headBlock], ext |-> None, from |-> 0,
            ran |-> {}, valid |-> {}]
  /\ pc' = "idle"
  /\ call' = NoCall
  /\ firstTx' = TRUE
  /\ prune' = "none"
  /\ UNCHANGED db

ForkChoiceSteps ==
  \/ RunNothing \/ RunExecutes \/ RunMeetsInvalidBlock \/ RunMeetsWrongRoot
  \/ NextBatch \/ ForkChoiceBadBlock \/ ForkChoiceInvalid
  \/ ForkChoiceSuccess

ValidateSteps == ValidateKnown \/ ValidateGood \/ ValidateBad

HandlerSteps == ForkChoiceSteps \/ ValidateSteps \/ Return

PruneSteps == PruneWaits \/ PruneRuns

Next ==
  \/ InsertBlocks \/ ForkChoiceNotStarted \/ ForkChoiceStarts
  \/ ValidateNotStarted \/ ValidateUnwinds
  \/ HandlerSteps \/ ForkChoiceFails \/ ValidateFails
  \/ PruneSteps \/ Timeout \/ Crash

Spec == Init /\ [][Next]_vars

(* A handler that holds the semaphore is carried on, and so is the pruning *)
(* goroutine.  No request has to arrive and nothing has to fail.           *)
FairSpec == Spec /\ WF_vars(HandlerSteps) /\ WF_vars(PruneSteps)

-----------------------------------------------------------------------------
(* The canonical hashes up to HeadHeaderHash are the chain of that header, *)
(* in what is committed: reorgs, purges, partly executed fork choices and  *)
(* crashes leave no mixture of two chains below the head.                  *)
CanonicalIsChain ==
  \A n \in Numbers :
    n <= Number[db.headHeader] => db.canonical[n] = At(db.headHeader, n)

(* The flat state is that of the canonical block Execution's progress      *)
(* names: no handler commits progress without the state or an unwind of    *)
(* other blocks than the ones executed.                                    *)
StateIsCanonical ==
  db.state = {db.canonical[n] : n \in {m \in Numbers : m <= db.exec}}

(* A fork kept in memory still sits on the committed state: whatever moves *)
(* the state between ValidateChain and the fork choice drops the fork.     *)
FlushOnBase ==
  pc = "idle" /\ fv.ext # None =>
    /\ db.exec = fv.from
    /\ db.state \subseteq Chain[fv.ext]

(* A head that was accepted, at once, early or after a run, is the head of *)
(* a valid chain.                                                          *)
SuccessMeansValid ==
  pc = "answered" /\ call.reply = "Success" => Valid(call.head)

(* validHashes holds valid blocks only, whatever was canonical, executed   *)
(* or unwound when they were added.                                        *)
ValidHashesAreValid == \A b \in fv.valid : Valid(b)

(* A chain is refused only if it has a bad block: a valid one is never     *)
(* answered BadBlock, whatever state earlier calls left behind.            *)
NoFalseBadBlock ==
  pc = "answered" /\ call.outcome = "BadBlock" => ~Valid(call.head)

(* "Client software MUST return -38002: Invalid forkchoice state error if  *)
(* the payload referenced by forkchoiceState.headBlockHash is VALID and a  *)
(* payload referenced by [...] forkchoiceState.safeBlockHash does not      *)
(* belong to the chain" (verifyForkchoiceHashes): the client is not told   *)
(* Success for a fork choice that the handler then refuses.                *)
EarlySuccessIsKept ==
  pc = "answered" /\ call.reply = "Success" =>
    call.outcome \notin {"BadBlock", "InvalidForkchoice"}

(* "We can't delete the head block stored in the database as that is our   *)
(* canonical reconnection point" (purgeBadChain): purging a bad chain      *)
(* deletes no header of the canonical chain.                               *)
CanonicalHeadersKept ==
  \A n \in Numbers : n <= Number[db.headHeader] => db.canonical[n] \in db.headers

(* "we update the same tx var so defer should see the latest tx"           *)
(* (updateForkChoice): no write transaction is left open by a handler that *)
(* returned.                                                               *)
NoTxOutlivesItsHandler == pc = "idle" => writer = "none"

(* "when FCU points to the head [...] we want go to stage headers so that  *)
(* it calls writeForkChoiceHashes" (getQuickPayloadStatusIfPossible): a    *)
(* fork choice that succeeds has stored its safe hash.                     *)
ForkChoicePersisted ==
  pc = "answered" /\ call.kind = "forkchoice" /\ call.outcome = "Success"
    => call.safe = None \/ db.safe = call.safe

(* The head asked for by a fork choice whose outcome is open.              *)
Served ==
  IF call.kind = "forkchoice" /\ call.outcome = "none" THEN call.head ELSE None

Committed == INSTANCE ChainHead WITH
  head <- db.headHeader, state <- db.state, served <- Served,
  ValidBlocks <- {b \in Block : Valid(b)}

(* What is committed moves as ChainHead says (updateForkChoice,            *)
(* ValidateChain): head and state together, to the valid block that was    *)
(* asked for, however the unwind of a validation, the flush of its fork,   *)
(* early answers, refusals, failures and crashes come in between.          *)
HeadMovesAtOnce == Committed!Spec

(* A handler that got the semaphore gives it back.                         *)
HandlerEnds == pc # "idle" ~> pc = "idle"

(* The prune spawned by a fork choice happens, however many calls arrive,  *)
(* unless a handler leaked the write transaction it needs.                 *)
PruneHappens == prune # "none" ~> prune = "none" \/ writer = "leaked"
=============================================================================
