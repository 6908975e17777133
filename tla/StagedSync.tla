----------------------------- MODULE StagedSync -----------------------------
(***************************************************************************)
(* The staged-sync engine (execution/stagedsync/sync.go) running the       *)
(* execution pipeline, as its two writers drive it:                        *)
(*                                                                         *)
(*   - updateForkChoice (execution/eth1/forkchoice.go): unwind to the      *)
(*     common ancestor, announce the new head to the pipeline, run it in   *)
(*     batches, each batch committed on its own;                           *)
(*   - unwindToCommonCanonical (execution/eth1/ethereum_execution.go), the *)
(*     unwind ValidateChain commits before it validates a side fork.       *)
(*                                                                         *)
(* A block is its number.  What a stage did is its progress.  Every action *)
(* is one unwindStage, one runStage, or one step of the caller, so that an *)
(* error or a crash can fall between any two of them.                      *)
(***************************************************************************)
EXTENDS Integers, Sequences, FiniteSets

CONSTANTS
  MaxBlock,            \* the highest block number (bounds the model)
  FrozenBlocks,        \* blockReader.FrozenBlocks(): blocks held in files
  LoopBlockLimit,      \* syncCfg.LoopBlockLimit, 0 for none
  ChangesetSafeRange,  \* changesetSafeRange of exec3.go
  MaxReorgDepth,       \* dbg.MaxReorgDepth: changesets kept by the pruner
  None                 \* a nil pointer

ASSUME ConstantsAssumption ==
  /\ MaxBlock \in Nat
  /\ FrozenBlocks \in 0..MaxBlock
  /\ LoopBlockLimit \in Nat
  /\ ChangesetSafeRange \in Nat
  /\ MaxReorgDepth \in Nat
  /\ None \notin Nat

Blocks == 0..MaxBlock

(* Headers and Bodies are not stages of the pipeline: only the caller      *)
(* writes their progress.                                                  *)
StageIds == {"Headers", "Bodies", "Snapshots", "BlockHashes", "Senders",
             "Execution", "TxLookup", "Finish"}

stages == <<"Snapshots", "BlockHashes", "Senders",
            "Execution", "TxLookup", "Finish">>

(* Mutant: the list of stages to unwind misses TxLookup.                   *)
unwindOrderNoTxLookup == <<"Finish", "Execution", "Senders", "BlockHashes">>

unwindOrder == <<"Finish", "TxLookup", "Execution", "Senders", "BlockHashes">>

UnwindReasons == {"none", "badBlock", "other"}

BadKinds == {"senders", "invalid", "root"}

NoBadBlock == [at |-> 0, kind |-> "none"]

VARIABLES
  savedProgress,    \* SyncStageProgress as committed
  savedChangesets,  \* blocks with an entry in ChangeSets3, as committed
  savedHead,        \* number of HeadBlockHash, as committed
  savedTop,         \* number of the last canonical block, as committed
  progress,         \* SyncStageProgress as the open transaction sees it
  changesets,       \* ChangeSets3 as the open transaction sees it
  canonicalTop,     \* the last canonical block as the transaction sees it
  currentStage,     \* Sync.currentStage, an index counted from 0
  unwindPoint,      \* Sync.unwindPoint
  prevUnwindPoint,  \* Sync.prevUnwindPoint
  unwindReason,     \* Sync.unwindReason
  pc,               \* where the caller is
  caller,           \* who holds the execution semaphore
  inRun,            \* the unwind loop in progress is that of Run
  idx,              \* position in the unwind loop
  hasMore,          \* hasMore of Run
  badBlockUnwind,   \* badBlockUnwind of Run
  target,           \* number of the head requested by updateForkChoice
  bad,              \* the block of the requested chain that is invalid
  headIsTarget      \* HeadBlockHash is the requested head

syncVars   == <<currentStage, unwindPoint, prevUnwindPoint, unwindReason>>
savedVars  == <<savedProgress, savedChangesets, savedHead, savedTop>>
txVars     == <<progress, changesets, canonicalTop, headIsTarget>>
loopVars   == <<inRun, idx, hasMore, badBlockUnwind>>
callVars   == <<caller, target, bad>>
vars       == <<savedVars, txVars, syncVars, pc, loopVars, callVars>>

Max(a, b) == IF a >= b THEN a ELSE b
Min(a, b) == IF a <= b THEN a ELSE b

(* SetCurrentStage: the index of a stage in the pipeline.                  *)
StageIndex(id) == (CHOOSE i \in 1..Len(stages) : stages[i] = id) - 1

(* AggregatorRoTx.CanUnwindToBlockNum: the lowest block with a changeset,  *)
(* or the block of the commitment when there is no changeset at all.       *)
CanUnwindTo(cs, commitmentBlock) ==
  IF cs = {} THEN commitmentBlock
             ELSE CHOOSE n \in cs : \A m \in cs : n <= m

(* Stages that never unwind into the blocks held in files.                 *)
UnwindFloor(id) == IF id \in {"Senders", "TxLookup"} THEN FrozenBlocks ELSE 0

FlagsOK ==
  /\ inRun \in BOOLEAN
  /\ hasMore \in BOOLEAN
  /\ badBlockUnwind \in BOOLEAN
  /\ headIsTarget \in BOOLEAN

DataOK ==
  /\ savedProgress \in [StageIds -> Blocks]
  /\ savedChangesets \in SUBSET Blocks
  /\ savedHead \in Blocks
  /\ savedTop \in Blocks
  /\ canonicalTop \in Blocks
  /\ progress \in [StageIds -> Blocks]
  /\ changesets \in SUBSET Blocks
  /\ currentStage \in 0..6
  /\ unwindPoint \in Blocks \cup {None}
  /\ prevUnwindPoint \in Blocks \cup {None}
  /\ unwindReason \in UnwindReasons
  /\ pc \in {"idle", "unwind", "unwound", "loop", "returned"}
  /\ caller \in {"none", "forkchoice", "validate"}
  /\ idx \in 1..6
  /\ target \in Blocks
  /\ bad \in [at : Blocks, kind : BadKinds \cup {"none"}]

(* The engine's state: progress and unwind points are block numbers and    *)
(* currentStage stays within the pipeline, one past its end included.      *)
TypeOK == DataOK /\ FlagsOK

(* A datadir whose files have been executed (ProcessFrozenBlocks).         *)
Init ==
  /\ savedProgress = [s \in StageIds |-> FrozenBlocks]
  /\ savedChangesets = {}
  /\ savedHead = FrozenBlocks
  /\ savedTop = FrozenBlocks
  /\ canonicalTop = savedTop
  /\ progress = savedProgress
  /\ changesets = savedChangesets
  /\ currentStage = 0
  /\ unwindPoint = None
  /\ prevUnwindPoint = None
  /\ unwindReason = "none"
  /\ pc = "idle"
  /\ caller = "none"
  /\ inRun = FALSE
  /\ idx = 1
  /\ hasMore = FALSE
  /\ badBlockUnwind = FALSE
  /\ target = 0
  /\ bad = NoBadBlock
  /\ headIsTarget = FALSE

-----------------------------------------------------------------------------
(* The engine.                                                             *)

(* Sync.UnwindTo once CanUnwindBeforeBlockNum has accepted the point.      *)
SetUnwindPoint(point, reason) ==
  /\ unwindPoint' = point
  /\ unwindReason' = reason

(* The caller returns: its local variables go away, Sync stays.            *)
EndCall ==
  /\ pc' = "idle"
  /\ caller' = "none"
  /\ target' = 0
  /\ bad' = NoBadBlock
  /\ headIsTarget' = FALSE
  /\ inRun' = FALSE
  /\ idx' = 1
  /\ hasMore' = FALSE
  /\ badBlockUnwind' = FALSE

(* ... with its transaction rolled back.                                   *)
Rollback ==
  /\ EndCall
  /\ progress' = savedProgress
  /\ changesets' = savedChangesets
  /\ canonicalTop' = savedTop
  /\ UNCHANGED savedVars

Commit ==
  /\ savedProgress' = progress
  /\ savedChangesets' = changesets
  /\ savedHead' = IF headIsTarget THEN target ELSE savedHead

(* Entry of the loop over unwindOrder, from RunUnwind or from Run.         *)
StartUnwind(fromRun) ==
  /\ pc' = "unwind"
  /\ inRun' = fromRun
  /\ idx' = 1

StartRun ==
  /\ pc' = "loop"
  /\ hasMore' = FALSE
  /\ badBlockUnwind' = FALSE
  /\ prevUnwindPoint' = None

(* What a stage's Unwind leaves: UnwindPoint, or the files if they reach   *)
(* higher.                                                                 *)
Unwound(id) == Max(unwindPoint, UnwindFloor(id))

(* unwindExec3 needs the changeset of every block it reverts.              *)
CanUnwindState ==
  /\ unwindPoint >= CanUnwindTo(changesets, progress["Execution"])
  /\ \A n \in Blocks :
       unwindPoint < n /\ n <= progress["Execution"] => n \in changesets

(* Mutant: the stage is skipped one block too early.                       *)
UnwindStageSkipOffByOne ==
  /\ pc = "unwind" /\ idx <= Len(unwindOrder)
  /\ progress[unwindOrder[idx]] <= unwindPoint + 1
  /\ idx' = idx + 1
  /\ UNCHANGED <<savedVars, txVars, syncVars, pc, inRun, hasMore,
                 badBlockUnwind, callVars>>

UnwindStageSkip ==
  /\ pc = "unwind" /\ idx <= Len(unwindOrder)
  /\ progress[unwindOrder[idx]] <= unwindPoint
  /\ idx' = idx + 1
  /\ UNCHANGED <<savedVars, txVars, syncVars, pc, inRun, hasMore,
                 badBlockUnwind, callVars>>

UnwindStageDone ==
  /\ pc = "unwind" /\ idx <= Len(unwindOrder)
  /\ LET id == unwindOrder[idx]
     IN  /\ progress[id] > unwindPoint
         /\ id = "Execution" => CanUnwindState
         /\ currentStage' = StageIndex(id)
         /\ progress' = IF id = "TxLookup" /\ progress[id] <= Unwound(id)
                        THEN progress
                        ELSE [progress EXCEPT ![id] = Unwound(id)]
  /\ idx' = idx + 1
  /\ UNCHANGED <<savedVars, changesets, canonicalTop, headIsTarget,
                 unwindPoint, prevUnwindPoint, unwindReason, pc, inRun, hasMore,
                 badBlockUnwind, callVars>>

(* An error leaves unwindPoint, unwindReason and currentStage as they are. *)
UnwindStageFails ==
  /\ pc = "unwind" /\ idx <= Len(unwindOrder)
  /\ progress[unwindOrder[idx]] > unwindPoint
  /\ currentStage' = StageIndex(unwindOrder[idx])
  /\ Rollback
  /\ UNCHANGED <<unwindPoint, prevUnwindPoint, unwindReason>>

(* Mutant: SetCurrentStage is not called after the loop.                   *)
UnwindLoopEndsInPlace ==
  /\ pc = "unwind" /\ idx > Len(unwindOrder)
  /\ prevUnwindPoint' = unwindPoint
  /\ unwindPoint' = None
  /\ unwindReason' = "none"
  /\ badBlockUnwind' = (inRun /\ unwindReason = "badBlock")
  /\ pc' = IF ~inRun THEN "unwound"
           ELSE IF unwindReason = "badBlock" THEN "returned" ELSE "loop"
  /\ UNCHANGED <<savedVars, txVars, currentStage, inRun, idx, hasMore, callVars>>

(* Mutant: Run goes on after the unwind of a bad block.                    *)
UnwindLoopEndsNoBreak ==
  /\ pc = "unwind" /\ idx > Len(unwindOrder)
  /\ prevUnwindPoint' = unwindPoint
  /\ unwindPoint' = None
  /\ unwindReason' = "none"
  /\ currentStage' = 0
  /\ badBlockUnwind' = FALSE
  /\ pc' = IF inRun THEN "loop" ELSE "unwound"
  /\ UNCHANGED <<savedVars, txVars, inRun, idx, hasMore, callVars>>

UnwindLoopEnds ==
  /\ pc = "unwind" /\ idx > Len(unwindOrder)
  /\ prevUnwindPoint' = unwindPoint
  /\ unwindPoint' = None
  /\ unwindReason' = "none"
  /\ currentStage' = 0
  /\ badBlockUnwind' = (inRun /\ unwindReason = "badBlock")
  /\ pc' = IF ~inRun THEN "unwound"
           ELSE IF unwindReason = "badBlock" THEN "returned" ELSE "loop"
  /\ UNCHANGED <<savedVars, txVars, inRun, idx, hasMore, callVars>>

(* Run finds an unwind point at the top of its loop.                       *)
RunMustUnwind ==
  /\ pc = "loop" /\ unwindPoint # None
  /\ StartUnwind(TRUE)
  /\ UNCHANGED <<savedVars, txVars, syncVars, hasMore, badBlockUnwind,
                 callVars>>

(* IsDone.                                                                 *)
RunEnds ==
  /\ pc = "loop" /\ unwindPoint = None /\ currentStage >= Len(stages)
  /\ currentStage' = 0
  /\ pc' = "returned"
  /\ UNCHANGED <<savedVars, txVars, unwindPoint, prevUnwindPoint,
                 unwindReason, loopVars, callVars>>

(* The guard of runStage, and NextStage after it.                          *)
Runs(id) ==
  /\ pc = "loop" /\ unwindPoint = None
  /\ currentStage < Len(stages)
  /\ stages[currentStage + 1] = id
  /\ currentStage' = currentStage + 1
  /\ UNCHANGED <<savedVars, canonicalTop, pc, prevUnwindPoint, inRun, idx,
                 badBlockUnwind, callVars>>

(* Mutant: a stage saves the next block to process as its progress.        *)
AdvancePast(id, to) ==
  /\ progress' = [progress EXCEPT ![id] = to + 1]
  /\ UNCHANGED <<unwindPoint, unwindReason, hasMore>>

Advance(id, to) ==
  /\ progress' = [progress EXCEPT ![id] = to]
  /\ UNCHANGED <<unwindPoint, unwindReason, hasMore>>

StageFails ==
  /\ pc = "loop" /\ unwindPoint = None /\ currentStage < Len(stages)
  /\ Rollback
  /\ UNCHANGED syncVars

(* Segments come from the downloader and move no progress.                 *)
SnapshotsForward ==
  /\ Runs("Snapshots")
  /\ UNCHANGED <<txVars, unwindPoint, unwindReason, hasMore>>

BlockHashesForward ==
  /\ Runs("BlockHashes")
  /\ Advance("BlockHashes", progress["Headers"])
  /\ UNCHANGED <<changesets, headIsTarget>>

SendersForward ==
  /\ Runs("Senders")
  /\ LET from == Max(progress["Senders"], FrozenBlocks)
         to   == progress["Bodies"]
         fails == bad.kind = "senders" /\ from < bad.at /\ bad.at <= to
     IN  \/ /\ to < from
            /\ UNCHANGED <<progress, unwindPoint, unwindReason>>
         \/ /\ to >= from /\ ~fails
            /\ progress' = [progress EXCEPT !["Senders"] = to]
            /\ UNCHANGED <<unwindPoint, unwindReason>>
         \/ /\ fails
            /\ bad.at - 1 >= CanUnwindTo(changesets, progress["Execution"])
            /\ SetUnwindPoint(bad.at - 1, "badBlock")
            /\ UNCHANGED progress
  /\ UNCHANGED <<changesets, headIsTarget, hasMore>>

(* ExecV3 from block `from` up to Senders' progress.  The loop stops at    *)
(* the block limit, at a full batch, or at a block that does not execute;  *)
(* only the root of the last block executed is compared.                   *)
BatchLimit(from, to) ==
  IF LoopBlockLimit = 0 THEN to ELSE Min(to, from + LoopBlockLimit)

WritesChangesets(from, to) ==
  to - from <= ChangesetSafeRange /\ from >= FrozenBlocks

(* restoreTxNum: a database that holds no commitment yet executes block 0  *)
(* too (its changeset is empty).  That it counts as one block of the limit *)
(* is left out.                                                            *)
FirstBlock(from) == IF from = 0 THEN 0 ELSE from + 1

Executed(from, last, to) ==
  IF WritesChangesets(from, to) THEN changesets \cup FirstBlock(from)..last
                                ELSE changesets

(* handleIncorrectRootHashError: half of the batch, at least one block.    *)
RootUnwindTo(from, last, cs) ==
  last - Max(1, (last - Min(last, Max(from, CanUnwindTo(cs, from)))) \div 2)

(* Mutant: one block to execute is taken for none.                         *)
ExecutionNothingOffByOne ==
  /\ Runs("Execution")
  /\ progress["Senders"] <= progress["Execution"] + 1
  /\ UNCHANGED <<txVars, unwindPoint, unwindReason, hasMore>>

ExecutionNothing ==
  /\ Runs("Execution")
  /\ progress["Senders"] <= progress["Execution"]
  /\ UNCHANGED <<txVars, unwindPoint, unwindReason, hasMore>>

(* All blocks of the batch execute and the root of the last one matches.   *)
ExecutionBatch ==
  LET from == progress["Execution"]
      to   == progress["Senders"]
  IN  \E last \in Blocks :
        /\ Runs("Execution")
        /\ from < last /\ last <= BatchLimit(from, to)
        /\ ~(bad.kind = "invalid" /\ from < bad.at /\ bad.at <= last)
        /\ ~(bad.kind = "root" /\ bad.at <= last)
        /\ progress' = [progress EXCEPT !["Execution"] = last]
        /\ changesets' = Executed(from, last, to)
        /\ hasMore' = (hasMore \/ last < to)
        /\ UNCHANGED <<headIsTarget, unwindPoint, unwindReason>>

(* serialExecutor.execute meets an invalid block: nothing is flushed and   *)
(* the progress stays, but the changesets of the blocks before it do not   *)
(* go away.                                                                *)
ExecutionInvalidBlock ==
  LET from == progress["Execution"]
      to   == progress["Senders"]
      cs   == Executed(from, bad.at - 1, to)
  IN  /\ Runs("Execution")
      /\ bad.kind = "invalid" /\ from < bad.at /\ bad.at <= BatchLimit(from, to)
      /\ bad.at - 1 >= CanUnwindTo(cs, from)
      /\ SetUnwindPoint(bad.at - 1, "badBlock")
      /\ changesets' = cs
      /\ UNCHANGED <<progress, headIsTarget, hasMore>>

(* flushAndCheckCommitmentV3 saves the progress before it compares the     *)
(* root.  ErrLoopExhausted is still returned when it was the block limit   *)
(* that ended the batch.                                                   *)
ExecutionWrongRoot ==
  LET from == progress["Execution"]
      to   == progress["Senders"]
  IN  \E last \in Blocks :
        LET cs == Executed(from, last, to)
            unwindTo == RootUnwindTo(from, last, cs)
        IN  /\ Runs("Execution")
            /\ from < last /\ last <= BatchLimit(from, to)
            /\ bad.kind = "root" /\ bad.at <= last
            /\ unwindTo >= CanUnwindTo(cs, from)
            /\ progress' = [progress EXCEPT !["Execution"] = last]
            /\ changesets' = cs
            /\ SetUnwindPoint(unwindTo, "badBlock")
            /\ hasMore' = (hasMore \/ (last < to /\ last = BatchLimit(from, to)))
            /\ UNCHANGED headIsTarget

(* The two cases in which the unwind is refused ("too far unwind",         *)
(* ErrTooDeepUnwind): the stage fails.                                     *)
UnwindRefused ==
  LET from  == progress["Execution"]
      to    == progress["Senders"]
      limit == BatchLimit(from, to)
      Refused(point, last) == point < CanUnwindTo(Executed(from, last, to), from)
  IN  /\ stages[currentStage + 1] = "Execution"
      /\ \/ /\ bad.kind = "invalid" /\ from < bad.at /\ bad.at <= limit
            /\ Refused(bad.at - 1, bad.at - 1)
         \/ /\ bad.kind = "root"
            /\ \E last \in Blocks :
                 /\ from < last /\ bad.at <= last /\ last <= limit
                 /\ Refused(RootUnwindTo(from, last, Executed(from, last, to)),
                            last)

TxLookupForward ==
  /\ Runs("TxLookup")
  /\ Advance("TxLookup", Max(progress["TxLookup"], progress["Execution"]))
  /\ UNCHANGED <<changesets, headIsTarget>>

(* Finish copies HeadHeaderHash, the requested head, into HeadBlockHash.   *)
FinishForward ==
  /\ Runs("Finish")
  /\ Advance("Finish", Max(progress["Finish"], progress["Execution"]))
  /\ headIsTarget' = (headIsTarget \/ progress["Execution"] > progress["Finish"])
  /\ UNCHANGED changesets

-----------------------------------------------------------------------------
(* The callers, each under the execution semaphore.                        *)

(* updateForkChoice up to RunUnwind.  The head `t` branches off the        *)
(* canonical chain at `ancestor`; a target below the lowest changeset is   *)
(* capped to it.  A head with number 0 skips the unwind.  HeadBlockHash    *)
(* may already be the requested head, which is then not canonical.         *)
ForkChoice ==
  \E t \in Blocks, ancestor \in Blocks, at \in Blocks, kind \in BadKinds,
     headKnown \in BOOLEAN :
    /\ pc = "idle"
    /\ ancestor <= savedTop
    /\ t > 0 => ancestor < t
    /\ t = 0 => ancestor = 0
    /\ target' = t
    /\ bad' = IF at \in (ancestor + 1)..t THEN [at |-> at, kind |-> kind]
                                          ELSE NoBadBlock
    /\ caller' = "forkchoice"
    /\ progress' = savedProgress
    /\ changesets' = savedChangesets
    /\ canonicalTop' = savedTop
    /\ headKnown => savedHead = t
    /\ t = 0 /\ savedHead = 0 => headKnown
    /\ headIsTarget' = headKnown
    /\ IF t = 0
       THEN /\ pc' = "unwound"
            /\ UNCHANGED <<unwindPoint, unwindReason, inRun, idx>>
       ELSE /\ SetUnwindPoint(Max(ancestor,
                 CanUnwindTo(savedChangesets, savedProgress["Execution"])),
                 "other")
            /\ StartUnwind(FALSE)
    /\ UNCHANGED <<savedVars, currentStage, prevUnwindPoint, hasMore,
                   badBlockUnwind>>

(* The canonical hashes written for the new head.  Those of the old chain  *)
(* above it stay until the end, and AppendCanonicalTxNums indexes them.    *)
NewTop == IF target > 0 THEN Max(canonicalTop, target) ELSE canonicalTop

(* isDomainAheadOfBlocks: the state is above the last canonical block, so  *)
(* the unwind and the new canonical hashes are committed and nothing runs. *)
ForkChoiceTooFarAway ==
  /\ pc = "unwound" /\ caller = "forkchoice"
  /\ progress["Execution"] > NewTop
  /\ savedProgress' = progress
  /\ savedTop' = NewTop
  /\ canonicalTop' = NewTop
  /\ EndCall
  /\ UNCHANGED <<savedChangesets, savedHead, progress, changesets, syncVars>>

(* The progress of Headers, BlockHashes and Bodies is moved to the new     *)
(* head, and the state of a fork validated before is flushed: ValidateChain*)
(* has unwound the state below that fork.                                  *)
ForkChoiceSetHead ==
  \E flush \in BOOLEAN :
    /\ pc = "unwound" /\ caller = "forkchoice"
    /\ progress["Execution"] <= NewTop
    /\ flush => progress["Execution"] < target /\ bad = NoBadBlock
    /\ progress' = [progress EXCEPT !["Headers"] = target,
                                    !["BlockHashes"] = target,
                                    !["Bodies"] = target,
                                    !["Execution"] = IF flush THEN target ELSE @]
    /\ changesets' = IF flush
                     THEN changesets \cup FirstBlock(progress["Execution"])..target
                     ELSE changesets
    /\ canonicalTop' = NewTop
    /\ StartRun
    /\ UNCHANGED <<savedVars, headIsTarget, currentStage, unwindPoint,
                   unwindReason, inRun, idx, callVars>>

(* PruneExecutionStage: changesets deeper than MaxReorgDepth, all or, when *)
(* it runs out of time, the lowest of them.                                *)
Pruned(cs, executionAt) ==
  IF executionAt <= MaxReorgDepth THEN {cs}
  ELSE { {n \in cs : n >= b} : b \in 0..(executionAt - MaxReorgDepth) }

(* Run returned hasMore: RunPrune, commit, new transaction, Run again.     *)
ForkChoiceNextBatch ==
  /\ pc = "returned" /\ hasMore
  /\ changesets' \in Pruned(changesets, progress["Execution"])
  /\ savedProgress' = progress
  /\ savedChangesets' = changesets'
  /\ savedHead' = IF headIsTarget THEN target ELSE savedHead
  /\ savedTop' = canonicalTop
  /\ StartRun
  /\ currentStage' = 0
  /\ UNCHANGED <<progress, canonicalTop, headIsTarget, unwindPoint, unwindReason, inRun,
                 idx, callVars>>

(* "if head hash was set then success otherwise no".  The canonical chain  *)
(* is truncated after the head.                                            *)
ForkChoiceSuccess ==
  /\ pc = "returned" /\ ~hasMore /\ headIsTarget
  /\ Commit
  /\ savedTop' = target
  /\ canonicalTop' = target
  /\ EndCall
  /\ UNCHANGED <<progress, changesets, syncVars>>

(* BadBlock, InvalidForkchoice, or an error of the caller between two      *)
(* steps (a header that does not verify, a failed write, a failed prune).  *)
CallerFails ==
  /\ pc \in {"unwound", "returned"}
  /\ Rollback
  /\ UNCHANGED syncVars

(* ValidateChain: unwindToCommonCanonical in a transaction of its own.     *)
ValidateUnwind ==
  \E ancestor \in Blocks :
    /\ pc = "idle"
    /\ ancestor <= savedTop
    /\ ancestor >= CanUnwindTo(savedChangesets, savedProgress["Execution"])
    /\ caller' = "validate"
    /\ progress' = savedProgress
    /\ changesets' = savedChangesets
    /\ canonicalTop' = savedTop
    /\ headIsTarget' = FALSE
    /\ SetUnwindPoint(ancestor, "other")
    /\ StartUnwind(FALSE)
    /\ UNCHANGED <<savedVars, currentStage, prevUnwindPoint,
                   hasMore, badBlockUnwind, target, bad>>

ValidateCommit ==
  /\ pc = "unwound" /\ caller = "validate"
  /\ Commit
  /\ EndCall
  /\ UNCHANGED <<savedTop, progress, changesets, canonicalTop, syncVars>>

(* runPostForkchoiceInBackground: RunPrune between two calls.              *)
BackgroundPrune ==
  /\ pc = "idle"
  /\ savedChangesets' \in Pruned(savedChangesets, savedProgress["Execution"])
  /\ changesets' = savedChangesets'
  /\ progress' = savedProgress
  /\ currentStage' = 0
  /\ canonicalTop' = savedTop
  /\ UNCHANGED <<savedProgress, savedHead, savedTop, headIsTarget, unwindPoint,
                 prevUnwindPoint, unwindReason, pc, loopVars, callVars>>

(* The process dies: the open transaction and Sync are gone.               *)
Crash ==
  /\ Rollback
  /\ currentStage' = 0
  /\ unwindPoint' = None
  /\ prevUnwindPoint' = None
  /\ unwindReason' = "none"

-----------------------------------------------------------------------------
UnwindSteps ==
  \/ UnwindStageSkip \/ UnwindStageDone \/ UnwindStageFails \/ UnwindLoopEnds

RunSteps ==
  \/ RunMustUnwind \/ RunEnds
  \/ SnapshotsForward \/ BlockHashesForward \/ SendersForward
  \/ ExecutionNothing \/ ExecutionBatch
  \/ ExecutionInvalidBlock \/ ExecutionWrongRoot
  \/ TxLookupForward \/ FinishForward

CallerSteps ==
  \/ ForkChoiceTooFarAway \/ ForkChoiceSetHead \/ ForkChoiceNextBatch
  \/ ForkChoiceSuccess \/ CallerFails \/ ValidateCommit

Next ==
  \/ UnwindSteps \/ RunSteps \/ CallerSteps \/ StageFails
  \/ ForkChoice \/ ValidateUnwind \/ BackgroundPrune \/ Crash

Spec == Init /\ [][Next]_vars

(* A call that was admitted is carried on: the goroutine is not descheduled*)
(* for ever.  Nothing obliges a stage to fail, other than by a refused     *)
(* unwind, a new call to arrive, or the node to crash.                     *)
FairSpec ==
  /\ Spec
  /\ WF_vars(\/ UnwindSteps \/ RunSteps \/ CallerSteps
             \/ StageFails /\ UnwindRefused)

-----------------------------------------------------------------------------
(* A stage is never ahead of the stage it reads from, in what is committed:*)
(* after any mix of reorgs, batches, bad blocks, failed unwinds and        *)
(* crashes, a restart finds Finish and TxLookup at most at Execution,      *)
(* Execution at most at Senders and BlockHashes at most at Headers.        *)
CommittedOrdered ==
  /\ savedProgress["Finish"] <= savedProgress["Execution"]
  /\ savedProgress["TxLookup"] <= savedProgress["Execution"]
  /\ savedProgress["Execution"] <= savedProgress["Senders"]
  /\ savedProgress["BlockHashes"] <= savedProgress["Headers"]

(* Why CommittedOrdered holds: within a call, where the unwind loop and the*)
(* pipeline are decides which stages may differ.  UnwindTo is refused below*)
(* the lowest changeset, no changeset lies within the files, and between   *)
(* the flush of a validated fork and the Senders stage Execution alone may *)
(* be ahead, with nothing to unwind.                                       *)
AboveFiles(p, cs) == p["Execution"] >= FrozenBlocks /\ \A n \in cs : n >= FrozenBlocks

UnwindLoopInv ==
  pc = "unwind" =>
    /\ unwindPoint # None
    /\ progress["Execution"] <= progress["Senders"]
    /\ idx > 1 => progress["Finish"] <= unwindPoint
    /\ idx > 2 => progress["TxLookup"] <= Max(unwindPoint, FrozenBlocks)
    /\ idx > 3 => progress["Execution"] <= unwindPoint

RunLoopInv ==
  /\ pc = "unwound" =>
       /\ progress["Execution"] <= progress["Senders"]
       /\ caller = "forkchoice" /\ target > 0 =>
            unwindPoint = None /\ currentStage = 0
  /\ pc = "loop" =>
       \/ progress["Execution"] <= progress["Senders"]
       \/ /\ progress["Execution"] <= progress["Bodies"]
          /\ currentStage <= StageIndex("Senders")
          /\ unwindPoint = None
          /\ bad = NoBadBlock
  /\ pc = "returned" =>
       unwindPoint = None /\ progress["Execution"] <= progress["Senders"]

OrderedInv ==
  /\ CommittedOrdered
  /\ AboveFiles(savedProgress, savedChangesets)
  /\ AboveFiles(progress, changesets)
  /\ progress["Finish"] <= progress["Execution"]
  /\ progress["TxLookup"] <= progress["Execution"]
  /\ progress["BlockHashes"] <= progress["Headers"]
  /\ UnwindLoopInv
  /\ RunLoopInv

UnwindEnded ==
  \/ pc = "unwound" /\ (caller = "validate" \/ target > 0)
  \/ pc = "returned" /\ badBlockUnwind

(* Neither RunUnwind nor the unwind of a bad block within Run leaves a     *)
(* stage of the pipeline above the point it was given, except for the      *)
(* blocks held in files.                                                   *)
UnwindReachesPoint ==
  UnwindEnded =>
    \A i \in 1..Len(unwindOrder) :
      progress[unwindOrder[i]] <= Max(prevUnwindPoint, FrozenBlocks)

(* Run that ends with nothing more to do and no bad block has brought      *)
(* every stage to one height, not below the requested head, whatever an    *)
(* earlier failed call left in currentStage and unwindPoint.               *)
RunReachesHead ==
  pc = "returned" /\ ~hasMore /\ ~badBlockUnwind /\ target > 0 =>
    /\ progress["BlockHashes"] = target
    /\ progress["Senders"] >= target
    /\ \A s \in {"Execution", "TxLookup", "Finish"} :
         progress[s] = progress["Senders"]

(* Run, whenever it is entered for a head above genesis, starts at the     *)
(* first stage with no unwind pending: what a failed RunUnwind, a failed   *)
(* stage or a bad block left behind in Sync is gone by then.               *)
RunStartsClean ==
  [][ pc # "loop" /\ pc' = "loop" /\ target > 0 =>
        currentStage' = 0 /\ unwindPoint' = None ]_vars

(* Every admitted call returns and frees the semaphore: batches make       *)
(* progress and a bad block ends Run.                                      *)
CallReturns == pc # "idle" ~> pc = "idle"
=============================================================================
