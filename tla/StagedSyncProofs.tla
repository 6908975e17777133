-------------------------- MODULE StagedSyncProofs --------------------------
(***************************************************************************)
(* Proofs about StagedSync, for every MaxBlock, FrozenBlocks, batch limit, *)
(* changeset range and reorg depth.                                        *)
(***************************************************************************)
EXTENDS StagedSync, WellFoundedInduction, TLAPS

(* A non-empty set of block numbers has a lowest one, so that              *)
(* ReadLowestUnwindableBlock is well defined.                              *)
LEMMA LowestExists ==
  ASSUME NEW cs, cs \subseteq Nat, cs # {}
  PROVE  \E n \in cs : \A m \in cs : n <= m
<1>1. PICK n \in cs : \A m \in cs : ~(<<m, n>> \in OpToRel(<, Nat))
  BY NatLessThanWellFounded, WFMin
<1>2. \A m \in cs : ~(m < n)
  BY <1>1, Zenon DEF OpToRel
<1> QED
  BY <1>2

(* CanUnwindToBlockNum returns a block number, one that has a changeset or *)
(* that of the commitment.                                                 *)
LEMMA CanUnwindToType ==
  ASSUME NEW cs, cs \subseteq Blocks, NEW b \in Blocks
  PROVE  /\ CanUnwindTo(cs, b) \in Blocks
         /\ cs # {} => CanUnwindTo(cs, b) \in cs
         /\ cs = {} => CanUnwindTo(cs, b) = b
<1>1. CASE cs = {}
  BY <1>1 DEF CanUnwindTo
<1>2. CASE cs # {}
  <2>1. cs \subseteq Nat
    BY ConstantsAssumption DEF Blocks
  <2>2. \E n \in cs : \A m \in cs : n <= m
    BY <1>2, <2>1, LowestExists, Zenon
  <2> QED
    BY <1>2, <2>2 DEF CanUnwindTo
<1> QED
  BY <1>1, <1>2

(* A state that can be unwound at all is unwound to a block above files. *)
LEMMA UnwindAboveFiles ==
  ASSUME NEW cs, cs \subseteq Blocks, NEW b \in Blocks, NEW point \in Blocks,
         \A n \in cs : n >= FrozenBlocks,
         point >= CanUnwindTo(cs, b), b > point
  PROVE  point >= FrozenBlocks
<1>1. CanUnwindTo(cs, b) \in Blocks
  BY CanUnwindToType
<1>2. CASE cs = {}
  <2>1. CanUnwindTo(cs, b) = b
    BY <1>2, CanUnwindToType
  <2> QED
    BY <2>1, ConstantsAssumption DEF Blocks
<1>3. CASE cs # {}
  <2>1. CanUnwindTo(cs, b) \in cs
    BY <1>3, CanUnwindToType
  <2>2. CanUnwindTo(cs, b) >= FrozenBlocks
    BY <2>1
  <2> QED
    BY <1>1, <2>2, ConstantsAssumption DEF Blocks
<1> QED
  BY <1>2, <1>3

(* The block handleIncorrectRootHashError unwinds to is below the block    *)
(* whose root was wrong.                                                   *)
LEMMA RootUnwindToType ==
  ASSUME NEW cs, cs \subseteq Blocks, NEW from \in Blocks,
         NEW last \in Blocks, from < last
  PROVE  RootUnwindTo(from, last, cs) \in 0..(last - 1)
<1>1. CanUnwindTo(cs, from) \in Blocks
  BY CanUnwindToType
<1> DEFINE low == Min(last, Max(from, CanUnwindTo(cs, from)))
<1>2. low \in 0..last
  BY <1>1, ConstantsAssumption DEF Blocks, Min, Max
<1> HIDE DEF low
<1>3. last \in Nat /\ last >= 1
  BY ConstantsAssumption DEF Blocks
<1>4. (last - low) \div 2 \in 0..last
  BY <1>2, <1>3
<1>5. Max(1, (last - low) \div 2) \in 1..last
  BY <1>3, <1>4 DEF Max
<1>6. RootUnwindTo(from, last, cs) = last - Max(1, (last - low) \div 2)
  BY DEF RootUnwindTo, low
<1> QED
  BY <1>3, <1>5, <1>6

(* Where each stage stands in the pipeline.                                *)
LEMMA StageIndexes ==
  /\ Len(stages) = 6 /\ Len(unwindOrder) = 5
  /\ StageIndex("Finish") = 5
  /\ StageIndex("TxLookup") = 4
  /\ StageIndex("Execution") = 3
  /\ StageIndex("Senders") = 2
  /\ StageIndex("BlockHashes") = 1
<1>1. Len(stages) = 6 /\ Len(unwindOrder) = 5
  BY DEF stages, unwindOrder
<1>2. \A i \in 1..6 : i = 1 \/ i = 2 \/ i = 3 \/ i = 4 \/ i = 5 \/ i = 6
  OBVIOUS
<1> QED
  BY <1>1, <1>2 DEF StageIndex, stages

LEMMA UnwindOrderElements ==
  ASSUME NEW i \in 1..5
  PROVE  /\ unwindOrder[i] \in StageIds
         /\ StageIndex(unwindOrder[i]) \in 0..5
         /\ unwindOrder[i] = "Finish" <=> i = 1
         /\ unwindOrder[i] = "TxLookup" <=> i = 2
         /\ unwindOrder[i] = "Execution" <=> i = 3
         /\ unwindOrder[i] = "Senders" <=> i = 4
         /\ unwindOrder[i] = "BlockHashes" <=> i = 5
<1>1. i = 1 \/ i = 2 \/ i = 3 \/ i = 4 \/ i = 5
  OBVIOUS
<1> QED
  BY <1>1, StageIndexes DEF unwindOrder, StageIds

-----------------------------------------------------------------------------
(* The pruner only removes changesets.                                     *)
LEMMA PrunedSubset ==
  ASSUME NEW cs, NEW at, NEW ps \in Pruned(cs, at)
  PROVE  ps \subseteq cs
BY DEF Pruned

(* A call that ends leaves its local variables as Init has them.           *)
BadType == [at : Blocks, kind : BadKinds \cup {"none"}]

LEMMA NoBadBlockType == NoBadBlock \in BadType
BY ConstantsAssumption DEF NoBadBlock, BadType, Blocks

LEMMA EndCallType ==
  ASSUME EndCall
  PROVE  /\ pc' = "idle" /\ caller' = "none"
         /\ target' \in Blocks /\ bad' \in BadType /\ idx' \in 1..6
BY NoBadBlockType, ConstantsAssumption DEF EndCall, Blocks

(* The blocks of a batch are blocks above the one it starts from.          *)
LEMMA ExecutedType ==
  ASSUME changesets \subseteq Blocks, NEW from \in Blocks,
         NEW last \in Int, last <= MaxBlock, NEW to
  PROVE  /\ Executed(from, last, to) \subseteq Blocks
         /\ \A n \in Executed(from, last, to) : n \in changesets \/ n >= from
BY ConstantsAssumption DEF Executed, FirstBlock, Blocks

(* Every step keeps the types: progress and unwind points stay block       *)
(* numbers, also those computed by the halving of a batch with a wrong     *)
(* root, and the pipeline's index stays within it.                         *)
LEMMA DataStep == TypeOK /\ [Next]_vars => DataOK'
<1> SUFFICES ASSUME TypeOK, [Next]_vars
             PROVE  DataOK'
  OBVIOUS
<1> USE ConstantsAssumption DEF TypeOK, DataOK, Blocks, savedVars, callVars
<1>1. CASE UnwindStageSkip
  BY <1>1, StageIndexes DEF UnwindStageSkip, txVars, syncVars
<1>2. CASE UnwindStageFails
  BY <1>2, StageIndexes, UnwindOrderElements, EndCallType DEF UnwindStageFails, Rollback, BadType
<1>3. CASE UnwindLoopEnds
  BY <1>3, StageIndexes DEF UnwindLoopEnds, txVars, UnwindReasons
<1>4. CASE RunMustUnwind
  BY <1>4 DEF RunMustUnwind, StartUnwind, txVars, syncVars
<1>5. CASE RunEnds
  BY <1>5 DEF RunEnds, txVars, loopVars
<1>6. CASE StageFails
  BY <1>6, EndCallType DEF StageFails, Rollback, BadType, syncVars
<1>7. CASE SnapshotsForward
  BY <1>7, StageIndexes DEF SnapshotsForward, Runs, txVars
<1>8. CASE BlockHashesForward
  BY <1>8, StageIndexes DEF BlockHashesForward, Runs, Advance, StageIds
<1>9. CASE ExecutionNothing
  BY <1>9, StageIndexes DEF ExecutionNothing, Runs, txVars
<1>10. CASE TxLookupForward
  BY <1>10, StageIndexes DEF TxLookupForward, Runs, Advance, StageIds, Max
<1>11. CASE FinishForward
  BY <1>11, StageIndexes DEF FinishForward, Runs, Advance, StageIds, Max
<1>12. CASE ForkChoiceTooFarAway
  BY <1>12, EndCallType DEF ForkChoiceTooFarAway, NewTop, Max, BadType, syncVars
<1>13. CASE ForkChoiceSuccess
  BY <1>13, EndCallType DEF ForkChoiceSuccess, Commit, BadType, syncVars
<1>14. CASE CallerFails
  BY <1>14, EndCallType DEF CallerFails, Rollback, BadType, syncVars
<1>15. CASE ValidateCommit
  BY <1>15, EndCallType DEF ValidateCommit, Commit, BadType, syncVars
<1>16. CASE Crash
  BY <1>16, EndCallType DEF Crash, Rollback, BadType, UnwindReasons
<1>17. CASE UnwindStageDone
  <2>1. idx \in 1..5 /\ unwindPoint \in Blocks \cup {None}
    BY <1>17, StageIndexes DEF UnwindStageDone
  <2>2. progress[unwindOrder[idx]] > unwindPoint
    BY <1>17 DEF UnwindStageDone
  <2>3. Unwound(unwindOrder[idx]) \in Blocks
    BY <2>1, <2>2 DEF Unwound, UnwindFloor, Max
  <2>4. progress' \in [StageIds -> Blocks]
    BY <1>17, <2>1, <2>3, UnwindOrderElements, Zenon DEF UnwindStageDone
  <2>5. currentStage' = StageIndex(unwindOrder[idx])
    BY <1>17 DEF UnwindStageDone
  <2>6. StageIndex(unwindOrder[idx]) \in 0..5
    BY <2>1, UnwindOrderElements
  <2> QED
    BY <1>17, <2>1, <2>4, <2>5, <2>6 DEF UnwindStageDone
<1>18. CASE SendersForward
  BY <1>18, StageIndexes DEF SendersForward, Runs, SetUnwindPoint, StageIds, Max,
     UnwindReasons
<1>19. CASE ExecutionBatch
  <2>1. PICK last \in Blocks :
          /\ Runs("Execution")
          /\ progress' = [progress EXCEPT !["Execution"] = last]
          /\ changesets' = Executed(progress["Execution"], last, progress["Senders"])
          /\ UNCHANGED <<unwindPoint, unwindReason>>
    BY <1>19, Zenon DEF ExecutionBatch
  <2>2. changesets' \subseteq Blocks
    BY <2>1, ExecutedType DEF StageIds
  <2>3. currentStage' \in 0..6
    BY <2>1, StageIndexes DEF Runs
  <2>4. progress' \in [StageIds -> Blocks]
    BY <2>1, Zenon
  <2> QED
    BY <2>1, <2>2, <2>3, <2>4 DEF Runs
<1>20. CASE ExecutionInvalidBlock
  <2>1. changesets' = Executed(progress["Execution"], bad.at - 1, progress["Senders"])
    BY <1>20 DEF ExecutionInvalidBlock
  <2>2. progress["Execution"] \in Blocks /\ progress["Execution"] < bad.at
    BY <1>20 DEF ExecutionInvalidBlock, StageIds
  <2>3. changesets' \subseteq Blocks
    BY <2>1, <2>2, ExecutedType
  <2> QED
    BY <1>20, <2>2, <2>3, StageIndexes DEF ExecutionInvalidBlock, Runs,
       SetUnwindPoint, UnwindReasons
<1>21. CASE ExecutionWrongRoot
  <2>1. PICK last \in Blocks :
          /\ Runs("Execution")
          /\ progress["Execution"] < last
          /\ progress' = [progress EXCEPT !["Execution"] = last]
          /\ changesets' = Executed(progress["Execution"], last, progress["Senders"])
          /\ SetUnwindPoint(RootUnwindTo(progress["Execution"], last, changesets'),
                            "badBlock")
    BY <1>21, Zenon DEF ExecutionWrongRoot
  <2>2. progress["Execution"] \in Blocks /\ changesets' \subseteq Blocks
    BY <2>1, ExecutedType DEF StageIds
  <2>3. RootUnwindTo(progress["Execution"], last, changesets') \in Blocks
    BY <2>1, <2>2, RootUnwindToType
  <2>4. currentStage' \in 0..6
    BY <2>1, StageIndexes DEF Runs
  <2>5. progress' \in [StageIds -> Blocks]
    BY <2>1, Zenon
  <2> QED
    BY <2>1, <2>2, <2>3, <2>4, <2>5 DEF Runs, SetUnwindPoint, UnwindReasons
<1>22. CASE ForkChoiceSetHead
  <2>1. progress' \in [StageIds -> Blocks]
    BY <1>22 DEF ForkChoiceSetHead, StageIds
  <2>2. \/ changesets' = changesets
        \/ changesets' = changesets \cup FirstBlock(progress["Execution"])..target
    BY <1>22 DEF ForkChoiceSetHead
  <2>3. FirstBlock(progress["Execution"])..target \subseteq Blocks
    <3>1. progress["Execution"] \in Nat /\ target \in 0..MaxBlock
      BY DEF StageIds
    <3> QED
      BY <3>1 DEF FirstBlock
  <2>4. changesets' \subseteq Blocks
    <3>1. changesets \subseteq Blocks
      OBVIOUS
    <3> QED
      BY <2>2, <2>3, <3>1, Zenon
  <2> QED
    BY <1>22, <2>1, <2>4 DEF ForkChoiceSetHead, StartRun, NewTop, Max
<1>23. CASE ForkChoiceNextBatch
  <2>1. changesets' \subseteq Blocks
    BY <1>23, PrunedSubset, Zenon DEF ForkChoiceNextBatch
  <2> QED
    BY <1>23, <2>1 DEF ForkChoiceNextBatch, StartRun
<1>24. CASE ForkChoice
  <2>1. CanUnwindTo(savedChangesets, savedProgress["Execution"]) \in Blocks
    BY CanUnwindToType, Zenon DEF StageIds
  <2> QED
    BY <1>24, <2>1 DEF ForkChoice, SetUnwindPoint, StartUnwind, NoBadBlock,
       BadKinds, UnwindReasons, Max
<1>25. CASE ValidateUnwind
  BY <1>25 DEF ValidateUnwind, SetUnwindPoint, StartUnwind, UnwindReasons
<1>26. CASE BackgroundPrune
  <2>1. savedChangesets' \subseteq Blocks
    BY <1>26, PrunedSubset, Zenon DEF BackgroundPrune
  <2> QED
    BY <1>26, <2>1 DEF BackgroundPrune, loopVars
<1>27. CASE UNCHANGED vars
  BY <1>27 DEF vars, txVars, syncVars, loopVars
<1> QED
  BY <1>1, <1>2, <1>3, <1>4, <1>5, <1>6, <1>7, <1>8, <1>9, <1>10, <1>11,
     <1>12, <1>13, <1>14, <1>15, <1>16, <1>17, <1>18, <1>19, <1>20, <1>21,
     <1>22, <1>23, <1>24, <1>25, <1>26, <1>27 DEF Next, UnwindSteps,
     RunSteps, CallerSteps

(* Every step keeps the flags Boolean.                                     *)
LEMMA FlagsStep == FlagsOK /\ [Next]_vars => FlagsOK'
<1> SUFFICES ASSUME FlagsOK, [Next]_vars
             PROVE  FlagsOK'
  OBVIOUS
<1> USE DEF FlagsOK
<1>1. CASE UnwindStageSkip
  BY <1>1, Zenon DEF UnwindStageSkip, txVars
<1>2. CASE UnwindStageDone
  BY <1>2, Zenon DEF UnwindStageDone
<1>3. CASE UnwindStageFails
  BY <1>3, Zenon DEF UnwindStageFails, Rollback, EndCall
<1>4. CASE UnwindLoopEnds
  BY <1>4, Zenon DEF UnwindLoopEnds, txVars
<1>5. CASE RunMustUnwind
  BY <1>5, Zenon DEF RunMustUnwind, StartUnwind, txVars
<1>6. CASE RunEnds
  BY <1>6, Zenon DEF RunEnds, txVars, loopVars
<1>7. CASE StageFails
  BY <1>7, Zenon DEF StageFails, Rollback, EndCall
<1>8. CASE SnapshotsForward
  BY <1>8, Zenon DEF SnapshotsForward, Runs, txVars
<1>9. CASE BlockHashesForward
  BY <1>9, Zenon DEF BlockHashesForward, Runs, Advance
<1>10. CASE SendersForward
  BY <1>10, Zenon DEF SendersForward, Runs
<1>11. CASE ExecutionNothing
  BY <1>11, Zenon DEF ExecutionNothing, Runs, txVars
<1>12. CASE ExecutionBatch
  BY <1>12, Zenon DEF ExecutionBatch, Runs
<1>13. CASE ExecutionInvalidBlock
  BY <1>13, Zenon DEF ExecutionInvalidBlock, Runs
<1>14. CASE ExecutionWrongRoot
  BY <1>14, Zenon DEF ExecutionWrongRoot, Runs
<1>15. CASE TxLookupForward
  BY <1>15, Zenon DEF TxLookupForward, Runs, Advance
<1>16. CASE FinishForward
  BY <1>16, Zenon DEF FinishForward, Runs, Advance
<1>17. CASE ForkChoiceTooFarAway
  BY <1>17, Zenon DEF ForkChoiceTooFarAway, EndCall
<1>18. CASE ForkChoiceSetHead
  BY <1>18, Zenon DEF ForkChoiceSetHead, StartRun
<1>19. CASE ForkChoiceNextBatch
  BY <1>19, Zenon DEF ForkChoiceNextBatch, StartRun
<1>20. CASE ForkChoiceSuccess
  BY <1>20, Zenon DEF ForkChoiceSuccess, EndCall
<1>21. CASE CallerFails
  BY <1>21, Zenon DEF CallerFails, Rollback, EndCall
<1>22. CASE ValidateCommit
  BY <1>22, Zenon DEF ValidateCommit, EndCall
<1>23. CASE ForkChoice
  <2>1. UNCHANGED hasMore
    BY <1>23, SMT DEF ForkChoice
  <2>2. UNCHANGED badBlockUnwind
    BY <1>23, SMT DEF ForkChoice
  <2>3. headIsTarget' \in BOOLEAN
    BY <1>23, SMT DEF ForkChoice
  <2>4. inRun' = inRun \/ inRun' = FALSE
    BY <1>23, SMT DEF ForkChoice, StartUnwind
  <2> QED
    BY <2>1, <2>2, <2>3, <2>4, Zenon
<1>24. CASE ValidateUnwind
  BY <1>24, Zenon DEF ValidateUnwind, StartUnwind
<1>25. CASE BackgroundPrune
  BY <1>25, Zenon DEF BackgroundPrune, loopVars
<1>26. CASE Crash
  BY <1>26, Zenon DEF Crash, Rollback, EndCall
<1>27. CASE UNCHANGED vars
  BY <1>27, Zenon DEF vars, txVars, loopVars
<1> QED
  BY <1>1, <1>2, <1>3, <1>4, <1>5, <1>6, <1>7, <1>8, <1>9, <1>10, <1>11,
     <1>12, <1>13, <1>14, <1>15, <1>16, <1>17, <1>18, <1>19, <1>20, <1>21,
     <1>22, <1>23, <1>24, <1>25, <1>26, <1>27 DEF Next, UnwindSteps,
     RunSteps, CallerSteps

(* Whatever fails, is capped or crashes, the engine's state keeps its type.*)
THEOREM TypeCorrect == Spec => []TypeOK
<1>1. Init => DataOK
  BY NoBadBlockType, ConstantsAssumption DEF Init, DataOK, Blocks, BadType,
     UnwindReasons
<1>2. Init => FlagsOK
  BY Zenon DEF Init, FlagsOK
<1>3. TypeOK /\ [Next]_vars => TypeOK'
  BY DataStep, FlagsStep DEF TypeOK
<1> QED
  BY <1>1, <1>2, <1>3, PTL DEF Spec, TypeOK

-----------------------------------------------------------------------------
(* runStage runs a stage when currentStage is its index, and NextStage     *)
(* moves to the next one.                                                  *)
LEMMA RunsAt ==
  ASSUME TypeOK, NEW id, Runs(id)
  PROVE  /\ pc = "loop" /\ pc' = "loop" /\ unwindPoint = None
         /\ currentStage' = currentStage + 1
         /\ UNCHANGED <<savedProgress, savedChangesets, bad>>
         /\ id = "Snapshots" => currentStage = 0
         /\ id = "BlockHashes" => currentStage = 1
         /\ id = "Senders" => currentStage = 2
         /\ id = "Execution" => currentStage = 3
         /\ id = "TxLookup" => currentStage = 4
         /\ id = "Finish" => currentStage = 5
<1>1. currentStage \in 0..5 /\ stages[currentStage + 1] = id
  BY StageIndexes DEF Runs, TypeOK, DataOK
<1>2. \/ currentStage = 0 \/ currentStage = 1 \/ currentStage = 2
      \/ currentStage = 3 \/ currentStage = 4 \/ currentStage = 5
  BY <1>1
<1>3. /\ stages[1] = "Snapshots" /\ stages[2] = "BlockHashes"
      /\ stages[3] = "Senders" /\ stages[4] = "Execution"
      /\ stages[5] = "TxLookup" /\ stages[6] = "Finish"
  BY DEF stages
<1>4. /\ id = "Snapshots" => currentStage = 0
      /\ id = "BlockHashes" => currentStage = 1
      /\ id = "Senders" => currentStage = 2
      /\ id = "Execution" => currentStage = 3
      /\ id = "TxLookup" => currentStage = 4
      /\ id = "Finish" => currentStage = 5
  BY <1>1, <1>2, <1>3
<1> QED
  BY <1>4 DEF Runs, savedVars, callVars

(* OrderedInv is inductive relative to TypeOK.                             *)
LEMMA OrderedStep == TypeOK /\ TypeOK' /\ OrderedInv /\ [Next]_vars => OrderedInv'
<1> SUFFICES ASSUME TypeOK, TypeOK', OrderedInv, [Next]_vars
             PROVE  OrderedInv'
  OBVIOUS
<1> USE ConstantsAssumption DEF TypeOK, DataOK, Blocks, StageIds, savedVars,
        callVars, OrderedInv, CommittedOrdered, AboveFiles, UnwindLoopInv,
        RunLoopInv
<1>1. CASE UnwindStageSkip
  BY <1>1, StageIndexes, UnwindOrderElements DEF UnwindStageSkip, txVars, syncVars, Max
<1>2. CASE UnwindStageFails
  BY <1>2 DEF UnwindStageFails, Rollback, EndCall
<1>3. CASE UnwindLoopEnds
  BY <1>3, StageIndexes DEF UnwindLoopEnds, txVars
<1>4. CASE RunMustUnwind
  BY <1>4 DEF RunMustUnwind, StartUnwind, txVars, syncVars
<1>5. CASE RunEnds
  BY <1>5, StageIndexes DEF RunEnds, txVars, loopVars
<1>6. CASE StageFails
  BY <1>6 DEF StageFails, Rollback, EndCall
<1>7. CASE SnapshotsForward
  <2>1. Runs("Snapshots")
    BY <1>7 DEF SnapshotsForward
  <2> QED
    BY <1>7, <2>1, RunsAt, StageIndexes DEF SnapshotsForward, txVars
<1>8. CASE BlockHashesForward
  <2>1. Runs("BlockHashes")
    BY <1>8 DEF BlockHashesForward
  <2> QED
    BY <1>8, <2>1, RunsAt, StageIndexes DEF BlockHashesForward, Advance
<1>9. CASE ExecutionNothing
  <2>1. Runs("Execution")
    BY <1>9 DEF ExecutionNothing
  <2> QED
    BY <1>9, <2>1, RunsAt, StageIndexes DEF ExecutionNothing, txVars
<1>10. CASE TxLookupForward
  <2>1. Runs("TxLookup")
    BY <1>10 DEF TxLookupForward
  <2> QED
    BY <1>10, <2>1, RunsAt, StageIndexes DEF TxLookupForward, Advance, Max
<1>11. CASE FinishForward
  <2>1. Runs("Finish")
    BY <1>11 DEF FinishForward
  <2> QED
    BY <1>11, <2>1, RunsAt, StageIndexes DEF FinishForward, Advance, Max
<1>12. CASE ForkChoiceTooFarAway
  BY <1>12 DEF ForkChoiceTooFarAway, Commit, EndCall, syncVars
<1>13. CASE ForkChoiceSuccess
  BY <1>13 DEF ForkChoiceSuccess, Commit, EndCall, syncVars
<1>14. CASE CallerFails
  BY <1>14 DEF CallerFails, Rollback, EndCall
<1>15. CASE ValidateCommit
  BY <1>15 DEF ValidateCommit, Commit, EndCall, syncVars
<1>16. CASE Crash
  BY <1>16 DEF Crash, Rollback, EndCall
<1>17. CASE UnwindStageDone
  <2>0. /\ pc = "unwind" /\ pc' = "unwind" /\ idx' = idx + 1
        /\ UNCHANGED <<unwindPoint, savedProgress, savedChangesets, changesets>>
    BY <1>17 DEF UnwindStageDone
  <2>1. idx \in 1..5 /\ unwindPoint \in Blocks
    BY <1>17, StageIndexes DEF UnwindStageDone
  <2>2. progress[unwindOrder[idx]] > unwindPoint
    BY <1>17 DEF UnwindStageDone
  <2>3. CASE idx = 1
    <3>1. unwindOrder[idx] = "Finish"
      BY <2>3, UnwindOrderElements
    <3>2. progress' = [progress EXCEPT !["Finish"] = unwindPoint]
      BY <1>17, <2>1, <3>1 DEF UnwindStageDone, Unwound, UnwindFloor, Max
    <3> QED
      BY <2>0, <2>1, <2>2, <2>3, <3>1, <3>2 DEF Max
  <2>4. CASE idx = 2
    <3>1. unwindOrder[idx] = "TxLookup"
      BY <2>4, UnwindOrderElements
    <3>2. progress' = IF progress["TxLookup"] <= Max(unwindPoint, FrozenBlocks)
                     THEN progress
                     ELSE [progress EXCEPT !["TxLookup"] =
                             Max(unwindPoint, FrozenBlocks)]
      BY <1>17, <2>1, <3>1 DEF UnwindStageDone, Unwound, UnwindFloor, Max
    <3> QED
      BY <2>0, <2>1, <2>2, <2>4, <3>1, <3>2 DEF Max
  <2>5. CASE idx = 3
    <3>1. unwindOrder[idx] = "Execution"
      BY <2>5, UnwindOrderElements
    <3>2. progress' = [progress EXCEPT !["Execution"] = unwindPoint]
      BY <1>17, <2>1, <3>1 DEF UnwindStageDone, Unwound, UnwindFloor, Max
    <3>3. unwindPoint >= CanUnwindTo(changesets, progress["Execution"])
      BY <1>17, <3>1 DEF UnwindStageDone, CanUnwindState
    <3>4. unwindPoint >= FrozenBlocks
      <4>1. progress["Execution"] > unwindPoint
        BY <2>2, <3>1
      <4>2. progress["Execution"] \in Blocks /\ changesets \subseteq Blocks
        OBVIOUS
      <4> HIDE DEF Blocks
      <4> QED
        BY <2>1, <3>3, <4>1, <4>2, UnwindAboveFiles
    <3> QED
      BY <2>0, <2>1, <2>2, <2>5, <3>1, <3>2, <3>4 DEF Max
  <2>6. CASE idx = 4
    <3>1. unwindOrder[idx] = "Senders"
      BY <2>6, UnwindOrderElements
    <3>2. progress' = [progress EXCEPT !["Senders"] = Max(unwindPoint, FrozenBlocks)]
      BY <1>17, <2>1, <3>1 DEF UnwindStageDone, Unwound, UnwindFloor, Max
    <3> QED
      BY <2>0, <2>1, <2>2, <2>6, <3>1, <3>2 DEF Max
  <2>7. CASE idx = 5
    <3>1. unwindOrder[idx] = "BlockHashes"
      BY <2>7, UnwindOrderElements
    <3>2. progress' = [progress EXCEPT !["BlockHashes"] = unwindPoint]
      BY <1>17, <2>1, <3>1 DEF UnwindStageDone, Unwound, UnwindFloor, Max
    <3> QED
      BY <2>0, <2>1, <2>2, <2>7, <3>1, <3>2 DEF Max
  <2>8. idx = 1 \/ idx = 2 \/ idx = 3 \/ idx = 4 \/ idx = 5
    BY <2>1
  <2> HIDE DEF TypeOK, DataOK, OrderedInv
  <2> QED
    BY <2>3, <2>4, <2>5, <2>6, <2>7, <2>8
<1>18. CASE SendersForward
  <2>1. Runs("Senders")
    BY <1>18 DEF SendersForward
  <2>2. UNCHANGED changesets
    BY <1>18 DEF SendersForward
  <2>3. \/ UNCHANGED progress
        \/ progress' = [progress EXCEPT !["Senders"] = progress["Bodies"]]
    BY <1>18 DEF SendersForward
  <2>4. progress'["Execution"] <= progress'["Senders"]
    <3>1. CASE progress["Execution"] <= progress["Senders"]
      BY <1>18, <3>1 DEF SendersForward, Max
    <3>2. CASE progress["Execution"] > progress["Senders"]
      <4>1. progress["Execution"] <= progress["Bodies"] /\ bad = NoBadBlock
        BY <2>1, <3>2, RunsAt
      <4>2. progress' = [progress EXCEPT !["Senders"] = progress["Bodies"]]
        BY <1>18, <3>2, <4>1 DEF SendersForward, Max, NoBadBlock
      <4> QED
        BY <4>1, <4>2
    <3> QED
      BY <3>1, <3>2
  <2>5. /\ pc = "loop" /\ pc' = "loop"
        /\ UNCHANGED <<savedProgress, savedChangesets, bad>>
    BY <2>1, RunsAt
  <2> QED
    BY <2>1, <2>2, <2>3, <2>4, <2>5
<1>19. CASE ExecutionBatch
  <2>1. PICK last \in Blocks :
          /\ Runs("Execution")
          /\ progress["Execution"] < last
          /\ last <= BatchLimit(progress["Execution"], progress["Senders"])
          /\ progress' = [progress EXCEPT !["Execution"] = last]
          /\ changesets' = Executed(progress["Execution"], last, progress["Senders"])
    BY <1>19, Zenon DEF ExecutionBatch
  <2>2. last <= progress["Senders"]
    BY <2>1 DEF BatchLimit, Min
  <2>3. \A n \in changesets' : n >= FrozenBlocks
    BY <2>1, ExecutedType
  <2>4. /\ pc = "loop" /\ pc' = "loop"
        /\ UNCHANGED <<savedProgress, savedChangesets, bad>>
    BY <2>1, RunsAt
  <2> QED
    BY <2>1, <2>2, <2>3, <2>4
<1>20. CASE ExecutionInvalidBlock
  <2>1. /\ Runs("Execution")
        /\ progress["Execution"] < bad.at
        /\ changesets' = Executed(progress["Execution"], bad.at - 1, progress["Senders"])
        /\ UNCHANGED progress
    BY <1>20 DEF ExecutionInvalidBlock
  <2>2. \A n \in changesets' : n >= FrozenBlocks
    BY <2>1, ExecutedType
  <2>3. progress["Execution"] <= progress["Senders"]
    BY <2>1, RunsAt, StageIndexes
  <2>4. /\ pc = "loop" /\ pc' = "loop"
        /\ UNCHANGED <<savedProgress, savedChangesets, bad>>
    BY <2>1, RunsAt
  <2> QED
    BY <2>1, <2>2, <2>3, <2>4
<1>21. CASE ExecutionWrongRoot
  <2>1. PICK last \in Blocks :
          /\ Runs("Execution")
          /\ progress["Execution"] < last
          /\ last <= BatchLimit(progress["Execution"], progress["Senders"])
          /\ progress' = [progress EXCEPT !["Execution"] = last]
          /\ changesets' = Executed(progress["Execution"], last, progress["Senders"])
    BY <1>21, Zenon DEF ExecutionWrongRoot
  <2>2. last <= progress["Senders"]
    BY <2>1 DEF BatchLimit, Min
  <2>3. \A n \in changesets' : n >= FrozenBlocks
    BY <2>1, ExecutedType
  <2>4. /\ pc = "loop" /\ pc' = "loop"
        /\ UNCHANGED <<savedProgress, savedChangesets, bad>>
    BY <2>1, RunsAt
  <2> QED
    BY <2>1, <2>2, <2>3, <2>4
<1>22. CASE ForkChoiceSetHead
  BY <1>22, StageIndexes DEF ForkChoiceSetHead, StartRun, FirstBlock
<1>23. CASE ForkChoiceNextBatch
  BY <1>23, StageIndexes, PrunedSubset DEF ForkChoiceNextBatch, StartRun
<1>24. CASE ForkChoice
  <2>1. CanUnwindTo(savedChangesets, savedProgress["Execution"]) \in Blocks
    BY CanUnwindToType, Zenon
  <2>2. UNCHANGED savedVars /\ progress' = savedProgress
        /\ changesets' = savedChangesets /\ pc' \in {"unwound", "unwind"}
    BY <1>24 DEF ForkChoice, StartUnwind
  <2>3. \/ pc' = "unwound" /\ target' = 0
        \/ /\ idx' = 1 /\ pc' = "unwind" /\ unwindPoint' # None
           /\ unwindPoint' >= CanUnwindTo(savedChangesets, savedProgress["Execution"])
    BY <1>24, <2>1 DEF ForkChoice, SetUnwindPoint, StartUnwind, Max
  <2> QED
    BY <2>2, <2>3
<1>25. CASE ValidateUnwind
  BY <1>25 DEF ValidateUnwind, SetUnwindPoint, StartUnwind
<1>26. CASE BackgroundPrune
  BY <1>26, PrunedSubset DEF BackgroundPrune, loopVars
<1>27. CASE UNCHANGED vars
  BY <1>27 DEF vars, txVars, syncVars, loopVars
<1> HIDE DEF TypeOK, DataOK, OrderedInv
<1> QED
  BY <1>1, <1>2, <1>3, <1>4, <1>5, <1>6, <1>7, <1>8, <1>9, <1>10, <1>11,
     <1>12, <1>13, <1>14, <1>15, <1>16, <1>17, <1>18, <1>19, <1>20, <1>21,
     <1>22, <1>23, <1>24, <1>25, <1>26, <1>27 DEF Next, UnwindSteps,
     RunSteps, CallerSteps

(* OrderedInv holds throughout.                                            *)
LEMMA OrderedAlways == Spec => []OrderedInv
<1>1. Init => OrderedInv
  BY ConstantsAssumption DEF Init, OrderedInv, CommittedOrdered, AboveFiles,
     UnwindLoopInv, RunLoopInv, StageIds
<1> QED
  BY <1>1, OrderedStep, TypeCorrect, PTL DEF Spec

(* However calls, failures and crashes follow each other, what is committed*)
(* never has a stage ahead of the stage it reads from.                     *)
THEOREM CommittedAlwaysOrdered == Spec => []CommittedOrdered
<1>1. OrderedInv => CommittedOrdered
  BY DEF OrderedInv
<1> QED
  BY <1>1, OrderedAlways, PTL

(* Run never starts in the middle of the pipeline or with an unwind of an  *)
(* earlier call pending, for a head above genesis.                         *)
THEOREM RunAlwaysStartsClean == Spec => RunStartsClean
<1> DEFINE Clean == pc # "loop" /\ pc' = "loop" /\ target > 0 =>
                      currentStage' = 0 /\ unwindPoint' = None
<1>1. OrderedInv /\ [Next]_vars => [Clean]_vars
  <2> SUFFICES ASSUME RunLoopInv, Next, pc # "loop", pc' = "loop", target > 0
               PROVE  currentStage' = 0 /\ unwindPoint' = None
    BY DEF OrderedInv
  <2>1. CASE UnwindSteps
    BY <2>1 DEF UnwindSteps, UnwindStageSkip, UnwindStageDone,
       UnwindStageFails, UnwindLoopEnds, Rollback, EndCall
  <2>2. CASE RunSteps
    BY <2>2, Zenon DEF RunSteps, RunMustUnwind, RunEnds,
       SnapshotsForward, BlockHashesForward, SendersForward,
       ExecutionNothing, ExecutionBatch, ExecutionInvalidBlock,
       ExecutionWrongRoot, TxLookupForward, FinishForward, Runs
  <2>3. CASE ForkChoiceSetHead
    BY <2>3 DEF ForkChoiceSetHead, StartRun, RunLoopInv
  <2>4. CASE ForkChoiceNextBatch
    BY <2>4 DEF ForkChoiceNextBatch, StartRun, RunLoopInv
  <2>5. ~(ForkChoiceTooFarAway \/ ForkChoiceSuccess \/ CallerFails
          \/ ValidateCommit \/ StageFails)
    BY DEF StageFails, ForkChoiceTooFarAway, ForkChoiceSuccess, CallerFails,
       ValidateCommit, Rollback, EndCall
  <2>6. ~(ForkChoice \/ ValidateUnwind \/ BackgroundPrune \/ Crash)
    BY DEF ForkChoice, ValidateUnwind, BackgroundPrune, Crash, StartUnwind,
       Rollback, EndCall
  <2> QED
    BY <2>1, <2>2, <2>3, <2>4, <2>5, <2>6 DEF Next, CallerSteps
<1> QED
  BY <1>1, OrderedAlways, PTL DEF Spec, RunStartsClean

-----------------------------------------------------------------------------
(* How far the unwind loop has come, and that only a bad block unwinds     *)
(* within Run.                                                             *)
UnwindInv ==
  /\ pc = "unwind" =>
       \A i \in 1..5 : i < idx => progress[unwindOrder[i]] <= Max(unwindPoint, FrozenBlocks)
  /\ pc = "loop" => ~badBlockUnwind
  /\ UnwindReachesPoint

(* How far Run has come for a head above genesis.  An unwind of a bad      *)
(* block may take BlockHashes down, never Headers and Bodies.              *)
RunInv ==
  target > 0 =>
    /\ pc \in {"loop", "returned"} \/ (pc = "unwind" /\ inRun) =>
         progress["Headers"] = target /\ progress["Bodies"] = target
    /\ (pc = "unwind" /\ inRun) \/ (pc = "loop" /\ unwindPoint # None) =>
         unwindReason = "badBlock"
    /\ pc = "loop" /\ unwindPoint = None =>
         /\ currentStage >= 2 => progress["BlockHashes"] = target
         /\ currentStage >= 3 => progress["Senders"] >= target
         /\ currentStage >= 4 /\ ~hasMore => progress["Execution"] = progress["Senders"]
         /\ currentStage >= 5 /\ ~hasMore => progress["TxLookup"] = progress["Execution"]
         /\ currentStage >= 6 /\ ~hasMore => progress["Finish"] = progress["Execution"]
    /\ RunReachesHead

(* unwindStage brings its stage to the unwind point, or to the files, and  *)
(* leaves the others as they are.                                          *)
LEMMA UnwindStageReaches ==
  ASSUME TypeOK, UnwindLoopInv, UnwindStageDone
  PROVE  /\ pc = "unwind" /\ pc' = "unwind" /\ idx \in 1..5 /\ idx' = idx + 1
         /\ UNCHANGED <<unwindPoint, inRun, hasMore, badBlockUnwind, target, unwindReason>>
         /\ unwindPoint \in Blocks
         /\ progress'[unwindOrder[idx]] <= Max(unwindPoint, FrozenBlocks)
         /\ \A s \in StageIds : s # unwindOrder[idx] => progress'[s] = progress[s]
<1> DEFINE id == unwindOrder[idx]
<1>1. idx \in 1..5 /\ unwindPoint \in Blocks
  BY StageIndexes DEF UnwindStageDone, UnwindLoopInv, TypeOK, DataOK
<1>2. id \in StageIds
  BY <1>1, UnwindOrderElements
<1>3. Unwound(id) <= Max(unwindPoint, FrozenBlocks)
  BY <1>1, ConstantsAssumption DEF Unwound, UnwindFloor, Max, Blocks
<1>4. Unwound(id) = Max(unwindPoint, FrozenBlocks) \/ id # "TxLookup"
  BY DEF Unwound, UnwindFloor
<1>5. progress' = IF id = "TxLookup" /\ progress[id] <= Unwound(id) THEN progress
                 ELSE [progress EXCEPT ![id] = Unwound(id)]
  BY DEF UnwindStageDone
<1>6. progress \in [StageIds -> Blocks]
  BY DEF TypeOK, DataOK
<1> HIDE DEF id
<1>7. /\ progress'[id] <= Max(unwindPoint, FrozenBlocks)
      /\ \A s \in StageIds : s # id => progress'[s] = progress[s]
  BY <1>2, <1>3, <1>4, <1>5, <1>6
<1> QED
  BY <1>1, <1>7 DEF id, UnwindStageDone, callVars

(* UnwindInv is inductive relative to OrderedInv.                          *)
LEMMA UnwindStep ==
  TypeOK /\ TypeOK' /\ OrderedInv /\ UnwindInv /\ [Next]_vars => UnwindInv'
<1> SUFFICES ASSUME TypeOK, TypeOK', OrderedInv, UnwindInv, [Next]_vars
             PROVE  UnwindInv'
  OBVIOUS
<1>0. /\ UnwindLoopInv /\ idx \in 1..6 /\ progress \in [StageIds -> Blocks]
      /\ Len(unwindOrder) = 5 /\ unwindPoint \in Blocks \cup {None}
  BY StageIndexes DEF OrderedInv, TypeOK, DataOK
<1>1. CASE UnwindStageSkip
  <2>1. /\ pc = "unwind" /\ pc' = "unwind" /\ idx \in 1..5 /\ idx' = idx + 1
        /\ progress[unwindOrder[idx]] <= unwindPoint
        /\ UNCHANGED <<progress, unwindPoint>>
    BY <1>0, <1>1 DEF UnwindStageSkip, txVars, syncVars
  <2>2. unwindPoint \in Blocks /\ progress[unwindOrder[idx]] \in Blocks
    BY <1>0, <2>1, UnwindOrderElements DEF UnwindLoopInv
  <2>3. progress[unwindOrder[idx]] <= Max(unwindPoint, FrozenBlocks)
    BY <2>1, <2>2, ConstantsAssumption DEF Blocks, Max
  <2>4. \A i \in 1..5 : i < idx' => i < idx \/ i = idx
    BY <2>1
  <2> QED
    BY <2>1, <2>3, <2>4 DEF UnwindInv, UnwindReachesPoint, UnwindEnded
<1>2. CASE UnwindStageDone
  <2>1. /\ pc = "unwind" /\ pc' = "unwind" /\ idx \in 1..5 /\ idx' = idx + 1
        /\ UNCHANGED unwindPoint
        /\ progress'[unwindOrder[idx]] <= Max(unwindPoint, FrozenBlocks)
        /\ \A s \in StageIds : s # unwindOrder[idx] => progress'[s] = progress[s]
    BY <1>0, <1>2, UnwindStageReaches
  <2>2. \A i \in 1..5 : i < idx' => i < idx \/ i = idx
    BY <2>1
  <2>3. \A i \in 1..5 : unwindOrder[i] \in StageIds
    BY UnwindOrderElements
  <2>4. ASSUME NEW i \in 1..5, i < idx'
        PROVE  progress'[unwindOrder[i]] <= Max(unwindPoint, FrozenBlocks)
    BY <2>1, <2>2, <2>3, <2>4 DEF UnwindInv
  <2> QED
    BY <2>1, <2>4 DEF UnwindInv, UnwindReachesPoint, UnwindEnded
<1>3. CASE UnwindLoopEnds
  <2>1. /\ pc = "unwind" /\ idx > 5 /\ prevUnwindPoint' = unwindPoint
        /\ UNCHANGED progress /\ pc' # "unwind"
        /\ pc' = "loop" => ~badBlockUnwind'
    BY <1>0, <1>3, Zenon DEF UnwindLoopEnds, txVars
  <2>2. \A i \in 1..5 : i < idx
    BY <1>0, <2>1
  <2> QED
    BY <1>0, <2>1, <2>2 DEF UnwindInv, UnwindReachesPoint
<1>4. CASE RunMustUnwind \/ ForkChoice \/ ValidateUnwind
  <2>1. \/ pc' = "unwind" /\ idx' = 1
        \/ pc' = "unwound" /\ caller' = "forkchoice" /\ target' = 0
    BY <1>4 DEF RunMustUnwind, StartUnwind, ForkChoice, ValidateUnwind
  <2>2. \A i \in 1..5 : ~(i < 1)
    OBVIOUS
  <2> QED
    BY <2>1, <2>2 DEF UnwindInv, UnwindReachesPoint, UnwindEnded
<1>5. CASE RunEnds
  <2>1. pc = "loop" /\ pc' = "returned" /\ UNCHANGED badBlockUnwind
    BY <1>5 DEF RunEnds, loopVars
  <2> QED
    BY <2>1 DEF UnwindInv, UnwindReachesPoint, UnwindEnded
<1>6. ASSUME NEW id, Runs(id) PROVE UnwindInv'
  BY <1>6 DEF Runs, UnwindInv, UnwindReachesPoint, UnwindEnded
<1>7. CASE SnapshotsForward \/ BlockHashesForward \/ SendersForward \/ ExecutionNothing
  BY <1>6, <1>7 DEF SnapshotsForward, BlockHashesForward, SendersForward, ExecutionNothing
<1>8. CASE ExecutionBatch \/ ExecutionInvalidBlock \/ ExecutionWrongRoot
  BY <1>6, <1>8 DEF ExecutionBatch, ExecutionInvalidBlock, ExecutionWrongRoot
<1>9. CASE TxLookupForward \/ FinishForward
  BY <1>6, <1>9 DEF TxLookupForward, FinishForward
<1>10. CASE ForkChoiceSetHead \/ ForkChoiceNextBatch
  BY <1>10 DEF ForkChoiceSetHead, ForkChoiceNextBatch, StartRun, UnwindInv,
     UnwindReachesPoint, UnwindEnded
<1>11. CASE \/ ForkChoiceTooFarAway \/ ForkChoiceSuccess \/ CallerFails \/ ValidateCommit
            \/ StageFails \/ UnwindStageFails \/ Crash
  <2>1. pc' = "idle"
    BY <1>11 DEF ForkChoiceTooFarAway, ForkChoiceSuccess, CallerFails, ValidateCommit,
       StageFails, UnwindStageFails, Crash, Rollback, EndCall
  <2> QED
    BY <2>1 DEF UnwindInv, UnwindReachesPoint, UnwindEnded
<1>12. CASE BackgroundPrune
  <2>1. pc = "idle" /\ pc' = "idle"
    BY <1>12 DEF BackgroundPrune
  <2> QED
    BY <2>1 DEF UnwindInv, UnwindReachesPoint, UnwindEnded
<1>13. CASE UNCHANGED vars
  BY <1>13 DEF vars, savedVars, txVars, syncVars, loopVars, callVars, UnwindInv,
     UnwindReachesPoint, UnwindEnded
<1> QED
  BY <1>1, <1>2, <1>3, <1>4, <1>5, <1>7, <1>8, <1>9, <1>10, <1>11, <1>12, <1>13
     DEF Next, UnwindSteps, RunSteps, CallerSteps

(* RunInv is inductive relative to OrderedInv and UnwindInv.               *)
LEMMA RunStep ==
  TypeOK /\ TypeOK' /\ OrderedInv /\ UnwindInv /\ RunInv /\ [Next]_vars => RunInv'
<1> SUFFICES ASSUME TypeOK, TypeOK', OrderedInv, UnwindInv, RunInv, [Next]_vars, target' > 0
             PROVE  RunInv'
  BY DEF RunInv
<1>0. /\ progress \in [StageIds -> Blocks] /\ progress' \in [StageIds -> Blocks]
      /\ Blocks \subseteq Nat /\ FrozenBlocks \in Blocks /\ None \notin Blocks
      /\ target \in Blocks /\ target' \in Blocks
      /\ currentStage \in 0..6 /\ idx \in 1..6 /\ Len(stages) = 6 /\ Len(unwindOrder) = 5
      /\ progress["Finish"] <= progress["Execution"]
      /\ progress["TxLookup"] <= progress["Execution"]
      /\ progress["Execution"] >= FrozenBlocks
      /\ UnwindLoopInv /\ RunLoopInv
  BY StageIndexes, ConstantsAssumption DEF OrderedInv, AboveFiles, TypeOK, DataOK, Blocks
<1>n. \A s \in StageIds : progress[s] \in Nat
  BY <1>0, Zenon
<1>m. /\ progress["Senders"] \in Nat /\ progress["Execution"] \in Nat
      /\ progress["TxLookup"] \in Nat /\ progress["Finish"] \in Nat
      /\ progress["Bodies"] \in Nat /\ target \in Nat /\ FrozenBlocks \in Nat
  BY <1>0, <1>n DEF StageIds
<1>1. CASE UnwindStageSkip
  BY <1>1 DEF UnwindStageSkip, txVars, syncVars, callVars, RunInv, RunReachesHead
<1>2. CASE UnwindStageDone
  <2>1. /\ pc = "unwind" /\ pc' = "unwind" /\ idx \in 1..5
        /\ UNCHANGED <<unwindPoint, inRun, target, unwindReason>>
        /\ \A s \in StageIds : s # unwindOrder[idx] => progress'[s] = progress[s]
    BY <1>0, <1>2, UnwindStageReaches
  <2>2. unwindOrder[idx] \notin {"Headers", "Bodies"}
    <3>1. idx = 1 \/ idx = 2 \/ idx = 3 \/ idx = 4 \/ idx = 5
      BY <2>1
    <3> QED
      BY <3>1 DEF unwindOrder
  <2>3. progress'["Headers"] = progress["Headers"] /\ progress'["Bodies"] = progress["Bodies"]
    BY <2>1, <2>2 DEF StageIds
  <2> QED
    BY <2>1, <2>3 DEF RunInv, RunReachesHead
<1>3. CASE UnwindLoopEnds
  <2>1. /\ pc = "unwind" /\ pc' = IF ~inRun THEN "unwound"
                             ELSE IF unwindReason = "badBlock" THEN "returned" ELSE "loop"
        /\ badBlockUnwind' = (inRun /\ unwindReason = "badBlock")
        /\ UNCHANGED <<progress, target>>
    BY <1>3 DEF UnwindLoopEnds, txVars, callVars
  <2>2. CASE ~inRun
    BY <2>1, <2>2 DEF RunInv, RunReachesHead
  <2>3. CASE inRun
    <3>1. unwindReason = "badBlock" /\ pc' = "returned" /\ badBlockUnwind'
      BY <2>1, <2>3, Zenon DEF RunInv
    <3> QED
      BY <2>1, <2>3, <3>1 DEF RunInv, RunReachesHead
  <2> QED
    BY <2>2, <2>3
<1>4. CASE RunMustUnwind
  BY <1>4 DEF RunMustUnwind, StartUnwind, txVars, syncVars, callVars, RunInv, RunReachesHead
<1>5. CASE RunEnds
  <2>1. /\ pc = "loop" /\ pc' = "returned" /\ unwindPoint = None /\ currentStage >= 6
        /\ UNCHANGED <<progress, target, hasMore, badBlockUnwind>>
    BY <1>0, <1>5 DEF RunEnds, txVars, loopVars, callVars
  <2> QED
    BY <1>0, <2>1 DEF RunInv, RunReachesHead
<1>6. ASSUME NEW id, Runs(id)
      PROVE  /\ pc = "loop" /\ pc' = "loop" /\ unwindPoint = None
             /\ currentStage' = currentStage + 1 /\ UNCHANGED target
             /\ progress["Headers"] = target /\ progress["Bodies"] = target
             /\ currentStage >= 2 => progress["BlockHashes"] = target
             /\ currentStage >= 3 => progress["Senders"] >= target
             /\ currentStage >= 4 /\ ~hasMore => progress["Execution"] = progress["Senders"]
             /\ currentStage >= 5 /\ ~hasMore => progress["TxLookup"] = progress["Execution"]
             /\ currentStage >= 3 => progress["Execution"] <= progress["Senders"]
  BY <1>0, <1>6, StageIndexes DEF Runs, callVars, RunInv, RunLoopInv
<1>7. ASSUME pc' = "loop", unwindPoint' # None => unwindReason' = "badBlock",
             progress'["Headers"] = target', progress'["Bodies"] = target',
             unwindPoint' = None =>
               /\ currentStage' >= 2 => progress'["BlockHashes"] = target'
               /\ currentStage' >= 3 => progress'["Senders"] >= target'
               /\ currentStage' >= 4 /\ ~hasMore' => progress'["Execution"] = progress'["Senders"]
               /\ currentStage' >= 5 /\ ~hasMore' => progress'["TxLookup"] = progress'["Execution"]
               /\ currentStage' >= 6 /\ ~hasMore' => progress'["Finish"] = progress'["Execution"]
      PROVE  RunInv'
  BY <1>7 DEF RunInv, RunReachesHead
<1>8. CASE SnapshotsForward
  <2>1. Runs("Snapshots") /\ UNCHANGED <<progress, unwindPoint, hasMore>> /\ currentStage = 0
    BY <1>8, RunsAt DEF SnapshotsForward, txVars
  <2> QED
    BY <1>0, <1>6, <1>7, <2>1
<1>9. CASE BlockHashesForward
  <2>1. /\ Runs("BlockHashes") /\ UNCHANGED <<unwindPoint, hasMore>> /\ currentStage = 1
        /\ progress' = [progress EXCEPT !["BlockHashes"] = progress["Headers"]]
    BY <1>9, RunsAt DEF BlockHashesForward, Advance
  <2> QED
    BY <1>0, <1>6, <1>7, <2>1 DEF StageIds
<1>10. CASE SendersForward
  <2>1. Runs("Senders") /\ currentStage = 2 /\ UNCHANGED hasMore
    BY <1>10, RunsAt DEF SendersForward
  <2>2. CASE unwindPoint' # None
    <3>1. unwindReason' = "badBlock" /\ UNCHANGED progress
      BY <1>6, <1>10, <2>1, <2>2 DEF SendersForward, SetUnwindPoint
    <3> QED
      BY <1>6, <1>7, <2>1, <2>2, <3>1
  <2>3. CASE unwindPoint' = None
    <3>1. \/ UNCHANGED progress /\ progress["Bodies"] < Max(progress["Senders"], FrozenBlocks)
          \/ progress' = [progress EXCEPT !["Senders"] = progress["Bodies"]]
      <4>1. bad.at \in Nat
        BY ConstantsAssumption DEF TypeOK, DataOK, Blocks
      <4>2. Max(progress["Senders"], FrozenBlocks) \in Nat
        BY <1>m DEF Max
      <4>3. Max(progress["Senders"], FrozenBlocks) < bad.at => bad.at - 1 # None
        BY <4>1, <4>2, ConstantsAssumption
      <4> QED
        BY <1>10, <2>3, <4>3 DEF SendersForward, SetUnwindPoint
    <3>2. progress["Senders"] >= FrozenBlocks \/ progress["Bodies"] >= FrozenBlocks
      BY <1>0, <1>m, <1>6, <2>1 DEF RunLoopInv
    <3>3. progress'["Senders"] >= target
      <4>1. CASE progress' = [progress EXCEPT !["Senders"] = progress["Bodies"]]
        <5>1. progress'["Senders"] = progress["Bodies"]
          BY <1>0, <4>1 DEF StageIds
        <5> QED
          BY <1>m, <1>6, <2>1, <5>1
      <4>2. CASE UNCHANGED progress /\ progress["Bodies"] < Max(progress["Senders"], FrozenBlocks)
        BY <1>m, <1>6, <2>1, <3>2, <4>2 DEF Max
      <4> QED
        BY <3>1, <4>1, <4>2
    <3>4. \A s \in StageIds \ {"Senders"} : progress'[s] = progress[s]
      BY <1>0, <3>1
    <3> QED
      BY <1>0, <1>6, <1>7, <2>1, <2>3, <3>3, <3>4 DEF StageIds
  <2> QED
    BY <2>2, <2>3
<1>11. CASE ExecutionNothing
  <2>1. /\ Runs("Execution") /\ UNCHANGED <<progress, unwindPoint, hasMore>> /\ currentStage = 3
        /\ progress["Senders"] <= progress["Execution"]
    BY <1>11, RunsAt DEF ExecutionNothing, txVars
  <2>2. progress["Senders"] = progress["Execution"]
    BY <1>m, <1>6, <2>1
  <2> QED
    BY <1>0, <1>6, <1>7, <2>1, <2>2
<1>12. CASE ExecutionBatch
  <2>1. PICK last \in Blocks :
          /\ Runs("Execution") /\ UNCHANGED unwindPoint
          /\ last <= BatchLimit(progress["Execution"], progress["Senders"])
          /\ progress' = [progress EXCEPT !["Execution"] = last]
          /\ hasMore' = (hasMore \/ last < progress["Senders"])
    BY <1>12, Zenon DEF ExecutionBatch
  <2>2. currentStage = 3
    BY <2>1, RunsAt
  <2>3. last <= progress["Senders"]
    <3>1. last \in Nat
      BY <1>0
    <3> QED
      BY <1>m, <2>1, <3>1, ConstantsAssumption DEF BatchLimit, Min
  <2>4. ~hasMore' => last = progress["Senders"]
    <3>1. last \in Nat
      BY <1>0
    <3>2. ~hasMore' => ~(last < progress["Senders"])
      BY <2>1, Zenon
    <3> QED
      BY <1>m, <2>3, <3>1, <3>2
  <2> QED
    BY <1>0, <1>6, <1>7, <2>1, <2>2, <2>4 DEF StageIds
<1>13. CASE ExecutionInvalidBlock \/ ExecutionWrongRoot
  <2>1. /\ Runs("Execution") /\ unwindReason' = "badBlock"
        /\ \A s \in StageIds \ {"Execution"} : progress'[s] = progress[s]
    BY <1>0, <1>13 DEF ExecutionInvalidBlock, ExecutionWrongRoot, SetUnwindPoint
  <2>2. unwindPoint' # None
    <3>1. CASE ExecutionInvalidBlock
      <4>1. unwindPoint' = bad.at - 1 /\ progress["Execution"] < bad.at
        BY <3>1 DEF ExecutionInvalidBlock, SetUnwindPoint
      <4>2. bad.at \in Nat
        BY ConstantsAssumption DEF TypeOK, DataOK, Blocks
      <4> QED
        BY <1>m, <4>1, <4>2, ConstantsAssumption
    <3>2. CASE ExecutionWrongRoot
      <4>1. PICK last \in Blocks :
              /\ progress["Execution"] < last
              /\ changesets' = Executed(progress["Execution"], last, progress["Senders"])
              /\ unwindPoint' = RootUnwindTo(progress["Execution"], last, changesets')
        BY <3>2 DEF ExecutionWrongRoot, SetUnwindPoint
      <4>2. changesets' \subseteq Blocks /\ progress["Execution"] \in Blocks
        BY <1>0 DEF TypeOK, DataOK, StageIds
      <4>3. unwindPoint' \in 0..(last - 1)
        BY <4>1, <4>2, RootUnwindToType
      <4> QED
        BY <1>0, <4>3, ConstantsAssumption
    <3> QED
      BY <1>13, <3>1, <3>2
  <2> QED
    BY <1>0, <1>6, <1>7, <2>1, <2>2 DEF StageIds
<1>14. CASE TxLookupForward
  <2>1. /\ Runs("TxLookup") /\ UNCHANGED <<unwindPoint, hasMore>> /\ currentStage = 4
        /\ progress' = [progress EXCEPT !["TxLookup"] =
                          Max(progress["TxLookup"], progress["Execution"])]
    BY <1>14, RunsAt DEF TxLookupForward, Advance
  <2>2. Max(progress["TxLookup"], progress["Execution"]) = progress["Execution"]
    BY <1>0, <1>m DEF Max
  <2>3. /\ progress'["TxLookup"] = progress["Execution"]
        /\ \A s \in StageIds \ {"TxLookup"} : progress'[s] = progress[s]
    BY <1>0, <2>1, <2>2 DEF StageIds
  <2> QED
    BY <1>0, <1>6, <1>7, <2>1, <2>3 DEF StageIds
<1>15. CASE FinishForward
  <2>1. /\ Runs("Finish") /\ UNCHANGED <<unwindPoint, hasMore>> /\ currentStage = 5
        /\ progress' = [progress EXCEPT !["Finish"] =
                          Max(progress["Finish"], progress["Execution"])]
    BY <1>15, RunsAt DEF FinishForward, Advance
  <2>2. Max(progress["Finish"], progress["Execution"]) = progress["Execution"]
    BY <1>0, <1>m DEF Max
  <2>3. /\ progress'["Finish"] = progress["Execution"]
        /\ \A s \in StageIds \ {"Finish"} : progress'[s] = progress[s]
    BY <1>0, <2>1, <2>2 DEF StageIds
  <2> QED
    BY <1>0, <1>6, <1>7, <2>1, <2>3 DEF StageIds
<1>16. CASE ForkChoiceSetHead
  <2>1. /\ pc = "unwound" /\ caller = "forkchoice" /\ pc' = "loop"
        /\ UNCHANGED <<target, unwindPoint, currentStage>>
        /\ progress'["Headers"] = target /\ progress'["Bodies"] = target
    BY <1>0, <1>16 DEF ForkChoiceSetHead, StartRun, callVars, StageIds
  <2>2. unwindPoint = None /\ currentStage = 0
    BY <1>0, <2>1 DEF RunLoopInv
  <2> QED
    BY <1>7, <2>1, <2>2
<1>17. CASE ForkChoiceNextBatch
  <2>1. /\ pc = "returned" /\ pc' = "loop" /\ currentStage' = 0
        /\ UNCHANGED <<progress, target, unwindPoint>>
    BY <1>17 DEF ForkChoiceNextBatch, StartRun, callVars
  <2>2. unwindPoint = None /\ progress["Headers"] = target /\ progress["Bodies"] = target
    BY <1>0, <2>1 DEF RunLoopInv, RunInv
  <2> QED
    BY <1>7, <2>1, <2>2
<1>18. CASE ForkChoice \/ ValidateUnwind
  <2>1. pc' = "unwound" \/ (pc' = "unwind" /\ ~inRun')
    BY <1>18 DEF ForkChoice, ValidateUnwind, StartUnwind
  <2> QED
    BY <2>1 DEF RunInv, RunReachesHead
<1>19. CASE \/ ForkChoiceTooFarAway \/ ForkChoiceSuccess \/ CallerFails \/ ValidateCommit
            \/ StageFails \/ UnwindStageFails \/ Crash \/ BackgroundPrune
  <2>1. pc' = "idle"
    BY <1>19 DEF ForkChoiceTooFarAway, ForkChoiceSuccess, CallerFails, ValidateCommit,
       StageFails, UnwindStageFails, Crash, Rollback, EndCall, BackgroundPrune
  <2> QED
    BY <2>1 DEF RunInv, RunReachesHead
<1>20. CASE UNCHANGED vars
  BY <1>20 DEF vars, savedVars, txVars, syncVars, loopVars, callVars, RunInv, RunReachesHead
<1> QED
  BY <1>1, <1>2, <1>3, <1>4, <1>5, <1>8, <1>9, <1>10, <1>11, <1>12, <1>13, <1>14, <1>15,
     <1>16, <1>17, <1>18, <1>19, <1>20 DEF Next, UnwindSteps, RunSteps, CallerSteps

(* Both invariants hold throughout.                                        *)
LEMMA ReachAlways == Spec => [](UnwindInv /\ RunInv)
<1>1. Init => UnwindInv /\ RunInv
  BY DEF Init, UnwindInv, RunInv, UnwindReachesPoint, UnwindEnded, RunReachesHead
<1> QED
  BY <1>1, UnwindStep, RunStep, TypeCorrect, OrderedAlways, PTL DEF Spec

(* RunUnwind, and the unwind of a bad block within Run, leave no stage     *)
(* above the point they were given, or above the files: for every order of *)
(* skipped and unwound stages, and whatever an earlier call left in Sync.  *)
THEOREM UnwindAlwaysReachesPoint == Spec => []UnwindReachesPoint
<1>1. UnwindInv => UnwindReachesPoint
  BY DEF UnwindInv
<1> QED
  BY <1>1, ReachAlways, PTL

(* Run that ends with nothing more to do and without a bad block has       *)
(* brought every stage to one height, not below the requested head.        *)
THEOREM RunAlwaysReachesHead == Spec => []RunReachesHead
<1>1. RunInv => RunReachesHead
  BY DEF RunInv, RunReachesHead
<1> QED
  BY <1>1, ReachAlways, PTL
=============================================================================
