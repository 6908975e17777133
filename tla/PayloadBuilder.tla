--------------------------- MODULE PayloadBuilder ---------------------------
(***************************************************************************)
(* Block production for the consensus client: AssembleBlock and            *)
(* GetAssembledBlock (execution/eth1/block_building.go), the BlockBuilder  *)
(* with its two goroutines (execution/builder), and the mining stages that *)
(* assembleBlockPOS (eth/backend.go) runs for each payload.                *)
(*                                                                         *)
(* A builder goes on adding transactions until it is interrupted, by       *)
(* GetAssembledBlock or by its timer; both then wait on one condition      *)
(* variable.  Builders overlap: a new request does not stop the earlier    *)
(* ones, and all of them write the fee recipient to one MiningConfig.      *)
(***************************************************************************)
EXTENDS Integers, FiniteSets

CONSTANTS
  Params,       \* the build requests: parent, timestamp, withdrawals...
  Addresses,
  Recipient,    \* [Params -> Addresses]: the SuggestedFeeRecipient
  MaxBuilders,  \* MaxBuilders of engine_helpers
  MaxId,        \* bound: payloads built
  None

ASSUME ParamsAssumption ==
  /\ Recipient \in [Params -> Addresses]
  /\ None \notin Params /\ None \notin Addresses

ASSUME BuildersAssumption == MaxBuilders \in Nat \ {0} /\ MaxId \in Nat

Ids == 1 .. MaxId

VARIABLES
  builders,        \* the ids in the map of builders
  nextPayloadId,
  lastParameters,  \* of the last builder started, whose id is nextPayloadId
  etherbase,       \* MiningConfig.Etherbase, one for all builders
  param,           \* the request of each payload
  stage,           \* where the building goroutine of each payload is
  coinbase,        \* the Coinbase of the header being built
  payees,          \* the accounts its transactions paid their tips to
  interrupt,       \* BlockBuilder.interrupt
  result,          \* BlockBuilder.result or err
  timer,           \* the goroutine that limits the build time
  getter,          \* the handler of GetAssembledBlock, which holds the
                   \* semaphore unless it is idle
  getId            \* the payload it was asked for

buildVars == <<param, stage, coinbase, payees>>
mapVars == <<builders, nextPayloadId, lastParameters>>
vars == <<builders, nextPayloadId, lastParameters, etherbase, param, stage,
          coinbase, payees, interrupt, result, timer, getter, getId>>

Stages == {"none", "start", "create", "add", "execute", "built", "failed",
           "ended"}
Waits == {"stop", "waiting"}

(* The states of the module, its builders and their goroutines.            *)
TypeOK ==
  /\ builders \subseteq Ids
  /\ nextPayloadId \in 0 .. MaxId
  /\ lastParameters \in Params \cup {None}
  /\ etherbase \in Addresses \cup {None}
  /\ param \in [Ids -> Params \cup {None}]
  /\ stage \in [Ids -> Stages]
  /\ coinbase \in [Ids -> Addresses \cup {None}]
  /\ payees \in [Ids -> SUBSET (Addresses \cup {None})]
  /\ interrupt \in [Ids -> {0, 1}]
  /\ result \in [Ids -> {"none", "block", "error"}]
  /\ timer \in [Ids -> {"none", "armed", "done"} \cup Waits]
  /\ getter \in {"idle"} \cup Waits
  /\ getId \in Ids \cup {None}

(* Etherbase is the one of the command line, or none.                      *)
Init ==
  /\ builders = {}
  /\ nextPayloadId = 0
  /\ lastParameters = None
  /\ etherbase \in Addresses \cup {None}
  /\ param = [i \in Ids |-> None]
  /\ stage = [i \in Ids |-> "none"]
  /\ coinbase = [i \in Ids |-> None]
  /\ payees = [i \in Ids |-> {}]
  /\ interrupt = [i \in Ids |-> 0]
  /\ result = [i \in Ids |-> "none"]
  /\ timer = [i \in Ids |-> "none"]
  /\ getter = "idle"
  /\ getId = None

-----------------------------------------------------------------------------
(* The handlers.                                                           *)

(* Mutant: "<" for "<=".                                                   *)
evictedOffByOne(ids) ==
  {i \in ids : Cardinality({j \in ids : j < i}) < Cardinality(ids) - MaxBuilders}

(* evictOldBuilders: the ids it deletes, the lowest ones.                  *)
evicted(ids) ==
  {i \in ids : Cardinality({j \in ids : j < i}) <= Cardinality(ids) - MaxBuilders}

(* Mutant: lastParameters stays that of the first request.                 *)
AssembleBlockKeepsFirst(p) ==
  /\ getter = "idle"
  /\ nextPayloadId < MaxId
  /\ nextPayloadId' = nextPayloadId + 1
  /\ builders' = (builders \ evicted(builders)) \cup {nextPayloadId'}
  /\ lastParameters' = IF lastParameters = None THEN p ELSE lastParameters
  /\ param' = [param EXCEPT ![nextPayloadId'] = p]
  /\ stage' = [stage EXCEPT ![nextPayloadId'] = "start"]
  /\ timer' = [timer EXCEPT ![nextPayloadId'] = "armed"]
  /\ UNCHANGED <<etherbase, coinbase, payees, interrupt, result, getter, getId>>

(* A request equal to the last one is answered with its id and changes     *)
(* nothing; neither does one refused because the semaphore is taken.       *)
AssembleBlock(p) ==
  /\ getter = "idle"
  /\ p # lastParameters
  /\ nextPayloadId < MaxId
  /\ nextPayloadId' = nextPayloadId + 1
  /\ builders' = (builders \ evicted(builders)) \cup {nextPayloadId'}
  /\ lastParameters' = p
  /\ param' = [param EXCEPT ![nextPayloadId'] = p]
  /\ stage' = [stage EXCEPT ![nextPayloadId'] = "start"]
  /\ timer' = [timer EXCEPT ![nextPayloadId'] = "armed"]
  /\ UNCHANGED <<etherbase, coinbase, payees, interrupt, result, getter, getId>>

(* GetAssembledBlock enters Stop, which sets the interrupt before it takes *)
(* the lock.  An id that is not in the map is answered at once.            *)
GetAssembledBlock(i) ==
  /\ getter = "idle" /\ i \in builders
  /\ getter' = "stop"
  /\ getId' = i
  /\ interrupt' = [interrupt EXCEPT ![i] = 1]
  /\ UNCHANGED <<mapVars, buildVars, etherbase, result, timer>>

(* The loop of Stop, under the lock: wait, or return the result.           *)
GetWaits ==
  /\ getter = "stop" /\ result[getId] = "none"
  /\ getter' = "waiting"
  /\ UNCHANGED <<mapVars, buildVars, etherbase, interrupt, result, timer, getId>>

GetReturns ==
  /\ getter = "stop" /\ result[getId] # "none"
  /\ getter' = "idle"
  /\ getId' = None
  /\ UNCHANGED <<mapVars, buildVars, etherbase, interrupt, result, timer>>

-----------------------------------------------------------------------------
(* The building goroutine of payload i: assembleBlockPOS.                  *)

BuildStarts(i) ==
  /\ stage[i] = "start"
  /\ etherbase' = Recipient[param[i]]
  /\ stage' = [stage EXCEPT ![i] = "create"]
  /\ UNCHANGED <<mapVars, param, coinbase, payees, interrupt, result, timer,
                 getter, getId>>

(* SpawnMiningCreateBlockStage.                                            *)
CreateBlock(i) ==
  /\ stage[i] = "create"
  /\ coinbase' = [coinbase EXCEPT ![i] = etherbase]
  /\ stage' = [stage EXCEPT ![i] = "add"]
  /\ UNCHANGED <<mapVars, etherbase, param, payees, interrupt, result, timer,
                 getter, getId>>

(* One round of SpawnMiningExecStage's loop: a batch from the pool.  The   *)
(* round is not the last if the pool ran dry and no interrupt came, or if  *)
(* the batch was full and the block is not.                                *)
AddTransactions(i) ==
  /\ stage[i] = "add"
  /\ payees' = [payees EXCEPT ![i] = @ \cup {etherbase}]
  /\ UNCHANGED <<mapVars, etherbase, param, stage, coinbase, interrupt, result,
                 timer, getter, getId>>

(* The loop ends: nothing came from the pool, the block is full, or the    *)
(* interrupt was seen.                                                     *)
StopAdding(i) ==
  /\ stage[i] = "add"
  /\ stage' = [stage EXCEPT ![i] = "execute"]
  /\ UNCHANGED <<mapVars, etherbase, param, coinbase, payees, interrupt, result,
                 timer, getter, getId>>

(* The assembled block is executed for its root, with Etherbase as author, *)
(* whom its transactions, if it has any, pay.                              *)
Execute(i) ==
  /\ stage[i] = "execute"
  /\ payees' = [payees EXCEPT ![i] = IF @ = {} THEN {} ELSE @ \cup {etherbase}]
  /\ stage' = [stage EXCEPT ![i] = "built"]
  /\ UNCHANGED <<mapVars, etherbase, param, coinbase, interrupt, result, timer,
                 getter, getId>>

(* The head is no longer the parent asked for, or a stage fails.           *)
BuildFails(i) ==
  /\ stage[i] \in {"create", "add", "execute"}
  /\ stage' = [stage EXCEPT ![i] = "failed"]
  /\ UNCHANGED <<mapVars, etherbase, param, coinbase, payees, interrupt, result,
                 timer, getter, getId>>

(* Mutant: Signal for Broadcast, which wakes one of the two waiters.       *)
PublishSignals(i) ==
  /\ stage[i] \in {"built", "failed"}
  /\ result' = [result EXCEPT ![i] = IF stage[i] = "built" THEN "block" ELSE "error"]
  /\ stage' = [stage EXCEPT ![i] = "ended"]
  /\ IF timer[i] = "waiting"
     THEN timer' = [timer EXCEPT ![i] = "stop"] /\ UNCHANGED getter
     ELSE /\ getter' = IF getter = "waiting" /\ getId = i THEN "stop" ELSE getter
          /\ UNCHANGED timer
  /\ UNCHANGED <<mapVars, etherbase, param, coinbase, payees, interrupt, getId>>

(* Mutant: the goroutine of a failed build returns before it stores err.   *)
PublishBlockOnly(i) ==
  /\ stage[i] \in {"built", "failed"}
  /\ stage' = [stage EXCEPT ![i] = "ended"]
  /\ IF stage[i] = "built"
     THEN /\ result' = [result EXCEPT ![i] = "block"]
          /\ timer' = [timer EXCEPT ![i] = IF @ = "waiting" THEN "stop" ELSE @]
          /\ getter' = IF getter = "waiting" /\ getId = i THEN "stop" ELSE getter
     ELSE UNCHANGED <<result, timer, getter>>
  /\ UNCHANGED <<mapVars, etherbase, param, coinbase, payees, interrupt, getId>>

(* The result is stored under the lock and Broadcast wakes who waits.      *)
Publish(i) ==
  /\ stage[i] \in {"built", "failed"}
  /\ result' = [result EXCEPT ![i] = IF stage[i] = "built" THEN "block" ELSE "error"]
  /\ stage' = [stage EXCEPT ![i] = "ended"]
  /\ timer' = [timer EXCEPT ![i] = IF @ = "waiting" THEN "stop" ELSE @]
  /\ getter' = IF getter = "waiting" /\ getId = i THEN "stop" ELSE getter
  /\ UNCHANGED <<mapVars, etherbase, param, coinbase, payees, interrupt, getId>>

-----------------------------------------------------------------------------
(* The goroutine that limits the build time.                               *)

(* Mutant: builders that were evicted are not stopped.                     *)
TimerFiresForKept(i) ==
  /\ timer[i] = "armed" /\ i \in builders
  /\ timer' = [timer EXCEPT ![i] = "stop"]
  /\ interrupt' = [interrupt EXCEPT ![i] = 1]
  /\ UNCHANGED <<mapVars, buildVars, etherbase, result, getter, getId>>

(* The timer is due: Stop.                                                 *)
TimerFires(i) ==
  /\ timer[i] = "armed"
  /\ timer' = [timer EXCEPT ![i] = "stop"]
  /\ interrupt' = [interrupt EXCEPT ![i] = 1]
  /\ UNCHANGED <<mapVars, buildVars, etherbase, result, getter, getId>>

(* terminated is closed.                                                   *)
TimerEnds(i) ==
  /\ timer[i] = "armed" /\ stage[i] = "ended"
  /\ timer' = [timer EXCEPT ![i] = "done"]
  /\ UNCHANGED <<mapVars, buildVars, etherbase, interrupt, result, getter, getId>>

TimerStops(i) ==
  /\ timer[i] = "stop"
  /\ timer' = [timer EXCEPT ![i] =
                 IF result[i] = "none" THEN "waiting" ELSE "done"]
  /\ UNCHANGED <<mapVars, buildVars, etherbase, interrupt, result, getter, getId>>

-----------------------------------------------------------------------------
BuildSteps(i) ==
  \/ BuildStarts(i) \/ CreateBlock(i) \/ Execute(i) \/ Publish(i)
  \/ interrupt[i] = 1 /\ StopAdding(i)

TimerSteps(i) == TimerFires(i) \/ TimerEnds(i) \/ TimerStops(i)

GetterSteps == GetWaits \/ GetReturns

Next ==
  \/ \E p \in Params : AssembleBlock(p)
  \/ \E i \in Ids : GetAssembledBlock(i)
  \/ \E i \in Ids : AddTransactions(i) \/ StopAdding(i) \/ BuildFails(i)
  \/ \E i \in Ids : BuildSteps(i) \/ TimerSteps(i)
  \/ GetterSteps

Spec == Init /\ [][Next]_vars

(* The goroutines run and the timer comes due.  A builder that has been    *)
(* interrupted leaves its loop, since gas bounds the full batches; one     *)
(* that has not may poll the pool for ever.  Nothing has to fail.          *)
FairSpec ==
  /\ Spec
  /\ \A i \in Ids : WF_vars(BuildSteps(i)) /\ WF_vars(TimerSteps(i))
  /\ WF_vars(GetterSteps)

-----------------------------------------------------------------------------
(* The map holds exactly the last MaxBuilders payloads: eviction drops no  *)
(* newer builder for an older one, and never lets the map grow.            *)
LatestBuildersKept ==
  builders = {i \in Ids : nextPayloadId - MaxBuilders < i /\ i <= nextPayloadId}

(* "duplicate build request": the id such a request is answered with, the  *)
(* last one, is a builder in the map that was started with the parameters  *)
(* of the request.                                                         *)
DuplicateIsServed ==
  lastParameters # None =>
    nextPayloadId \in builders /\ param[nextPayloadId] = lastParameters

(* Nobody sleeps on the condition of a builder that has its result: the    *)
(* getter and the timer may both wait in Stop when the result arrives.     *)
NoLostWakeup ==
  /\ \A i \in Ids : timer[i] = "waiting" => result[i] = "none"
  /\ getter = "waiting" => getId \in Ids /\ result[getId] = "none"

(* GetAssembledBlock, which holds the semaphore of every writer, returns.  *)
GetEnds == getter # "idle" ~> getter = "idle"

(* Every builder ends, an evicted one that nobody can ask for included.    *)
EveryBuildEnds == \A i \in Ids : stage[i] = "start" ~> stage[i] = "ended"

(* "The expected value to be received by the feeRecipient in wei"          *)
(* (blockValue): the transactions of a block that is handed out paid the   *)
(* recipient its request suggested.                                        *)
TipsGoToRecipient ==
  \A i \in Ids :
    result[i] = "block" => payees[i] \subseteq {Recipient[param[i]]}
=============================================================================
