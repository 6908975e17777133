------------------------ MODULE PayloadBuilderProofs ------------------------
(***************************************************************************)
(* For any number of payloads and builders: the map of builders holds the  *)
(* last MaxBuilders payloads, a duplicate request is answered with a       *)
(* builder of its own parameters, and no wake-up of Stop is lost.          *)
(***************************************************************************)
EXTENDS PayloadBuilder, FiniteSetTheorems, TLAPS

LEMMA Window ==
  ASSUME NEW a \in Nat, NEW n \in Nat
  PROVE  /\ IsFiniteSet(a .. n)
         /\ Cardinality(a .. n) = IF a > n THEN 0 ELSE n - a + 1
  BY FS_Interval

(* The map of builders is a window of ids; evictOldBuilders deletes the    *)
(* lowest of a full window and nothing of one that is not.                 *)
LEMMA EvictedOfWindow ==
  ASSUME NEW a \in Nat \ {0}, NEW n \in Nat, n - a + 1 <= MaxBuilders
  PROVE  evicted(a .. n) = IF n - a + 1 = MaxBuilders THEN {a} ELSE {}
<1> USE BuildersAssumption
<1>1. CASE a > n
  <2>1. a .. n = {}
    BY <1>1
  <2>2. n - a + 1 # MaxBuilders
    BY <1>1
  <2> QED
    BY <2>1, <2>2 DEF evicted
<1>2. CASE a <= n
  <2>1. Cardinality(a .. n) = n - a + 1
    BY <1>2, Window
  <2>2. ASSUME NEW i \in a .. n
        PROVE  Cardinality({j \in a .. n : j < i}) = i - a
    <3>1. {j \in a .. n : j < i} = a .. (i - 1)
      OBVIOUS
    <3>2. i - 1 \in Nat
      OBVIOUS
    <3>3. Cardinality(a .. (i - 1)) = IF a > i - 1 THEN 0 ELSE (i - 1) - a + 1
      BY <3>2, Window
    <3>4. Cardinality(a .. (i - 1)) = i - a
      BY <3>3
    <3> QED
      BY <3>1, <3>4, Zenon
  <2>3. evicted(a .. n) = {i \in a .. n : i - a <= (n - a + 1) - MaxBuilders}
    BY <2>1, <2>2, Zenon DEF evicted
  <2>4. CASE n - a + 1 = MaxBuilders
    <3>1. \A i \in a .. n : i - a <= (n - a + 1) - MaxBuilders <=> i = a
      BY <2>4
    <3>2. {i \in a .. n : i - a <= (n - a + 1) - MaxBuilders} = {i \in a .. n : i = a}
      BY <3>1
    <3>3. {i \in a .. n : i = a} = {a}
      BY <1>2
    <3> QED
      BY <2>3, <2>4, <3>2, <3>3, Zenon
  <2>5. CASE n - a + 1 < MaxBuilders
    <3>1. \A i \in a .. n : ~(i - a <= (n - a + 1) - MaxBuilders)
      BY <2>5
    <3>2. {i \in a .. n : i - a <= (n - a + 1) - MaxBuilders} = {}
      BY <3>1
    <3>3. n - a + 1 # MaxBuilders
      BY <2>5
    <3> QED
      BY <2>3, <3>2, <3>3, Zenon
  <2> QED
    BY <2>4, <2>5
<1> QED
  BY <1>1, <1>2

-----------------------------------------------------------------------------
Types ==
  /\ TypeOK
  /\ getter # "idle" => getId \in Ids
  /\ \A i \in Ids : stage[i] = "start" => param[i] \in Params

(* The states have their types, a handler that is not idle has an id, and  *)
(* a builder that is about to read its request has one.                    *)
LEMMA TypesStep == Types /\ [Next]_vars => Types'
<1> SUFFICES ASSUME Types, [Next]_vars PROVE Types'
  OBVIOUS
<1> USE ParamsAssumption, BuildersAssumption DEF Types, TypeOK, Stages, Waits
<1>1. ASSUME NEW p \in Params, AssembleBlock(p) PROVE Types'
  <2>1. nextPayloadId' \in Ids /\ nextPayloadId' \in 0 .. MaxId
    BY <1>1 DEF AssembleBlock, Ids
  <2>2. builders' \subseteq Ids
    BY <1>1, <2>1, Zenon DEF AssembleBlock, evicted
  <2> QED
    BY <1>1, <2>1, <2>2 DEF AssembleBlock
<1>2. ASSUME NEW i \in Ids, GetAssembledBlock(i) PROVE Types'
  BY <1>2 DEF GetAssembledBlock, mapVars, buildVars
<1>3. CASE GetterSteps
  BY <1>3 DEF GetterSteps, GetWaits, GetReturns, mapVars, buildVars
<1>4. ASSUME NEW i \in Ids, AddTransactions(i) \/ StopAdding(i) \/ BuildFails(i)
      PROVE  Types'
  BY <1>4 DEF AddTransactions, StopAdding, BuildFails, mapVars
<1>5. ASSUME NEW i \in Ids, BuildSteps(i) PROVE Types'
  <2>1. CASE BuildStarts(i)
    BY <2>1 DEF BuildStarts, mapVars
  <2>2. CASE CreateBlock(i)
    BY <2>2 DEF CreateBlock, mapVars
  <2>3. CASE Execute(i)
    BY <2>3 DEF Execute, mapVars
  <2>4. CASE Publish(i)
    BY <2>4 DEF Publish, mapVars
  <2>5. CASE StopAdding(i)
    BY <2>5 DEF StopAdding, mapVars
  <2> QED
    BY <1>5, <2>1, <2>2, <2>3, <2>4, <2>5 DEF BuildSteps
<1>6. ASSUME NEW i \in Ids, TimerSteps(i) PROVE Types'
  BY <1>6 DEF TimerSteps, TimerFires, TimerEnds, TimerStops, mapVars, buildVars
<1>7. CASE UNCHANGED vars
  BY <1>7 DEF vars
<1> QED
  <2> HIDE DEF Types
  <2> QED
    BY <1>1, <1>2, <1>3, <1>4, <1>5, <1>6, <1>7 DEF Next

LEMMA TypesAlways == Spec => []Types
<1>1. Init => Types
  BY ParamsAssumption, BuildersAssumption
  DEF Init, Types, TypeOK, Stages, Waits
<1> QED
  BY <1>1, TypesStep, PTL DEF Spec

-----------------------------------------------------------------------------
(* evictOldBuilders keeps the map the window of the last MaxBuilders ids.  *)
THEOREM MapIsWindow == Spec => []LatestBuildersKept
<1>1. Init => LatestBuildersKept
  BY BuildersAssumption DEF Init, LatestBuildersKept, Ids
<1>2. Types /\ LatestBuildersKept /\ [Next]_vars => LatestBuildersKept'
  <2> SUFFICES ASSUME Types, LatestBuildersKept, [Next]_vars
               PROVE  LatestBuildersKept'
    OBVIOUS
  <2>1. ASSUME NEW p \in Params, AssembleBlock(p) PROVE LatestBuildersKept'
    <3> DEFINE n == nextPayloadId
               a == IF n < MaxBuilders THEN 1 ELSE n - MaxBuilders + 1
    <3>1. /\ n \in Nat /\ n < MaxId /\ a \in Nat \ {0}
          /\ n - a + 1 <= MaxBuilders
          /\ (n - a + 1 = MaxBuilders) <=> (n >= MaxBuilders)
      BY <2>1, BuildersAssumption DEF AssembleBlock, Types, TypeOK
    <3>2. builders \subseteq Int /\ a .. n \subseteq Int
      BY <3>1, BuildersAssumption DEF Types, TypeOK, Ids
    <3>3. builders = a .. n
      <4>1. CASE n < MaxBuilders
        <5>1. a = 1
          BY <4>1
        <5> HIDE DEF a
        <5>2. \A i \in Int : i \in builders <=> i \in 1 .. n
          BY <3>1, <4>1, BuildersAssumption DEF LatestBuildersKept, Ids
        <5> QED
          BY <3>2, <5>1, <5>2, Zenon
      <4>2. CASE n >= MaxBuilders
        <5>1. a = n - MaxBuilders + 1
          BY <3>1, <4>2, BuildersAssumption
        <5> HIDE DEF a
        <5>2. \A i \in Int : i \in builders <=> i \in a .. n
          BY <3>1, <4>2, <5>1, BuildersAssumption DEF LatestBuildersKept, Ids
        <5> QED
          BY <3>2, <5>2, Zenon
      <4> QED
        BY <3>1, <4>1, <4>2, BuildersAssumption
    <3>4. /\ nextPayloadId' = n + 1
          /\ builders' = (builders \ evicted(builders)) \cup {n + 1}
      BY <2>1 DEF AssembleBlock
    <3> HIDE DEF a
    <3>5. evicted(builders) = IF n - a + 1 = MaxBuilders THEN {a} ELSE {}
      BY <3>1, <3>3, EvictedOfWindow, Zenon
    <3> USE DEF a
    <3>6. builders' = {i \in Ids : (n + 1) - MaxBuilders < i /\ i <= n + 1}
      BY <3>1, <3>3, <3>4, <3>5, BuildersAssumption DEF Ids
    <3> QED
      BY <3>4, <3>6 DEF LatestBuildersKept, Ids
  <2>2. CASE UNCHANGED mapVars
    BY <2>2 DEF mapVars, LatestBuildersKept
  <2> QED
    BY <2>1, <2>2
    DEF Next, GetAssembledBlock, GetterSteps, GetWaits, GetReturns,
        AddTransactions, StopAdding, BuildFails, BuildSteps, BuildStarts,
        CreateBlock, Execute, Publish, TimerSteps, TimerFires, TimerEnds,
        TimerStops, vars, mapVars
<1> QED
  BY <1>1, <1>2, TypesAlways, PTL DEF Spec

(* AssembleBlock answers a duplicate with a builder of that very request.  *)
THEOREM DuplicateAlwaysServed == Spec => []DuplicateIsServed
<1> DEFINE Last == lastParameters # None =>
                     nextPayloadId \in Ids /\ param[nextPayloadId] = lastParameters
<1>1. Init => Last
  BY DEF Init
<1>2. Types /\ Last /\ [Next]_vars => Last'
  <2> SUFFICES ASSUME Types, Last, [Next]_vars PROVE Last'
    OBVIOUS
  <2>1. ASSUME NEW p \in Params, AssembleBlock(p) PROVE Last'
    <3>1. nextPayloadId' \in Ids
      BY <2>1, BuildersAssumption DEF AssembleBlock, Types, TypeOK, Ids
    <3>2. param' = [param EXCEPT ![nextPayloadId'] = p] /\ lastParameters' = p
      BY <2>1 DEF AssembleBlock
    <3> QED
      BY <3>1, <3>2 DEF Types, TypeOK
  <2>2. CASE UNCHANGED <<mapVars, param>>
    BY <2>2 DEF mapVars
  <2> HIDE DEF Last
  <2> QED
    BY <2>1, <2>2
    DEF Next, GetAssembledBlock, GetterSteps, GetWaits, GetReturns,
        AddTransactions, StopAdding, BuildFails, BuildSteps, BuildStarts,
        CreateBlock, Execute, Publish, TimerSteps, TimerFires, TimerEnds,
        TimerStops, vars, mapVars, buildVars
<1>3. Last /\ LatestBuildersKept => DuplicateIsServed
  BY BuildersAssumption DEF LatestBuildersKept, DuplicateIsServed, Ids
<1> HIDE DEF Last
<1> QED
  BY <1>1, <1>2, <1>3, MapIsWindow, TypesAlways, PTL DEF Spec

(* Broadcast wakes the getter and the timer, whichever of them wait when   *)
(* the result is stored.                                                   *)
THEOREM WakeupNeverLost == Spec => []NoLostWakeup
<1>1. Init => NoLostWakeup
  BY DEF Init, NoLostWakeup
<1>2. Types /\ NoLostWakeup /\ [Next]_vars => NoLostWakeup'
  <2> SUFFICES ASSUME Types, NoLostWakeup, [Next]_vars PROVE NoLostWakeup'
    OBVIOUS
  <2> USE DEF NoLostWakeup, Types, TypeOK
  <2>1. ASSUME NEW p \in Params, AssembleBlock(p) PROVE NoLostWakeup'
    BY <2>1 DEF AssembleBlock
  <2>2. ASSUME NEW i \in Ids, GetAssembledBlock(i) PROVE NoLostWakeup'
    BY <2>2 DEF GetAssembledBlock
  <2>3. CASE GetterSteps
    BY <2>3 DEF GetterSteps, GetWaits, GetReturns
  <2>4. ASSUME NEW i \in Ids, Publish(i) PROVE NoLostWakeup'
    BY <2>4 DEF Publish
  <2>5. ASSUME NEW i \in Ids, TimerSteps(i) PROVE NoLostWakeup'
    BY <2>5 DEF TimerSteps, TimerFires, TimerEnds, TimerStops
  <2>6. CASE UNCHANGED <<result, timer, getter, getId>>
    BY <2>6
  <2> HIDE DEF NoLostWakeup
  <2> QED
    BY <2>1, <2>2, <2>3, <2>4, <2>5, <2>6
    DEF Next, AddTransactions, StopAdding, BuildFails, BuildSteps, BuildStarts,
        CreateBlock, Execute, vars
<1> QED
  BY <1>1, <1>2, TypesAlways, PTL DEF Spec
=============================================================================
