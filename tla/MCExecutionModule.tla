------------------------- MODULE MCExecutionModule -------------------------
(* A chain a1-a2-a3 with a sibling b2 of a2 and a sibling c3 of a3, where  *)
(* c3 is invalid or a2 has a wrong root; and the same without c3.          *)
EXTENDS ExecutionModule

CONSTANTS g, a1, a2, a3, b2, c3

MCBlock == {g, a1, a2, a3, b2, c3}

MCParent == [b \in {a1, a2, a3, b2, c3} |->
  CASE b = a1 -> g [] b \in {a2, b2} -> a1 [] OTHER -> a2]

MCNumber == [b \in MCBlock |->
  CASE b = g -> 0 [] b = a1 -> 1 [] b \in {a2, b2} -> 2 [] OTHER -> 3]

MCInvalid == [b \in MCBlock |-> IF b = c3 THEN "invalid" ELSE "none"]
MCWrongRoot == [b \in MCBlock |-> IF b = a2 THEN "root" ELSE "none"]

MCSafe == {None, b2}

MCSmallBlock == MCBlock \ {c3}
MCSmallParent == [b \in MCSmallBlock \ {g} |-> MCParent[b]]
MCSmallNumber == [b \in MCSmallBlock |-> MCNumber[b]]
MCSmallWrongRoot == [b \in MCSmallBlock |-> MCWrongRoot[b]]
=============================================================================
