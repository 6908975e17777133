-------------------------- MODULE MCPayloadBuilder --------------------------
(* Two requests, with different fee recipients or with the same one.       *)
EXTENDS PayloadBuilder

CONSTANTS p1, p2, a1, a2

MCRecipient == [p \in {p1, p2} |-> IF p = p1 THEN a1 ELSE a2]

MCOneRecipient == [p \in {p1, p2} |-> a1]
=============================================================================
