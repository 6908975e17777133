---------------------------- MODULE SenderStage -----------------------------
(***************************************************************************)
(* What one forward call of the Senders stage promises to the staged sync, *)
(* without its goroutines: it writes the senders of every downloaded block *)
(* and moves the progress to To, or it asks for an unwind below a block    *)
(* whose senders cannot be recovered, or it returns an error; and it does  *)
(* one of these once, in one step, with nothing else written.  The promise *)
(* is void once the call was disturbed: the node is being stopped, or a    *)
(* temporary file could not be written.  Then blocks may be left out, but  *)
(* what is written is still right.                                         *)
(***************************************************************************)
EXTENDS Integers

CONSTANTS To, Kinds, BadBlockHalt

VARIABLES
  kind,       \* [1..To -> Kinds]
  disturbed,  \* quit, or a failed write
  db          \* [senders, progress, unwind, result]

vars == <<kind, disturbed, db>>

Recoverable == {b \in 1..To : kind[b] = "good"}
Bad == {b \in 1..To : kind[b] = "bad"}

Init ==
  /\ kind \in [1..To -> Kinds]
  /\ disturbed = FALSE
  /\ db = [senders |-> {b \in 1..To : kind[b] = "stored"}, progress |-> 0,
           unwind |-> -1, result |-> "none"]

Disturb ==
  /\ disturbed' = TRUE
  /\ UNCHANGED <<kind, db>>

Advance ==
  /\ db.result = "none"
  /\ \E S \in SUBSET Recoverable :
       /\ disturbed \/ (S = Recoverable /\ Bad = {})
       /\ db' = [db EXCEPT !.senders = @ \cup S, !.progress = To, !.result = "updated"]
  /\ UNCHANGED <<kind, disturbed>>

Reject(b) ==
  /\ db.result = "none" /\ ~BadBlockHalt
  /\ disturbed \/ b \in Bad
  /\ db' = [db EXCEPT !.unwind = b - 1, !.result = "unwound"]
  /\ UNCHANGED <<kind, disturbed>>

Fail ==
  /\ db.result = "none"
  /\ disturbed \/ (BadBlockHalt /\ Bad # {})
  /\ db' = [db EXCEPT !.result = "error"]
  /\ UNCHANGED <<kind, disturbed>>

Next == Disturb \/ Advance \/ (\E b \in 1..To : Reject(b)) \/ Fail

Spec == Init /\ [][Next]_vars
=============================================================================
