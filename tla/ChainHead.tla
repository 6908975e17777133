----------------------------- MODULE ChainHead ------------------------------
(***************************************************************************)
(* What the execution module promises about the chain that is committed,   *)
(* without its transactions, its pipeline and its fork validator: a fork   *)
(* choice moves the head and the flat state together, in one step, to the  *)
(* block it was asked for, and only if the chain of that block is valid;   *)
(* or it leaves both alone.  Validating a payload never moves the head; it *)
(* may take the state back along the chain, and only between fork choices. *)
(***************************************************************************)
CONSTANTS
  Block, Genesis, None,
  Chain,        \* [Block -> SUBSET Block]: a block and its ancestors
  ValidBlocks   \* the blocks whose chain is valid

VARIABLES
  head,     \* HeadHeaderHash
  state,    \* the blocks whose changes the flat state holds
  served    \* the head a fork choice is asked for, until its outcome is known

vars == <<head, state, served>>

Init ==
  /\ head = Genesis
  /\ state = {Genesis}
  /\ served = None

Begin ==
  /\ served = None
  /\ served' \in Block
  /\ UNCHANGED <<head, state>>

Accept ==
  /\ served \in ValidBlocks
  /\ head' = served
  /\ state' = Chain[served]
  /\ served' = None

\* Bad, refused, failed, or ended with the process.
GiveUp ==
  /\ served # None
  /\ served' = None
  /\ UNCHANGED <<head, state>>

Unwind ==
  /\ served = None
  /\ \E b \in Chain[head] : Chain[b] \subseteq state /\ state' = Chain[b]
  /\ UNCHANGED <<head, served>>

Next == Begin \/ Accept \/ GiveUp \/ Unwind

Spec == Init /\ [][Next]_vars
=============================================================================
