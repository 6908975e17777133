----------------------------- MODULE MCEngineApi -----------------------------
(* Instances of EngineApi: chains of three blocks.                         *)
EXTENDS EngineApi, TLC

\* A bad block in the middle, which is a bad tip for the calls that do not go
\* beyond it, and a first block that is too large.  (ValidIsValid does not hold
\* with a later one that is too large.)
FaultyChains == {<<"good", "bad", "good">>, <<"oversize", "good", "good">>}

Pairs == {<<"good", "good">>, <<"oversize", "good">>}

Symmetry == Permutations(Handlers)
=============================================================================
