------------------------- MODULE MCBackwardDownload -------------------------
(* Instances of BackwardDownload for TLC. *)
EXTENDS BackwardDownload
=============================================================================
