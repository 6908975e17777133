-------------------------- MODULE MCAggregatorFiles -------------------------
(***************************************************************************)
(* AggregatorFiles for TLC.                                                *)
(***************************************************************************)
EXTENDS AggregatorFiles

\* A bound of the run: after a fault no reader opens files any more.  Readers
\* that have opened before a failing build or merge stay, and the read-write
\* transaction goes on opening and closing.
ReadersOpenBeforeFaults ==
  faults > 0 => \A r \in Readers : tx[r].at # "begun"
=============================================================================
