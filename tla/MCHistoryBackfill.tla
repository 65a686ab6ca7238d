--------------------------- MODULE MCHistoryBackfill ---------------------------
(***************************************************************************)
(* Instances of HistoryBackfill for TLC.                                    *)
(***************************************************************************)
EXTENDS HistoryBackfill, TLC

\* Frames only ever meet in comparisons, so they may be permuted; the empty
\* frame is not among the permuted ones.
FrameSymmetry == Permutations(Frames \ {EmptyFrame})
=============================================================================
