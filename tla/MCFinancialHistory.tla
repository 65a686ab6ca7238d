------------------------- MODULE MCFinancialHistory -------------------------
(***************************************************************************)
(* Three windows: days 1-2, 3-4 and 5.  Days 2, 4 and 5 are closed, so what  *)
(* is announced on 2 reaches a partition with the next chunk only, and the   *)
(* final chunk has none.                                                     *)
(***************************************************************************)
EXTENDS FinancialHistory, TLC

MCDayOf == "seed" :> 0 @@ "q1" :> 1 @@ "q2" :> 2 @@ "q3" :> 3

\* The correction adds the last disclosure.
MCAnnounced == <<{"q1", "q2"}, {"q1", "q2", "q3"}>>
=============================================================================
