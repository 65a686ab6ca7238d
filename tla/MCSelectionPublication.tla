------------------------ MODULE MCSelectionPublication ------------------------
(***************************************************************************)
(* The instance of SelectionPublication for TLC: two runs of one lineage    *)
(* and one run of another.                                                  *)
(***************************************************************************)
EXTENDS SelectionPublication, TLC

CONSTANTS p1, p2, p3, a, b

MCInputOf == (p1 :> a) @@ (p2 :> a) @@ (p3 :> b)
=============================================================================
