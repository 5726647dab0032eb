--------------------------- MODULE MCFillAccounting ---------------------------
(* Small instances of FillAccounting for TLC.                              *)
EXTENDS FillAccounting, TLC

CONSTANTS f1, f2, f3, j1, j2, j3

(* Two rows of one fill (a re-scanned range) and one row of another.       *)
TwoRowsOneFill == (j1 :> f1) @@ (j2 :> f1) @@ (j3 :> f2)

(* A row each, the last carrying an event that is no trade of ours.        *)
WithForeignEvent == (j1 :> f1) @@ (j2 :> f2) @@ (j3 :> f3)

=============================================================================
