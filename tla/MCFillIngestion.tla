--------------------------- MODULE MCFillIngestion ---------------------------
(* Small instances of FillIngestion for TLC.                               *)
EXTENDS FillIngestion, TLC

CONSTANTS f1, f2, f3, orderbook, inventory

(* A fill before the deployment block, two after it in different batches.  *)
MCBlockOf == (f1 :> 0) @@ (f2 :> 2) @@ (f3 :> 4)
MCKindOf  == (f1 :> orderbook) @@ (f2 :> orderbook) @@ (f3 :> inventory)

=============================================================================
