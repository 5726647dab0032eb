--------------------------- MODULE MCUsdcTransfer ---------------------------
(* Model values for UsdcTransfer.                                          *)
EXTENDS UsdcTransfer, TLC

CONSTANTS t1, t2

Both   == {A2B, B2A}

TransferSymmetry == Permutations(Transfers)

=============================================================================
