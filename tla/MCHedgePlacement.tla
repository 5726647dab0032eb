--------------------------- MODULE MCHedgePlacement ---------------------------
(* Model values for HedgePlacement.                                        *)
EXTENDS HedgePlacement, TLC

CONSTANTS o1, o2

OneSide   == {1}
TwoBought == {-2}

=============================================================================
