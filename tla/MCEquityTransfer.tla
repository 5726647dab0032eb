--------------------------- MODULE MCEquityTransfer ---------------------------
(* Model values for EquityTransfer.                                        *)
EXTENDS EquityTransfer, TLC

CONSTANTS m1, r1, none

(* A fault and a crash in one behaviour only while no redemption has been  *)
(* requested: bounds the run with the recovery jobs.                       *)
TroubleBound == faults + crashes <= 1 \/ \A r \in Redemptions : agg[r] = Unborn

(* A second fault only in behaviours that have started one transfer: a     *)
(* request may fail on every attempt.                                      *)
SecondFaultBound ==
    faults <= 1 \/ \E t \in Transfers : \A u \in Transfers \ {t} : agg[u] = Unborn

=============================================================================
