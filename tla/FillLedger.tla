------------------------------ MODULE FillLedger ------------------------------
(***************************************************************************)
(* What fill accounting promises, free of aggregates, jobs and retries:    *)
(* each fill is counted into the net position once, and closed, after      *)
(* which no delivery looks at it again, only once it has been counted.     *)
(***************************************************************************)
EXTENDS Naturals

CONSTANTS Fills, CountedAtStart   \* CountedAtStart: counted by an earlier release

VARIABLES count, closed

ledgerVars == <<count, closed>>

Init ==
    /\ count = [f \in Fills |-> IF f \in CountedAtStart THEN 1 ELSE 0]
    /\ closed = {}

Count(f) ==
    /\ count[f] = 0
    /\ count' = [count EXCEPT ![f] = 1]
    /\ UNCHANGED closed

Close(f) ==
    /\ count[f] = 1
    /\ f \notin closed
    /\ closed' = closed \cup {f}
    /\ UNCHANGED count

Next == \E f \in Fills : Count(f) \/ Close(f)

Spec == Init /\ [][Next]_ledgerVars

=============================================================================
