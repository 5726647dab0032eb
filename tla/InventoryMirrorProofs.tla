------------------------ MODULE InventoryMirrorProofs ------------------------
(***************************************************************************)
(* Proofs about InventoryMirror for any holding and any number of orders,  *)
(* faults and crashes.                                                     *)
(*                                                                         *)
(* MirrorExact speaks of the time between orders and is not inductive.     *)
(* During an order the balance differs from the broker's by what the order *)
(* has moved and the view has not (Owed); a reading that the guards will   *)
(* let through is the broker's balance (Readings); and both rest on the    *)
(* gate being closed for exactly the life of the order (Gate).             *)
(***************************************************************************)
EXTENDS InventoryMirror, TLAPS

(* Where the gate stands while a reaction is outstanding.                  *)
Gate ==
    /\ placed => order = "claimed"
    /\ "overtaken" \notin strays =>
          /\ placed => ended = "none" /\ gate = FALSE
          /\ ended # "none" => order = "none" /\ gate = TRUE
          /\ ~placed /\ ended = "none" /\ order = "none" => gate = FALSE
          /\ ~placed /\ ended = "none" /\ order # "none" => gate = TRUE

(* The shares that the broker has moved and the view has not.              *)
Owed ==
    IF ended = "buy" \/ (order = "filled" /\ side = "buy") THEN 1
    ELSE IF ended = "sell" \/ (order \in {"open", "filled"} /\ side = "sell") THEN -1
    ELSE 0

Mirrored == strays = {} /\ known = TRUE => bal + Owed = avail

Readings ==
    strays = {} /\ poll \in {"read", "committed"} /\ late = FALSE /\ gate = FALSE => val = avail

IInv == TypeOK /\ Gate /\ Mirrored /\ Readings

(* The parts of TypeOK, for the provers.                                   *)
Flags == {placed, known, gate, stored, late} \subseteq BOOLEAN

Numbers ==
    /\ {avail, bal, stock, val} \subseteq Nat
    /\ orders \in 0..MaxOrders /\ faults \in 0..MaxFaults /\ crashes \in 0..MaxCrashes

States ==
    /\ order \in {"none", "claimed", "open", "filled", "dead"}
    /\ side \in Sides
    /\ ended \in {"none", "buy", "sell", "failed"}
    /\ poll \in {"idle", "begun", "read", "committed"}

-----------------------------------------------------------------------------
(* The view starts without a balance, an order or a reading.               *)
LEMMA InitIInv == Init => IInv
  <1> SUFFICES ASSUME Init PROVE IInv OBVIOUS
  <1>1. TypeOK
    <2>1. Flags BY Zenon DEF Init, Flags
    <2>2. Numbers BY BoundsAssumption DEF Init, Numbers
    <2>3. strays \subseteq Strays BY DEF Init
    <2>4. States BY DEF Init, States, Sides
    <2> QED BY <2>1, <2>2, <2>3, <2>4 DEF TypeOK, Flags, Numbers, States
  <1>2. Gate BY DEF Init, Gate
  <1>3. Mirrored BY DEF Init, Mirrored
  <1>4. Readings BY DEF Init, Readings
  <1> QED BY <1>1, <1>2, <1>3, <1>4 DEF IInv

(* Every step keeps the invariant.                                         *)
LEMMA NextIInv == IInv /\ [Next]_vars => IInv'
  <1> SUFFICES ASSUME IInv, [Next]_vars PROVE IInv' OBVIOUS
  <1> USE BoundsAssumption DEF IInv, envVars, pollVars, snapshotVars, viewVars, positionVars
  <1>1. ASSUME NEW s \in Sides, Place(s) PROVE IInv'
    <2>1. TypeOK' BY <1>1 DEF TypeOK, Place, Stray, Strays, Sides
    <2>2. Gate' BY <1>1 DEF TypeOK, Gate, Place, Stray
    <2>3. Mirrored' BY <1>1 DEF TypeOK, Gate, Mirrored, Readings, Owed, Place, Stray
    <2>4. Readings' BY <1>1 DEF TypeOK, Gate, Readings, Owed, Place, Stray
    <2> QED BY <2>1, <2>2, <2>3, <2>4
  <1>2. CASE Accept
    <2>1. TypeOK' BY <1>2 DEF TypeOK, Accept, Sides
    <2>2. Gate' BY <1>2 DEF TypeOK, Gate, Accept
    <2>3. Mirrored' BY <1>2 DEF TypeOK, Gate, Mirrored, Readings, Owed, Accept
    <2>4. Readings' BY <1>2 DEF TypeOK, Gate, Readings, Owed, Accept
    <2> QED BY <2>1, <2>2, <2>3, <2>4
  <1>3. CASE Execute
    <2>1. TypeOK' BY <1>3 DEF TypeOK, Execute, Sides
    <2>2. Gate' BY <1>3 DEF TypeOK, Gate, Execute
    <2>3. Mirrored' BY <1>3 DEF TypeOK, Gate, Mirrored, Readings, Owed, Execute
    <2>4. Readings' BY <1>3 DEF TypeOK, Gate, Readings, Owed, Execute
    <2> QED BY <2>1, <2>2, <2>3, <2>4
  <1>4. CASE Expire
    <2>1. TypeOK' BY <1>4 DEF TypeOK, Expire, Sides
    <2>2. Gate' BY <1>4 DEF TypeOK, Gate, Expire
    <2>3. Mirrored' BY <1>4 DEF TypeOK, Gate, Mirrored, Readings, Owed, Expire
    <2>4. Readings' BY <1>4 DEF TypeOK, Gate, Readings, Owed, Expire
    <2> QED BY <2>1, <2>2, <2>3, <2>4
  <1>5. CASE CompleteOrder
    <2>1. TypeOK' BY <1>5 DEF TypeOK, CompleteOrder, Ends, Sides
    <2>2. Gate' BY <1>5 DEF TypeOK, Gate, CompleteOrder, Ends, Sides
    <2>3. Mirrored' BY <1>5 DEF TypeOK, Gate, Mirrored, Readings, Owed, CompleteOrder, Ends
    <2>4. Readings' BY <1>5 DEF TypeOK, Gate, Readings, Owed, CompleteOrder, Ends
    <2> QED BY <2>1, <2>2, <2>3, <2>4
  <1>6. CASE FailOrder
    <2>1. TypeOK' BY <1>6 DEF TypeOK, FailOrder, Ends, Sides
    <2>2. Gate' BY <1>6 DEF TypeOK, Gate, FailOrder, Ends
    <2>3. Mirrored' BY <1>6 DEF TypeOK, Gate, Mirrored, Readings, Owed, FailOrder, Ends
    <2>4. Readings' BY <1>6 DEF TypeOK, Gate, Readings, Owed, FailOrder, Ends
    <2> QED BY <2>1, <2>2, <2>3, <2>4
  <1>7. CASE ReactPlaced
    <2>1. TypeOK' BY <1>7 DEF TypeOK, ReactPlaced, Sides
    <2>2. Gate' BY <1>7 DEF TypeOK, Gate, ReactPlaced
    <2>3. Mirrored' BY <1>7 DEF TypeOK, Gate, Mirrored, Readings, Owed, ReactPlaced
    <2>4. Readings' BY <1>7 DEF TypeOK, Gate, Readings, Owed, ReactPlaced
    <2> QED BY <2>1, <2>2, <2>3, <2>4
  <1>8. CASE ReactFilled
    <2>1. TypeOK'
      <3>1. Flags' BY <1>8, Zenon DEF Flags, TypeOK, ReactFilled, Stray, Insufficient
      <3>2. Numbers' BY <1>8 DEF Numbers, TypeOK, ReactFilled, Stray, Insufficient, Sides, Strays
      <3>3. (strays \subseteq Strays)' BY <1>8, Zenon DEF TypeOK, ReactFilled, Stray, Insufficient, Sides, Strays
      <3>4. States' BY <1>8 DEF States, TypeOK, ReactFilled, Stray, Insufficient, Sides, Strays
      <3> QED BY <3>1, <3>2, <3>3, <3>4 DEF TypeOK, Flags, Numbers, States
    <2>2. Gate' BY <1>8 DEF TypeOK, Gate, ReactFilled, Stray, Insufficient, Sides
    <2>3. Mirrored' BY <1>8 DEF TypeOK, Gate, Mirrored, Readings, Owed, ReactFilled, Stray, Insufficient, Sides
    <2>4. Readings' BY <1>8 DEF TypeOK, Gate, Readings, Owed, ReactFilled, Stray, Insufficient, Sides
    <2> QED BY <2>1, <2>2, <2>3, <2>4
  <1>9. CASE ReactFilledFails
    <2>1. TypeOK'
      <3>1. Flags' BY <1>9, Zenon DEF Flags, TypeOK, ReactFilledFails, Stray, Fault, Insufficient
      <3>2. Numbers' BY <1>9 DEF Numbers, TypeOK, ReactFilledFails, Stray, Fault, Insufficient, Sides, Strays
      <3>3. (strays \subseteq Strays)' BY <1>9, Zenon DEF TypeOK, ReactFilledFails, Stray, Fault, Insufficient, Sides, Strays
      <3>4. States' BY <1>9 DEF States, TypeOK, ReactFilledFails, Stray, Fault, Insufficient, Sides, Strays
      <3> QED BY <3>1, <3>2, <3>3, <3>4 DEF TypeOK, Flags, Numbers, States
    <2>2. Gate' BY <1>9 DEF TypeOK, Gate, ReactFilledFails, Stray, Fault, Insufficient, Sides
    <2>3. Mirrored' BY <1>9 DEF TypeOK, Gate, Mirrored, Readings, Owed, ReactFilledFails, Stray, Fault, Insufficient, Sides
    <2>4. Readings' BY <1>9 DEF TypeOK, Gate, Readings, Owed, ReactFilledFails, Stray, Fault, Insufficient, Sides
    <2> QED BY <2>1, <2>2, <2>3, <2>4
  <1>10. CASE ReactEnded
    <2>1. TypeOK' BY <1>10 DEF TypeOK, ReactEnded, Stray, Strays, Sides
    <2>2. Gate' BY <1>10 DEF TypeOK, Gate, ReactEnded, Stray
    <2>3. Mirrored' BY <1>10 DEF TypeOK, Gate, Mirrored, Readings, Owed, ReactEnded, Stray
    <2>4. Readings' BY <1>10 DEF TypeOK, Gate, Readings, Owed, ReactEnded, Stray
    <2> QED BY <2>1, <2>2, <2>3, <2>4
  <1>11. CASE BeginPoll
    <2>1. TypeOK' BY <1>11 DEF TypeOK, BeginPoll, Sides
    <2>2. Gate' BY <1>11 DEF TypeOK, Gate, BeginPoll
    <2>3. Mirrored' BY <1>11 DEF TypeOK, Gate, Mirrored, Readings, Owed, BeginPoll
    <2>4. Readings' BY <1>11 DEF TypeOK, Gate, Readings, Owed, BeginPoll
    <2> QED BY <2>1, <2>2, <2>3, <2>4
  <1>12. CASE ReadBroker
    <2>1. TypeOK' BY <1>12 DEF TypeOK, ReadBroker, Sides
    <2>2. Gate' BY <1>12 DEF TypeOK, Gate, ReadBroker
    <2>3. Mirrored' BY <1>12 DEF TypeOK, Gate, Mirrored, Readings, Owed, ReadBroker
    <2>4. Readings' BY <1>12 DEF TypeOK, Gate, Readings, Owed, ReadBroker
    <2> QED BY <2>1, <2>2, <2>3, <2>4
  <1>13. CASE PollFails
    <2>1. TypeOK' BY <1>13 DEF TypeOK, PollFails, Sides
    <2>2. Gate' BY <1>13 DEF TypeOK, Gate, PollFails
    <2>3. Mirrored' BY <1>13 DEF TypeOK, Gate, Mirrored, Readings, Owed, PollFails
    <2>4. Readings' BY <1>13 DEF TypeOK, Gate, Readings, Owed, PollFails
    <2> QED BY <2>1, <2>2, <2>3, <2>4
  <1>14. CASE RecordSnapshot
    <2>1. TypeOK' BY <1>14 DEF TypeOK, RecordSnapshot, Sides
    <2>2. Gate' BY <1>14 DEF TypeOK, Gate, RecordSnapshot
    <2>3. Mirrored' BY <1>14 DEF TypeOK, Gate, Mirrored, Readings, Owed, RecordSnapshot
    <2>4. Readings' BY <1>14 DEF TypeOK, Gate, Readings, Owed, RecordSnapshot
    <2> QED BY <2>1, <2>2, <2>3, <2>4
  <1>15. CASE ReactSnapshot
    <2>1. TypeOK' BY <1>15 DEF TypeOK, ReactSnapshot, WouldApply, Sides
    <2>2. Gate' BY <1>15 DEF TypeOK, Gate, ReactSnapshot, WouldApply
    <2>3. Mirrored'
      <3>1. CASE ~WouldApply
        BY <1>15, <3>1 DEF Mirrored, Owed, ReactSnapshot
      <3>2. CASE WouldApply
        <4>1. gate = FALSE /\ late = FALSE
          BY <3>2 DEF TypeOK, WouldApply
        <4>2. strays = {} => val = avail
          BY <1>15, <4>1 DEF Readings, ReactSnapshot
        <4>3. strays = {} => Owed = 0
          BY <4>1 DEF TypeOK, Gate, Owed
        <4> QED BY <1>15, <3>2, <4>2, <4>3 DEF TypeOK, Mirrored, Owed, ReactSnapshot
      <3> QED BY <3>1, <3>2
    <2>4. Readings' BY <1>15 DEF TypeOK, Gate, Readings, Owed, ReactSnapshot, WouldApply
    <2> QED BY <2>1, <2>2, <2>3, <2>4
  <1>16. CASE ForceSnapshot
    <2>1. TypeOK'
      <3>1. Flags' BY <1>16, Zenon DEF Flags, TypeOK, ForceSnapshot, Stray, Fault
      <3>2. Numbers' BY <1>16 DEF Numbers, TypeOK, ForceSnapshot, Stray, Fault, Strays, Sides
      <3>3. (strays \subseteq Strays)' BY <1>16, Zenon DEF TypeOK, ForceSnapshot, Stray, Fault, Strays, Sides
      <3>4. States' BY <1>16 DEF States, TypeOK, ForceSnapshot, Stray, Fault, Strays, Sides
      <3> QED BY <3>1, <3>2, <3>3, <3>4 DEF TypeOK, Flags, Numbers, States
    <2>2. Gate' BY <1>16 DEF TypeOK, Gate, ForceSnapshot, Stray, Fault
    <2>3. Mirrored' BY <1>16 DEF TypeOK, Gate, Mirrored, Readings, Owed, ForceSnapshot, Stray, Fault
    <2>4. Readings' BY <1>16 DEF TypeOK, Gate, Readings, Owed, ForceSnapshot, Stray, Fault
    <2> QED BY <2>1, <2>2, <2>3, <2>4
  <1>17. CASE ForceOther
    <2>1. TypeOK'
      <3>1. Flags' BY <1>17, Zenon DEF Flags, TypeOK, ForceOther, Stray, Fault, Reset
      <3>2. Numbers' BY <1>17 DEF Numbers, TypeOK, ForceOther, Stray, Fault, Reset, Strays, Sides
      <3>3. (strays \subseteq Strays)' BY <1>17, Zenon DEF TypeOK, ForceOther, Stray, Fault, Reset, Strays, Sides
      <3>4. States' BY <1>17 DEF States, TypeOK, ForceOther, Stray, Fault, Reset, Strays, Sides
      <3> QED BY <3>1, <3>2, <3>3, <3>4 DEF TypeOK, Flags, Numbers, States
    <2>2. Gate' BY <1>17 DEF TypeOK, Gate, ForceOther, Stray, Fault, Reset
    <2>3. Mirrored' BY <1>17 DEF TypeOK, Gate, Mirrored, Readings, Owed, ForceOther, Stray, Fault, Reset
    <2>4. Readings' BY <1>17 DEF TypeOK, Gate, Readings, Owed, ForceOther, Stray, Fault, Reset
    <2> QED BY <2>1, <2>2, <2>3, <2>4
  <1>18. CASE Restart
    <2>1. TypeOK'
      <3>1. Flags' BY <1>18, Zenon DEF Flags, TypeOK, Restart, Stray
      <3>2. Numbers' BY <1>18 DEF Numbers, TypeOK, Restart, Stray, Strays, Sides
      <3>3. (strays \subseteq Strays)' BY <1>18, Zenon DEF TypeOK, Restart, Stray, Strays, Sides
      <3>4. States' BY <1>18 DEF States, TypeOK, Restart, Stray, Strays, Sides
      <3> QED BY <3>1, <3>2, <3>3, <3>4 DEF TypeOK, Flags, Numbers, States
    <2>2. Gate' BY <1>18 DEF TypeOK, Gate, Restart, Stray
    <2>3. Mirrored' BY <1>18 DEF TypeOK, Gate, Mirrored, Readings, Owed, Restart, Stray
    <2>4. Readings' BY <1>18 DEF TypeOK, Gate, Readings, Owed, Restart, Stray
    <2> QED BY <2>1, <2>2, <2>3, <2>4
  <1>19. CASE UNCHANGED vars
    BY <1>19 DEF vars, TypeOK, Gate, Mirrored, Readings, Owed
  <1> QED BY <1>1, <1>2, <1>3, <1>4, <1>5, <1>6, <1>7, <1>8, <1>9, <1>10, <1>11, <1>12, <1>13, <1>14, <1>15, <1>16, <1>17, <1>18, <1>19 DEF Next, Broker, Settle, React, Snapshot

(* The inductive invariant holds of every behaviour.                       *)
THEOREM Invariance == Spec => []IInv
  <1> QED BY InitIInv, NextIInv, PTL DEF Spec

(* No step leaves the types: in particular no fill takes the mirror's      *)
(* balance below zero (remove_available).                                  *)
THEOREM TypeCorrect == Spec => []TypeOK
  <1>1. IInv => TypeOK BY DEF IInv
  <1> QED BY <1>1, Invariance, PTL

(* The view refuses snapshots for exactly the life of an order             *)
(* (mark_offchain_order_pending, clear_offchain_order_pending), unless the *)
(* next order's reaction overtook the last one's.                          *)
THEOREM GateFollows == Spec => []GateFollowsOrder
  <1>1. IInv => GateFollowsOrder BY DEF IInv, TypeOK, Gate, GateFollowsOrder
  <1> QED BY <1>1, Invariance, PTL

(* Between orders the view has the broker's balance, however the poller's  *)
(* steps fall between the fills (equity_snapshot_would_apply), unless one  *)
(* of the strays has happened.                                             *)
THEOREM MirrorIsExact == Spec => []MirrorExact
  <1>1. IInv => MirrorExact BY DEF IInv, TypeOK, Mirrored, Owed, MirrorExact
  <1> QED BY <1>1, Invariance, PTL

=============================================================================
