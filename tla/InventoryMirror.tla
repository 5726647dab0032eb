--------------------------- MODULE InventoryMirror ---------------------------
(***************************************************************************)
(* The inventory view's balance of one symbol at the broker.  Two writers  *)
(* keep it: the fill of a hedge order moves it by one share, and a poll of *)
(* the broker replaces it.  The poll takes time, the broker moves before   *)
(* the bot knows, and the reactors of two event streams run in any order,  *)
(* so the view refuses a snapshot while an order is open (the gate) and    *)
(* one that was begun before the last fill was applied.                    *)
(*                                                                         *)
(* A store commits an event, and only then calls the reactor.  Orders are  *)
(* of one share and no transfer is in flight.  There is one poller, so     *)
(* fetched_at only matters against the last applied fill: `late` says that *)
(* a fill was applied after the running poll took its time.                *)
(***************************************************************************)
EXTENDS Integers

CONSTANTS
    Holding,      \* shares at the broker at first
    MaxOrders,    \* bound on hedge orders
    MaxFaults,    \* bound on failed updates and snapshots
    MaxCrashes    \* bound on crashes

ASSUME BoundsAssumption == {Holding, MaxOrders, MaxFaults, MaxCrashes} \subseteq Nat

VARIABLES
    avail,    \* qty_available at the broker
    order,    \* the Position's pending order, as far as the broker has taken it
    side,     \* its direction
    placed,   \* OffChainOrderPlaced is committed, its reaction is not done
    ended,    \* what ended the last order, while its reaction is not done
    known,    \* the view has a balance for the symbol (Option<VenueBalance>)
    bal,      \* that balance
    gate,     \* the symbol is in pending_offchain_order_symbols
    stored,   \* the InventorySnapshot aggregate has a balance
    stock,    \* that balance
    poll,     \* the poller: idle, begun, read, committed
    val,      \* what it read
    late,     \* a fill was applied since it took fetched_at
    orders, faults, crashes,
    strays    \* history: what has happened that the guards do not cover

positionVars == <<order, side, placed, ended>>
viewVars     == <<known, bal, gate>>
snapshotVars == <<stored, stock>>
pollVars     == <<poll, val, late>>
envVars      == <<orders, faults, crashes>>
vars == <<avail, positionVars, viewVars, snapshotVars, pollVars, envVars, strays>>

Sides == {"buy", "sell"}

(* A reaction that came late, an order that ended without a fill while a   *)
(* reading was on its way, a fill for a balance the view did not have, a   *)
(* failure, a restart.                                                     *)
Strays == {"overtaken", "unfilled", "blind", "fault", "crash"}

TypeOK ==
    /\ avail \in Nat
    /\ order \in {"none", "claimed", "open", "filled", "dead"}
    /\ side \in Sides
    /\ placed \in BOOLEAN
    /\ ended \in {"none", "buy", "sell", "failed"}
    /\ known \in BOOLEAN /\ bal \in Nat /\ gate \in BOOLEAN
    /\ stored \in BOOLEAN /\ stock \in Nat
    /\ poll \in {"idle", "begun", "read", "committed"} /\ val \in Nat /\ late \in BOOLEAN
    /\ orders \in 0..MaxOrders /\ faults \in 0..MaxFaults /\ crashes \in 0..MaxCrashes
    /\ strays \subseteq Strays

Init ==
    /\ avail = Holding
    /\ order = "none" /\ side = "buy" /\ placed = FALSE /\ ended = "none"
    /\ known = FALSE /\ bal = 0 /\ gate = FALSE
    /\ stored = FALSE /\ stock = 0
    /\ poll = "idle" /\ val = 0 /\ late = FALSE
    /\ orders = 0 /\ faults = 0 /\ crashes = 0
    /\ strays = {}

Stray(what) == strays' = strays \cup what

Fault == faults < MaxFaults /\ faults' = faults + 1 /\ UNCHANGED <<orders, crashes>>

-----------------------------------------------------------------------------
(* The Position's commands.                                                *)

(* PlaceOffChainOrder.  Another task's reaction to the last order's end    *)
(* may not have run yet.                                                   *)
Place(s) ==
    /\ order = "none" /\ ~placed /\ orders < MaxOrders
    /\ order' = "claimed" /\ side' = s /\ placed' = TRUE
    /\ orders' = orders + 1
    /\ Stray(IF ended # "none" THEN {"overtaken"} ELSE {})
    /\ UNCHANGED <<avail, ended, viewVars, snapshotVars, pollVars, faults, crashes>>

Ends(how) == order' = "none" /\ ended = "none" /\ ended' = how

(* CompleteOffChainOrder                                                   *)
CompleteOrder ==
    /\ order = "filled" /\ Ends(side)
    /\ UNCHANGED <<avail, side, placed, viewVars, snapshotVars, pollVars, envVars, strays>>

(* FailOrder that keeps the claim of an order the broker never took.       *)
FailsAcceptedOnly ==
    /\ order = "dead"
    /\ Ends("failed")
    /\ UNCHANGED <<avail, side, placed, viewVars, snapshotVars, pollVars, envVars, strays>>

(* FailOffChainOrder, CancelOffChainOrder: an order that ended at the      *)
(* broker without a fill, or that the broker never took.                   *)
FailOrder ==
    /\ order = "dead" \/ (order = "claimed" /\ ~placed)
    /\ Ends("failed")
    /\ UNCHANGED <<avail, side, placed, viewVars, snapshotVars, pollVars, envVars, strays>>

-----------------------------------------------------------------------------
(* The broker.  qty_available loses the shares of a sell when the order is *)
(* accepted and gains those of a buy when it is executed.                  *)

Accept ==
    /\ order = "claimed" /\ ~placed
    /\ order' = "open"
    /\ \/ side = "buy" /\ UNCHANGED avail
       \/ side = "sell" /\ avail > 0 /\ avail' = avail - 1
    /\ UNCHANGED <<side, placed, ended, viewVars, snapshotVars, pollVars, envVars, strays>>

Execute ==
    /\ order = "open" /\ order' = "filled"
    /\ avail' = IF side = "buy" THEN avail + 1 ELSE avail
    /\ UNCHANGED <<side, placed, ended, viewVars, snapshotVars, pollVars, envVars, strays>>

Expire ==
    /\ order = "open" /\ order' = "dead"
    /\ avail' = IF side = "sell" THEN avail + 1 ELSE avail
    /\ UNCHANGED <<side, placed, ended, viewVars, snapshotVars, pollVars, envVars, strays>>

-----------------------------------------------------------------------------
(* The reactions to the Position's events.                                 *)

(* mark_offchain_order_pending                                             *)
ReactPlaced ==
    /\ placed /\ placed' = FALSE
    /\ gate' = TRUE
    /\ UNCHANGED <<avail, order, side, ended, known, bal, snapshotVars, pollVars, envVars, strays>>

(* Insufficient that is never seen: remove_available without its check.    *)
NeverInsufficient == FALSE

(* remove_available of a balance that is too small is an error.            *)
Insufficient == ended = "sell" /\ bal = 0

(* The delta, the gate and the time of the fill in one critical section.   *)
ReactFilled ==
    /\ ended \in Sides /\ ~Insufficient
    /\ known' = TRUE
    /\ bal' = IF ended = "buy" THEN bal + 1 ELSE bal - 1
    /\ gate' = FALSE /\ ended' = "none"
    /\ late' = (poll # "idle")
    /\ Stray(IF known THEN {} ELSE {"blind"})
    /\ UNCHANGED <<avail, order, side, placed, snapshotVars, poll, val, envVars>>

(* The update fails, for want of shares or of cash in the mirror; the gate *)
(* opens all the same and no time is recorded.                             *)
ReactFilledFails ==
    /\ \/ ended \in Sides /\ Insufficient /\ UNCHANGED envVars
       \/ ended = "buy" /\ Fault
    /\ gate' = FALSE /\ ended' = "none"
    /\ Stray({"fault"})
    /\ UNCHANGED <<avail, order, side, placed, known, bal, snapshotVars, pollVars>>

ReactEnded ==
    /\ ended = "failed" /\ ended' = "none"
    /\ gate' = FALSE
    /\ Stray(IF poll \in {"read", "committed"} THEN {"unfilled"} ELSE {})
    /\ UNCHANGED <<avail, order, side, placed, known, bal, snapshotVars, pollVars, envVars>>

-----------------------------------------------------------------------------
(* The poller.                                                             *)

(* fetched_at is taken before the broker is asked.                         *)
BeginPoll ==
    /\ poll = "idle" /\ poll' = "begun" /\ late' = FALSE
    /\ UNCHANGED <<avail, positionVars, viewVars, snapshotVars, val, envVars, strays>>

ReadBroker ==
    /\ poll = "begun" /\ poll' = "read" /\ val' = avail
    /\ UNCHANGED <<avail, positionVars, viewVars, snapshotVars, late, envVars, strays>>

PollFails ==
    /\ poll = "begun" /\ poll' = "idle" /\ late' = FALSE
    /\ UNCHANGED <<avail, positionVars, viewVars, snapshotVars, val, envVars, strays>>

(* RecordSnapshot that takes fetched_at when the command is handled.       *)
StampedWhenRecorded ==
    /\ poll = "read" /\ late' = FALSE
    /\ \/ stored /\ stock = val /\ poll' = "idle" /\ UNCHANGED snapshotVars
       \/ /\ ~stored \/ stock # val
          /\ stored' = TRUE /\ stock' = val
          /\ poll' = "committed"
    /\ UNCHANGED <<avail, positionVars, viewVars, val, envVars, strays>>

(* The OffchainEquity command: no event when nothing changed.              *)
RecordSnapshot ==
    /\ poll = "read"
    /\ \/ stored /\ stock = val /\ poll' = "idle" /\ late' = FALSE /\ UNCHANGED snapshotVars
       \/ /\ ~stored \/ stock # val
          /\ stored' = TRUE /\ stock' = val
          /\ poll' = "committed" /\ UNCHANGED late
    /\ UNCHANGED <<avail, positionVars, viewVars, val, envVars, strays>>

(* equity_snapshot_would_apply, for one poller and nothing in flight.      *)
WouldApply == ~gate /\ ~late

ReactSnapshot ==
    /\ poll = "committed" /\ poll' = "idle" /\ late' = FALSE
    /\ \/ WouldApply /\ known' = TRUE /\ bal' = val
       \/ ~WouldApply /\ UNCHANGED <<known, bal>>
    /\ UNCHANGED <<avail, positionVars, gate, snapshotVars, val, envVars, strays>>

(* reset_preserving_offchain_order_state: a gated balance stays.           *)
Reset == IF gate THEN UNCHANGED <<known, bal>> ELSE known' = FALSE /\ bal' = 0

(* on_snapshot_recovery of this snapshot: forced, but for a gated symbol.  *)
ForceSnapshot ==
    /\ poll = "committed" /\ poll' = "idle" /\ late' = FALSE
    /\ Fault /\ Stray({"fault"})
    /\ IF gate THEN UNCHANGED <<known, bal>> ELSE known' = TRUE /\ bal' = val
    /\ UNCHANGED <<avail, positionVars, gate, snapshotVars, val>>

(* on_snapshot_recovery of another snapshot, which fails again.            *)
ForceOther ==
    /\ Fault /\ Stray({"fault"})
    /\ Reset
    /\ UNCHANGED <<avail, positionVars, gate, snapshotVars, pollVars>>

-----------------------------------------------------------------------------
(* Restart that seeds no gate.                                             *)
RestartUngated ==
    /\ crashes < MaxCrashes /\ crashes' = crashes + 1
    /\ placed' = FALSE /\ ended' = "none"
    /\ known' = stored /\ bal' = stock
    /\ gate' = FALSE
    /\ poll' = "idle" /\ late' = FALSE
    /\ Stray({"crash"})
    /\ UNCHANGED <<avail, order, side, snapshotVars, val, orders, faults>>

(* A crash, and restore_inventory_at_boot: the view is hydrated from the   *)
(* snapshot aggregate, then the gate is seeded from the Positions.         *)
Restart ==
    /\ crashes < MaxCrashes /\ crashes' = crashes + 1
    /\ placed' = FALSE /\ ended' = "none"
    /\ known' = stored /\ bal' = stock
    /\ gate' = (order # "none")
    /\ poll' = "idle" /\ late' = FALSE
    /\ Stray({"crash"})
    /\ UNCHANGED <<avail, order, side, snapshotVars, val, orders, faults>>

-----------------------------------------------------------------------------
Broker   == Accept \/ Execute \/ Expire
Settle   == CompleteOrder \/ FailOrder
React    == ReactPlaced \/ ReactFilled \/ ReactFilledFails \/ ReactEnded
Snapshot == BeginPoll \/ ReadBroker \/ PollFails \/ RecordSnapshot \/ ReactSnapshot
            \/ ForceSnapshot \/ ForceOther

Next == (\E s \in Sides : Place(s)) \/ Broker \/ Settle \/ React \/ Snapshot \/ Restart

Spec == Init /\ [][Next]_vars

(* Reactors run, orders at the broker end, and their end is seen.          *)
FairSpec == Spec /\ WF_vars(React) /\ WF_vars(Broker) /\ WF_vars(Settle)

-----------------------------------------------------------------------------
(* While the Position has an order the view refuses snapshots, and only    *)
(* then, through fills, failures, recoveries of the view and restarts; but *)
(* not when a reaction is overtaken by the next order's.                   *)
GateFollowsOrder ==
    ~placed /\ ended = "none" /\ "overtaken" \notin strays => (gate <=> order # "none")

(* Whatever the poller does in between, between orders the view has the    *)
(* broker's balance: no snapshot undoes a fill and none brings one in that *)
(* its own reaction adds again.                                            *)
MirrorExact ==
    order = "none" /\ ended = "none" /\ strays = {} /\ known => bal = avail

(* The gate opens again, also when the fill could not be applied or the    *)
(* broker never took the order; a closed gate would stop the symbol's      *)
(* rebalancing until the next restart.                                     *)
GateReleased == gate ~> ~gate

=============================================================================
