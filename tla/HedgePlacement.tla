---------------------------- MODULE HedgePlacement ----------------------------
(***************************************************************************)
(* Hedging the net position of one symbol at the broker.                   *)
(*                                                                         *)
(* The Position's claim (pending_offchain_order_id), the OffchainOrder     *)
(* aggregates and the broker share no transaction.  Three placers (the     *)
(* accounting worker's inline path, the PlaceHedge worker, the             *)
(* CheckPositions scan) claim the position, record the order, call the     *)
(* broker and commit its answer, serialized by the submission lock except  *)
(* where the code takes none.  The poll, reconcile and rejection workers   *)
(* and the scan's sweeps carry the broker's verdict back.  What holds this *)
(* together when an answer is lost is the client_order_id: the broker      *)
(* refuses a key it has seen, and the Position remembers the key of a      *)
(* failed attempt (the anchor) until a fill or a cancellation clears it.   *)
(*                                                                         *)
(* Every action is one store command or one broker call.  A load that is   *)
(* followed by a command is one step with it wherever the loaded fact is   *)
(* stable: terminal orders never change.  Shares are signed, a positive    *)
(* number is sold; a recorded fill is a magnitude in the order's own       *)
(* direction.                                                              *)
(***************************************************************************)
EXTENDS Integers, FiniteSets

CONSTANTS
    Orders,       \* OffchainOrderIds; an id nothing refers to any more stands
                  \* for a new one
    None,
    FillSizes,    \* signed sizes of onchain fills
    MaxShares,    \* the operational_limit on the shares of one order
    MaxNet,       \* bound on the net position up to which fills arrive
    MaxFills,     \* bound on onchain fills
    Threshold,    \* execution threshold, in shares
    Sessions,     \* market sessions that occur
    RetryHedges,  \* whether a PlaceHedge row whose attempt failed or was cut off is
                  \* run again, as the job queue does
    MayCancel,    \* whether orders are cancelled that the bot did not ask to
                  \* cancel, from the broker's dashboard or by the broker
    MayLackPrice, \* whether the broker may report a fill without its price
    MaxFaults     \* bound on crashes, failed calls and broker-side failures

Placers == {"accountant", "hedge", "scan"}
Workers == {"poll", "reconcile", "reject"}

ASSUME HedgePlacementAssumption ==
    /\ None \notin Orders \cup Placers
    /\ FillSizes \subseteq Int
    /\ MaxShares \in Nat \ {0}
    /\ MaxNet \in Nat
    /\ MaxFills \in Nat
    /\ Threshold \in Nat \ {0}
    /\ Sessions \subseteq {"Regular", "Extended", "Closed"}
    /\ RetryHedges \in BOOLEAN
    /\ MayCancel \in BOOLEAN
    /\ MayLackPrice \in BOOLEAN
    /\ MaxFaults \in Nat

VARIABLES
    net, pending, anchor,  \* Position: net, pending_offchain_order_id,
                           \* last_failed_offchain_order_id
    credited,     \* shares of OffChainOrderFilled events per executor_order_id
    order,        \* the OffchainOrder aggregates
    broker,       \* the broker's orders, by client_order_id
    wire,         \* placement requests whose caller already got an error
    hedges,       \* PlaceHedge rows: hedges[o] are the shares, 0 without a row
    polls, reconciles, rejections,  \* rows of the other queues, by order
    placer,       \* the placers' program counters and locals
    lock,         \* counter_trade_submission_lock
    worker,       \* the poll, reconcile and rejection workers
    session, up, fills, faults,
    stray         \* history: a retried PlaceHedge row has claimed under a spent id,
                  \* or driven its order without the submission lock

positionVars == <<net, pending, anchor, credited>>
brokerVars   == <<broker, wire>>
queueVars    == <<hedges, polls, reconciles, rejections>>
envVars      == <<session, up, fills, faults, stray>>
vars == <<positionVars, order, brokerVars, queueVars, placer, lock, worker, envVars>>

Live     == {"Submitted", "PartiallyFilled", "Cancelling"}
Terminal == {"Filled", "Failed", "Cancelled"}

Absent   == [state |-> "absent", shares |-> 0, fill |-> 0, ref |-> None, ext |-> FALSE]
NoOrder  == [state |-> "none", shares |-> 0, fill |-> 0, ext |-> FALSE]
Idle     == [step |-> "idle", order |-> None, shares |-> 0, ext |-> FALSE,
             key |-> None, accepted |-> FALSE, job |-> None]
Resting  == [step |-> "idle", order |-> None, seen |-> NoOrder]

Abs(n)  == IF n < 0 THEN -n ELSE n
Sign(n) == IF n < 0 THEN -1 ELSE 1

Amounts == -MaxShares..MaxShares

TypeOK ==
    /\ net \in Int
    /\ pending \in Orders \cup {None}
    /\ anchor \in Orders \cup {None}
    /\ credited \in [Orders -> Int]
    /\ order \in [Orders -> [state : {"absent", "Pending"} \cup Live \cup Terminal,
                             shares : Amounts, fill : 0..MaxShares,
                             ref : Orders \cup {None}, ext : BOOLEAN]]
    /\ broker \in [Orders -> [state : {"none", "live", "filled", "failed", "cancelled"},
                              shares : Amounts, fill : 0..MaxShares, ext : BOOLEAN]]
    /\ wire \subseteq [key : Orders, shares : Amounts, ext : BOOLEAN]
    /\ hedges \in [Orders -> Amounts]
    /\ polls \subseteq Orders /\ reconciles \subseteq Orders /\ rejections \subseteq Orders
    /\ placer \in [Placers -> [step : {"idle", "reconcile", "clear", "ready", "claim",
                                       "recover", "intent", "broker", "commit", "route",
                                       "cancel", "catchup", "enqueue"},
                               order : Orders \cup {None}, shares : Amounts, ext : BOOLEAN,
                               key : Orders \cup {None}, accepted : BOOLEAN,
                               job : Orders \cup {None}]]
    /\ lock \in Placers \cup {None}
    /\ worker \in [Workers -> [step : {"idle", "record", "dispatch", "position"},
                               order : Orders \cup {None},
                               seen : [state : {"none", "live", "filled", "failed", "cancelled"},
                                       shares : Amounts, fill : 0..MaxShares, ext : BOOLEAN]]]
    /\ session \in Sessions
    /\ up \in {"down", "boot", "up"}
    /\ fills \in 0..MaxFills
    /\ faults \in 0..MaxFaults
    /\ stray \in BOOLEAN

Init ==
    /\ net = 0 /\ pending = None /\ anchor = None
    /\ credited = [o \in Orders |-> 0]
    /\ order = [o \in Orders |-> Absent]
    /\ broker = [o \in Orders |-> NoOrder]
    /\ wire = {}
    /\ hedges = [o \in Orders |-> 0]
    /\ polls = {} /\ reconciles = {} /\ rejections = {}
    /\ placer = [p \in Placers |-> Idle]
    /\ lock = None
    /\ worker = [w \in Workers |-> Resting]
    /\ session \in Sessions
    /\ up = "up"
    /\ fills = 0
    /\ faults = 0
    /\ stray = FALSE

Fault == faults < MaxFaults /\ faults' = faults + 1

-----------------------------------------------------------------------------
(* Commands of the Position.  Each is rejected unless o holds the claim    *)
(* (validate_pending_execution).                                           *)

CompleteOffChainOrder(o, shares) ==
    /\ net' = net - shares
    /\ pending' = None
    /\ anchor' = None
    /\ credited' = [credited EXCEPT ![order[o].ref] = @ + shares]

FailForgettingTheKey(o) ==
    /\ pending' = None
    /\ UNCHANGED <<net, anchor, credited>>

(* The first failed attempt of a chain stays the anchor.                   *)
FailOffChainOrder(o) ==
    /\ pending' = None
    /\ anchor' = IF anchor = None THEN o ELSE anchor
    /\ UNCHANGED <<net, credited>>

CancelOffChainOrder ==
    /\ pending' = None
    /\ anchor' = None
    /\ UNCHANGED <<net, credited>>

(* terminal_position_finalization: what a terminal order means for the     *)
(* position that it has claimed.                                           *)
Finalize(o) ==
    LET done == order[o] IN
    CASE done.state = "Filled" -> CompleteOffChainOrder(o, done.shares)
      [] done.state # "Filled" /\ done.fill > 0 ->
             CompleteOffChainOrder(o, Sign(done.shares) * done.fill)
      [] done.state = "Cancelled" /\ done.fill = 0 -> CancelOffChainOrder
      [] done.state = "Failed" /\ done.fill = 0 -> FailOffChainOrder(o)

(* PlaceOffChainOrder: one claim at a time, and only above the threshold.  *)
MeetsThreshold == Abs(net) >= Threshold

OwnIdAsKey(o) == o

(* client_order_id_for_placement.                                          *)
ClientOrderId(o) == IF anchor = None THEN o ELSE anchor

-----------------------------------------------------------------------------
(* Commands of the OffchainOrder.                                          *)

Larger(a, b) == IF a > b THEN a ELSE b

(* Place records intent; a replay changes nothing.                         *)
Place(o, shares) ==
    order' = IF order[o].state = "absent"
             THEN [order EXCEPT ![o] = [Absent EXCEPT !.state = "Pending", !.shares = shares]]
             ELSE order

(* The quantity and the session terms are those of the broker's order, the *)
(* direction is the one requested.                                         *)
MarkAccepted(o, key) ==
    order' = IF order[o].state = "Pending"
             THEN [order EXCEPT ![o] =
                     [order[o] EXCEPT !.state = "Submitted", !.ref = key,
                                      !.shares = Sign(order[o].shares) * Abs(broker[key].shares),
                                      !.ext = broker[key].ext]]
             ELSE order

MarkPlacementFailed(o) ==
    order' = IF order[o].state = "Pending"
             THEN [order EXCEPT ![o].state = "Failed"] ELSE order

AddPartialFill(o, fill) ==
    order' = [order EXCEPT ![o].fill = @ + fill]

(* UpdatePartialFill: cumulative fills never move backwards.               *)
UpdatePartialFill(o, fill) ==
    order' = IF fill > order[o].fill
             THEN [order EXCEPT ![o] =
                     [order[o] EXCEPT !.fill = fill,
                                      !.state = IF order[o].state = "Cancelling"
                                                THEN "Cancelling" ELSE "PartiallyFilled"]]
             ELSE order

(* CancelOrder reads the broker's state first: an order that ended there   *)
(* ends here with its fill, a live one is asked to stop.                   *)
CancelOrder(o) ==
    LET at == broker[order[o].ref] IN
    order' = [order EXCEPT ![o] =
        [order[o] EXCEPT
            !.fill = Larger(order[o].fill, IF at.state = "filled" THEN 0 ELSE at.fill),
            !.state = CASE at.state = "filled"    -> "Filled"
                        [] at.state = "failed"    -> "Failed"
                        [] at.state = "cancelled" -> "Cancelled"
                        [] at.state = "live"      -> "Cancelling"]]

-----------------------------------------------------------------------------
(* Placements.  A minted id is one that no row, process, claim, anchor,    *)
(* live order or request on the wire mentions and whose execution, if it   *)
(* had one, is in the position.                                            *)

Fresh(o) ==
    /\ o \notin {pending, anchor}
    /\ hedges[o] = 0
    /\ o \notin polls \cup reconciles \cup rejections
    /\ \A p \in Placers : o \notin {placer[p].order, placer[p].key, placer[p].job}
    /\ \A w \in Workers : worker[w].order # o
    /\ \A r \in wire : r.key # o
    /\ \A q \in Orders \ {o} : order[q].ref # o
    /\ order[o].state \in {"absent"} \cup Terminal
    /\ broker[o].state # "live" /\ Abs(credited[o]) = broker[o].fill

Mint(o) ==
    /\ Fresh(o)
    /\ order' = [order EXCEPT ![o] = Absent]
    /\ broker' = [broker EXCEPT ![o] = NoOrder]
    /\ credited' = [credited EXCEPT ![o] = 0]

(* is_ready_for_execution, with the preflight's clamp of a sale to the     *)
(* shares held.                                                            *)
Ready == pending = None /\ MeetsThreshold

HedgeShares ==
    LET cap == IF Abs(net) > MaxShares THEN MaxShares ELSE Abs(net) IN
    IF net > 0 THEN 1..cap ELSE {-cap}

Running(p) == up = "up" \/ (up = "boot" /\ p = "scan")
At(p, step) == Running(p) /\ placer[p].step = step
Goto(p, step) == placer' = [placer EXCEPT ![p].step = step]
Release(p) == lock' = IF lock = p THEN None ELSE lock

(* The end of a placement: the scan goes on to its catch-up, the hedge job *)
(* is done with its row.                                                   *)
Leave(p) ==
    /\ placer' = [placer EXCEPT ![p] = IF p = "scan" THEN [Idle EXCEPT !.step = "catchup"]
                                                     ELSE Idle]
    /\ Release(p)

DropRow(job) == hedges' = [o \in Orders |-> IF o = job THEN 0 ELSE hedges[o]]

Finish(p) == Leave(p) /\ DropRow(placer[p].job)

(* A failed attempt: the row of a hedge job stays and is retried.          *)
Retry(p) == IF RetryHedges THEN UNCHANGED hedges ELSE DropRow(placer[p].job)

GiveUp(p) == Leave(p) /\ Retry(p)

(* dispatch_post_place_state and route_placement_outcome.                  *)
PostPlaceFails(o) ==
    \/ order[o].state \in {"Pending", "Filled"}
    \/ order[o].state \in {"absent", "Failed", "Cancelled"} /\ pending # o

PostPlace(o) ==
    /\ ~PostPlaceFails(o)
    /\ polls' = IF order[o].state \in Live THEN polls \cup {o} ELSE polls
    /\ CASE order[o].state \in Live -> UNCHANGED positionVars
         [] order[o].state \in {"absent", "Failed"} -> FailOffChainOrder(o)
         [] order[o].state = "Cancelled" -> Finalize(o)

-----------------------------------------------------------------------------
(* The accounting worker: process_queued_trade after the fill is recorded. *)

OnchainFill(d) ==
    /\ At("accountant", "idle")
    /\ fills < MaxFills
    /\ Abs(net + d) <= MaxNet
    /\ fills' = fills + 1
    /\ net' = net + d
    /\ Goto("accountant", "reconcile")
    /\ UNCHANGED <<pending, anchor, credited, order, brokerVars, queueVars, lock, worker,
                   session, up, faults, stray>>

(* reconcile_existing_pending_order, without the submission lock.  That    *)
(* the order is absent may have changed by the time its claim is failed.   *)
ReconcileExisting ==
    /\ At("accountant", "reconcile")
    /\ \/ /\ pending = None
          /\ Goto("accountant", "ready")
          /\ UNCHANGED <<positionVars, polls>>
       \/ /\ pending # None /\ order[pending].state = "absent"
          /\ placer' = [placer EXCEPT !["accountant"].step = "clear",
                                      !["accountant"].order = pending]
          /\ UNCHANGED <<positionVars, polls>>
       \/ /\ pending # None /\ order[pending].state \in {"Failed", "Cancelled"}
          /\ PostPlace(pending)
          /\ Goto("accountant", "ready")
       \/ /\ pending # None /\ order[pending].state \in Live
          /\ PostPlace(pending)
          /\ Goto("accountant", "idle")
       \/ /\ pending # None /\ order[pending].state \in {"Pending", "Filled"}
          /\ Goto("accountant", "idle")
          /\ UNCHANGED <<positionVars, polls>>
    /\ UNCHANGED <<order, brokerVars, hedges, reconciles, rejections, lock, worker, envVars>>

ClearAbsent ==
    LET o == placer["accountant"].order IN
    /\ At("accountant", "clear")
    /\ IF pending = o
       THEN /\ FailOffChainOrder(o)
            /\ placer' = [placer EXCEPT !["accountant"] = [Idle EXCEPT !.step = "ready"]]
       ELSE /\ placer' = [placer EXCEPT !["accountant"] = Idle]
            /\ UNCHANGED positionVars
    /\ UNCHANGED <<order, brokerVars, queueVars, lock, worker, envVars>>

(* check_execution_readiness; extended hours go through a PlaceHedge row.  *)
CheckReadiness ==
    /\ At("accountant", "ready")
    /\ \/ /\ ~Ready \/ session = "Closed"
          /\ Goto("accountant", "idle")
          /\ UNCHANGED <<credited, order, broker, hedges>>
       \/ /\ Ready /\ session = "Extended" /\ lock = None
          /\ \E o \in Orders, n \in HedgeShares :
                Mint(o) /\ hedges' = [hedges EXCEPT ![o] = n]
          /\ Goto("accountant", "idle")
       \/ /\ Ready /\ session = "Regular"
          /\ \E n \in HedgeShares :
                placer' = [placer EXCEPT !["accountant"].step = "claim",
                                         !["accountant"].shares = n]
          /\ UNCHANGED <<credited, order, broker, hedges>>
    /\ UNCHANGED <<net, pending, anchor, wire, polls, reconciles, rejections, lock,
                   worker, envVars>>

-----------------------------------------------------------------------------
(* PlaceHedge reads the session first; outside it only recovers its order, *)
(* and that without the lock.                                              *)
HedgeStart(o) ==
    /\ At("hedge", "idle")
    /\ hedges[o] # 0
    /\ placer' = [placer EXCEPT !["hedge"] =
                    [Idle EXCEPT !.job = o, !.order = o, !.shares = hedges[o],
                                 !.ext = (session = "Extended"),
                                 !.step = IF session = "Closed" THEN "recover" ELSE "claim"]]
    /\ UNCHANGED <<positionVars, order, brokerVars, queueVars, lock, worker, envVars>>

(* An id that the books or the broker know and that is not the anchor.     *)
Spent(o) == anchor # o /\ (order[o].state # "absent" \/ broker[o].state # "none")

(* PlaceOffChainOrder under the submission lock.                           *)
Claim(p) ==
    /\ p \in {"accountant", "hedge"} /\ At(p, "claim")
    /\ lock = None
    /\ \/ /\ pending # None
          /\ lock' = p
          /\ placer' = [placer EXCEPT ![p].step = "recover", ![p].order = pending]
          /\ UNCHANGED <<positionVars, order, broker, hedges, stray>>
       \/ /\ pending = None /\ ~MeetsThreshold
          /\ Finish(p)
          /\ UNCHANGED <<positionVars, order, broker, stray>>
       \/ /\ Ready
          /\ lock' = p
          /\ \/ /\ p = "hedge"
                /\ pending' = placer[p].job
                /\ IF Spent(placer[p].job) THEN stray' = TRUE ELSE UNCHANGED stray
                /\ Goto(p, "intent")
                /\ UNCHANGED <<credited, order, broker>>
             \/ /\ p = "accountant"
                /\ \E o \in Orders :
                     /\ Mint(o)
                     /\ pending' = o
                     /\ placer' = [placer EXCEPT ![p].step = "intent", ![p].order = o]
                /\ UNCHANGED stray
          /\ UNCHANGED <<net, anchor, hedges>>
    /\ UNCHANGED <<wire, polls, reconciles, rejections, worker, session, up, fills, faults>>

(* recover_claimed_offchain_order, recover_pending_poll_status and         *)
(* recover_orphaned_pending_offchain_orders.                               *)
Redrive(p, o, ext) ==
    /\ placer' = [placer EXCEPT ![p].step = "intent", ![p].order = o,
                                ![p].shares = order[o].shares, ![p].ext = ext]
    /\ UNCHANGED <<positionVars, polls, hedges>>

RecoverClaimed(p) ==
    /\ p \in {"accountant", "scan"} /\ At(p, "recover")
    /\ IF p = "scan" THEN lock = None ELSE lock = p
    /\ \/ /\ pending # None /\ order[pending].state = "Pending"
          /\ Redrive(p, pending, FALSE)
          /\ lock' = p
       \/ /\ pending = None
          /\ Finish(p)
          /\ UNCHANGED <<positionVars, polls>>
       \/ /\ pending # None /\ order[pending].state \in Terminal
          /\ Finalize(pending)
          /\ Finish(p)
          /\ UNCHANGED polls
       \/ /\ pending # None /\ order[pending].state = "absent"
          /\ FailOffChainOrder(pending)
          /\ Finish(p)
          /\ UNCHANGED polls
       \/ /\ pending # None /\ order[pending].state \in Live
          /\ polls' = IF p = "scan" THEN polls ELSE polls \cup {pending}
          /\ Finish(p)
          /\ UNCHANGED positionVars
    /\ UNCHANGED <<order, brokerVars, reconciles, rejections, worker, envVars>>

RecoverHedge ==
    LET o == placer["hedge"].order IN
    /\ At("hedge", "recover")
    /\ \/ /\ order[o].state = "Pending" /\ session # "Closed"
          /\ Redrive("hedge", o, session = "Extended")
          /\ IF lock # "hedge" THEN stray' = TRUE ELSE UNCHANGED stray
          /\ UNCHANGED lock
       \/ /\ order[o].state # "Pending" \/ session = "Closed"
          /\ polls' = IF order[o].state \in Live THEN polls \cup {o} ELSE polls
          /\ Finish("hedge")
          /\ UNCHANGED <<positionVars, stray>>
    /\ UNCHANGED <<order, brokerVars, reconciles, rejections, worker, session, up, fills,
                   faults>>

-----------------------------------------------------------------------------
(* place_offchain_order_at_broker: intent, broker call, outcome, routing.  *)

RecordIntent(p) ==
    LET o == placer[p].order IN
    /\ At(p, "intent")
    /\ Place(o, placer[p].shares)
    /\ placer' = [placer EXCEPT ![p].key = ClientOrderId(o),
                                ![p].step = IF order[o].state \in {"absent", "Pending"}
                                            THEN "broker" ELSE "route"]
    /\ UNCHANGED <<positionVars, brokerVars, queueVars, lock, worker, envVars>>

Request(p) == [key |-> placer[p].key, shares |-> order[placer[p].order].shares,
               ext |-> placer[p].ext]

(* The broker: a key it has recorded names the order that it already has.  *)
Receive(r) ==
    broker' = IF broker[r.key].state = "none"
              THEN [broker EXCEPT ![r.key] = [state |-> "live", shares |-> r.shares,
                                              fill |-> 0, ext |-> r.ext]]
              ELSE broker

BrokerAccepts(p) ==
    /\ At(p, "broker")
    /\ Receive(Request(p))
    /\ placer' = [placer EXCEPT ![p].step = "commit", ![p].accepted = TRUE]
    /\ UNCHANGED <<positionVars, order, wire, queueVars, lock, worker, envVars>>

(* The call ends in an error: the broker refused the request, or it is     *)
(* still on its way.                                                       *)
BrokerErrs(p) ==
    /\ At(p, "broker")
    /\ Fault
    /\ wire' \in {wire, wire \cup {Request(p)}}
    /\ placer' = [placer EXCEPT ![p].step = "commit", ![p].accepted = FALSE]
    /\ UNCHANGED <<positionVars, order, broker, queueVars, lock, worker, session, up,
                   fills, stray>>

LateArrival(r) ==
    /\ wire' = wire \ {r}
    /\ Receive(r)
    /\ UNCHANGED <<positionVars, order, queueVars, placer, lock, worker, envVars>>

CommitOutcome(p) ==
    LET o == placer[p].order IN
    /\ At(p, "commit")
    /\ IF placer[p].accepted THEN MarkAccepted(o, placer[p].key) ELSE MarkPlacementFailed(o)
    /\ Goto(p, "route")
    /\ UNCHANGED <<positionVars, brokerVars, queueVars, lock, worker, envVars>>

RoutePlacement(p) ==
    LET o == placer[p].order IN
    /\ At(p, "route")
    /\ \/ /\ p # "scan" /\ PostPlace(o)
          /\ Finish(p)
       \/ /\ p # "scan" /\ PostPlaceFails(o)
          /\ GiveUp(p)
          /\ UNCHANGED <<positionVars, polls>>
       \/ /\ p = "scan"
          /\ IF order[o].state = "Failed" /\ pending = o
             THEN FailOffChainOrder(o) ELSE UNCHANGED positionVars
          /\ Finish(p)
          /\ UNCHANGED polls
    /\ UNCHANGED <<order, brokerVars, reconciles, rejections, worker, envVars>>

-----------------------------------------------------------------------------
(* CheckPositions: finalize, cancel, recover, catch up, enqueue.           *)

FinalizeTerminalPending ==
    /\ At("scan", "idle") /\ up = "up"
    /\ IF pending # None /\ order[pending].state \in Terminal
       THEN Finalize(pending) ELSE UNCHANGED positionVars
    /\ Goto("scan", "cancel")
    /\ UNCHANGED <<order, brokerVars, queueVars, lock, worker, envVars>>

(* An extended-hours order still open in a regular session.                *)
CancellationDue ==
    /\ session = "Regular"
    /\ pending # None
    /\ order[pending].state \in {"Submitted", "PartiallyFilled"}
    /\ order[pending].ext

RequestCancellation ==
    /\ At("scan", "cancel")
    /\ IF CancellationDue THEN CancelOrder(pending) ELSE UNCHANGED order
    /\ Goto("scan", "recover")
    /\ UNCHANGED <<positionVars, brokerVars, queueVars, lock, worker, envVars>>

(* The broker cannot be read, reports a fill without a price or refuses    *)
(* the request: the order stays as it is and the next scan asks again.     *)
CancellationFails ==
    /\ At("scan", "cancel")
    /\ CancellationDue
    /\ Fault
    /\ Goto("scan", "recover")
    /\ UNCHANGED <<positionVars, order, brokerVars, queueVars, lock, worker, session, up,
                   fills, stray>>

CatchUpNothing ==
    /\ At("scan", "catchup")
    /\ up' = "up"
    /\ Goto("scan", IF up = "boot" THEN "idle" ELSE "enqueue")
    /\ UNCHANGED <<positionVars, order, brokerVars, queueVars, lock, worker, session,
                   fills, faults, stray>>

(* recover_submitted_offchain_orders; it also ends the startup sequence.   *)
CatchUpPolls ==
    /\ At("scan", "catchup")
    /\ polls' = polls \cup {o \in Orders : order[o].state \in Live}
    /\ up' = "up"
    /\ Goto("scan", IF up = "boot" THEN "idle" ELSE "enqueue")
    /\ UNCHANGED <<positionVars, order, brokerVars, hedges, reconciles, rejections, lock,
                   worker, session, fills, faults, stray>>

EnqueueHedge ==
    /\ At("scan", "enqueue")
    /\ Goto("scan", "idle")
    /\ \/ /\ Ready /\ session # "Closed"
          /\ \E o \in Orders, n \in HedgeShares :
                Mint(o) /\ hedges' = [hedges EXCEPT ![o] = n]
       \/ /\ ~Ready \/ session = "Closed" \/ ~\E o \in Orders : Fresh(o)
          /\ UNCHANGED <<credited, order, broker, hedges>>
    /\ UNCHANGED <<net, pending, anchor, wire, polls, reconciles, rejections, lock,
                   worker, envVars>>

-----------------------------------------------------------------------------
(* The poll, reconcile and rejection workers.                              *)

Rest(w) == worker' = [worker EXCEPT ![w] = Resting]

Queue(w) == CASE w = "poll" -> polls [] w = "reconcile" -> reconciles
              [] w = "reject" -> rejections

Dequeue(w, o) ==
    /\ polls' = IF w = "poll" THEN polls \ {o} ELSE polls
    /\ reconciles' = IF w = "reconcile" THEN reconciles \ {o} ELSE reconciles
    /\ rejections' = IF w = "reject" THEN rejections \ {o} ELSE rejections

Take(w, o) == up = "up" /\ worker[w].step = "idle" /\ o \in Queue(w)

Advance(w, o, step) == worker' = [worker EXCEPT ![w].step = step, ![w].order = o]

PollStart(o) ==
    /\ Take("poll", o)
    /\ \/ /\ order[o].state \in {"absent", "Filled", "Failed"}
          /\ Dequeue("poll", o)
          /\ UNCHANGED worker
       \/ /\ order[o].state = "Cancelled"
          /\ Advance("poll", o, "position")
          /\ UNCHANGED <<polls, reconciles, rejections>>
       \/ /\ order[o].state \in Live
          /\ LET seen == broker[order[o].ref] IN
             worker' = [worker EXCEPT !["poll"] =
                          [step  |-> IF seen.fill = 0 \/ seen.state = "filled"
                                     THEN "dispatch" ELSE "record",
                           order |-> o, seen |-> seen]]
          /\ UNCHANGED <<polls, reconciles, rejections>>
    /\ UNCHANGED <<positionVars, order, brokerVars, hedges, placer, lock, envVars>>

(* record_partial_fill; a fill without a price is skipped while the order  *)
(* is live and ends the polling when the broker's order has ended.         *)
PollRecord ==
    LET o == worker["poll"].order  seen == worker["poll"].seen IN
    /\ up = "up" /\ worker["poll"].step = "record"
    /\ \/ /\ order[o].state \in Terminal
          /\ Rest("poll")
          /\ UNCHANGED <<order, polls, reconciles, rejections>>
       \/ /\ order[o].state \in Live
          /\ UpdatePartialFill(o, seen.fill)
          /\ Advance("poll", o, "dispatch")
          /\ UNCHANGED <<polls, reconciles, rejections>>
       \/ /\ MayLackPrice /\ seen.state = "live"
          /\ Advance("poll", o, "dispatch")
          /\ UNCHANGED <<order, polls, reconciles, rejections>>
       \/ /\ MayLackPrice /\ seen.state # "live"
          /\ Rest("poll")
          /\ Dequeue("poll", o)
          /\ UNCHANGED order
    /\ UNCHANGED <<positionVars, brokerVars, hedges, placer, lock, envVars>>

PollDispatch ==
    LET o == worker["poll"].order  seen == worker["poll"].seen IN
    /\ up = "up" /\ worker["poll"].step = "dispatch"
    /\ \/ /\ seen.state = "live"
          /\ Rest("poll")
          /\ UNCHANGED <<order, polls, reconciles, rejections>>
       \/ /\ seen.state = "filled"
          /\ reconciles' = reconciles \cup {o}
          /\ polls' = polls \ {o}
          /\ Rest("poll")
          /\ UNCHANGED <<order, rejections>>
       \/ /\ \/ seen.state = "failed"
             \/ seen.state = "cancelled" /\ order[o].state \in Terminal
          /\ rejections' = rejections \cup {o}
          /\ polls' = polls \ {o}
          /\ Rest("poll")
          /\ UNCHANGED <<order, reconciles>>
       \/ /\ seen.state = "cancelled" /\ order[o].state \in Live
          /\ IF order[o].state = "Cancelling"
             THEN order' = [order EXCEPT ![o].state = "Cancelled"]
             ELSE CancelOrder(o)
          /\ Advance("poll", o, "position")
          /\ UNCHANGED <<polls, reconciles, rejections>>
    /\ UNCHANGED <<positionVars, brokerVars, hedges, placer, lock, envVars>>

(* CompleteFill, unless another path ended the order first.                *)
ReconcileStart(o) ==
    /\ Take("reconcile", o)
    /\ IF order[o].state \in Live \cup {"Filled"}
       THEN /\ order' = [order EXCEPT ![o].state = "Filled"]
            /\ Advance("reconcile", o, "position")
            /\ UNCHANGED reconciles
       ELSE /\ reconciles' = reconciles \ {o}
            /\ UNCHANGED <<order, worker>>
    /\ UNCHANGED <<positionVars, brokerVars, hedges, polls, rejections, placer, lock,
                   envVars>>

FailWhatIsCancelled(o) ==
    /\ Take("reject", o)
    /\ order' = [order EXCEPT ![o].state = "Failed"]
    /\ Advance("reject", o, "position")
    /\ UNCHANGED <<positionVars, brokerVars, queueVars, placer, lock, envVars>>

(* MarkFailed, unless another path ended the order first.                  *)
RejectStart(o) ==
    /\ Take("reject", o)
    /\ IF order[o].state \notin {"absent", "Filled"}
       THEN /\ order' = [order EXCEPT ![o].state = IF @ = "Cancelled" THEN @ ELSE "Failed"]
            /\ Advance("reject", o, "position")
            /\ UNCHANGED rejections
       ELSE /\ rejections' = rejections \ {o}
            /\ UNCHANGED <<order, worker>>
    /\ UNCHANGED <<positionVars, brokerVars, hedges, polls, reconciles, placer, lock,
                   envVars>>

PropagateUnclaimed(w) ==
    LET o == worker[w].order IN
    /\ up = "up" /\ worker[w].step = "position"
    /\ Finalize(o)
    /\ Rest(w)
    /\ Dequeue(w, o)
    /\ UNCHANGED <<order, brokerVars, hedges, placer, lock, envVars>>

(* The second write: the position, if it still expects this order.         *)
PropagateTerminal(w) ==
    LET o == worker[w].order IN
    /\ up = "up" /\ worker[w].step = "position"
    /\ IF pending = o THEN Finalize(o) ELSE UNCHANGED positionVars
    /\ Rest(w)
    /\ Dequeue(w, o)
    /\ UNCHANGED <<order, brokerVars, hedges, placer, lock, envVars>>

-----------------------------------------------------------------------------
(* Failures of the bot.                                                    *)

(* A store command or a preflight fails: the attempt ends.                 *)
PlacerError(p) ==
    /\ up = "up" /\ placer[p].step \notin {"idle", "cancel", "catchup"}
    /\ Fault
    /\ GiveUp(p)
    /\ UNCHANGED <<positionVars, order, brokerVars, polls, reconciles, rejections,
                   worker, session, up, fills, stray>>

WorkerError(w) ==
    /\ up = "up" /\ worker[w].step # "idle"
    /\ Fault
    /\ Rest(w)
    /\ UNCHANGED <<positionVars, order, brokerVars, queueVars, placer, lock, session, up,
                   fills, stray>>

Stop ==
    /\ placer' = [p \in Placers |-> Idle]
    /\ worker' = [w \in Workers |-> Resting]
    /\ lock' = None
    /\ up' = "down"

Crash ==
    /\ up # "down"
    /\ Fault
    /\ Stop
    /\ Retry("hedge")
    /\ UNCHANGED <<positionVars, order, brokerVars, polls, reconciles, rejections,
                   session, fills, stray>>

(* A row that is out of retries is lost and takes the bot down with it.    *)
Exhausted(o) ==
    /\ up = "up"
    /\ Fault
    /\ Stop
    /\ \/ /\ o = placer["hedge"].job
          /\ DropRow(o)
          /\ UNCHANGED <<polls, reconciles, rejections>>
       \/ /\ \E w \in Workers : o \in Queue(w) /\ Dequeue(w, o)
          /\ Retry("hedge")
    /\ UNCHANGED <<positionVars, order, brokerVars, session, fills, stray>>

Restart ==
    /\ up = "down"
    /\ up' = "boot"
    /\ Goto("scan", "recover")
    /\ UNCHANGED <<positionVars, order, brokerVars, queueVars, lock, worker, session,
                   fills, faults, stray>>

-----------------------------------------------------------------------------
(* The broker and the market.                                              *)

BrokerFill(k) ==
    /\ broker[k].state = "live"
    /\ broker' = [broker EXCEPT ![k] =
                    [broker[k] EXCEPT !.fill = broker[k].fill + 1,
                                      !.state = IF broker[k].fill + 1 = Abs(broker[k].shares)
                                                THEN "filled" ELSE "live"]]
    /\ UNCHANGED <<positionVars, order, wire, queueVars, placer, lock, worker, envVars>>

CancelRequested(k) == \E o \in Orders : order[o].ref = k /\ order[o].state = "Cancelling"

BrokerCancel(k) ==
    /\ broker[k].state = "live"
    /\ broker' = [broker EXCEPT ![k].state = "cancelled"]
    /\ IF CancelRequested(k) THEN UNCHANGED faults ELSE MayCancel /\ Fault
    /\ UNCHANGED <<positionVars, order, wire, queueVars, placer, lock, worker, session,
                   up, fills, stray>>

BrokerFail(k) ==
    /\ broker[k].state = "live"
    /\ Fault
    /\ broker' = [broker EXCEPT ![k].state = "failed"]
    /\ UNCHANGED <<positionVars, order, wire, queueVars, placer, lock, worker, session,
                   up, fills, stray>>

SessionChange ==
    /\ session' \in Sessions \ {session}
    /\ UNCHANGED <<positionVars, order, brokerVars, queueVars, placer, lock, worker, up,
                   fills, faults, stray>>

-----------------------------------------------------------------------------
Drive(p) == RecordIntent(p) \/ BrokerAccepts(p) \/ CommitOutcome(p) \/ RoutePlacement(p)

AccountantStep ==
    \/ ReconcileExisting \/ ClearAbsent \/ CheckReadiness
    \/ Claim("accountant") \/ RecoverClaimed("accountant") \/ Drive("accountant")

HedgeStep == (\E o \in Orders : HedgeStart(o)) \/ Claim("hedge") \/ RecoverHedge \/ Drive("hedge")

ScanStep ==
    \/ FinalizeTerminalPending \/ RequestCancellation \/ RecoverClaimed("scan") \/ Drive("scan")
    \/ CatchUpPolls \/ EnqueueHedge

PollStep == (\E o \in Orders : PollStart(o)) \/ PollRecord \/ PollDispatch \/ PropagateTerminal("poll")
ReconcileStep == (\E o \in Orders : ReconcileStart(o)) \/ PropagateTerminal("reconcile")
RejectStep == (\E o \in Orders : RejectStart(o)) \/ PropagateTerminal("reject")

FaultStep ==
    \/ \E p \in Placers : BrokerErrs(p) \/ PlacerError(p)
    \/ \E w \in Workers : WorkerError(w)
    \/ CancellationFails
    \/ Crash
    \/ \E o \in Orders : Exhausted(o)

OutsideStep ==
    \/ \E d \in FillSizes : OnchainFill(d)
    \/ \E k \in Orders : BrokerFill(k) \/ BrokerCancel(k) \/ BrokerFail(k)
    \/ \E r \in wire : LateArrival(r)
    \/ SessionChange

Next ==
    \/ AccountantStep \/ HedgeStep \/ ScanStep
    \/ PollStep \/ ReconcileStep \/ RejectStep
    \/ FaultStep \/ Restart \/ OutsideStep

Spec == Init /\ [][Next]_vars

(* Every task of the bot goes on, a stopped bot is restarted by its        *)
(* supervisor, the broker ends every order it accepted and does not        *)
(* withhold the price of a fill for ever.                                  *)
Fairness ==
    /\ WF_vars(AccountantStep) /\ WF_vars(HedgeStep) /\ WF_vars(ScanStep)
    /\ WF_vars(PollStep) /\ WF_vars(ReconcileStep) /\ WF_vars(RejectStep)
    /\ WF_vars(Restart)
    /\ \A k \in Orders : WF_vars(BrokerFill(k))
    /\ SF_vars(PollRecord /\ worker'["poll"].step = "dispatch")

FairSpec == Spec /\ Fairness

-----------------------------------------------------------------------------
(* Never two live orders at the broker: whatever answer was lost, whoever  *)
(* retries, the claim, the lock and the idempotency key let no second      *)
(* hedge of the same exposure out (place_offchain_order_at_broker,         *)
(* client_order_id_for_placement).  The one way out is a retried           *)
(* PlaceHedge row: its claim takes the id of its first attempt whatever    *)
(* became of it, and its recovery outside the session takes no lock        *)
(* (PlaceHedge::perform).                                                  *)
NoDoubleHedge ==
    ~stray => \A j, k \in Orders :
        broker[j].state = "live" /\ broker[k].state = "live" => j = k

(* An execution that the position has not booked can still be: it is under *)
(* the anchor, or it belongs to the order that holds the claim, unless a   *)
(* row has strayed (evolve of OffChainOrderFailed and                      *)
(* OffChainOrderCancelled).                                                *)
ExecutedIsTracked ==
    ~stray => \A k \in Orders : broker[k].fill > Abs(credited[k]) =>
        \/ anchor = k
        \/ pending # None /\ (order[pending].ref = k \/ pending = k)

(* No execution is booked twice, nor more of it than there was, although   *)
(* the poll, reconcile and rejection workers, the scan and the placers all *)
(* book, unless a row has strayed (validate_pending_execution).            *)
CreditedOnce ==
    ~stray => \A k \in Orders : Abs(credited[k]) <= broker[k].fill

(* A local verdict is the broker's: an order that went terminal after it   *)
(* was accepted ended the same way at the broker, with the same fill,      *)
(* although it was decided on a reading several steps old                  *)
(* (dispatch_for_broker_state, reconcile_pre_cancel).                      *)
VerdictIsTheBrokers ==
    \A o \in Orders : order[o].state \in Terminal /\ order[o].ref # None =>
        LET at == broker[order[o].ref] IN
        /\ order[o].state = "Filled" => at.state = "filled"
        /\ order[o].state # "Filled" => order[o].fill = at.fill
        /\ order[o].state = "Cancelled" => at.state = "cancelled"
        /\ order[o].state = "Failed" => at.state = "failed"

(* A claim is always given back: whatever was lost, some recovery drives   *)
(* the order to its end and finalizes the position, so that the symbol can *)
(* be hedged again (recover_orphaned_pending_offchain_orders,              *)
(* recover_submitted_offchain_orders, finalize_terminal_pending_positions).*)
ClaimReleased == (pending # None) ~> (pending = None)

=============================================================================
