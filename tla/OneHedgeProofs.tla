---------------------------- MODULE OneHedgeProofs ----------------------------
(***************************************************************************)
(* One hedge at a time: proofs about HedgePlacement for any set of orders, *)
(* sessions and limits and any number of faults.                           *)
(*                                                                         *)
(* The exposure is hedged under one key, the anchor or else the order that *)
(* holds the claim.  KeySound says that only under it something is live at *)
(* the broker, on the wire unseen, or executed and not booked.  It is      *)
(* inductive only with DriverSound, what a placer relies on while it is    *)
(* between two commands: it holds the lock, nobody else claims meanwhile,  *)
(* and the key it read is still the current one although the sweeps and    *)
(* the workers may have given its claim back.  Orderly is what a step must *)
(* respect for that, so that each action is shown to keep its own promise  *)
(* and not to break those of the others.                                   *)
(*                                                                         *)
(* A retried PlaceHedge row can claim again under the id of the order that *)
(* it failed.  Where that id is the anchor the chain goes on, and where    *)
(* nothing became of it the claim is a new one; only a claim under a spent *)
(* id, or an order driven without the lock, strays from all this, and up   *)
(* to that step the invariant holds.                                       *)
(***************************************************************************)
EXTENDS HedgePlacementProofs

(* One hedge at a time.  The key under which the exposure is hedged now:   *)
(* the anchor, or else the order that holds the claim.                     *)
CurrentKey == IF anchor # None THEN anchor ELSE pending

Driving == {"intent", "broker", "commit", "route"}

(* Who drives an order holds the lock, and under it nobody else claims.    *)
DriverSound(p) ==
    LET at == placer[p]
        held == pending = at.order \/ anchor # None
                \/ order[at.order].state \notin {"absent", "Pending"}
    IN  /\ at.step \in Driving => lock = p /\ pending \in {at.order, None}
        /\ at.step = "intent" => held
        /\ at.step \in {"broker", "commit"} =>
              at.key = CurrentKey /\ order[at.order].state = "Pending"
        /\ p = "hedge" /\ at.step = "recover" /\ lock = p =>
              pending \in {at.order, None} /\ held
        /\ p = "hedge" /\ at.step = "claim" => at.order = at.job
        /\ p # "hedge" /\ at.step = "recover" => p = "scan" \/ lock = p
        /\ p = "hedge" /\ at.step = "idle" => lock # p

(* All that may still execute, and all that is not booked, is under the    *)
(* current key; nothing of it is booked.                                   *)
KeySound ==
    /\ \A k \in Orders : broker[k].state = "live" => k = CurrentKey
    /\ \A r \in wire : r.key = CurrentKey \/ broker[r.key].state # "none"
    /\ \A k \in Orders : k # CurrentKey => Abs(credited[k]) = broker[k].fill
    /\ CurrentKey # None => credited[CurrentKey] = 0
    /\ pending # None => order[pending].ref \in {None, CurrentKey}
    /\ anchor # None => order[anchor].ref \in {None, anchor}

OneHedge == (\A p \in Placers : DriverSound(p)) /\ KeySound

(* How a step moves the claim: not at all; back, leaving its key as the    *)
(* anchor; back, its order being settled; or from nobody, under the lock.  *)
Stays == UNCHANGED <<pending, anchor>>
Fails == pending # None /\ pending' = None /\ anchor' = CurrentKey
Settles ==
    /\ pending # None /\ order[pending].state \in Terminal
    /\ pending' = None /\ anchor' = None
Claims ==
    /\ lock = None /\ pending = None /\ UNCHANGED anchor
    /\ \/ Fresh(pending')
       \/ /\ lock' = "hedge" /\ placer["hedge"].step = "claim"
          /\ pending' = placer["hedge"].job

(* The current key names an order once there is one.                       *)
LEMMA KeyTyped ==
    ASSUME IInv
    PROVE  /\ CurrentKey \in Orders \cup {None}
           /\ CurrentKey = None => pending = None /\ anchor = None
           /\ \A k \in Orders : /\ credited[k] \in Int
                                /\ broker[k].fill \in Nat /\ broker[k].shares \in Int
           /\ None \notin Orders
  BY HedgePlacementAssumption
  DEF IInv, PositionTyped, CurrentKey, Books, BrokerType, Amounts

(* A step that leaves the position and works under the current key only.   *)
LEMMA KeyStays ==
    ASSUME IInv, KeySound, UNCHANGED <<pending, anchor, credited>>,
           \A k \in Orders : broker'[k] = broker[k] \/ k = CurrentKey,
           \A r \in wire' : r \in wire \/ r.key = CurrentKey,
           wire \subseteq RequestType,
           pending # None => order'[pending].ref \in {None, CurrentKey},
           anchor # None => order'[anchor].ref \in {None, anchor}
    PROVE  KeySound'
  <1>1. CurrentKey' = CurrentKey
    BY DEF CurrentKey
  <1>2. \A k \in Orders : broker'[k].state = "live" => k = CurrentKey
    BY DEF KeySound
  <1>3. \A r \in wire' : r.key = CurrentKey \/ broker'[r.key].state # "none"
    <2> SUFFICES ASSUME NEW r \in wire, r.key # CurrentKey PROVE broker'[r.key].state # "none"
      OBVIOUS
    <2>1. r.key \in Orders
      BY DEF RequestType
    <2> QED BY <2>1 DEF KeySound
  <1>4. \A k \in Orders : k # CurrentKey => Abs(credited[k]) = broker'[k].fill
    BY DEF KeySound
  <1> QED BY <1>1, <1>2, <1>3, <1>4 DEF KeySound

(* A failed attempt hands its key to the anchor.                           *)
LEMMA KeyFails ==
    ASSUME IInv, KeySound, pending # None, FailOffChainOrder(pending),
           UNCHANGED <<order, broker, wire>>
    PROVE  KeySound' /\ Fails
  <1>1. pending' = None /\ anchor' = CurrentKey /\ credited' = credited
    BY DEF FailOffChainOrder, CurrentKey
  <1>2. CurrentKey' = CurrentKey
    BY <1>1, KeyTyped DEF CurrentKey
  <1>3. order[anchor'].ref \in {None, anchor'}
    BY <1>1 DEF KeySound, CurrentKey
  <1> QED BY <1>1, <1>2, <1>3 DEF KeySound, Fails

(* An order that ended settles what its key executed.                      *)
LEMMA KeySettles ==
    ASSUME IInv, KeySound, pending # None, order[pending].state \in Terminal, Finalize(pending),
           UNCHANGED <<order, broker, wire>>
    PROVE  KeySound' /\ (Fails \/ Settles)
  <1> DEFINE o == pending
             k == CurrentKey
  <1>1. o \in Orders /\ k \in Orders /\ k # None
    BY KeyTyped DEF IInv, PositionTyped
  <1>2. OrderKnown(o) /\ BrokerSound /\ order[o] \in OrderType
    BY <1>1 DEF IInv, Books
  <1>3. order[o].fill \in Nat /\ order[o].shares \in Int
    BY <1>2, HedgePlacementAssumption DEF OrderType, Amounts
  <1>4. order[o].ref = k \/ order[o].ref = None
    BY DEF KeySound
  <1>5. credited[k] = 0 /\ broker[k].fill \in Nat /\ broker[k].shares \in Int
    BY <1>1, KeyTyped DEF KeySound
  <1>6. ASSUME NEW n \in Int, CompleteOffChainOrder(o, n), order[o].ref = k,
               Abs(n) = broker[k].fill, broker[k].state \notin {"none", "live"}
        PROVE  KeySound' /\ Settles
    <2>1. pending' = None /\ anchor' = None /\ CurrentKey' = None
      BY <1>6 DEF CompleteOffChainOrder, CurrentKey
    <2>2. credited' = [credited EXCEPT ![k] = credited[k] + n]
      BY <1>6 DEF CompleteOffChainOrder
    <2>3. credited[k] + n = n
      BY <1>5
    <2>4. credited' = [credited EXCEPT ![k] = n]
      BY <2>2, <2>3
    <2>5. credited \in [Orders -> Int]
      BY DEF IInv, PositionTyped
    <2> HIDE DEF k, o
    <2>6. \A j \in Orders : Abs(credited'[j]) = broker[j].fill
      <3> SUFFICES ASSUME NEW j \in Orders PROVE Abs(credited'[j]) = broker[j].fill
        OBVIOUS
      <3>1. CASE j = k
        BY <1>1, <1>6, <2>4, <2>5, <3>1
      <3>2. CASE j # k
        BY <2>4, <2>5, <3>2 DEF KeySound, k
      <3> QED BY <3>1, <3>2
    <2>7. \A j \in Orders : broker[j].state # "live"
      BY <1>6 DEF KeySound, k
    <2>8. \A r \in wire : broker[r.key].state # "none"
      BY <1>6 DEF KeySound, k
    <2> QED BY <2>1, <2>6, <2>7, <2>8 DEF KeySound, Settles
  <1>7. CASE order[o].state = "Filled"
    <2>1. CompleteOffChainOrder(o, order[o].shares)
      BY <1>7 DEF Finalize
    <2>2. order[o].ref = k /\ broker[k].state = "filled" /\ Abs(order[o].shares) = Abs(broker[k].shares)
      BY <1>2, <1>4, <1>7 DEF OrderKnown
    <2>3. broker[k].fill = Abs(broker[k].shares)
      BY <1>1, <1>2, <2>2 DEF BrokerSound
    <2> HIDE DEF o, k
    <2> QED BY <1>3, <1>6, <2>1, <2>2, <2>3
  <1>8. CASE order[o].state # "Filled" /\ order[o].fill > 0
    <2>0. ~(order[o].fill = 0)
      BY <1>3, <1>8
    <2>1. CompleteOffChainOrder(o, Sign(order[o].shares) * order[o].fill)
      BY <1>8, <2>0 DEF Finalize
    <2>2. order[o].ref = k /\ order[o].fill = broker[k].fill
          /\ broker[k].state \in {"failed", "cancelled"}
      BY <1>2, <1>3, <1>4, <1>8 DEF OrderKnown, Terminal
    <2>3. Sign(order[o].shares) * order[o].fill \in Int
          /\ Abs(Sign(order[o].shares) * order[o].fill) = order[o].fill
      <3>1. Sign(order[o].shares) = 1 \/ Sign(order[o].shares) = -1
        BY DEF Sign
      <3>2. Sign(order[o].shares) * order[o].fill \in {order[o].fill, -order[o].fill}
        BY <1>3, <3>1
      <3> QED BY <1>3, <3>2 DEF Abs
    <2> HIDE DEF o, k
    <2> QED BY <1>6, <2>1, <2>2, <2>3
  <1>9. CASE order[o].state = "Cancelled" /\ order[o].fill = 0
    <2>1. CancelOffChainOrder
      BY <1>9 DEF Finalize
    <2>2. pending' = None /\ anchor' = None /\ credited' = credited /\ CurrentKey' = None
      BY <2>1 DEF CancelOffChainOrder, CurrentKey
    <2>3. order[o].ref = k /\ broker[k].fill = 0 /\ broker[k].state = "cancelled"
      BY <1>2, <1>4, <1>9 DEF OrderKnown
    <2>4. Abs(credited[k]) = broker[k].fill
      BY <1>5, <2>3 DEF Abs
    <2> HIDE DEF k
    <2> QED BY <2>2, <2>3, <2>4 DEF KeySound, Settles, k
  <1>10. CASE order[o].state = "Failed" /\ order[o].fill = 0
    <2>1. FailOffChainOrder(o)
      BY <1>10 DEF Finalize
    <2> QED BY <2>1, KeyFails
  <1> QED BY <1>3, <1>7, <1>8, <1>9, <1>10 DEF Terminal

(* Minting an id, which nothing refers to.                                 *)
LEMMA KeyMint ==
    ASSUME IInv, KeySound, NEW o \in Orders, Mint(o), UNCHANGED <<anchor, wire>>,
           pending' = pending \/ (pending = None /\ pending' = o)
    PROVE  KeySound'
  <1>1. /\ order' = [order EXCEPT ![o] = Absent] /\ broker' = [broker EXCEPT ![o] = NoOrder]
        /\ credited' = [credited EXCEPT ![o] = 0] /\ Fresh(o)
    BY DEF Mint
  <1>2. o \notin {pending, anchor} /\ \A r \in wire : r.key # o
    BY <1>1 DEF Fresh
  <1>3. /\ order'[o] = Absent /\ broker'[o] = NoOrder /\ credited'[o] = 0
        /\ \A q \in Orders \ {o} : /\ order'[q] = order[q] /\ broker'[q] = broker[q]
                                   /\ credited'[q] = credited[q]
    BY <1>1 DEF IInv, Books, PositionTyped
  <1>4. NoOrder.state = "none" /\ NoOrder.fill = 0 /\ Absent.ref = None /\ Abs(0) = 0
    BY DEF NoOrder, Absent, Abs
  <1>5. CurrentKey \in Orders \cup {None} /\ CurrentKey # o /\ None \notin Orders
    BY <1>2, KeyTyped DEF CurrentKey
  <1>6. /\ wire \subseteq RequestType
        /\ pending \in Orders \cup {None} /\ anchor \in Orders \cup {None}
    BY DEF IInv, Books, PositionTyped
  <1>7. \A r \in wire : r.key \in Orders
    BY <1>6 DEF RequestType
  <1>10. anchor # None => order'[anchor] = order[anchor]
    BY <1>2, <1>3, <1>6
  <1>8. CASE pending' = pending
    <2>1. CurrentKey' = CurrentKey
      BY <1>8 DEF CurrentKey
    <2>2. pending # None => order'[pending] = order[pending]
      BY <1>2, <1>3, <1>6
    <2> QED BY <1>2, <1>3, <1>4, <1>5, <1>7, <1>8, <1>10, <2>1, <2>2 DEF KeySound
  <1>9. CASE pending = None /\ pending' = o
    <2>1. CurrentKey' = (IF anchor # None THEN CurrentKey ELSE o)
      BY <1>9 DEF CurrentKey
    <2>2. anchor = None => CurrentKey = None
      BY <1>9 DEF CurrentKey
    <2> QED BY <1>2, <1>3, <1>4, <1>5, <1>7, <1>9, <1>10, <2>1, <2>2 DEF KeySound
  <1> QED BY <1>8, <1>9

(* A row claims the position under the anchor or under an unused id.       *)
LEMMA KeyClaims ==
    ASSUME IInv, KeySound, NEW o \in Orders, ~Spent(o), pending = None, pending' = o,
           UNCHANGED <<anchor, credited, order, broker, wire>>
    PROVE  KeySound'
  <1>1. CurrentKey' = (IF anchor # None THEN CurrentKey ELSE o)
    BY DEF CurrentKey
  <1>2. None \notin Orders /\ CurrentKey \in Orders \cup {None}
    BY KeyTyped
  <1>3. CASE anchor = o
    <2>1. CurrentKey' = CurrentKey /\ CurrentKey = o /\ order[o].ref \in {None, o}
      BY <1>1, <1>2, <1>3 DEF CurrentKey, KeySound
    <2> QED BY <2>1 DEF KeySound
  <1>4. CASE anchor # o
    <2>1. order[o].state = "absent" /\ broker[o].state = "none"
      BY <1>4 DEF Spent
    <2>2. OrderKnown(o) /\ BrokerSound
      BY DEF IInv, Books
    <2>3. order[o].ref = None /\ broker[o].fill = 0
      BY <2>1, <2>2 DEF OrderKnown, BrokerSound
    <2>4. o # CurrentKey
      BY <1>2, <1>4 DEF CurrentKey
    <2>5. credited[o] \in Int /\ Abs(credited[o]) = 0
      BY <2>3, <2>4, KeyTyped DEF KeySound
    <2>6. credited[o] = 0
      BY <2>5 DEF Abs
    <2>7. CASE anchor # None
      <3>1. CurrentKey' = CurrentKey
        BY <1>1, <2>7
      <3> QED BY <2>3, <3>1 DEF KeySound
    <2>8. CASE anchor = None
      <3>1. CurrentKey' = o /\ CurrentKey = None
        BY <1>1, <2>8 DEF CurrentKey
      <3>2. \A k \in Orders : broker[k].state # "live" /\ Abs(credited[k]) = broker[k].fill
        BY <1>2, <3>1 DEF KeySound
      <3>3. wire \subseteq RequestType
        BY DEF IInv, Books
      <3>4. \A r \in wire : broker[r.key].state # "none"
        BY <1>2, <3>1, <3>3 DEF KeySound, RequestType
      <3> QED BY <2>3, <2>6, <2>8, <3>1, <3>2, <3>4 DEF KeySound
    <2> QED BY <2>7, <2>8
  <1> QED BY <1>3, <1>4

-----------------------------------------------------------------------------
(* What a step may do to what the others rely on.                          *)

(* Only its driver records an order and commits the broker's answer, and   *)
(* an answer is kept unless the id is minted anew.                         *)
OrdersKeep ==
    \A o \in Orders :
        /\ order[o].state \notin {"absent", "Pending"} =>
              order'[o].state \notin {"absent", "Pending"} \/ Fresh(o)
        /\ order[o].state = "Pending" /\ order'[o].state # "Pending" =>
              \E p \in Placers : /\ placer[p].step = "commit" /\ placer[p].order = o
                                 /\ placer'[p] # placer[p]

(* The broker gets an order under the current key or from the wire.        *)
BrokerKeeps ==
    /\ \A k \in Orders : broker[k].state = "none" /\ broker'[k].state # "none" =>
          k = CurrentKey \/ \E r \in wire : r.key = k
    /\ \A r \in wire' : r \in wire \/ r.key = CurrentKey

Orderly ==
    /\ Stays \/ Fails \/ Settles \/ Claims
    /\ OrdersKeep /\ BrokerKeeps

(* A placer that does not move keeps what it relies on.                    *)
LEMMA DriverKeeps ==
    ASSUME IInv, OneHedge, Orderly, NEW p \in Placers,
           placer'[p] = placer[p], lock' = p <=> lock = p
    PROVE  DriverSound(p)'
  <1> DEFINE at == placer[p]
             held == \/ pending = at.order \/ anchor # None
                     \/ order[at.order].state \notin {"absent", "Pending"}
  <1>a. DriverSound(p) /\ PlacerSound(p) /\ at \in PlacerType
    BY DEF OneHedge, IInv, Placement, PlacersTyped
  <1>b. None \notin Orders /\ p # None
    BY KeyTyped, HedgePlacementAssumption DEF Placers, IInv, Placement, PlacersTyped
  <1>1. ASSUME lock = p, pending \in {at.order, None}
        PROVE  pending' \in {at.order, None}
    BY <1>1, <1>b DEF Orderly, Stays, Fails, Settles, Claims
  <1>2. ASSUME at.order \in Orders, order[at.order].state \notin {"absent", "Pending"}
        PROVE  order'[at.order].state \notin {"absent", "Pending"}
    BY <1>2 DEF Orderly, OrdersKeep, Fresh
  <1>3. ASSUME lock = p, pending \in {at.order, None}, held, at.order \in Orders
        PROVE  \/ pending' = at.order \/ anchor' # None
               \/ order'[at.order].state \notin {"absent", "Pending"}
    <2>2. CASE order[at.order].state \notin {"absent", "Pending"}
      BY <1>2, <1>3, <2>2
    <2>3. CASE Stays
      BY <1>3, <2>2, <2>3 DEF Stays
    <2>4. CASE Fails
      BY <1>b, <2>4, KeyTyped DEF Fails
    <2>5. CASE Settles
      BY <1>3, <2>2, <2>5 DEF Settles, Terminal
    <2>6. CASE Claims
      BY <1>3, <1>b, <2>6 DEF Claims
    <2> QED BY <2>3, <2>4, <2>5, <2>6 DEF Orderly
  <1>4. at.step \in Driving => lock' = p /\ pending' \in {at.order, None}
    BY <1>1, <1>a DEF DriverSound
  <1>5. at.step = "intent" => \/ pending' = at.order \/ anchor' # None
                              \/ order'[at.order].state \notin {"absent", "Pending"}
    BY <1>3, <1>a DEF DriverSound, Driving, PlacerSound
  <1>6. at.step \in {"broker", "commit"} => at.key = CurrentKey' /\ order'[at.order].state = "Pending"
    <2> SUFFICES ASSUME at.step \in {"broker", "commit"}
                 PROVE  at.key = CurrentKey' /\ order'[at.order].state = "Pending"
      OBVIOUS
    <2>1. /\ lock = p /\ pending \in {at.order, None} /\ at.order \in Orders /\ at.key \in Orders
          /\ at.key = CurrentKey /\ order[at.order].state = "Pending"
      BY <1>a DEF DriverSound, PlacerSound, Driving
    <2>2. CurrentKey' = CurrentKey
      <3>1. CASE Stays
        BY <3>1 DEF Stays, CurrentKey
      <3>2. CASE Fails
        BY <1>b, <2>1, <3>2 DEF Fails, CurrentKey
      <3>3. CASE Settles
        BY <2>1, <3>3 DEF Settles, Terminal
      <3>4. CASE Claims
        BY <1>b, <2>1, <3>4 DEF Claims
      <3> QED BY <3>1, <3>2, <3>3, <3>4 DEF Orderly
    <2>3. order'[at.order].state = "Pending"
      <3>1. SUFFICES ASSUME order'[at.order].state # "Pending" PROVE FALSE
        OBVIOUS
      <3>2. PICK q \in Placers : placer[q].step = "commit" /\ placer'[q] # placer[q]
        BY <2>1, <3>1 DEF Orderly, OrdersKeep
      <3>3. lock = q
        BY <3>2 DEF OneHedge, DriverSound, Driving
      <3> QED BY <2>1, <3>2, <3>3
    <2> QED BY <2>1, <2>2, <2>3
  <1>7. p = "hedge" /\ at.step = "recover" /\ lock = p =>
          /\ pending' \in {at.order, None}
          /\ \/ pending' = at.order \/ anchor' # None
             \/ order'[at.order].state \notin {"absent", "Pending"}
    BY <1>1, <1>3, <1>a DEF DriverSound, PlacerSound
  <1>11. p # "hedge" /\ at.step = "recover" => p = "scan" \/ lock' = p
    BY <1>a DEF DriverSound
  <1>12. p = "hedge" /\ at.step = "idle" => lock' # p
    BY <1>a DEF DriverSound
  <1>13. p = "hedge" /\ at.step = "claim" => at.order = at.job
    BY <1>a DEF DriverSound
  <1> QED BY <1>4, <1>5, <1>6, <1>7, <1>11, <1>12, <1>13 DEF DriverSound

(* A step that keeps what the others rely on.                              *)
LEMMA StepKeeps ==
    ASSUME IInv, OneHedge, Orderly, KeySound',
           \A p \in Placers : \/ DriverSound(p)'
                              \/ placer'[p] = placer[p] /\ (lock' = p <=> lock = p)
    PROVE  OneHedge'
  <1>1. \A p \in Placers : DriverSound(p)'
    BY DriverKeeps
  <1> QED BY <1>1 DEF OneHedge

(* A step that no placer takes.                                            *)
LEMMA OthersKeep ==
    ASSUME IInv, OneHedge, UNCHANGED <<placer, lock>>,
           Stays \/ Fails \/ Settles, OrdersKeep, BrokerKeeps, KeySound'
    PROVE  OneHedge'
  BY StepKeeps DEF Orderly

(* A step of one placer.                                                   *)
LEMMA PlacerKeeps ==
    ASSUME IInv, OneHedge, NEW p \in Placers, NEW x \in PlacerType,
           placer' = [placer EXCEPT ![p] = x],
           \A q \in Placers \ {p} : lock' = q <=> lock = q,
           Stays \/ Fails \/ Settles \/ Claims, OrdersKeep, BrokerKeeps, KeySound',
           DriverSound(p)'
    PROVE  OneHedge'
  <1>1. placer'[p] = x /\ \A q \in Placers \ {p} : placer'[q] = placer[q]
    BY DEF IInv, Placement, PlacersTyped
  <1> QED BY <1>1, StepKeeps DEF Orderly

-----------------------------------------------------------------------------
(* The actions, one lemma for each actor.                                  *)

(* Orders that nobody drives change, the position stays.                   *)
LEMMA VerdictsOnly ==
    ASSUME IInv, OneHedge,
           UNCHANGED <<placer, lock, pending, anchor, credited, broker, wire>>,
           \A o \in Orders : \/ order'[o] = order[o]
                             \/ /\ order[o].state \notin {"absent", "Pending"}
                                /\ order'[o].state \notin {"absent", "Pending"}
                                /\ order'[o].ref = order[o].ref
    PROVE  OneHedge'
  <1>1. OrdersKeep
    BY DEF OrdersKeep
  <1>2. BrokerKeeps
    BY DEF BrokerKeeps
  <1>3. /\ pending # None => order'[pending].ref = order[pending].ref
        /\ anchor # None => order'[anchor].ref = order[anchor].ref
    BY DEF IInv, PositionTyped
  <1>4. wire \subseteq RequestType
    BY DEF IInv, Books
  <1>5. KeySound'
    BY <1>3, <1>4, KeyStays DEF OneHedge, KeySound
  <1> QED BY <1>1, <1>2, <1>5, OthersKeep DEF Stays

(* The position is settled or the claim given back, the orders stay.       *)
LEMMA PositionOnly ==
    ASSUME IInv, OneHedge, UNCHANGED <<placer, lock, order, broker, wire>>,
           \/ UNCHANGED <<pending, anchor, credited>>
           \/ pending # None /\ order[pending].state \in Terminal /\ Finalize(pending)
    PROVE  OneHedge'
  <1>1. OrdersKeep /\ BrokerKeeps
    BY DEF OrdersKeep, BrokerKeeps
  <1>2. KeySound' /\ (Stays \/ Fails \/ Settles)
    <2>1. CASE UNCHANGED <<pending, anchor, credited>>
      BY <2>1 DEF OneHedge, KeySound, CurrentKey, Stays
    <2>2. CASE pending # None /\ order[pending].state \in Terminal /\ Finalize(pending)
      BY <2>2, KeySettles DEF OneHedge
    <2> QED BY <2>1, <2>2
  <1> QED BY <1>1, <1>2, OthersKeep

(* The poll, reconcile and rejection workers.                              *)
LEMMA WorkersKept ==
    ASSUME IInv, OneHedge,
           \/ \E o \in Orders : PollStart(o) \/ ReconcileStart(o) \/ RejectStart(o)
           \/ PollRecord \/ PollDispatch
           \/ \E w \in Workers : PropagateTerminal(w) \/ WorkerError(w)
    PROVE  OneHedge'
  <1>b. order \in [Orders -> OrderType]
    BY DEF IInv, Books
  <1>1. ASSUME NEW o \in Orders, PollStart(o) PROVE OneHedge'
    BY <1>1, PositionOnly DEF PollStart, positionVars, brokerVars
  <1>2. ASSUME NEW o \in Orders, NEW x \in OrderType, order' = [order EXCEPT ![o] = x],
               order[o].state \notin {"absent", "Pending"}, x.state \notin {"absent", "Pending"},
               x.ref = order[o].ref,
               UNCHANGED <<placer, lock, pending, anchor, credited, broker, wire>>
        PROVE  OneHedge'
    <2>1. \A q \in Orders : order'[q] = (IF q = o THEN x ELSE order[q])
      BY <1>2, <1>b
    <2> QED BY <1>2, <2>1, VerdictsOnly
  <1>3. ASSUME NEW o \in Orders, ReconcileStart(o) PROVE OneHedge'
    <2>1. UNCHANGED <<placer, lock, pending, anchor, credited, broker, wire>>
      BY <1>3 DEF ReconcileStart, positionVars, brokerVars
    <2>2. CASE UNCHANGED order
      BY <2>1, <2>2, PositionOnly
    <2>3. CASE order[o].state \in Live \cup {"Filled"} /\ order' = [order EXCEPT ![o].state = "Filled"]
      <3> DEFINE x == [order[o] EXCEPT !.state = "Filled"]
      <3>1. x \in OrderType /\ x.state = "Filled" /\ x.ref = order[o].ref
        BY <1>b DEF OrderType, Live, Terminal
      <3>2. order' = [order EXCEPT ![o] = x] /\ order[o].state \notin {"absent", "Pending"}
        BY <1>b, <2>3 DEF Live
      <3> HIDE DEF x
      <3> QED BY <1>2, <2>1, <3>1, <3>2
    <2> QED BY <1>3, <2>2, <2>3 DEF ReconcileStart
  <1>4. ASSUME NEW o \in Orders, RejectStart(o) PROVE OneHedge'
    <2>1. UNCHANGED <<placer, lock, pending, anchor, credited, broker, wire>>
      BY <1>4 DEF RejectStart, positionVars, brokerVars
    <2>2. CASE UNCHANGED order
      BY <2>1, <2>2, PositionOnly
    <2>3. CASE /\ order[o].state \notin {"absent", "Filled"}
               /\ order' = [order EXCEPT ![o].state = IF @ = "Cancelled" THEN @ ELSE "Failed"]
      <3> DEFINE st == IF order[o].state = "Cancelled" THEN "Cancelled" ELSE "Failed"
                 x == [order[o] EXCEPT !.state = st]
      <3>1. x \in OrderType /\ x.state = st /\ x.ref = order[o].ref
        BY <1>b DEF OrderType, Terminal
      <3>2. order' = [order EXCEPT ![o] = x]
        BY <1>b, <2>3
      <3>3. order[o].state # "Pending"
        <4>1. o \in rejections
          BY <1>4 DEF RejectStart, Take, Queue, Workers
        <4>2. RowsHonest(o) /\ OrderKnown(o)
          BY DEF IInv, Rows, Books
        <4> QED BY <4>1, <4>2 DEF RowsHonest, OrderKnown, Terminal
      <3>4. st \notin {"absent", "Pending"}
        OBVIOUS
      <3> HIDE DEF x, st
      <3> QED BY <1>2, <2>1, <2>3, <3>1, <3>2, <3>3, <3>4
    <2> QED BY <1>4, <2>2, <2>3 DEF RejectStart
  <1>5. ASSUME NEW o \in Orders, order[o].state \in Live, CancelOrder(o),
               UNCHANGED <<placer, lock, pending, anchor, credited, broker, wire>>
        PROVE  OneHedge'
    <2>1. Books
      BY DEF IInv
    <2>2. order'[o].ref = order[o].ref /\ Evolves
      BY <1>5, <2>1, BooksCancel
    <2>3. \A q \in Orders \ {o} : order'[q] = order[q]
      BY <1>5, <1>b DEF CancelOrder
    <2>4. order[o].state \notin {"absent", "Pending"} /\ order'[o].state \notin {"absent", "Pending"}
      <3>1. CASE OrderKept(o)
        BY <1>5, <3>1 DEF OrderKept, Live
      <3>2. CASE Fresh(o)
        BY <1>5, <3>2 DEF Fresh, Live, Terminal
      <3> QED BY <1>5, <2>2, <3>1, <3>2 DEF Evolves
    <2> QED BY <1>5, <2>2, <2>3, <2>4, VerdictsOnly
  <1>6. ASSUME NEW o \in Orders, order[o].state \in Live, NEW n, UpdatePartialFill(o, n),
               UNCHANGED <<placer, lock, pending, anchor, credited, broker, wire>>
        PROVE  OneHedge'
    <2> DEFINE st == IF order[o].state = "Cancelling" THEN "Cancelling" ELSE "PartiallyFilled"
               x == [order[o] EXCEPT !.fill = n, !.state = st]
    <2>1. order[o] \in OrderType
      BY <1>b
    <2>2. x.state = st /\ x.ref = order[o].ref
      BY <2>1 DEF OrderType
    <2>3. UNCHANGED order \/ order' = [order EXCEPT ![o] = x]
      BY <1>6 DEF UpdatePartialFill
    <2>4. order[o].state \notin {"absent", "Pending"} /\ st \notin {"absent", "Pending"}
      BY <1>6 DEF Live
    <2> HIDE DEF x, st
    <2>5. CASE UNCHANGED order
      BY <1>6, <2>5, PositionOnly
    <2>6. CASE order' = [order EXCEPT ![o] = x]
      <3>1. \A q \in Orders : order'[q] = (IF q = o THEN x ELSE order[q])
        BY <1>b, <2>6
      <3> QED BY <1>6, <2>2, <2>4, <3>1, VerdictsOnly
    <2> QED BY <2>3, <2>5, <2>6
  <1>7. ASSUME worker["poll"].step \in {"record", "dispatch"}
        PROVE  worker["poll"].order \in Orders
    BY <1>7 DEF IInv, Work, PollHonest
  <1>8. CASE PollRecord
    <2>1. UNCHANGED <<placer, lock, pending, anchor, credited, broker, wire>>
      BY <1>8 DEF PollRecord, positionVars, brokerVars
    <2>2. worker["poll"].order \in Orders
      BY <1>7, <1>8 DEF PollRecord
    <2>3. CASE UNCHANGED order
      BY <2>1, <2>3, PositionOnly
    <2>4. CASE order[worker["poll"].order].state \in Live
               /\ UpdatePartialFill(worker["poll"].order, worker["poll"].seen.fill)
      BY <1>6, <2>1, <2>2, <2>4
    <2> QED BY <1>8, <2>3, <2>4 DEF PollRecord
  <1>9. CASE PollDispatch
    <2> DEFINE o == worker["poll"].order
    <2>1. UNCHANGED <<placer, lock, pending, anchor, credited, broker, wire>>
      BY <1>9 DEF PollDispatch, positionVars, brokerVars
    <2>2. o \in Orders
      BY <1>7, <1>9 DEF PollDispatch
    <2>3. CASE UNCHANGED order
      BY <2>1, <2>3, PositionOnly
    <2>4. CASE order[o].state = "Cancelling" /\ order' = [order EXCEPT ![o].state = "Cancelled"]
      <3> DEFINE x == [order[o] EXCEPT !.state = "Cancelled"]
      <3>1. x \in OrderType /\ x.state = "Cancelled" /\ x.ref = order[o].ref
        BY <1>b, <2>2 DEF OrderType, Terminal
      <3>2. order' = [order EXCEPT ![o] = x] /\ order[o].state \notin {"absent", "Pending"}
        BY <1>b, <2>2, <2>4
      <3> HIDE DEF x
      <3> QED BY <1>2, <2>1, <2>2, <3>1, <3>2
    <2>5. CASE order[o].state \in Live /\ CancelOrder(o)
      BY <1>5, <2>1, <2>2, <2>5
    <2> QED BY <1>9, <2>3, <2>4, <2>5 DEF PollDispatch
  <1>10. ASSUME NEW w \in Workers, PropagateTerminal(w) PROVE OneHedge'
    <2>1. UNCHANGED <<placer, lock, order, broker, wire>>
      BY <1>10 DEF PropagateTerminal, brokerVars
    <2>2. WorkerSound(w)
      BY DEF IInv, Work
    <2>3. worker[w].order \in Orders /\ order[worker[w].order].state \in Terminal
      BY <1>10, <2>2 DEF PropagateTerminal, WorkerSound
    <2>4. CASE pending = worker[w].order
      <3>1. pending # None /\ order[pending].state \in Terminal /\ Finalize(pending)
        BY <1>10, <2>3, <2>4, KeyTyped DEF PropagateTerminal
      <3> QED BY <2>1, <3>1, PositionOnly
    <2>5. CASE pending # worker[w].order
      BY <1>10, <2>1, <2>5, PositionOnly DEF PropagateTerminal, positionVars
    <2> QED BY <2>4, <2>5
  <1>11. ASSUME NEW w \in Workers, WorkerError(w) PROVE OneHedge'
    BY <1>11, PositionOnly DEF WorkerError, positionVars, brokerVars, queueVars
  <1> QED BY <1>1, <1>3, <1>4, <1>8, <1>9, <1>10, <1>11

(* The broker and the market.                                              *)
LEMMA OutsideKept ==
    ASSUME IInv, OneHedge,
           \/ \E k \in Orders : BrokerFill(k) \/ BrokerCancel(k) \/ BrokerFail(k)
           \/ \E r \in wire : LateArrival(r)
           \/ SessionChange
    PROVE  OneHedge'
  <1>b. broker \in [Orders -> BrokerType] /\ wire \subseteq RequestType
    BY DEF IInv, Books
  <1>1. ASSUME UNCHANGED <<placer, lock, pending, anchor, credited, order>>,
               wire' \subseteq wire,
               \A k \in Orders : broker'[k] = broker[k] \/ k = CurrentKey
        PROVE  OneHedge'
    <2>1. OrdersKeep /\ BrokerKeeps
      BY <1>1 DEF OrdersKeep, BrokerKeeps
    <2>2. /\ pending # None => order'[pending].ref \in {None, CurrentKey}
          /\ anchor # None => order'[anchor].ref \in {None, anchor}
      BY <1>1 DEF OneHedge, KeySound
    <2>3. KeySound'
      BY <1>1, <1>b, <2>2, KeyStays DEF OneHedge
    <2> QED BY <1>1, <2>1, <2>3, OthersKeep DEF Stays
  <1>2. ASSUME NEW k \in Orders, BrokerFill(k) \/ BrokerCancel(k) \/ BrokerFail(k) PROVE OneHedge'
    <2>1. UNCHANGED <<placer, lock, pending, anchor, credited, order, wire>>
      BY <1>2 DEF BrokerFill, BrokerCancel, BrokerFail, positionVars, queueVars
    <2>2. k = CurrentKey
      BY <1>2 DEF BrokerFill, BrokerCancel, BrokerFail, OneHedge, KeySound
    <2>3. \A j \in Orders \ {k} : broker'[j] = broker[j]
      BY <1>2, <1>b DEF BrokerFill, BrokerCancel, BrokerFail
    <2> QED BY <1>1, <2>1, <2>2, <2>3
  <1>3. ASSUME NEW r \in wire, LateArrival(r) PROVE OneHedge'
    <2>1. UNCHANGED <<placer, lock, pending, anchor, credited, order>> /\ wire' \subseteq wire
      BY <1>3 DEF LateArrival, positionVars, queueVars
    <2>2. r.key \in Orders
      BY <1>b DEF RequestType
    <2>3. \A j \in Orders : broker'[j] = broker[j] \/ (j = r.key /\ broker[j].state = "none")
      BY <1>3, <1>b, <2>2 DEF LateArrival, Receive
    <2>4. r.key = CurrentKey \/ broker[r.key].state # "none"
      BY DEF OneHedge, KeySound
    <2> QED BY <1>1, <2>1, <2>3, <2>4
  <1>4. CASE SessionChange
    BY <1>1, <1>4 DEF SessionChange, positionVars, queueVars, brokerVars
  <1> QED BY <1>2, <1>3, <1>4

(* A placer at a step at which it drives nothing.                          *)
LEMMA AtRest ==
    ASSUME NEW p \in Placers,
           placer'[p].step \in {"idle", "reconcile", "clear", "ready", "cancel", "catchup", "enqueue"},
           p = "hedge" => lock' # p
    PROVE  DriverSound(p)'
  BY DEF DriverSound, Driving

(* A placer leaves, with its row or without.                               *)
LEMMA LeaveKept ==
    ASSUME IInv, OneHedge, NEW p \in Placers,
           Leave(p),
           UNCHANGED <<order, broker, wire>>, Stays \/ Fails \/ Settles, KeySound'
    PROVE  OneHedge'
  <1>b. PlacersTyped
    BY DEF IInv, Placement
  <1>1. Idle \in PlacerType /\ Idle.step = "idle" /\ Idle.order = None
    BY HedgePlacementAssumption DEF Idle, PlacerType, Amounts
  <1>2. [Idle EXCEPT !.step = "catchup"] \in PlacerType
        /\ [Idle EXCEPT !.step = "catchup"].step = "catchup"
        /\ [Idle EXCEPT !.step = "catchup"].order = None
    BY <1>1 DEF PlacerType
  <1>3. PICK x \in PlacerType : /\ placer' = [placer EXCEPT ![p] = x]
                                /\ x.step \in {"idle", "catchup"} /\ x.order = None
    BY <1>1, <1>2 DEF Leave
  <1>4. placer'[p] = x
    BY <1>3, <1>b DEF PlacersTyped
  <1>5. DriverSound(p)'
    <2>1. lock' # p
      BY HedgePlacementAssumption DEF Leave, Release
    <2> QED BY <1>3, <1>4, <2>1, AtRest
  <1>6. \A q \in Placers \ {p} : lock' = q <=> lock = q
    BY HedgePlacementAssumption DEF Leave, Release
  <1>9. OrdersKeep /\ BrokerKeeps
    BY DEF OrdersKeep, BrokerKeeps
  <1> QED BY <1>3, <1>5, <1>6, <1>9, PlacerKeeps

(* The position as it was.                                                 *)
LEMMA KeyIdle ==
    ASSUME KeySound, UNCHANGED <<pending, anchor, credited, order, broker, wire>>
    PROVE  KeySound' /\ Stays
  BY DEF KeySound, CurrentKey, Stays

(* Failures of the bot.                                                    *)
LEMMA FailuresKept ==
    ASSUME IInv, OneHedge,
           \/ \E p \in Placers : PlacerError(p)
           \/ Crash \/ \E o \in Orders : Exhausted(o)
    PROVE  OneHedge'
  <1>1. UNCHANGED <<pending, anchor, credited, order, broker, wire>>
    BY DEF PlacerError, Crash, Exhausted, positionVars, brokerVars
  <1>2. KeySound' /\ Stays
    BY <1>1, KeyIdle DEF OneHedge
  <1>3. ASSUME NEW p \in Placers, PlacerError(p) PROVE OneHedge'
    BY <1>1, <1>2, <1>3, LeaveKept DEF PlacerError, GiveUp
  <1>4. ASSUME Stop PROVE OneHedge'
    <2>1. \A p \in Placers : placer'[p] = Idle
      BY <1>4 DEF Stop
    <2>2. Idle.step = "idle" /\ Idle.order = None
      BY DEF Idle
    <2>3. \A p \in Placers : DriverSound(p)'
      BY <1>4, <2>1, <2>2, AtRest, HedgePlacementAssumption DEF Stop
    <2>6. OrdersKeep /\ BrokerKeeps
      BY <1>1 DEF OrdersKeep, BrokerKeeps
    <2> QED BY <1>2, <2>3, <2>6, StepKeeps DEF Orderly
  <1> QED BY <1>3, <1>4 DEF Crash, Exhausted

(* The accounting worker or the scan goes on to a step at which it drives  *)
(* nothing.                                                                *)
LEMMA GotoKept ==
    ASSUME IInv, OneHedge, NEW p \in {"accountant", "scan"}, NEW st, Goto(p, st),
           \/ st \in {"idle", "reconcile", "clear", "ready", "cancel", "catchup", "enqueue"}
           \/ p = "scan" /\ st = "recover",
           UNCHANGED lock,
           Stays \/ Fails \/ Settles, OrdersKeep, BrokerKeeps, KeySound'
    PROVE  OneHedge'
  <1>b. p \in Placers /\ placer \in [Placers -> PlacerType]
    BY DEF IInv, Placement, PlacersTyped, Placers
  <1> DEFINE x == [placer[p] EXCEPT !.step = st]
  <1>1. placer' = [placer EXCEPT ![p] = x]
    BY <1>b DEF Goto
  <1>2. /\ x \in PlacerType /\ x.step = st
        /\ x.order = placer[p].order /\ x.job = placer[p].job
    BY <1>b DEF PlacerType
  <1> HIDE DEF x
  <1>3. placer'[p] = x
    BY <1>1, <1>b
  <1>4. DriverSound(p)'
    <2>1. CASE p = "scan" /\ st = "recover"
      BY <1>2, <1>3, <2>1 DEF DriverSound, Driving
    <2> QED BY <1>2, <1>3, <1>b, <2>1, AtRest, p # "hedge"
  <1> QED BY <1>1, <1>2, <1>4, <1>b, PlacerKeeps

(* Minting touches no order that somebody relies on.                       *)
LEMMA MintKeeps ==
    ASSUME IInv, NEW o \in Orders, Mint(o), UNCHANGED wire
    PROVE  OrdersKeep /\ BrokerKeeps
  <1>1. Fresh(o) /\ order \in [Orders -> OrderType] /\ broker \in [Orders -> BrokerType]
    BY DEF Mint, IInv, Books
  <1>2. /\ order'[o] = Absent /\ broker'[o] = NoOrder
        /\ \A q \in Orders \ {o} : order'[q] = order[q] /\ broker'[q] = broker[q]
    BY <1>1 DEF Mint
  <1>3. Absent.state = "absent" /\ NoOrder.state = "none"
    BY DEF Absent, NoOrder
  <1>4. OrdersKeep
    BY <1>1, <1>2, <1>3 DEF OrdersKeep, Fresh, Terminal
  <1>5. BrokerKeeps
    BY <1>2, <1>3 DEF BrokerKeeps
  <1> QED BY <1>4, <1>5

(* A new row is pushed for a minted id.                                    *)
LEMMA MintRowKept ==
    ASSUME IInv, OneHedge, NEW p \in {"accountant", "scan"}, Goto(p, "idle"),
           NEW o \in Orders, Mint(o), UNCHANGED <<pending, anchor, wire, lock>>
    PROVE  OneHedge'
  <1>7. OrdersKeep /\ BrokerKeeps
    BY MintKeeps
  <1>9. KeySound'
    BY KeyMint DEF OneHedge
  <1> QED BY <1>7, <1>9, GotoKept DEF Stays

(* CheckPositions, up to the recovery.                                     *)
LEMMA ScanKept ==
    ASSUME IInv, OneHedge,
           \/ FinalizeTerminalPending \/ RequestCancellation \/ CancellationFails
           \/ CatchUpPolls \/ EnqueueHedge \/ Restart
    PROVE  OneHedge'
  <1>1. ASSUME UNCHANGED <<order, broker, wire>> PROVE OrdersKeep /\ BrokerKeeps
    BY <1>1 DEF OrdersKeep, BrokerKeeps
  <1>2. ASSUME NEW st \in {"idle", "cancel", "recover", "enqueue"}, Goto("scan", st),
               UNCHANGED <<lock, pending, anchor, credited, order, broker, wire>>
        PROVE  OneHedge'
    <2>1. KeySound' /\ Stays
      BY <1>2, KeyIdle DEF OneHedge
    <2> QED BY <1>1, <1>2, <2>1, GotoKept
  <1>3. CASE FinalizeTerminalPending
    <2>1. Goto("scan", "cancel") /\ UNCHANGED <<lock, order, broker, wire>>
      BY <1>3 DEF FinalizeTerminalPending, brokerVars, queueVars
    <2>2. CASE pending # None /\ order[pending].state \in Terminal /\ Finalize(pending)
      <3>1. KeySound' /\ (Fails \/ Settles)
        BY <2>1, <2>2, KeySettles DEF OneHedge
      <3> QED BY <1>1, <2>1, <3>1, GotoKept
    <2>3. CASE UNCHANGED positionVars
      BY <1>2, <2>1, <2>3 DEF positionVars
    <2> QED BY <1>3, <2>2, <2>3 DEF FinalizeTerminalPending
  <1>4. CASE RequestCancellation
    <2>1. /\ Goto("scan", "recover")
          /\ UNCHANGED <<lock, pending, anchor, credited, broker, wire>>
      BY <1>4 DEF RequestCancellation, brokerVars, queueVars, positionVars
    <2>2. CASE UNCHANGED order
      BY <1>2, <2>1, <2>2
    <2>3. CASE CancellationDue /\ CancelOrder(pending)
      <3>1. pending \in Orders /\ order[pending].state \in Live /\ Books
        BY <2>3 DEF CancellationDue, Live, IInv, PositionTyped
      <3>2. order'[pending].ref = order[pending].ref /\ Evolves
        BY <2>1, <2>3, <3>1, BooksCancel
      <3>3. \A q \in Orders \ {pending} : order'[q] = order[q]
        BY <2>3, <3>1 DEF CancelOrder, Books
      <3>4. order[pending].state \notin {"absent", "Pending"} /\ ~Fresh(pending)
        BY <3>1 DEF Fresh, Live
      <3>5. order'[pending].state \notin {"absent", "Pending"}
        BY <3>1, <3>2, <3>4 DEF Evolves, OrderKept
      <3>6. OrdersKeep
        BY <3>3, <3>4, <3>5 DEF OrdersKeep
      <3>7. BrokerKeeps
        BY <2>1 DEF BrokerKeeps
      <3>8. wire \subseteq RequestType
        BY <3>1 DEF Books
      <3>9. KeySound'
        <4>1. anchor # None => order'[anchor].ref = order[anchor].ref
          BY <3>2, <3>3 DEF IInv, PositionTyped
        <4> QED BY <2>1, <3>2, <3>8, <4>1, KeyStays DEF OneHedge, KeySound
      <3> QED BY <2>1, <3>6, <3>7, <3>9, GotoKept DEF Stays
    <2> QED BY <1>4, <2>2, <2>3 DEF RequestCancellation
  <1>5. CASE CancellationFails
    BY <1>2, <1>5 DEF CancellationFails, positionVars, brokerVars, queueVars
  <1>6. CASE CatchUpPolls
    BY <1>2, <1>6 DEF CatchUpPolls, positionVars, brokerVars
  <1>7. CASE EnqueueHedge
    <2>1. Goto("scan", "idle") /\ UNCHANGED <<pending, anchor, wire, lock>>
      BY <1>7 DEF EnqueueHedge
    <2>2. ASSUME NEW o \in Orders, Mint(o) PROVE OneHedge'
      BY <2>1, <2>2, MintRowKept
    <2>3. CASE UNCHANGED <<credited, order, broker>>
      BY <1>2, <2>1, <2>3
    <2> QED BY <1>7, <2>2, <2>3 DEF EnqueueHedge
  <1>8. CASE Restart
    BY <1>2, <1>8 DEF Restart, positionVars, brokerVars, queueVars
  <1> QED BY <1>3, <1>4, <1>5, <1>6, <1>7, <1>8

(* dispatch_post_place_state moves the claim only of the order it is for.  *)
LEMMA KeyPostPlace ==
    ASSUME IInv, KeySound, NEW o \in Orders, PostPlace(o), UNCHANGED <<order, broker, wire>>
    PROVE  KeySound' /\ (Stays \/ Fails \/ Settles)
  <1>1. order[o].state \in {"absent", "Pending"} \cup Live \cup Terminal
    BY DEF IInv, Books, OrderType
  <1>2. CASE order[o].state \in Live
    BY <1>2, KeyIdle DEF PostPlace, positionVars, Live
  <1>3. CASE order[o].state \in {"absent", "Failed"}
    <2>1. pending = o /\ FailOffChainOrder(o) /\ o # None
      BY <1>3, KeyTyped DEF PostPlace, PostPlaceFails, Live
    <2> QED BY <2>1, KeyFails
  <1>4. CASE order[o].state = "Cancelled"
    <2>1. pending = o /\ Finalize(o) /\ o # None /\ order[o].state \in Terminal
      BY <1>4, KeyTyped DEF PostPlace, PostPlaceFails, Live, Terminal
    <2> QED BY <2>1, KeySettles
  <1> QED BY <1>1, <1>2, <1>3, <1>4 DEF PostPlace, PostPlaceFails, Terminal

(* The accounting worker, up to its claim.                                 *)
LEMMA AccountantKept ==
    ASSUME IInv, OneHedge,
           \/ \E d \in FillSizes : OnchainFill(d)
           \/ ReconcileExisting \/ ClearAbsent \/ CheckReadiness
    PROVE  OneHedge'
  <1> DEFINE me == "accountant"
  <1>a. me \in Placers /\ me \in {"accountant", "scan"} /\ me # "hedge"
    BY DEF Placers
  <1>b. placer \in [Placers -> PlacerType] /\ pending \in Orders \cup {None}
    BY DEF IInv, Placement, PlacersTyped, PositionTyped
  <1>c. KeySound
    BY DEF OneHedge
  <1>1. ASSUME UNCHANGED <<order, broker, wire>> PROVE OrdersKeep /\ BrokerKeeps
    BY <1>1 DEF OrdersKeep, BrokerKeeps
  <1>2. ASSUME NEW st \in {"idle", "reconcile", "ready"}, Goto(me, st),
               UNCHANGED <<lock, order, broker, wire>>,
               KeySound', Stays \/ Fails \/ Settles
        PROVE  OneHedge'
    BY <1>1, <1>2, <1>a, GotoKept
  <1>3. ASSUME NEW x \in PlacerType, placer' = [placer EXCEPT ![me] = x],
               x.step \in {"idle", "ready", "clear", "claim"},
               UNCHANGED <<lock, order, broker, wire>>,
               KeySound', Stays \/ Fails \/ Settles
        PROVE  OneHedge'
    <2>1. placer'[me] = x
      BY <1>3, <1>a, <1>b
    <2>2. DriverSound(me)'
      BY <1>3, <1>a, <2>1 DEF DriverSound, Driving
    <2>3. OrdersKeep /\ BrokerKeeps
      BY <1>1, <1>3
    <2> QED BY <1>3, <1>a, <2>2, <2>3, PlacerKeeps
  <1>4. ASSUME NEW d \in FillSizes, OnchainFill(d) PROVE OneHedge'
    <2>1. /\ Goto(me, "reconcile")
          /\ UNCHANGED <<lock, pending, anchor, credited, order, broker, wire>>
      BY <1>4 DEF OnchainFill, brokerVars, queueVars
    <2>2. KeySound' /\ Stays
      BY <1>c, <2>1, KeyIdle
    <2> QED BY <1>2, <2>1, <2>2
  <1>5. CASE ReconcileExisting
    <2>1. UNCHANGED <<lock, order, broker, wire>>
      BY <1>5 DEF ReconcileExisting, brokerVars
    <2>2. UNCHANGED positionVars \/ (pending # None /\ PostPlace(pending))
      BY <1>5 DEF ReconcileExisting
    <2>3. KeySound' /\ (Stays \/ Fails \/ Settles)
      <3>1. CASE UNCHANGED positionVars
        BY <1>c, <2>1, <3>1, KeyIdle DEF positionVars
      <3>2. CASE pending # None /\ PostPlace(pending)
        BY <1>b, <1>c, <2>1, <3>2, KeyPostPlace
      <3> QED BY <2>2, <3>1, <3>2
    <2>4. CASE Goto(me, "idle") \/ Goto(me, "ready")
      BY <1>2, <2>1, <2>3, <2>4
    <2>5. CASE placer' = [placer EXCEPT ![me].step = "clear", ![me].order = pending]
      <3> DEFINE x == [placer[me] EXCEPT !.step = "clear", !.order = pending]
      <3>1. placer' = [placer EXCEPT ![me] = x]
        BY <1>a, <1>b, <2>5
      <3>2. x \in PlacerType /\ x.step = "clear" /\ x.order = pending
        BY <1>a, <1>b DEF PlacerType
      <3> HIDE DEF x
      <3> QED BY <1>3, <2>1, <2>3, <3>1, <3>2
    <2> QED BY <1>5, <2>4, <2>5 DEF ReconcileExisting
  <1>6. CASE ClearAbsent
    <2>1. UNCHANGED <<lock, order, broker, wire>>
      BY <1>6 DEF ClearAbsent, brokerVars, queueVars
    <2>2. PlacerSound(me)
      BY <1>a DEF IInv, Placement
    <2>3. placer[me].order \in Orders
      BY <1>6, <2>2 DEF ClearAbsent, At, PlacerSound
    <2>4. KeySound' /\ (Stays \/ Fails \/ Settles)
      <3>1. CASE pending = placer[me].order
        <4>1. pending # None /\ FailOffChainOrder(pending)
          BY <1>6, <2>3, <3>1, KeyTyped DEF ClearAbsent
        <4> QED BY <1>c, <2>1, <4>1, KeyFails
      <3>2. CASE pending # placer[me].order
        BY <1>6, <1>c, <2>1, <3>2, KeyIdle DEF ClearAbsent, positionVars
      <3> QED BY <3>1, <3>2
    <2>5. Idle \in PlacerType /\ Idle.step = "idle" /\ Idle.order = None
      BY HedgePlacementAssumption DEF Idle, PlacerType, Amounts
    <2>6. [Idle EXCEPT !.step = "ready"] \in PlacerType
          /\ [Idle EXCEPT !.step = "ready"].step = "ready"
          /\ [Idle EXCEPT !.step = "ready"].order = None
      BY <2>5 DEF PlacerType
    <2>7. PICK x \in PlacerType : /\ placer' = [placer EXCEPT ![me] = x]
                                  /\ x.step \in {"idle", "ready"} /\ x.order = None
      BY <1>6, <2>5, <2>6 DEF ClearAbsent
    <2> QED BY <1>3, <2>1, <2>4, <2>7
  <1>7. CASE CheckReadiness
    <2>1. UNCHANGED <<pending, anchor, wire, lock>>
      BY <1>7 DEF CheckReadiness
    <2>2. ASSUME UNCHANGED <<credited, order, broker>> PROVE KeySound' /\ Stays
      BY <1>c, <2>1, <2>2, KeyIdle
    <2>3. CASE Goto(me, "idle") /\ UNCHANGED <<credited, order, broker>>
      BY <1>2, <2>1, <2>2, <2>3
    <2>4. ASSUME Goto(me, "idle"), NEW o \in Orders, Mint(o) PROVE OneHedge'
      BY <1>a, <2>1, <2>4, MintRowKept
    <2>5. ASSUME Ready, NEW n \in HedgeShares, UNCHANGED <<credited, order, broker>>,
                 placer' = [placer EXCEPT ![me].step = "claim", ![me].shares = n]
          PROVE  OneHedge'
      <3>1. n \in Amounts
        BY <2>5, SharesToHedge DEF IInv, PositionTyped
      <3> DEFINE x == [placer[me] EXCEPT !.step = "claim", !.shares = n]
      <3>2. placer' = [placer EXCEPT ![me] = x]
        BY <1>a, <1>b, <2>5
      <3>3. /\ x \in PlacerType /\ x.step = "claim"
            /\ x.order = placer[me].order /\ x.job = placer[me].job
        BY <1>a, <1>b, <3>1 DEF PlacerType
      <3> HIDE DEF x
      <3> QED BY <1>3, <2>1, <2>2, <2>5, <3>2, <3>3
    <2> QED BY <1>7, <2>3, <2>4, <2>5 DEF CheckReadiness
  <1> QED BY <1>4, <1>5, <1>6, <1>7

(* Starting a PlaceHedge row and claiming the position.                    *)
LEMMA ClaimKept ==
    ASSUME IInv, OneHedge,
           (\E o \in Orders : HedgeStart(o)) \/ Claim("accountant") \/ Claim("hedge"),
           ~stray'
    PROVE  OneHedge'
  <1>b. placer \in [Placers -> PlacerType] /\ pending \in Orders \cup {None}
    BY DEF IInv, Placement, PlacersTyped, PositionTyped
  <1>c. KeySound
    BY DEF OneHedge
  <1>1. ASSUME NEW o \in Orders, HedgeStart(o) PROVE OneHedge'
    <2> DEFINE x == [Idle EXCEPT !.job = o, !.order = o, !.shares = hedges[o],
                                 !.ext = (session = "Extended"),
                                 !.step = IF session = "Closed" THEN "recover" ELSE "claim"]
    <2>a. "hedge" \in Placers
      BY DEF Placers
    <2>1. /\ placer' = [placer EXCEPT !["hedge"] = x]
          /\ UNCHANGED <<pending, anchor, credited, order, broker, wire, lock>>
      BY <1>1 DEF HedgeStart, positionVars, brokerVars, queueVars
    <2>2. placer["hedge"].step = "idle" /\ hedges[o] # 0 /\ hedges[o] \in Amounts
      BY <1>1 DEF HedgeStart, At, IInv, Rows, QueuesTyped
    <2>3. Idle \in PlacerType
      BY HedgePlacementAssumption DEF Idle, PlacerType, Amounts
    <2>4. x \in PlacerType /\ x.step \in {"recover", "claim"} /\ x.order = o /\ x.job = o
      BY <2>2, <2>3 DEF PlacerType
    <2> HIDE DEF x
    <2>5. placer'["hedge"] = x /\ \A q \in Placers \ {"hedge"} : placer'[q] = placer[q]
      BY <1>b, <2>1, <2>a
    <2>8. lock' # "hedge"
      BY <2>1, <2>2, <2>a DEF OneHedge, DriverSound
    <2>9. DriverSound("hedge")'
      BY <2>4, <2>5, <2>8 DEF DriverSound, Driving
    <2>10. OrdersKeep /\ BrokerKeeps
      BY <2>1 DEF OrdersKeep, BrokerKeeps
    <2>11. KeySound' /\ Stays
      BY <1>c, <2>1, KeyIdle
    <2> QED BY <2>1, <2>2, <2>4, <2>9, <2>10, <2>11, <2>a, PlacerKeeps
  <1>2. ASSUME NEW p \in {"accountant", "hedge"}, Claim(p) PROVE OneHedge'
    <2>a. p \in Placers
      BY DEF Placers
    <2>1. /\ lock = None /\ placer[p].step = "claim" /\ UNCHANGED wire
          /\ placer[p] \in PlacerType
      BY <1>2, <1>b, <2>a DEF Claim, At
    <2>2. ASSUME lock' = p PROVE \A q \in Placers \ {p} : lock' = q <=> lock = q
      BY <2>1, <2>2, HedgePlacementAssumption
    <2>3. CASE /\ pending # None /\ lock' = p
               /\ placer' = [placer EXCEPT ![p].step = "recover", ![p].order = pending]
               /\ UNCHANGED <<positionVars, order, broker>>
      <3> DEFINE x == [placer[p] EXCEPT !.step = "recover", !.order = pending]
      <3>1. placer' = [placer EXCEPT ![p] = x]
        BY <1>b, <2>3, <2>a
      <3>2. /\ x \in PlacerType /\ x.step = "recover" /\ x.order = pending
            /\ x.job = placer[p].job
        BY <1>b, <2>1 DEF PlacerType
      <3> HIDE DEF x
      <3>3. placer'[p] = x
        BY <1>b, <2>a, <3>1
      <3>4. KeySound' /\ Stays
        BY <1>c, <2>1, <2>3, KeyIdle DEF positionVars
      <3>5. DriverSound(p)'
        BY <2>3, <3>2, <3>3, <3>4 DEF DriverSound, Driving, Stays
      <3>6. OrdersKeep /\ BrokerKeeps
        BY <2>1, <2>3 DEF OrdersKeep, BrokerKeeps
      <3> QED BY <2>2, <2>3, <2>a, <3>1, <3>2, <3>4, <3>5, <3>6, PlacerKeeps
    <2>4. CASE Finish(p) /\ UNCHANGED <<positionVars, order, broker>>
      <3>1. KeySound' /\ Stays
        BY <1>c, <2>1, <2>4, KeyIdle DEF positionVars
      <3> QED BY <2>1, <2>4, <2>a, <3>1, LeaveKept DEF Finish
    <2>5. CASE /\ pending = None /\ lock' = p /\ p = "hedge"
               /\ pending' = placer[p].job /\ Goto(p, "intent") /\ ~Spent(placer[p].job)
               /\ UNCHANGED <<credited, order, broker, anchor>>
      <3> DEFINE x == [placer[p] EXCEPT !.step = "intent"]
      <3>1. placer' = [placer EXCEPT ![p] = x]
        BY <1>b, <2>5, <2>a DEF Goto
      <3>2. /\ x \in PlacerType /\ x.step = "intent" /\ x.order = placer[p].order
            /\ x.job = placer[p].job
        BY <2>1 DEF PlacerType
      <3> HIDE DEF x
      <3>3. placer'[p] = x
        BY <1>b, <2>a, <3>1
      <3>4. DriverSound(p) /\ PlacerSound(p)
        BY <2>a DEF OneHedge, IInv, Placement
      <3>5. placer[p].order = placer[p].job /\ placer[p].job \in Orders
        BY <2>1, <2>5, <3>4 DEF DriverSound, PlacerSound
      <3>6. KeySound'
        BY <1>c, <2>1, <2>5, <3>5, KeyClaims
      <3>7. Claims
        BY <2>1, <2>5 DEF Claims
      <3>8. DriverSound(p)'
        BY <2>5, <3>2, <3>3, <3>5 DEF DriverSound, Driving
      <3>9. OrdersKeep /\ BrokerKeeps
        BY <2>1, <2>5 DEF OrdersKeep, BrokerKeeps
      <3> QED BY <2>2, <2>5, <2>a, <3>1, <3>2, <3>6, <3>7, <3>8, <3>9, PlacerKeeps
    <2>6. ASSUME pending = None, lock' = p, p = "accountant", NEW o \in Orders, Mint(o), pending' = o,
                 placer' = [placer EXCEPT ![p].step = "intent", ![p].order = o],
                 UNCHANGED anchor
          PROVE  OneHedge'
      <3> DEFINE x == [placer[p] EXCEPT !.step = "intent", !.order = o]
      <3>1. placer' = [placer EXCEPT ![p] = x]
        BY <1>b, <2>6, <2>a
      <3>2. x \in PlacerType /\ x.step = "intent" /\ x.order = o
        BY <2>1 DEF PlacerType
      <3> HIDE DEF x
      <3>3. placer'[p] = x
        BY <1>b, <2>a, <3>1
      <3>4. KeySound'
        BY <1>c, <2>1, <2>6, KeyMint
      <3>5. Fresh(o) /\ Claims
        BY <2>1, <2>6 DEF Claims, Mint
      <3>6. DriverSound(p)'
        BY <2>6, <3>2, <3>3 DEF DriverSound, Driving
      <3>7. OrdersKeep /\ BrokerKeeps
        BY <2>1, <2>6, MintKeeps
      <3> QED BY <2>2, <2>6, <2>a, <3>1, <3>2, <3>4, <3>5, <3>6, <3>7, PlacerKeeps
    <2> QED BY <1>2, <2>3, <2>4, <2>5, <2>6 DEF Claim, Ready
  <1> QED BY <1>1, <1>2

(* Recovering what the claim was taken for.                                *)
LEMMA RecoverKept ==
    ASSUME IInv, OneHedge,
           RecoverClaimed("accountant") \/ RecoverClaimed("scan") \/ RecoverHedge,
           ~stray'
    PROVE  OneHedge'
  <1>b. placer \in [Placers -> PlacerType] /\ pending \in Orders \cup {None}
        /\ order \in [Orders -> OrderType]
    BY DEF IInv, Placement, PlacersTyped, PositionTyped, Books
  <1>c. KeySound
    BY DEF OneHedge
  <1>1. UNCHANGED <<order, broker, wire>>
    BY DEF RecoverClaimed, RecoverHedge, brokerVars
  <1>2. OrdersKeep /\ BrokerKeeps
    BY <1>1 DEF OrdersKeep, BrokerKeeps
  <1>3. ASSUME NEW p \in Placers, Finish(p), KeySound', Stays \/ Fails \/ Settles PROVE OneHedge'
    BY <1>1, <1>3, LeaveKept DEF Finish
  <1>4. ASSUME UNCHANGED positionVars PROVE KeySound' /\ Stays
    BY <1>1, <1>4, <1>c, KeyIdle DEF positionVars
  <1>5. ASSUME NEW p \in Placers, NEW o \in Orders, NEW e \in BOOLEAN, Redrive(p, o, e), lock' = p,
               lock \in {p, None},
               placer[p].step = "recover",
               pending \in {o, None},
               pending = o \/ anchor # None \/ order[o].state \notin {"absent", "Pending"}
        PROVE  OneHedge'
    <2> DEFINE x == [placer[p] EXCEPT !.step = "intent", !.order = o,
                                      !.shares = order[o].shares, !.ext = e]
    <2>1. placer' = [placer EXCEPT ![p] = x] /\ UNCHANGED positionVars
      BY <1>5, <1>b DEF Redrive
    <2>2. order[o].shares \in Amounts /\ placer[p] \in PlacerType
      BY <1>b DEF OrderType
    <2>3. x \in PlacerType /\ x.step = "intent" /\ x.order = o
      BY <2>2 DEF PlacerType
    <2> HIDE DEF x
    <2>4. placer'[p] = x
      BY <1>b, <2>1
    <2>5. KeySound' /\ Stays
      BY <1>4, <2>1
    <2>6. DriverSound(p)'
      BY <1>1, <1>5, <2>3, <2>4, <2>5 DEF DriverSound, Driving, Stays
    <2>7. \A q \in Placers \ {p} : lock' = q <=> lock = q
      BY <1>5, HedgePlacementAssumption
    <2> QED BY <1>2, <2>1, <2>3, <2>5, <2>6, <2>7, PlacerKeeps
  <1>6. ASSUME NEW p \in {"accountant", "scan"}, RecoverClaimed(p) PROVE OneHedge'
    <2>a. p \in Placers
      BY DEF Placers
    <2>1. CASE pending # None /\ Redrive(p, pending, FALSE) /\ lock' = p
      <3>1. lock \in {p, None} /\ placer[p].step = "recover"
        BY <1>6 DEF RecoverClaimed, At
      <3> QED BY <1>5, <1>b, <2>1, <2>a, <3>1
    <2>2. CASE Finish(p) /\ UNCHANGED positionVars
      BY <1>3, <1>4, <2>2, <2>a
    <2>3. CASE pending # None /\ order[pending].state \in Terminal /\ Finalize(pending) /\ Finish(p)
      BY <1>1, <1>3, <1>c, <2>3, <2>a, KeySettles
    <2>4. CASE pending # None /\ FailOffChainOrder(pending) /\ Finish(p)
      BY <1>1, <1>3, <1>c, <2>4, <2>a, KeyFails
    <2> QED BY <1>6, <2>1, <2>2, <2>3, <2>4 DEF RecoverClaimed
  <1>7. CASE RecoverHedge
    <2> DEFINE o == placer["hedge"].order
    <2>a. "hedge" \in Placers
      BY DEF Placers
    <2>1. DriverSound("hedge") /\ PlacerSound("hedge") /\ placer["hedge"].step = "recover"
      BY <1>7, <2>a DEF OneHedge, IInv, Placement, RecoverHedge, At
    <2>2. CASE Finish("hedge") /\ UNCHANGED positionVars
      BY <1>3, <1>4, <2>2, <2>a
    <2>3. CASE order[o].state = "Pending" /\ Redrive("hedge", o, session = "Extended")
               /\ lock = "hedge" /\ UNCHANGED lock
      <3>2. o \in Orders /\ pending \in {o, None} /\ (pending = o \/ anchor # None)
        BY <2>1, <2>3 DEF DriverSound, PlacerSound
      <3> HIDE DEF o
      <3> QED BY <1>5, <2>1, <2>3, <2>a, <3>2 DEF o
    <2> QED BY <1>7, <2>2, <2>3 DEF RecoverHedge
  <1> QED BY <1>6, <1>7

(* place_offchain_order_at_broker, whoever calls it.                       *)
LEMMA DriveKept ==
    ASSUME IInv, OneHedge, NEW p \in Placers, Drive(p) \/ BrokerErrs(p)
    PROVE  OneHedge'
  <1> DEFINE o == placer[p].order
  <1>b. /\ placer \in [Placers -> PlacerType]
        /\ pending \in Orders \cup {None} /\ anchor \in Orders \cup {None}
        /\ order \in [Orders -> OrderType] /\ broker \in [Orders -> BrokerType]
        /\ wire \subseteq RequestType
    BY DEF IInv, Placement, PlacersTyped, PositionTyped, Books
  <1>c. /\ KeySound /\ DriverSound(p) /\ PlacerSound(p)
        /\ placer[p].step \in Driving
    BY DEF OneHedge, IInv, Placement, Drive, RecordIntent, BrokerAccepts, BrokerErrs, CommitOutcome,
           RoutePlacement, At, Driving
  <1>1. o \in Orders /\ lock = p /\ pending \in {o, None}
    BY <1>c DEF DriverSound, PlacerSound, Driving
  <1>2. ASSUME NEW x \in PlacerType, placer' = [placer EXCEPT ![p] = x],
               x.order = o, x.step \in Driving,
               x.step # "intent",
               x.step \in {"broker", "commit"} =>
                  x.key = CurrentKey /\ order'[o].state = "Pending",
               UNCHANGED <<pending, anchor, credited, lock>>,
               OrdersKeep, BrokerKeeps, KeySound'
        PROVE  OneHedge'
    <2>1. placer'[p] = x
      BY <1>2, <1>b
    <2>2. CurrentKey' = CurrentKey
      BY <1>2 DEF CurrentKey
    <2> HIDE DEF o
    <2>3. DriverSound(p)'
      BY <1>1, <1>2, <2>1, <2>2 DEF DriverSound, Driving
    <2> QED BY <1>2, <2>3, PlacerKeeps DEF Stays, o
  <1>3. ASSUME NEW f \in {"broker", "commit"}, placer[p].step = f
        PROVE  /\ placer[p].key = CurrentKey /\ placer[p].key \in Orders
               /\ order[o].state = "Pending"
    BY <1>3, <1>c DEF DriverSound, PlacerSound
  <1>4. CASE RecordIntent(p)
    <2>1. /\ UNCHANGED <<pending, anchor, credited, lock, broker, wire>>
          /\ placer[p].step = "intent"
      BY <1>4 DEF RecordIntent, At, positionVars, brokerVars, queueVars
    <2> DEFINE st == IF order[o].state \in {"absent", "Pending"} THEN "broker" ELSE "route"
               x == [placer[p] EXCEPT !.key = ClientOrderId(o), !.step = st]
               new == [Absent EXCEPT !.state = "Pending", !.shares = placer[p].shares]
    <2>2. placer' = [placer EXCEPT ![p] = x]
      BY <1>4, <1>b DEF RecordIntent
    <2>3. ClientOrderId(o) \in Orders
      BY <1>1 DEF ClientOrderId, IInv, PositionTyped
    <2>4. /\ x \in PlacerType /\ x.order = o /\ x.job = placer[p].job /\ x.step = st
          /\ x.key = ClientOrderId(o)
      BY <1>b, <2>3 DEF PlacerType
    <2>5. Absent \in OrderType /\ Absent.ref = None
      BY HedgePlacementAssumption DEF Absent, OrderType, Amounts
    <2>6. new.state = "Pending" /\ new.ref = None
      BY <2>5 DEF OrderType
    <2>7. order' = IF order[o].state = "absent" THEN [order EXCEPT ![o] = new] ELSE order
      BY <1>4 DEF RecordIntent, Place
    <2> HIDE DEF x, new, o
    <2>8. \A q \in Orders : order'[q] = IF q = o /\ order[o].state = "absent" THEN new ELSE order[q]
      BY <1>1, <1>b, <2>7
    <2>9. OrdersKeep
      <3>1. \A q \in Orders : order'[q] = order[q] \/ (q = o /\ order[q].state = "absent")
        BY <2>8
      <3> QED BY <2>1, <2>6, <2>8, <3>1 DEF OrdersKeep, o
    <2>10. BrokerKeeps
      BY <2>1 DEF BrokerKeeps
    <2>11. /\ pending # None => order'[pending].ref \in {None, CurrentKey}
           /\ anchor # None => order'[anchor].ref \in {None, anchor}
      BY <1>b, <1>c, <2>6, <2>8 DEF KeySound
    <2>12. KeySound'
      BY <1>b, <1>c, <2>1, <2>11, KeyStays
    <2>13. st = "broker" => x.key = CurrentKey /\ order'[o].state = "Pending"
      <3> SUFFICES ASSUME order[o].state \in {"absent", "Pending"}
                   PROVE  x.key = CurrentKey /\ order'[o].state = "Pending"
        OBVIOUS
      <3>1. pending = o \/ anchor # None
        BY <1>c, <2>1 DEF DriverSound, o
      <3>2. ClientOrderId(o) = CurrentKey
        BY <3>1 DEF ClientOrderId, CurrentKey
      <3> QED BY <1>1, <2>4, <2>6, <2>8, <3>2
    <2>14. st \in {"broker", "route"}
      OBVIOUS
    <2> HIDE DEF st
    <2> QED BY <1>2, <2>1, <2>2, <2>4, <2>9, <2>10, <2>12, <2>13, <2>14 DEF Driving, o
  <1>5. CASE BrokerAccepts(p) \/ BrokerErrs(p)
    <2>1. /\ UNCHANGED <<pending, anchor, credited, lock, order>>
          /\ placer[p].step = "broker"
      BY <1>5 DEF BrokerAccepts, BrokerErrs, At, positionVars, queueVars
    <2>2. /\ placer[p].key = CurrentKey /\ placer[p].key \in Orders
          /\ order[o].state = "Pending"
      BY <1>3, <2>1
    <2>3. PICK a \in BOOLEAN : placer' = [placer EXCEPT ![p].step = "commit", ![p].accepted = a]
      BY <1>5 DEF BrokerAccepts, BrokerErrs
    <2> DEFINE x == [placer[p] EXCEPT !.step = "commit", !.accepted = a]
    <2>4. placer' = [placer EXCEPT ![p] = x]
      BY <1>b, <2>3
    <2>5. /\ x \in PlacerType /\ x.order = o /\ x.job = placer[p].job /\ x.step = "commit"
          /\ x.key = placer[p].key
      BY <1>b DEF PlacerType
    <2> HIDE DEF x
    <2>6. Request(p).key = CurrentKey
      BY <2>2 DEF Request
    <2>7. /\ \A k \in Orders : broker'[k] = broker[k] \/ k = CurrentKey
          /\ \A r \in wire' : r \in wire \/ r.key = CurrentKey
      <3>1. CASE BrokerAccepts(p)
        BY <1>b, <2>2, <2>6, <3>1 DEF BrokerAccepts, Receive
      <3>2. CASE BrokerErrs(p)
        BY <2>6, <3>2 DEF BrokerErrs
      <3> QED BY <1>5, <3>1, <3>2
    <2>8. OrdersKeep /\ BrokerKeeps
      BY <2>1, <2>7 DEF OrdersKeep, BrokerKeeps
    <2>9. /\ pending # None => order'[pending].ref \in {None, CurrentKey}
          /\ anchor # None => order'[anchor].ref \in {None, anchor}
      BY <1>c, <2>1 DEF KeySound
    <2>10. KeySound'
      BY <1>b, <1>c, <2>1, <2>7, <2>9, KeyStays
    <2> QED BY <1>2, <2>1, <2>2, <2>4, <2>5, <2>8, <2>10 DEF Driving
  <1>6. CASE CommitOutcome(p)
    <2>1. /\ UNCHANGED <<pending, anchor, credited, lock, broker, wire>>
          /\ placer[p].step = "commit" /\ Goto(p, "route")
      BY <1>6 DEF CommitOutcome, At, positionVars, brokerVars, queueVars
    <2>2. /\ placer[p].key = CurrentKey /\ placer[p].key \in Orders
          /\ order[o].state = "Pending"
      BY <1>3, <2>1
    <2> DEFINE x == [placer[p] EXCEPT !.step = "route"]
    <2>3. placer' = [placer EXCEPT ![p] = x]
      BY <1>b, <2>1 DEF Goto
    <2>4. x \in PlacerType /\ x.order = o /\ x.job = placer[p].job /\ x.step = "route"
      BY <1>b DEF PlacerType
    <2> HIDE DEF x
    <2>5. /\ order'[o].state \notin {"absent", "Pending"}
          /\ order'[o].ref \in {order[o].ref, CurrentKey}
          /\ \A q \in Orders \ {o} : order'[q] = order[q]
      <3>1. CASE MarkAccepted(o, placer[p].key)
        <4> DEFINE n == Sign(order[o].shares) * Abs(broker[placer[p].key].shares)
                   e == broker[placer[p].key].ext
                   y == [order[o] EXCEPT !.state = "Submitted", !.ref = placer[p].key,
                                         !.shares = n, !.ext = e]
        <4>1. order' = [order EXCEPT ![o] = y]
          BY <2>2, <3>1 DEF MarkAccepted
        <4>2. y.state = "Submitted" /\ y.ref = CurrentKey
          BY <1>1, <1>b, <2>2 DEF OrderType
        <4> HIDE DEF y, o
        <4> QED BY <1>1, <1>b, <4>1, <4>2
      <3>2. CASE MarkPlacementFailed(o)
        <4> DEFINE y == [order[o] EXCEPT !.state = "Failed"]
        <4>1. order' = [order EXCEPT ![o] = y]
          BY <1>1, <1>b, <2>2, <3>2 DEF MarkPlacementFailed
        <4>2. y.state = "Failed" /\ y.ref = order[o].ref
          BY <1>1, <1>b DEF OrderType
        <4> HIDE DEF y, o
        <4> QED BY <1>1, <1>b, <4>1, <4>2
      <3> QED BY <1>6, <3>1, <3>2 DEF CommitOutcome
    <2>6. placer'[p] # placer[p]
      BY <1>b, <2>1, <2>3, <2>4
    <2>7. OrdersKeep
      <3> HIDE DEF o
      <3>1. \A q \in Orders \ {o} : order'[q] = order[q]
        BY <2>5
      <3>2. placer[p].step = "commit" /\ placer[p].order = o /\ placer'[p] # placer[p]
        BY <2>1, <2>6 DEF o
      <3> QED BY <2>2, <2>5, <3>1, <3>2 DEF OrdersKeep
    <2>8. BrokerKeeps
      BY <2>1 DEF BrokerKeeps
    <2>9. /\ pending # None => order'[pending].ref \in {None, CurrentKey}
          /\ anchor # None => order'[anchor].ref \in {None, anchor}
      BY <1>1, <1>b, <1>c, <2>5 DEF KeySound, CurrentKey
    <2>10. KeySound'
      BY <1>b, <1>c, <2>1, <2>9, KeyStays
    <2> QED BY <1>2, <2>1, <2>3, <2>4, <2>7, <2>8, <2>10 DEF Driving
  <1>7. CASE RoutePlacement(p)
    <2>1. UNCHANGED <<order, broker, wire>> /\ Leave(p)
      BY <1>7 DEF RoutePlacement, Finish, GiveUp, brokerVars
    <2>2. ASSUME KeySound', Stays \/ Fails \/ Settles PROVE OneHedge'
      BY <2>1, <2>2, LeaveKept
    <2>3. CASE PostPlace(o)
      BY <1>1, <1>c, <2>1, <2>2, <2>3, KeyPostPlace
    <2>4. CASE UNCHANGED positionVars
      BY <1>c, <2>1, <2>2, <2>4, KeyIdle DEF positionVars
    <2>5. CASE pending = o /\ FailOffChainOrder(o)
      <3>1. pending # None /\ FailOffChainOrder(pending)
        BY <1>1, <2>5, KeyTyped
      <3> QED BY <1>c, <2>1, <2>2, <3>1, KeyFails
    <2> QED BY <1>7, <2>3, <2>4, <2>5 DEF RoutePlacement
  <1> QED BY <1>4, <1>5, <1>6, <1>7 DEF Drive

-----------------------------------------------------------------------------
(* Nothing has been claimed.                                               *)
LEMMA InitOneHedge == Init => OneHedge
  <1> SUFFICES ASSUME Init PROVE OneHedge
    OBVIOUS
  <1>1. \A p \in Placers : placer[p] = Idle
    BY DEF Init
  <1>2. Idle.step = "idle" /\ lock = None
    BY DEF Idle, Init
  <1>3. \A p \in Placers : DriverSound(p)
    BY <1>1, <1>2, HedgePlacementAssumption DEF DriverSound, Driving
  <1>4. CurrentKey = None /\ pending = None /\ anchor = None /\ wire = {}
    BY DEF Init, CurrentKey
  <1>5. \A k \in Orders : broker[k] = NoOrder /\ credited[k] = 0
    BY DEF Init
  <1>6. NoOrder.state = "none" /\ NoOrder.fill = 0 /\ Abs(0) = 0
    BY DEF NoOrder, Abs
  <1>7. KeySound
    BY <1>4, <1>5, <1>6 DEF KeySound
  <1> QED BY <1>3, <1>7 DEF OneHedge

(* Every step keeps it, unless a retried row strays.                       *)
LEMMA NextOneHedge == IInv /\ OneHedge /\ [Next]_vars /\ ~stray' => OneHedge'
  <1> SUFFICES ASSUME IInv, OneHedge, [Next]_vars, ~stray' PROVE OneHedge'
    OBVIOUS
  <1>1. CASE UNCHANGED vars
    BY <1>1, PositionOnly DEF vars, positionVars, brokerVars, queueVars
  <1>2. CASE AccountantStep \/ \E d \in FillSizes : OnchainFill(d)
    BY <1>2, AccountantKept, ClaimKept, RecoverKept, DriveKept DEF AccountantStep, Placers
  <1>3. CASE HedgeStep
    BY <1>3, ClaimKept, RecoverKept, DriveKept DEF HedgeStep, Placers
  <1>4. CASE ScanStep \/ Restart \/ CancellationFails
    BY <1>4, ScanKept, RecoverKept, DriveKept DEF ScanStep, Placers
  <1>5. CASE PollStep \/ ReconcileStep \/ RejectStep \/ \E w \in Workers : WorkerError(w)
    BY <1>5, WorkersKept DEF PollStep, ReconcileStep, RejectStep, Workers
  <1>6. CASE \E p \in Placers : BrokerErrs(p)
    BY <1>6, DriveKept
  <1>7. CASE (\E p \in Placers : PlacerError(p)) \/ Crash \/ \E o \in Orders : Exhausted(o)
    BY <1>7, FailuresKept
  <1>8. CASE \/ \E k \in Orders : BrokerFill(k) \/ BrokerCancel(k) \/ BrokerFail(k)
             \/ \E r \in wire : LateArrival(r)
             \/ SessionChange
    BY <1>8, OutsideKept
  <1> QED BY <1>1, <1>2, <1>3, <1>4, <1>5, <1>6, <1>7, <1>8 DEF Next, FaultStep, OutsideStep

(* Whoever drives an order holds the lock and works under the current key, *)
(* under which alone something is live, unbooked or on its way, until a    *)
(* retried row claims under a spent id or drives without the lock.         *)
THEOREM HedgesSerialized == Spec => [](~stray => OneHedge)
  <1>1. Init => (~stray => OneHedge)
    BY InitOneHedge
  <1>2. [Next]_vars => (stray => stray')
    BY StrayStays
  <1>3. IInv /\ (~stray => OneHedge) /\ [Next]_vars => (~stray => OneHedge)'
    BY <1>2, NextOneHedge
  <1> QED BY <1>1, <1>3, Invariance, PTL DEF Spec

(* Never two live orders at the broker: no interleaving of the three       *)
(* placers, the sweeps, lost answers, retried rows and restarts lets a     *)
(* second hedge of the same exposure out before a row has strayed          *)
(* (place_offchain_order_at_broker, client_order_id_for_placement).        *)
THEOREM NeverTwoHedges == Spec => []NoDoubleHedge
  <1>1. (~stray => OneHedge) => NoDoubleHedge
    BY DEF OneHedge, KeySound, NoDoubleHedge
  <1> QED BY <1>1, HedgesSerialized, PTL

(* An execution that the position has not booked is under the anchor or    *)
(* the claim, until a row strays (evolve of OffChainOrderFailed).          *)
THEOREM ExecutionsAreTracked == Spec => []ExecutedIsTracked
  <1>1. IInv /\ (~stray => OneHedge) => ExecutedIsTracked
    <2> SUFFICES ASSUME IInv, OneHedge, NEW k \in Orders, broker[k].fill > Abs(credited[k])
                 PROVE  \/ anchor = k
                        \/ pending # None /\ (order[pending].ref = k \/ pending = k)
      BY DEF ExecutedIsTracked
    <2>1. k # CurrentKey => Abs(credited[k]) = broker[k].fill
      BY DEF OneHedge, KeySound
    <2>2. broker[k].fill \in Nat /\ k # None
      BY KeyTyped
    <2>3. k = CurrentKey
      BY <2>1, <2>2
    <2> QED BY <2>2, <2>3 DEF CurrentKey
  <1> QED BY <1>1, Invariance, HedgesSerialized, PTL

(* No execution is booked twice, nor more of it than there was, until a    *)
(* row strays (validate_pending_execution).                                *)
THEOREM BookedOnce == Spec => []CreditedOnce
  <1>1. IInv /\ (~stray => OneHedge) => CreditedOnce
    <2> SUFFICES ASSUME IInv, OneHedge, NEW k \in Orders PROVE Abs(credited[k]) <= broker[k].fill
      BY DEF CreditedOnce
    <2>1. broker[k].fill \in Nat /\ k # None
      BY KeyTyped
    <2>2. CASE k = CurrentKey
      <3>1. credited[k] = 0
        BY <2>1, <2>2 DEF OneHedge, KeySound
      <3> QED BY <2>1, <3>1 DEF Abs
    <2>3. CASE k # CurrentKey
      BY <2>1, <2>3 DEF OneHedge, KeySound
    <2> QED BY <2>2, <2>3
  <1> QED BY <1>1, Invariance, HedgesSerialized, PTL

=============================================================================
