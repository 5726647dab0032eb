------------------------- MODULE HedgePlacementProofs -------------------------
(***************************************************************************)
(* Proofs about HedgePlacement for any set of orders, any sessions, limits *)
(* and thresholds and any number of faults, with or without retried rows.  *)
(*                                                                         *)
(* That a local verdict is the broker's is not inductive: it is decided on *)
(* a reading that a worker, a row or a placer carries through several      *)
(* steps.  PollHonest, RowsHonest, WorkerSound and PlacerSound say what    *)
(* each of them may still believe, OrderKnown and BrokerSound what an      *)
(* order and the broker's record of it have to do with each other.         *)
(* Evolves is the frame that connects them: whatever a step does, an order *)
(* that is referred to is not minted anew, and neither it nor its record   *)
(* at the broker takes anything back.                                      *)
(***************************************************************************)
EXTENDS HedgePlacement, TLAPS

(* An order that exists has shares; one that was accepted names an order   *)
(* of the broker and is never ahead of it, and its verdict is the broker's.*)
OrderKnown(o) ==
    LET mine == order[o]  at == broker[mine.ref] IN
    /\ mine.state # "absent" => mine.shares # 0
    /\ mine.state \in {"absent", "Pending"} => mine.ref = None
    /\ mine.state \in Live \cup {"Filled", "Cancelled"} => mine.ref # None
    /\ mine.ref = None => mine.fill = 0
    /\ mine.ref # None =>
         /\ at.state # "none"
         /\ Abs(mine.shares) = Abs(at.shares)
         /\ mine.fill <= at.fill
         /\ mine.state = "Filled" => at.state = "filled"
         /\ mine.state \in {"Failed", "Cancelled"} => mine.fill = at.fill
         /\ mine.state = "Cancelled" => at.state = "cancelled"
         /\ mine.state = "Failed" => at.state = "failed"

(* The broker fills no more than was asked, and an order that is full has  *)
(* ended.                                                                  *)
BrokerSound ==
    /\ \A k \in Orders : broker[k].state = "none" => broker[k].fill = 0
    /\ \A k \in Orders : broker[k].state # "none" =>
          /\ broker[k].shares # 0
          /\ broker[k].fill <= Abs(broker[k].shares)
          /\ broker[k].state = "live" => broker[k].fill < Abs(broker[k].shares)
          /\ broker[k].state = "filled" => broker[k].fill = Abs(broker[k].shares)
    /\ \A r \in wire : r.shares # 0

(* What a placer holds at each step.                                       *)
PlacerSound(p) ==
    LET at == placer[p] IN
    /\ at.step \in {"clear", "intent", "broker", "commit", "route"} => at.order \in Orders
    /\ p = "hedge" /\ at.step \in {"claim", "recover"} => at.order \in Orders
    /\ at.step \in {"claim", "intent"} => at.shares # 0
    /\ at.step \in {"broker", "commit"} => at.key \in Orders /\ order[at.order].state # "absent"
    /\ at.step = "commit" /\ at.accepted => broker[at.key].state # "none"

(* Rows of the reconcile and the rejection queue carry what the poll saw.  *)
RowsHonest(o) ==
    LET mine == order[o]  at == broker[mine.ref] IN
    /\ o \in reconciles => mine.ref # None /\ at.state = "filled"
    /\ o \in rejections => \/ mine.state \in Terminal
                           \/ mine.ref # None /\ at.state = "failed" /\ mine.fill = at.fill

(* What a poll has seen is still so, unless the order was live.            *)
PollHonest ==
    LET o == worker["poll"].order  seen == worker["poll"].seen
        mine == order[o]  at == broker[mine.ref]
    IN  worker["poll"].step \in {"record", "dispatch"} =>
          /\ o \in Orders /\ mine.ref # None
          /\ seen.state # "none"
          /\ seen.fill <= at.fill
          /\ seen.state # "live" => seen = at
          /\ worker["poll"].step = "record" => seen.state # "filled"
          /\ worker["poll"].step = "dispatch" /\ seen.state \in {"failed", "cancelled"} =>
                mine.fill = at.fill

(* A worker that turns to the position has ended its order.                *)
WorkerSound(w) ==
    /\ worker[w].step = "position" =>
          worker[w].order \in Orders /\ order[worker[w].order].state \in Terminal
    /\ w # "poll" => worker[w].step \in {"idle", "position"}

(* The type invariant by parts.                                            *)
OrderType == [state : {"absent", "Pending"} \cup Live \cup Terminal,
              shares : Amounts, fill : 0..MaxShares,
              ref : Orders \cup {None}, ext : BOOLEAN]

BrokerType == [state : {"none", "live", "filled", "failed", "cancelled"},
               shares : Amounts, fill : 0..MaxShares, ext : BOOLEAN]

RequestType == [key : Orders, shares : Amounts, ext : BOOLEAN]

PlacerType == [step : {"idle", "reconcile", "clear", "ready", "claim",
                       "recover", "intent", "broker", "commit", "route",
                       "cancel", "catchup", "enqueue"},
               order : Orders \cup {None}, shares : Amounts, ext : BOOLEAN,
               key : Orders \cup {None}, accepted : BOOLEAN,
               job : Orders \cup {None}]

WorkerType == [step : {"idle", "record", "dispatch", "position"},
               order : Orders \cup {None}, seen : BrokerType]

PositionTyped ==
    /\ net \in Int
    /\ pending \in Orders \cup {None}
    /\ anchor \in Orders \cup {None}
    /\ credited \in [Orders -> Int]

QueuesTyped ==
    /\ hedges \in [Orders -> Amounts]
    /\ polls \subseteq Orders /\ reconciles \subseteq Orders /\ rejections \subseteq Orders

PlacersTyped == placer \in [Placers -> PlacerType] /\ lock \in Placers \cup {None}

EnvTyped ==
    /\ session \in Sessions
    /\ up \in {"down", "boot", "up"}
    /\ fills \in 0..MaxFills
    /\ faults \in 0..MaxFaults

(* The inductive invariant by parts: the orders here and at the broker,    *)
(* the rows, the placers and the workers.                                  *)
Books ==
    /\ order \in [Orders -> OrderType]
    /\ broker \in [Orders -> BrokerType]
    /\ wire \subseteq RequestType
    /\ \A o \in Orders : OrderKnown(o)
    /\ BrokerSound

Rows == QueuesTyped /\ \A o \in Orders : RowsHonest(o)

Placement == PlacersTyped /\ \A p \in Placers : PlacerSound(p)

Work ==
    /\ worker \in [Workers -> WorkerType]
    /\ PollHonest
    /\ \A w \in Workers : WorkerSound(w)

IInv == PositionTyped /\ Books /\ Rows /\ Placement /\ Work /\ EnvTyped

(* The parts give the type invariant.                                      *)
LEMMA TypeParts == IInv /\ stray \in BOOLEAN => TypeOK
  BY DEF IInv, PositionTyped, Books, Rows, QueuesTyped, Placement, PlacersTyped, Work, EnvTyped,
         TypeOK, OrderType, BrokerType, RequestType, PlacerType, WorkerType

-----------------------------------------------------------------------------
(* How a step may change an order: it stays what others know it to be, or  *)
(* its id was minted anew, and then nobody knew it.                        *)

OrderKept(o) ==
    /\ order[o].state # "absent" => order'[o].state # "absent"
    /\ order[o].ref # None => order'[o].ref = order[o].ref
    /\ order[o].state \in Terminal => order'[o] = order[o]
    /\ order[o].state \notin {"absent", "Pending"} => order'[o].state \notin {"absent", "Pending"}
    /\ order[o].fill <= order'[o].fill

BrokerKept(k) ==
    /\ broker[k].state # "none" => broker'[k].state # "none" /\ broker'[k].shares = broker[k].shares
    /\ broker[k].fill <= broker'[k].fill
    /\ broker[k].state \notin {"none", "live"} => broker'[k] = broker[k]

Evolves ==
    \A o \in Orders :
        \/ Fresh(o) /\ order'[o] = Absent /\ broker'[o] = NoOrder
        \/ OrderKept(o) /\ BrokerKept(o)

(* What refers to an order keeps it from being minted.                     *)
LEMMA Referenced ==
    ASSUME Books, Evolves, NEW o \in Orders, ~Fresh(o)
    PROVE  /\ OrderKept(o)
           /\ order[o].ref # None => BrokerKept(order[o].ref)
  <1>1. OrderKept(o)
    BY DEF Evolves
  <1>2. ASSUME order[o].ref # None PROVE BrokerKept(order[o].ref)
    <2>1. order[o].ref \in Orders
      BY <1>2 DEF Books, OrderType
    <2>2. CASE order[o].ref = o
      BY <2>2 DEF Evolves
    <2>3. CASE order[o].ref # o
      BY <2>1, <2>3 DEF Evolves, Fresh
    <2> QED BY <2>2, <2>3
  <1> QED BY <1>1, <1>2

(* Rows stay honest.                                                       *)
LEMMA RowsKeep ==
    ASSUME IInv, Books', Evolves, QueuesTyped',
           reconciles' \subseteq reconciles, rejections' \subseteq rejections
    PROVE  Rows'
  <1> SUFFICES ASSUME NEW o \in Orders PROVE RowsHonest(o)'
    BY DEF Rows
  <1>1. CASE o \in reconciles \cup rejections
    <2>1. ~Fresh(o)
      BY <1>1 DEF Fresh
    <2>2. OrderKept(o) /\ (order[o].ref # None => BrokerKept(order[o].ref))
      BY <2>1, Referenced DEF IInv
    <2>3. OrderKnown(o)' /\ RowsHonest(o)
      BY DEF IInv, Rows, Books
    <2>4. order[o] \in OrderType /\ order'[o] \in OrderType
      BY DEF IInv, Books
    <2>5. order[o].ref # None => order[o].ref \in Orders
      BY <2>4 DEF OrderType
    <2>6. order[o].ref # None => broker[order[o].ref] \in BrokerType /\ broker'[order[o].ref] \in BrokerType
      BY <2>5 DEF IInv, Books
    <2>7. order[o].fill \in Int /\ order'[o].fill \in Int
      BY <2>4 DEF OrderType
    <2> QED BY <2>2, <2>3, <2>5, <2>6, <2>7 DEF OrderKept, BrokerKept, OrderKnown, RowsHonest, Terminal
  <1>2. CASE o \notin reconciles \cup rejections
    BY <1>2 DEF RowsHonest
  <1> QED BY <1>1, <1>2

(* Placers keep what they hold.                                            *)
LEMMA PlacementKeeps ==
    ASSUME IInv, Evolves, PlacersTyped',
           \A p \in Placers : placer'[p] = placer[p] \/ PlacerSound(p)'
    PROVE  Placement'
  <1> SUFFICES ASSUME NEW p \in Placers, placer'[p] = placer[p] PROVE PlacerSound(p)'
    BY DEF Placement
  <1>1. PlacerSound(p)
    BY DEF IInv, Placement
  <1>2. \A o \in Orders : o \in {placer[p].order, placer[p].key} => OrderKept(o) /\ BrokerKept(o)
    BY DEF Evolves, Fresh
  <1> QED BY <1>1, <1>2 DEF PlacerSound, OrderKept, BrokerKept

(* Workers keep what they know.                                            *)
LEMMA WorkKeeps ==
    ASSUME IInv, Books', Evolves, worker' \in [Workers -> WorkerType],
           worker'["poll"] = worker["poll"] \/ PollHonest',
           \A w \in Workers : worker'[w] = worker[w] \/ WorkerSound(w)'
    PROVE  Work'
  <1>1. ASSUME NEW w \in Workers PROVE WorkerSound(w)'
    <2>1. WorkerSound(w)
      BY DEF IInv, Work
    <2>2. \A o \in Orders : o = worker[w].order => OrderKept(o)
      BY DEF Evolves, Fresh
    <2> QED BY <1>1, <2>1, <2>2 DEF WorkerSound, OrderKept
  <1>2. PollHonest'
    <2> SUFFICES ASSUME worker'["poll"] = worker["poll"],
                        worker["poll"].step \in {"record", "dispatch"}
                 PROVE  PollHonest'
      BY DEF PollHonest
    <2> DEFINE o == worker["poll"].order
               k == order[o].ref
    <2>1. PollHonest
      BY DEF IInv, Work
    <2>2. o \in Orders /\ k # None
      BY <2>1 DEF PollHonest
    <2>3. k \in Orders /\ order[o] \in OrderType /\ order'[o] \in OrderType
      BY <2>2 DEF IInv, Books, OrderType
    <2>4. ~Fresh(o)
      BY DEF Fresh, Workers
    <2>5. OrderKept(o) /\ BrokerKept(k)
      BY <2>2, <2>4, Referenced DEF IInv
    <2>6. OrderKnown(o)'
      BY <2>2 DEF Books
    <2>7. broker[k] \in BrokerType /\ broker'[k] \in BrokerType
      BY <2>3 DEF IInv, Books
    <2>8. /\ broker[k].fill \in Int /\ broker'[k].fill \in Int
          /\ order[o].fill \in Int /\ order'[o].fill \in Int
      BY <2>3, <2>7 DEF BrokerType, OrderType
    <2>9. order'[o].ref = k
      BY <2>2, <2>5 DEF OrderKept
    <2>10. order'[o].fill <= broker'[k].fill
      BY <2>2, <2>6, <2>9 DEF OrderKnown
    <2>11. worker["poll"].seen.fill \in Int
      BY DEF IInv, Work, WorkerType, BrokerType, Workers
    <2> HIDE DEF o, k
    <2>12. worker["poll"].seen = broker[k] \/ worker["poll"].seen.state = "live"
      BY <2>1, <2>2 DEF PollHonest, o, k
    <2>13. worker["poll"].seen.state \notin {"none", "live"} => broker'[k] = broker[k]
      BY <2>5, <2>12 DEF BrokerKept
    <2> QED BY <2>1, <2>2, <2>5, <2>8, <2>9, <2>10, <2>11, <2>12, <2>13
            DEF PollHonest, OrderKept, BrokerKept, o, k
  <1> QED BY <1>1, <1>2 DEF Work

-----------------------------------------------------------------------------
(* The writers of the orders.                                              *)

(* A step that writes neither side.                                        *)
LEMMA BooksIdle ==
    ASSUME Books, UNCHANGED <<order, broker, wire>>
    PROVE  Books' /\ Evolves
  <1>1. Books'
    BY DEF Books, OrderKnown, BrokerSound
  <1>2. \A o \in Orders : order[o].fill \in Int /\ broker[o].fill \in Int
    BY DEF Books, OrderType, BrokerType
  <1>3. Evolves
    BY <1>2 DEF Evolves, OrderKept, BrokerKept
  <1> QED BY <1>1, <1>3

(* Minting an id.                                                          *)
LEMMA BooksMint ==
    ASSUME Books, UNCHANGED wire, NEW o \in Orders, Mint(o)
    PROVE  Books' /\ Evolves
  <1>1. /\ order' = [order EXCEPT ![o] = Absent] /\ broker' = [broker EXCEPT ![o] = NoOrder]
        /\ Fresh(o)
    BY DEF Mint
  <1>2. Absent \in OrderType /\ NoOrder \in BrokerType
    BY HedgePlacementAssumption DEF Absent, NoOrder, OrderType, BrokerType, Amounts
  <1>3. order' \in [Orders -> OrderType] /\ broker' \in [Orders -> BrokerType]
    BY <1>1, <1>2 DEF Books
  <1>4. \A q \in Orders : order[q].fill \in Int /\ broker[q].fill \in Int
    BY DEF Books, OrderType, BrokerType
  <1>5. order'[o] = Absent /\ broker'[o] = NoOrder
    BY <1>1 DEF Books
  <1>6. \A q \in Orders \ {o} : order'[q] = order[q] /\ broker'[q] = broker[q]
    BY <1>1 DEF Books
  <1>7. Evolves
    BY <1>1, <1>4, <1>5, <1>6 DEF Evolves, OrderKept, BrokerKept
  <1>8. ASSUME NEW q \in Orders PROVE OrderKnown(q)'
    <2>1. CASE q = o
      BY <1>5, <2>1 DEF OrderKnown, Absent, Live
    <2>2. CASE q # o
      <3>1. order'[q] = order[q] /\ order[q].ref # o
        BY <1>1, <1>6, <2>2 DEF Fresh
      <3>2. order[q].ref # None => broker'[order[q].ref] = broker[order[q].ref]
        BY <1>6, <3>1 DEF Books, OrderType
      <3> QED BY <3>1, <3>2 DEF Books, OrderKnown
    <2> QED BY <2>1, <2>2
  <1>9. BrokerSound'
    BY <1>5, <1>6 DEF Books, BrokerSound, NoOrder
  <1> QED BY <1>3, <1>7, <1>8, <1>9 DEF Books

(* A command of one order.                                                 *)
LEMMA BooksOrder ==
    ASSUME Books, UNCHANGED <<broker, wire>>, NEW o \in Orders, NEW r \in OrderType,
           order' = [order EXCEPT ![o] = r], OrderKept(o), OrderKnown(o)'
    PROVE  Books' /\ Evolves
  <1>1. \A q \in Orders : order[q].fill \in Int /\ broker[q].fill \in Int
    BY DEF Books, OrderType, BrokerType
  <1>2. \A q \in Orders \ {o} : order'[q] = order[q]
    BY DEF Books
  <1>3. Evolves
    BY <1>1, <1>2 DEF Evolves, OrderKept, BrokerKept
  <1>4. \A q \in Orders : OrderKnown(q)'
    BY <1>2 DEF Books, OrderKnown
  <1>5. order' \in [Orders -> OrderType] /\ BrokerSound'
    BY DEF Books, BrokerSound
  <1> QED BY <1>3, <1>4, <1>5 DEF Books

(* A step of the broker with one of its orders.                            *)
LEMMA BooksBroker ==
    ASSUME Books, UNCHANGED order, wire' \subseteq wire, NEW k \in Orders, NEW r \in BrokerType,
           broker' = [broker EXCEPT ![k] = r], BrokerKept(k),
           r.state # "none" /\ r.shares # 0 /\ r.fill <= Abs(r.shares),
           r.state = "live" => r.fill < Abs(r.shares),
           r.state = "filled" => r.fill = Abs(r.shares)
    PROVE  Books' /\ Evolves
  <1>1. \A q \in Orders : order[q].fill \in Int /\ broker[q].fill \in Int
    BY DEF Books, OrderType, BrokerType
  <1>2. broker' \in [Orders -> BrokerType]
    BY DEF Books
  <1>3. \A q \in Orders \ {k} : broker'[q] = broker[q]
    BY DEF Books
  <1>4. \A q \in Orders : BrokerKept(q)
    BY <1>1, <1>3 DEF BrokerKept
  <1>5. Evolves
    BY <1>1, <1>4 DEF Evolves, OrderKept
  <1>6. ASSUME NEW q \in Orders PROVE OrderKnown(q)'
    <2>1. order[q].ref # None =>
            /\ BrokerKept(order[q].ref)
            /\ broker[order[q].ref].fill \in Int /\ broker'[order[q].ref].fill \in Int
      BY <1>2, <1>4 DEF Books, OrderType, BrokerType
    <2>2. OrderKnown(q)
      BY DEF Books
    <2>3. order[q].fill \in Int
      BY <1>1
    <2> QED BY <2>1, <2>2, <2>3 DEF OrderKnown, BrokerKept
  <1>7. broker'[k] = r
    BY DEF Books
  <1>8. BrokerSound'
    BY <1>3, <1>7 DEF Books, BrokerSound
  <1> QED BY <1>2, <1>5, <1>6, <1>8 DEF Books

(* The broker receives a request.                                          *)
LEMMA BooksReceive ==
    ASSUME Books, UNCHANGED order, wire' \subseteq wire, NEW r \in RequestType, r.shares # 0,
           Receive(r)
    PROVE  Books' /\ Evolves /\ broker'[r.key].state # "none"
  <1>1. r.key \in Orders /\ r.shares \in Amounts /\ r.ext \in BOOLEAN
    BY DEF RequestType
  <1>2. CASE broker[r.key].state = "none"
    <2> DEFINE b == [state |-> "live", shares |-> r.shares, fill |-> 0, ext |-> r.ext]
    <2>1. b \in BrokerType
      BY <1>1, HedgePlacementAssumption DEF BrokerType
    <2>2. 0 < Abs(r.shares) /\ 0 <= Abs(r.shares)
      BY <1>1, HedgePlacementAssumption DEF Abs, Amounts
    <2>3. broker' = [broker EXCEPT ![r.key] = b]
      BY <1>2 DEF Receive
    <2>4. broker'[r.key] = b
      BY <1>1, <2>3 DEF Books
    <2>5. BrokerKept(r.key)
      <3>1. broker[r.key].fill = 0
        BY <1>1, <1>2 DEF Books, BrokerSound
      <3> QED BY <1>1, <1>2, <2>4, <3>1 DEF BrokerKept, Books, BrokerType
    <2>6. /\ b.state = "live" /\ b.shares # 0 /\ b.fill <= Abs(b.shares)
          /\ b.fill < Abs(b.shares)
      BY <2>2
    <2> HIDE DEF b
    <2>7. Books' /\ Evolves
      BY <1>1, <2>1, <2>3, <2>5, <2>6, BooksBroker
    <2> QED BY <2>4, <2>6, <2>7
  <1>3. CASE broker[r.key].state # "none"
    <2>1. broker' = broker
      BY <1>3 DEF Receive
    <2>2. \A x \in wire' : x \in wire
      OBVIOUS
    <2>3. Books'
      BY <2>1, <2>2 DEF Books, OrderKnown, BrokerSound
    <2>4. \A o \in Orders : order[o].fill \in Int /\ broker[o].fill \in Int
      BY DEF Books, OrderType, BrokerType
    <2> QED BY <1>3, <2>1, <2>3, <2>4 DEF Evolves, OrderKept, BrokerKept
  <1> QED BY <1>2, <1>3

-----------------------------------------------------------------------------
(* The commands of an order.                                               *)

(* Arithmetic of signed shares.                                            *)
LEMMA SignedShares ==
    ASSUME NEW a \in Amounts, NEW b \in Amounts, a # 0, b # 0
    PROVE  /\ Sign(a) * Abs(b) \in Amounts /\ Sign(a) * Abs(b) # 0
           /\ Abs(Sign(a) * Abs(b)) = Abs(b)
  <1>1. a \in Int /\ b \in Int /\ MaxShares \in Int /\ b <= MaxShares /\ -MaxShares <= b
    BY HedgePlacementAssumption DEF Amounts
  <1>2. Abs(b) \in Int /\ Abs(b) > 0 /\ Abs(b) <= MaxShares
    BY <1>1 DEF Abs
  <1>3. Sign(a) = 1 \/ Sign(a) = -1
    BY DEF Sign
  <1>4. Sign(a) * Abs(b) = Abs(b) \/ Sign(a) * Abs(b) = -Abs(b)
    BY <1>2, <1>3
  <1>5. Abs(Abs(b)) = Abs(b) /\ Abs(-Abs(b)) = Abs(b)
    BY <1>2 DEF Abs
  <1> QED BY <1>1, <1>2, <1>4, <1>5 DEF Amounts

(* Place.                                                                  *)
LEMMA BooksPlace ==
    ASSUME Books, UNCHANGED <<broker, wire>>, NEW o \in Orders, NEW n \in Amounts, n # 0,
           Place(o, n)
    PROVE  Books' /\ Evolves /\ order'[o].state # "absent"
  <1>1. CASE order[o].state = "absent"
    <2> DEFINE r == [Absent EXCEPT !.state = "Pending", !.shares = n]
    <2>1. r.state = "Pending" /\ r.shares = n /\ r.fill = 0 /\ r.ref = None
      BY DEF Absent
    <2>2. r \in OrderType
      <3>1. Absent \in OrderType
        BY HedgePlacementAssumption DEF OrderType, Absent, Amounts
      <3> QED BY <3>1 DEF OrderType
    <2> HIDE DEF r
    <2>3. order' = [order EXCEPT ![o] = r]
      BY <1>1 DEF Place, r
    <2>4. order'[o] = r
      BY <2>3 DEF Books
    <2>5. OrderKept(o)
      <3>1. order[o].ref = None /\ order[o].fill = 0
        BY <1>1 DEF Books, OrderKnown
      <3> QED BY <1>1, <2>1, <2>4, <3>1 DEF OrderKept, Terminal
    <2>6. OrderKnown(o)'
      BY <2>1, <2>4 DEF OrderKnown, Live
    <2> QED BY <2>1, <2>2, <2>3, <2>4, <2>5, <2>6, BooksOrder
  <1>2. CASE order[o].state # "absent"
    BY <1>2, BooksIdle DEF Place
  <1> QED BY <1>1, <1>2

(* MarkAccepted.                                                           *)
LEMMA BooksAccepted ==
    ASSUME Books, UNCHANGED <<broker, wire>>, NEW o \in Orders, NEW k \in Orders,
           broker[k].state # "none", MarkAccepted(o, k)
    PROVE  Books' /\ Evolves
  <1>1. CASE order[o].state = "Pending"
    <2> DEFINE r == [order[o] EXCEPT !.state = "Submitted", !.ref = k,
                                     !.shares = Sign(order[o].shares) * Abs(broker[k].shares),
                                     !.ext = broker[k].ext]
    <2>1. order' = [order EXCEPT ![o] = r]
      BY <1>1 DEF MarkAccepted
    <2>2. order[o] \in OrderType /\ broker[k] \in BrokerType
      BY DEF Books
    <2>3. order[o].shares \in Amounts /\ order[o].shares # 0
      BY <1>1, <2>2 DEF Books, OrderKnown, OrderType
    <2>4. broker[k].shares \in Amounts /\ broker[k].shares # 0
      BY <2>2 DEF Books, BrokerSound, BrokerType
    <2>5. /\ Sign(order[o].shares) * Abs(broker[k].shares) \in Amounts
          /\ Sign(order[o].shares) * Abs(broker[k].shares) # 0
          /\ Abs(Sign(order[o].shares) * Abs(broker[k].shares)) = Abs(broker[k].shares)
      BY <2>3, <2>4, SignedShares
    <2>6. r \in OrderType /\ r.state = "Submitted" /\ r.ref = k /\ r.fill = order[o].fill
          /\ r.shares # 0 /\ Abs(r.shares) = Abs(broker[k].shares)
      BY <2>2, <2>5 DEF OrderType, BrokerType, Live
    <2> HIDE DEF r
    <2>7. order'[o] = r
      BY <2>1 DEF Books
    <2>8. order[o].ref = None /\ order[o].fill = 0 /\ broker[k].fill >= 0
      BY <1>1, <2>2 DEF Books, OrderKnown, BrokerType
    <2>9. OrderKept(o)
      BY <1>1, <2>6, <2>7, <2>8 DEF OrderKept, Terminal
    <2>10. OrderKnown(o)'
      BY <2>6, <2>7, <2>8, HedgePlacementAssumption DEF OrderKnown, Live
    <2> QED BY <2>1, <2>6, <2>9, <2>10, BooksOrder
  <1>2. CASE order[o].state # "Pending"
    BY <1>2, BooksIdle DEF MarkAccepted
  <1> QED BY <1>1, <1>2

(* MarkPlacementFailed.                                                    *)
LEMMA BooksRefused ==
    ASSUME Books, UNCHANGED <<broker, wire>>, NEW o \in Orders, MarkPlacementFailed(o)
    PROVE  Books' /\ Evolves
  <1>1. CASE order[o].state = "Pending"
    <2> DEFINE r == [order[o] EXCEPT !.state = "Failed"]
    <2>1. order' = [order EXCEPT ![o] = r]
      BY <1>1 DEF MarkPlacementFailed
    <2>2. order[o] \in OrderType
      BY DEF Books
    <2>3. r \in OrderType /\ r.state = "Failed" /\ r.ref = order[o].ref /\ r.fill = order[o].fill
          /\ r.shares = order[o].shares
      BY <2>2 DEF OrderType, Terminal
    <2> HIDE DEF r
    <2>4. order'[o] = r
      BY <2>1 DEF Books
    <2>5. order[o].ref = None /\ order[o].shares # 0 /\ order[o].fill = 0
      BY <1>1 DEF Books, OrderKnown
    <2>6. order[o].fill \in Int
      BY <2>2 DEF OrderType
    <2>7. OrderKept(o)
      BY <1>1, <2>3, <2>4, <2>6 DEF OrderKept, Terminal
    <2>8. OrderKnown(o)'
      BY <2>3, <2>4, <2>5 DEF OrderKnown, Live
    <2> QED BY <2>1, <2>3, <2>7, <2>8, BooksOrder
  <1>2. CASE order[o].state # "Pending"
    BY <1>2, BooksIdle DEF MarkPlacementFailed
  <1> QED BY <1>1, <1>2

(* UpdatePartialFill, with a fill that the broker has reached.             *)
LEMMA BooksPartialFill ==
    ASSUME Books, UNCHANGED <<broker, wire>>, NEW o \in Orders, NEW n \in 0..MaxShares,
           order[o].state \in Live, n <= broker[order[o].ref].fill, UpdatePartialFill(o, n)
    PROVE  Books' /\ Evolves /\ order'[o].fill >= n /\ order'[o].ref = order[o].ref
  <1>1. order[o] \in OrderType
    BY DEF Books
  <1>2. order[o].fill \in Int /\ n \in Int
    BY <1>1 DEF OrderType
  <1>3. CASE n > order[o].fill
    <2> DEFINE r == [order[o] EXCEPT !.fill = n,
                       !.state = IF order[o].state = "Cancelling"
                                 THEN "Cancelling" ELSE "PartiallyFilled"]
    <2>1. order' = [order EXCEPT ![o] = r]
      BY <1>3 DEF UpdatePartialFill
    <2>2. r \in OrderType /\ r.state \in Live /\ r.ref = order[o].ref /\ r.fill = n
          /\ r.shares = order[o].shares
      BY <1>1 DEF OrderType, Live
    <2> HIDE DEF r
    <2>3. order'[o] = r
      BY <2>1 DEF Books
    <2>4. OrderKnown(o)
      BY DEF Books
    <2>5. OrderKept(o)
      BY <1>2, <1>3, <2>2, <2>3 DEF OrderKept, Live, Terminal
    <2>6. OrderKnown(o)'
      BY <2>2, <2>3, <2>4 DEF OrderKnown, Live
    <2>7. Books' /\ Evolves
      BY <2>1, <2>2, <2>5, <2>6, BooksOrder
    <2> QED BY <1>2, <2>2, <2>3, <2>7
  <1>4. CASE ~(n > order[o].fill)
    BY <1>2, <1>4, BooksIdle DEF UpdatePartialFill
  <1> QED BY <1>3, <1>4

(* A live order ends as the broker's did, with the broker's fill.          *)
LEMMA BooksEnds ==
    ASSUME Books, UNCHANGED <<broker, wire>>, NEW o \in Orders, NEW st, NEW n \in 0..MaxShares,
           order[o].state \in Live,
           order' = [order EXCEPT ![o] = [order[o] EXCEPT !.fill = n, !.state = st]],
           order[o].fill <= n, n <= broker[order[o].ref].fill,
           \/ st = "Cancelling"
           \/ st = "Filled" /\ broker[order[o].ref].state = "filled"
           \/ /\ st = "Failed" /\ broker[order[o].ref].state = "failed"
              /\ n = broker[order[o].ref].fill
           \/ /\ st = "Cancelled" /\ broker[order[o].ref].state = "cancelled"
              /\ n = broker[order[o].ref].fill
    PROVE  Books' /\ Evolves /\ order'[o].state = st /\ order'[o].ref = order[o].ref
  <1> DEFINE r == [order[o] EXCEPT !.fill = n, !.state = st]
  <1>1. order' = [order EXCEPT ![o] = r]
    OBVIOUS
  <1>2. order[o] \in OrderType /\ OrderKnown(o)
    BY DEF Books
  <1>3. r \in OrderType /\ r.state = st /\ r.ref = order[o].ref /\ r.fill = n
        /\ r.shares = order[o].shares
    BY <1>2 DEF OrderType, Live, Terminal
  <1> HIDE DEF r
  <1>4. order'[o] = r
    BY <1>1 DEF Books
  <1>5. OrderKept(o)
    BY <1>3, <1>4 DEF OrderKept, Live, Terminal
  <1>6. OrderKnown(o)'
    BY <1>2, <1>3, <1>4 DEF OrderKnown, Live
  <1> QED BY <1>1, <1>3, <1>4, <1>5, <1>6, BooksOrder

(* CancelOrder of a live order.                                            *)
LEMMA BooksCancel ==
    ASSUME Books, UNCHANGED <<broker, wire>>, NEW o \in Orders, order[o].state \in Live,
           CancelOrder(o)
    PROVE  /\ Books' /\ Evolves /\ order'[o].ref = order[o].ref
           /\ broker[order[o].ref].state = "cancelled" => order'[o].state = "Cancelled"
  <1> DEFINE at == broker[order[o].ref]
             n == Larger(order[o].fill, IF at.state = "filled" THEN 0 ELSE at.fill)
             st == CASE at.state = "filled"    -> "Filled"
                     [] at.state = "failed"    -> "Failed"
                     [] at.state = "cancelled" -> "Cancelled"
                     [] at.state = "live"      -> "Cancelling"
  <1>1. order' = [order EXCEPT ![o] = [order[o] EXCEPT !.fill = n, !.state = st]]
    BY DEF CancelOrder
  <1>2. OrderKnown(o) /\ order[o] \in OrderType
    BY DEF Books
  <1>3. order[o].ref \in Orders
    BY <1>2 DEF OrderKnown, OrderType
  <1>4. at \in BrokerType
    BY <1>3 DEF Books
  <1>5. order[o].fill \in 0..MaxShares /\ at.fill \in 0..MaxShares
    BY <1>2, <1>4 DEF OrderType, BrokerType
  <1>6. order[o].fill <= at.fill /\ at.state # "none"
    BY <1>2 DEF OrderKnown, Live
  <1>7. n \in 0..MaxShares /\ order[o].fill <= n /\ n <= at.fill
        /\ (at.state # "filled" => n = at.fill)
    BY <1>5, <1>6, HedgePlacementAssumption DEF Larger
  <1>8. \/ st = "Cancelling" /\ at.state = "live"
        \/ st = "Filled" /\ at.state = "filled"
        \/ st = "Failed" /\ at.state = "failed" /\ n = at.fill
        \/ st = "Cancelled" /\ at.state = "cancelled" /\ n = at.fill
    BY <1>4, <1>6, <1>7 DEF BrokerType
  <1> HIDE DEF n, st
  <1> QED BY <1>1, <1>7, <1>8, BooksEnds

-----------------------------------------------------------------------------
(* The position, the rows and the placers after a command.                 *)

(* A terminal order settles the position.                                  *)
LEMMA FinalizeTyped ==
    ASSUME PositionTyped, Books, NEW o \in Orders, order[o].state \in Terminal, Finalize(o)
    PROVE  PositionTyped'
  <1>1. order[o] \in OrderType
    BY DEF Books
  <1>2. order[o].shares \in Int /\ order[o].fill \in Nat
    BY <1>1, HedgePlacementAssumption DEF OrderType, Amounts
  <1>3. Sign(order[o].shares) * order[o].fill \in Int
    BY <1>2 DEF Sign
  <1>4. ASSUME NEW n \in Int, CompleteOffChainOrder(o, n) PROVE PositionTyped'
    <2> DEFINE k == order[o].ref
    <2>1. credited' = [credited EXCEPT ![k] = credited[k] + n]
      BY <1>4 DEF CompleteOffChainOrder
    <2> HIDE DEF k
    <2>2. k \in Orders => credited[k] + n \in Int
      BY DEF PositionTyped
    <2>3. credited' \in [Orders -> Int]
      BY <2>1, <2>2 DEF PositionTyped
    <2> QED BY <1>4, <2>3 DEF CompleteOffChainOrder, PositionTyped
  <1>5. CASE order[o].state = "Filled"
    BY <1>2, <1>4, <1>5 DEF Finalize
  <1>6. CASE order[o].state # "Filled" /\ order[o].fill > 0
    <2>1. ~(order[o].fill = 0)
      BY <1>2, <1>6
    <2>2. CompleteOffChainOrder(o, Sign(order[o].shares) * order[o].fill)
      BY <1>6, <2>1 DEF Finalize
    <2> QED BY <1>3, <1>4, <2>2
  <1>7. CASE order[o].state # "Filled" /\ ~(order[o].fill > 0)
    <2>1. order[o].fill = 0
      BY <1>2, <1>7
    <2> QED BY <1>7, <2>1 DEF Finalize, Terminal, CancelOffChainOrder, FailOffChainOrder, PositionTyped
  <1> QED BY <1>5, <1>6, <1>7

(* The order of a failed placement becomes the anchor or leaves it.        *)
LEMMA FailTyped ==
    ASSUME PositionTyped, NEW o \in Orders \cup {None}, FailOffChainOrder(o)
    PROVE  PositionTyped'
  BY DEF PositionTyped, FailOffChainOrder

(* dispatch_post_place_state.                                              *)
LEMMA PostPlaceTyped ==
    ASSUME PositionTyped, Books, polls \subseteq Orders, NEW o \in Orders, PostPlace(o)
    PROVE  PositionTyped' /\ polls' \subseteq Orders
  <1>1. order[o] \in OrderType
    BY DEF Books
  <1>2. order[o].state \in {"absent", "Pending"} \cup Live \cup Terminal
    BY <1>1 DEF OrderType
  <1>3. polls' \subseteq Orders
    BY DEF PostPlace
  <1>4. CASE order[o].state \in Live
    BY <1>4 DEF PostPlace, PositionTyped, positionVars, Live
  <1>5. CASE order[o].state \in {"absent", "Failed"}
    BY <1>5, FailTyped DEF PostPlace, Live
  <1>6. CASE order[o].state = "Cancelled"
    BY <1>6, FinalizeTyped DEF PostPlace, Live, Terminal
  <1> QED BY <1>2, <1>3, <1>4, <1>5, <1>6 DEF PostPlace, PostPlaceFails, Terminal

(* Leaving a placement.                                                    *)
LEMMA Leaves ==
    ASSUME PlacersTyped, NEW p \in Placers, Leave(p)
    PROVE  /\ PlacersTyped'
           /\ \A q \in Placers : placer'[q] = placer[q] \/ PlacerSound(q)'
  <1>1. Idle \in PlacerType
    BY HedgePlacementAssumption DEF Idle, PlacerType, Amounts
  <1>2. [Idle EXCEPT !.step = "catchup"] \in PlacerType
    BY <1>1 DEF PlacerType
  <1>3. placer' \in [Placers -> PlacerType]
    BY <1>1, <1>2 DEF Leave, PlacersTyped
  <1>4. lock' \in Placers \cup {None}
    BY DEF Leave, Release, PlacersTyped
  <1>5. \A q \in Placers \ {p} : placer'[q] = placer[q]
    BY DEF Leave, PlacersTyped
  <1>6. Idle.step = "idle"
    BY DEF Idle
  <1>7. [Idle EXCEPT !.step = "catchup"].step = "catchup"
    BY <1>1 DEF PlacerType
  <1>8. placer'[p].step \in {"idle", "catchup"}
    BY <1>6, <1>7 DEF Leave, PlacersTyped
  <1>9. PlacerSound(p)'
    BY <1>8 DEF PlacerSound
  <1> QED BY <1>3, <1>4, <1>5, <1>9 DEF PlacersTyped

(* Dropping a row, or keeping it for the next attempt.                     *)
LEMMA RowDropped ==
    ASSUME QueuesTyped, NEW job, DropRow(job) \/ UNCHANGED hedges
    PROVE  hedges' \in [Orders -> Amounts]
  BY HedgePlacementAssumption DEF QueuesTyped, DropRow, Amounts

(* A placer that only moves on to a step at which nothing is asked of it.  *)
LEMMA GoesTo ==
    ASSUME PlacersTyped, NEW p \in Placers, NEW st, Goto(p, st), UNCHANGED lock,
           \/ st \in {"idle", "reconcile", "ready", "cancel", "catchup", "enqueue"}
           \/ p = "scan" /\ st = "recover"
    PROVE  /\ PlacersTyped'
           /\ \A q \in Placers : placer'[q] = placer[q] \/ PlacerSound(q)'
  <1>1. placer' \in [Placers -> PlacerType]
    BY DEF Goto, PlacersTyped, PlacerType
  <1>2. \A q \in Placers \ {p} : placer'[q] = placer[q]
    BY DEF Goto, PlacersTyped
  <1>3. placer'[p].step = st
    BY DEF Goto, PlacersTyped, PlacerType
  <1>4. PlacerSound(p)'
    BY <1>3 DEF PlacerSound
  <1> QED BY <1>1, <1>2, <1>4 DEF PlacersTyped

(* A placer that changes its locals: what it holds must be sound.          *)
LEMMA PlacerSet ==
    ASSUME PlacersTyped, NEW p \in Placers, NEW x \in PlacerType,
           placer' = [placer EXCEPT ![p] = x], lock' \in Placers \cup {None}, PlacerSound(p)'
    PROVE  /\ PlacersTyped'
           /\ \A q \in Placers : placer'[q] = placer[q] \/ PlacerSound(q)'
  BY DEF PlacersTyped

(* A step of a placer keeps the invariant.                                 *)
LEMMA PlacerStep ==
    ASSUME IInv, Books', Evolves, PositionTyped', EnvTyped',
           UNCHANGED <<worker, reconciles, rejections>>,
           hedges' \in [Orders -> Amounts], polls' \subseteq Orders, PlacersTyped',
           \A q \in Placers : placer'[q] = placer[q] \/ PlacerSound(q)'
    PROVE  IInv'
  <1>1. QueuesTyped'
    BY DEF IInv, Rows, QueuesTyped
  <1>2. Rows'
    BY <1>1, RowsKeep
  <1>3. Placement'
    BY PlacementKeeps
  <1>4. Work'
    BY WorkKeeps DEF IInv, Work
  <1> QED BY <1>2, <1>3, <1>4 DEF IInv

(* A worker that rests holds nothing.                                      *)
LEMMA Rests ==
    ASSUME worker \in [Workers -> WorkerType], NEW w \in Workers, Rest(w)
    PROVE  /\ worker' \in [Workers -> WorkerType]
           /\ \A v \in Workers : worker'[v] = worker[v] \/ WorkerSound(v)'
           /\ worker'["poll"] = worker["poll"] \/ PollHonest'
  <1>1. Resting \in WorkerType /\ Resting.step = "idle"
    BY HedgePlacementAssumption DEF Resting, WorkerType, BrokerType, NoOrder, Amounts
  <1>2. worker' = [worker EXCEPT ![w] = Resting]
    BY DEF Rest
  <1> HIDE DEF Rest
  <1>3. worker' \in [Workers -> WorkerType] /\ worker'[w] = Resting
    BY <1>1, <1>2
  <1>4. \A v \in Workers \ {w} : worker'[v] = worker[v]
    BY <1>2
  <1>5. WorkerSound(w)'
    BY <1>1, <1>3 DEF WorkerSound
  <1>6. w = "poll" => PollHonest'
    BY <1>1, <1>3 DEF PollHonest
  <1>7. "poll" \in Workers
    BY DEF Workers
  <1> QED BY <1>3, <1>4, <1>5, <1>6, <1>7

(* A worker that has ended its order turns to the position.                *)
LEMMA Turns ==
    ASSUME worker \in [Workers -> WorkerType], NEW w \in Workers, NEW o \in Orders,
           Advance(w, o, "position"), order'[o].state \in Terminal
    PROVE  /\ worker' \in [Workers -> WorkerType]
           /\ \A v \in Workers : worker'[v] = worker[v] \/ WorkerSound(v)'
           /\ worker'["poll"] = worker["poll"] \/ PollHonest'
  <1>1. worker' \in [Workers -> WorkerType]
    BY DEF Advance, WorkerType
  <1>2. \A v \in Workers \ {w} : worker'[v] = worker[v]
    BY DEF Advance
  <1>3. worker'[w].step = "position" /\ worker'[w].order = o
    BY DEF Advance, WorkerType
  <1>4. WorkerSound(w)'
    BY <1>3 DEF WorkerSound
  <1>5. w = "poll" => PollHonest'
    BY <1>3 DEF PollHonest
  <1>6. "poll" \in Workers
    BY DEF Workers
  <1> QED BY <1>1, <1>2, <1>4, <1>5, <1>6

(* A step of a worker keeps the invariant.                                 *)
LEMMA WorkerStep ==
    ASSUME IInv, UNCHANGED <<placer, lock, hedges, session, up, fills>>, faults' \in 0..MaxFaults,
           Books', Evolves, PositionTyped', polls' \subseteq Orders,
           \/ Rows'
           \/ reconciles' \subseteq reconciles /\ rejections' \subseteq rejections,
           worker' \in [Workers -> WorkerType],
           worker'["poll"] = worker["poll"] \/ PollHonest',
           \A w \in Workers : worker'[w] = worker[w] \/ WorkerSound(w)'
    PROVE  IInv'
  <1>1. Rows'
    <2>1. reconciles' \subseteq reconciles /\ rejections' \subseteq rejections => QueuesTyped'
      BY DEF IInv, Rows, QueuesTyped
    <2> QED BY <2>1, RowsKeep
  <1>2. Placement'
    BY PlacementKeeps DEF IInv, Placement, PlacersTyped
  <1>3. Work'
    BY WorkKeeps
  <1>4. EnvTyped'
    BY DEF IInv, EnvTyped
  <1> QED BY <1>1, <1>2, <1>3, <1>4 DEF IInv

-----------------------------------------------------------------------------
(* The actions, one lemma for each actor.                                  *)

(* The shares to hedge are never zero and never above the limit.           *)
LEMMA SharesToHedge ==
    ASSUME net \in Int, Ready
    PROVE  \A n \in HedgeShares : n \in Amounts /\ n # 0
  <1>1. Abs(net) \in Nat /\ Abs(net) >= 1
    BY HedgePlacementAssumption DEF Ready, MeetsThreshold, Abs
  <1> DEFINE cap == IF Abs(net) > MaxShares THEN MaxShares ELSE Abs(net)
  <1>2. cap \in 1..MaxShares
    BY <1>1, HedgePlacementAssumption
  <1> HIDE DEF cap
  <1>3. HedgeShares = IF net > 0 THEN 1..cap ELSE {-cap}
    BY DEF HedgeShares, cap
  <1> QED BY <1>2, <1>3, HedgePlacementAssumption DEF Amounts

(* The accounting worker.                                                  *)
LEMMA AccountantKeeps ==
    ASSUME IInv, \/ \E d \in FillSizes : OnchainFill(d)
                 \/ ReconcileExisting \/ ClearAbsent \/ CheckReadiness
    PROVE  IInv'
  <1> DEFINE me == "accountant"
  <1>a. me \in Placers
    BY DEF Placers
  <1>b. PositionTyped /\ Books /\ PlacersTyped /\ EnvTyped /\ QueuesTyped
    BY DEF IInv, Rows, Placement
  <1>c. hedges \in [Orders -> Amounts] /\ polls \subseteq Orders
    BY <1>b DEF QueuesTyped
  <1>1. ASSUME NEW d \in FillSizes, OnchainFill(d) PROVE IInv'
    <2>1. Goto(me, "reconcile") /\ UNCHANGED lock
      BY <1>1 DEF OnchainFill
    <2>2. PlacersTyped' /\ \A q \in Placers : placer'[q] = placer[q] \/ PlacerSound(q)'
      BY <1>a, <1>b, <2>1, GoesTo
    <2>3. Books' /\ Evolves
      BY <1>1, <1>b, BooksIdle DEF OnchainFill, brokerVars
    <2>4. PositionTyped'
      BY <1>1, <1>b, HedgePlacementAssumption DEF OnchainFill, PositionTyped
    <2>5. EnvTyped'
      BY <1>1, <1>b, HedgePlacementAssumption DEF OnchainFill, EnvTyped
    <2> QED BY <1>1, <1>c, <2>2, <2>3, <2>4, <2>5, PlacerStep DEF OnchainFill, queueVars
  <1>2. CASE ReconcileExisting
    <2>1. Books' /\ Evolves /\ EnvTyped'
      BY <1>2, <1>b, BooksIdle DEF ReconcileExisting, brokerVars, envVars, EnvTyped
    <2>2. PositionTyped' /\ polls' \subseteq Orders
      <3>1. pending # None => pending \in Orders
        BY <1>b DEF PositionTyped
      <3>2. CASE pending # None /\ PostPlace(pending)
        BY <1>b, <1>c, <3>1, <3>2, PostPlaceTyped
      <3>3. CASE UNCHANGED <<positionVars, polls>>
        BY <1>b, <1>c, <3>3 DEF positionVars, PositionTyped
      <3> QED BY <1>2, <3>2, <3>3 DEF ReconcileExisting
    <2>3. PlacersTyped' /\ \A q \in Placers : placer'[q] = placer[q] \/ PlacerSound(q)'
      <3>1. UNCHANGED lock
        BY <1>2 DEF ReconcileExisting
      <3>2. ASSUME NEW st \in {"idle", "ready"}, Goto(me, st)
            PROVE  PlacersTyped' /\ \A q \in Placers : placer'[q] = placer[q] \/ PlacerSound(q)'
        BY <1>a, <1>b, <3>1, <3>2, GoesTo
      <3>3. CASE pending # None /\ placer' = [placer EXCEPT ![me].step = "clear",
                                                            ![me].order = pending]
        <4> DEFINE x == [placer[me] EXCEPT !.step = "clear", !.order = pending]
        <4>1. placer' = [placer EXCEPT ![me] = x]
          BY <1>a, <1>b, <3>3 DEF PlacersTyped
        <4>2. x \in PlacerType /\ x.step = "clear" /\ x.order \in Orders
          BY <1>a, <1>b, <3>3 DEF PlacersTyped, PlacerType, PositionTyped
        <4> HIDE DEF x
        <4>3. placer'[me] = x
          BY <1>a, <1>b, <4>1 DEF PlacersTyped
        <4>4. PlacerSound(me)'
          BY <4>2, <4>3 DEF PlacerSound
        <4> QED BY <1>a, <1>b, <3>1, <4>1, <4>2, <4>4, PlacerSet DEF PlacersTyped
      <3> QED BY <1>2, <3>2, <3>3 DEF ReconcileExisting
    <2> QED BY <1>2, <1>c, <2>1, <2>2, <2>3, PlacerStep DEF ReconcileExisting
  <1>3. CASE ClearAbsent
    <2>1. Books' /\ Evolves /\ EnvTyped'
      BY <1>3, <1>b, BooksIdle DEF ClearAbsent, brokerVars, envVars, EnvTyped
    <2>2. PositionTyped'
      <3>1. placer[me].order \in Orders \cup {None}
        BY <1>a, <1>b DEF PlacersTyped, PlacerType
      <3>2. CASE FailOffChainOrder(placer[me].order)
        BY <1>b, <3>1, <3>2, FailTyped
      <3> QED BY <1>3, <1>b, <3>2 DEF ClearAbsent, positionVars, PositionTyped
    <2>3. \E x \in PlacerType : placer' = [placer EXCEPT ![me] = x] /\ x.step \in {"idle", "ready"}
      <3>1. Idle \in PlacerType /\ Idle.step = "idle"
        BY HedgePlacementAssumption DEF Idle, PlacerType, Amounts
      <3>2. [Idle EXCEPT !.step = "ready"] \in PlacerType /\ [Idle EXCEPT !.step = "ready"].step = "ready"
        BY <3>1 DEF PlacerType
      <3> QED BY <1>3, <3>1, <3>2 DEF ClearAbsent
    <2>4. PlacersTyped' /\ \A q \in Placers : placer'[q] = placer[q] \/ PlacerSound(q)'
      <3>1. PICK x \in PlacerType :
              placer' = [placer EXCEPT ![me] = x] /\ x.step \in {"idle", "ready"}
        BY <2>3
      <3>2. placer'[me] = x
        BY <1>a, <1>b, <3>1 DEF PlacersTyped
      <3>3. PlacerSound(me)'
        BY <3>1, <3>2 DEF PlacerSound
      <3>4. lock' \in Placers \cup {None}
        BY <1>3, <1>b DEF ClearAbsent, PlacersTyped
      <3> QED BY <1>a, <1>b, <3>1, <3>3, <3>4, PlacerSet
    <2> QED BY <1>3, <1>c, <2>1, <2>2, <2>4, PlacerStep DEF ClearAbsent, queueVars
  <1>4. CASE CheckReadiness
    <2>1. UNCHANGED <<lock, worker, reconciles, rejections, polls, wire>> /\ EnvTyped'
      BY <1>4, <1>b DEF CheckReadiness, envVars, EnvTyped
    <2>2. UNCHANGED <<net, pending, anchor>>
      BY <1>4 DEF CheckReadiness
    <2>3. ASSUME Goto(me, "idle")
          PROVE  PlacersTyped' /\ \A q \in Placers : placer'[q] = placer[q] \/ PlacerSound(q)'
      BY <1>a, <1>b, <2>1, <2>3, GoesTo
    <2>4. CASE UNCHANGED <<credited, order, broker, hedges>> /\ Goto(me, "idle")
      <3>1. Books' /\ Evolves
        BY <1>b, <2>1, <2>4, BooksIdle
      <3>2. PositionTyped'
        BY <1>b, <2>2, <2>4 DEF PositionTyped
      <3> QED BY <1>c, <2>1, <2>3, <2>4, <3>1, <3>2, PlacerStep
    <2>5. ASSUME Ready, Goto(me, "idle"), NEW o \in Orders, NEW n \in HedgeShares, Mint(o),
                 hedges' = [hedges EXCEPT ![o] = n]
          PROVE  IInv'
      <3>1. Books' /\ Evolves
        BY <1>b, <2>1, <2>5, BooksMint
      <3>2. PositionTyped'
        BY <1>b, <2>2, <2>5 DEF PositionTyped, Mint
      <3>3. hedges' \in [Orders -> Amounts]
        BY <1>b, <1>c, <2>5, SharesToHedge DEF PositionTyped
      <3> QED BY <1>c, <2>1, <2>3, <2>5, <3>1, <3>2, <3>3, PlacerStep
    <2>6. ASSUME Ready, NEW n \in HedgeShares, UNCHANGED <<credited, order, broker, hedges>>,
                 placer' = [placer EXCEPT ![me].step = "claim", ![me].shares = n]
          PROVE  IInv'
      <3>1. Books' /\ Evolves
        BY <1>b, <2>1, <2>6, BooksIdle
      <3>2. PositionTyped'
        BY <1>b, <2>2, <2>6 DEF PositionTyped
      <3> DEFINE x == [placer[me] EXCEPT !.step = "claim", !.shares = n]
      <3>3. placer' = [placer EXCEPT ![me] = x]
        BY <1>a, <1>b, <2>6 DEF PlacersTyped
      <3>4. n \in Amounts /\ n # 0
        BY <1>b, <2>6, SharesToHedge DEF PositionTyped
      <3>5. x \in PlacerType /\ x.step = "claim" /\ x.shares # 0
        BY <1>a, <1>b, <3>4 DEF PlacersTyped, PlacerType
      <3> HIDE DEF x
      <3>6. placer'[me] = x
        BY <1>a, <1>b, <3>3 DEF PlacersTyped
      <3>7. PlacerSound(me)'
        BY <3>5, <3>6 DEF PlacerSound
      <3>8. PlacersTyped' /\ \A q \in Placers : placer'[q] = placer[q] \/ PlacerSound(q)'
        BY <1>a, <1>b, <2>1, <3>3, <3>5, <3>7, PlacerSet DEF PlacersTyped
      <3> QED BY <1>c, <2>1, <2>6, <3>1, <3>2, <3>8, PlacerStep
    <2> QED BY <1>4, <2>4, <2>5, <2>6 DEF CheckReadiness
  <1> QED BY <1>1, <1>2, <1>3, <1>4

(* Starting a PlaceHedge row and claiming the position.                    *)
LEMMA ClaimKeeps ==
    ASSUME IInv, (\E o \in Orders : HedgeStart(o)) \/ Claim("accountant") \/ Claim("hedge")
    PROVE  IInv'
  <1>b. PositionTyped /\ Books /\ PlacersTyped /\ EnvTyped /\ QueuesTyped
    BY DEF IInv, Rows, Placement
  <1>c. hedges \in [Orders -> Amounts] /\ polls \subseteq Orders
    BY <1>b DEF QueuesTyped
  <1>1. ASSUME NEW o \in Orders, HedgeStart(o) PROVE IInv'
    <2> DEFINE x == [Idle EXCEPT !.job = o, !.order = o, !.shares = hedges[o],
                                 !.ext = (session = "Extended"),
                                 !.step = IF session = "Closed" THEN "recover" ELSE "claim"]
    <2>1. placer' = [placer EXCEPT !["hedge"] = x] /\ UNCHANGED lock
      BY <1>1 DEF HedgeStart
    <2>2. Idle \in PlacerType
      BY HedgePlacementAssumption DEF Idle, PlacerType, Amounts
    <2>3. hedges[o] \in Amounts /\ hedges[o] # 0
      BY <1>1, <1>c DEF HedgeStart
    <2>4. x \in PlacerType /\ x.step \in {"recover", "claim"} /\ x.shares # 0 /\ x.order \in Orders
      BY <2>2, <2>3 DEF PlacerType
    <2> HIDE DEF x
    <2>5. "hedge" \in Placers /\ placer'["hedge"] = x
      BY <1>b, <2>1 DEF PlacersTyped, Placers
    <2>6. PlacerSound("hedge")'
      BY <2>4, <2>5 DEF PlacerSound
    <2>7. PlacersTyped' /\ \A q \in Placers : placer'[q] = placer[q] \/ PlacerSound(q)'
      BY <1>b, <2>1, <2>4, <2>5, <2>6, PlacerSet DEF PlacersTyped
    <2>8. Books' /\ Evolves
      BY <1>1, <1>b, BooksIdle DEF HedgeStart, brokerVars
    <2>9. PositionTyped' /\ EnvTyped'
      BY <1>1, <1>b DEF HedgeStart, positionVars, envVars, PositionTyped, EnvTyped
    <2> QED BY <1>1, <1>c, <2>7, <2>8, <2>9, PlacerStep DEF HedgeStart, queueVars
  <1>2. ASSUME NEW p \in {"accountant", "hedge"}, Claim(p) PROVE IInv'
    <2>a. p \in Placers
      BY DEF Placers
    <2>1. UNCHANGED <<wire, polls, reconciles, rejections, worker>> /\ EnvTyped'
      BY <1>2, <1>b DEF Claim, envVars, EnvTyped
    <2>2. PlacerSound(p) /\ placer[p] \in PlacerType /\ placer[p].step = "claim"
      BY <1>2, <2>a DEF IInv, Placement, PlacersTyped, Claim, At
    <2>3. CASE pending # None /\ lock' = p /\ UNCHANGED <<positionVars, order, broker, hedges>>
               /\ placer' = [placer EXCEPT ![p].step = "recover", ![p].order = pending]
      <3> DEFINE x == [placer[p] EXCEPT !.step = "recover", !.order = pending]
      <3>1. placer' = [placer EXCEPT ![p] = x]
        BY <1>b, <2>3, <2>a DEF PlacersTyped
      <3>2. x \in PlacerType /\ x.step = "recover" /\ x.order \in Orders
        BY <1>b, <2>2, <2>3 DEF PlacerType, PositionTyped
      <3> HIDE DEF x
      <3>3. placer'[p] = x
        BY <1>b, <2>a, <3>1 DEF PlacersTyped
      <3>4. PlacerSound(p)'
        BY <3>2, <3>3 DEF PlacerSound
      <3>5. PlacersTyped' /\ \A q \in Placers : placer'[q] = placer[q] \/ PlacerSound(q)'
        BY <1>b, <2>3, <2>a, <3>1, <3>2, <3>4, PlacerSet
      <3>6. Books' /\ Evolves
        BY <1>b, <2>1, <2>3, BooksIdle
      <3>7. PositionTyped'
        BY <1>b, <2>3 DEF positionVars, PositionTyped
      <3> QED BY <1>c, <2>1, <2>3, <3>5, <3>6, <3>7, PlacerStep
    <2>4. CASE Finish(p) /\ UNCHANGED <<positionVars, order, broker>>
      <3>1. PlacersTyped' /\ \A q \in Placers : placer'[q] = placer[q] \/ PlacerSound(q)'
        BY <1>b, <2>4, <2>a, Leaves DEF Finish
      <3>2. Books' /\ Evolves
        BY <1>b, <2>1, <2>4, BooksIdle
      <3>3. PositionTyped'
        BY <1>b, <2>4 DEF positionVars, PositionTyped
      <3>4. hedges' \in [Orders -> Amounts]
        BY <1>b, <2>4, RowDropped DEF Finish
      <3> QED BY <1>c, <2>1, <3>1, <3>2, <3>3, <3>4, PlacerStep
    <2>5. CASE p = "hedge" /\ lock' = p /\ pending' = placer[p].job /\ Goto(p, "intent")
               /\ UNCHANGED <<credited, order, broker, net, anchor, hedges>>
      <3> DEFINE x == [placer[p] EXCEPT !.step = "intent"]
      <3>1. placer' = [placer EXCEPT ![p] = x]
        BY <1>b, <2>5, <2>a DEF PlacersTyped, Goto
      <3>2. placer[p].shares # 0 /\ placer[p].order \in Orders
        BY <2>2, <2>5 DEF PlacerSound
      <3>3. x \in PlacerType /\ x.step = "intent" /\ x.order \in Orders /\ x.shares # 0
        BY <2>2, <3>2 DEF PlacerType
      <3> HIDE DEF x
      <3>4. placer'[p] = x
        BY <1>b, <2>a, <3>1 DEF PlacersTyped
      <3>5. PlacerSound(p)'
        BY <3>3, <3>4 DEF PlacerSound
      <3>6. PlacersTyped' /\ \A q \in Placers : placer'[q] = placer[q] \/ PlacerSound(q)'
        BY <1>b, <2>5, <2>a, <3>1, <3>3, <3>5, PlacerSet
      <3>7. Books' /\ Evolves
        BY <1>b, <2>1, <2>5, BooksIdle
      <3>8. PositionTyped'
        BY <1>b, <2>2, <2>5 DEF PositionTyped, PlacerType
      <3> QED BY <1>c, <2>1, <2>5, <3>6, <3>7, <3>8, PlacerStep
    <2>6. ASSUME lock' = p, NEW o \in Orders, Mint(o), pending' = o,
                 placer' = [placer EXCEPT ![p].step = "intent", ![p].order = o],
                 UNCHANGED <<net, anchor, hedges>>
          PROVE  IInv'
      <3> DEFINE x == [placer[p] EXCEPT !.step = "intent", !.order = o]
      <3>1. placer' = [placer EXCEPT ![p] = x]
        BY <1>b, <2>6, <2>a DEF PlacersTyped
      <3>2. placer[p].shares # 0
        BY <2>2 DEF PlacerSound
      <3>3. x \in PlacerType /\ x.step = "intent" /\ x.order \in Orders /\ x.shares # 0
        BY <2>2, <3>2 DEF PlacerType
      <3> HIDE DEF x
      <3>4. placer'[p] = x
        BY <1>b, <2>a, <3>1 DEF PlacersTyped
      <3>5. PlacerSound(p)'
        BY <3>3, <3>4 DEF PlacerSound
      <3>6. PlacersTyped' /\ \A q \in Placers : placer'[q] = placer[q] \/ PlacerSound(q)'
        BY <1>b, <2>6, <2>a, <3>1, <3>3, <3>5, PlacerSet
      <3>7. Books' /\ Evolves
        BY <1>b, <2>1, <2>6, BooksMint
      <3>8. PositionTyped'
        BY <1>b, <2>6 DEF PositionTyped, Mint
      <3> QED BY <1>c, <2>1, <2>6, <3>6, <3>7, <3>8, PlacerStep
    <2> QED BY <1>2, <2>3, <2>4, <2>5, <2>6 DEF Claim
  <1> QED BY <1>1, <1>2

(* Recovering what the claim was taken for.                                *)
LEMMA RecoverKeeps ==
    ASSUME IInv, RecoverClaimed("accountant") \/ RecoverClaimed("scan") \/ RecoverHedge
    PROVE  IInv'
  <1>b. PositionTyped /\ Books /\ PlacersTyped /\ EnvTyped /\ QueuesTyped
    BY DEF IInv, Rows, Placement
  <1>c. hedges \in [Orders -> Amounts] /\ polls \subseteq Orders
    BY <1>b DEF QueuesTyped
  <1>1. Books' /\ Evolves
    BY <1>b, BooksIdle DEF RecoverClaimed, RecoverHedge, brokerVars
  <1>2. EnvTyped' /\ UNCHANGED <<worker, reconciles, rejections>>
    BY <1>b DEF RecoverClaimed, RecoverHedge, envVars, EnvTyped
  <1>3. ASSUME NEW p \in Placers, Finish(p), PositionTyped', polls' \subseteq Orders PROVE IInv'
    <2>1. PlacersTyped' /\ \A q \in Placers : placer'[q] = placer[q] \/ PlacerSound(q)'
      BY <1>b, <1>3, Leaves DEF Finish
    <2>2. hedges' \in [Orders -> Amounts]
      BY <1>b, <1>3, RowDropped DEF Finish
    <2> QED BY <1>1, <1>2, <1>3, <2>1, <2>2, PlacerStep
  <1>4. ASSUME NEW p \in Placers, NEW o \in Orders, NEW e \in BOOLEAN, order[o].state = "Pending",
               Redrive(p, o, e), lock' \in Placers \cup {None}
        PROVE  IInv'
    <2> DEFINE x == [placer[p] EXCEPT !.step = "intent", !.order = o,
                                      !.shares = order[o].shares, !.ext = e]
    <2>1. placer' = [placer EXCEPT ![p] = x]
      BY <1>4, <1>b DEF Redrive, PlacersTyped
    <2>2. order[o].shares \in Amounts /\ order[o].shares # 0
      BY <1>4, <1>b DEF Books, OrderKnown, OrderType
    <2>3. placer[p] \in PlacerType
      BY <1>b DEF PlacersTyped
    <2>4. x \in PlacerType /\ x.step = "intent" /\ x.order \in Orders /\ x.shares # 0
      BY <2>2, <2>3 DEF PlacerType
    <2> HIDE DEF x
    <2>5. placer'[p] = x
      BY <1>b, <2>1 DEF PlacersTyped
    <2>6. PlacerSound(p)'
      BY <2>4, <2>5 DEF PlacerSound
    <2>7. PlacersTyped' /\ \A q \in Placers : placer'[q] = placer[q] \/ PlacerSound(q)'
      BY <1>4, <1>b, <2>1, <2>4, <2>6, PlacerSet
    <2>8. PositionTyped'
      BY <1>4, <1>b DEF Redrive, positionVars, PositionTyped
    <2> QED BY <1>1, <1>2, <1>4, <1>c, <2>7, <2>8, PlacerStep DEF Redrive
  <1>5. ASSUME NEW p \in {"accountant", "scan"}, RecoverClaimed(p) PROVE IInv'
    <2>1. pending # None => pending \in Orders
      BY <1>b DEF PositionTyped
    <2>2. p \in Placers
      BY DEF Placers
    <2>3. CASE UNCHANGED positionVars
      BY <1>3, <1>4, <1>5, <1>b, <1>c, <2>1, <2>2, <2>3
      DEF RecoverClaimed, positionVars, PositionTyped
    <2>4. CASE pending # None /\ order[pending].state \in Terminal /\ Finalize(pending)
               /\ Finish(p) /\ UNCHANGED polls
      <3>1. PositionTyped'
        BY <1>b, <2>1, <2>4, FinalizeTyped
      <3> QED BY <1>3, <1>c, <2>2, <2>4, <3>1
    <2>5. CASE pending # None /\ FailOffChainOrder(pending) /\ Finish(p) /\ UNCHANGED polls
      <3>1. PositionTyped'
        BY <1>b, <2>1, <2>5, FailTyped
      <3> QED BY <1>3, <1>c, <2>2, <2>5, <3>1
    <2>6. CASE pending # None /\ order[pending].state = "Pending" /\ Redrive(p, pending, FALSE)
               /\ lock' = p
      BY <1>4, <2>1, <2>2, <2>6
    <2>7. CASE Finish(p) /\ UNCHANGED positionVars
      BY <2>3, <2>7
    <2> QED BY <1>5, <2>4, <2>5, <2>6, <2>7 DEF RecoverClaimed
  <1>6. CASE RecoverHedge
    <2> DEFINE o == placer["hedge"].order
    <2>1. "hedge" \in Placers
      BY DEF Placers
    <2>2. o \in Orders
      BY <1>6, <2>1 DEF RecoverHedge, At, IInv, Placement, PlacerSound
    <2>3. CASE order[o].state = "Pending" /\ Redrive("hedge", o, session = "Extended")
               /\ UNCHANGED lock
      BY <1>4, <1>b, <2>1, <2>2, <2>3 DEF PlacersTyped
    <2>4. CASE Finish("hedge") /\ UNCHANGED positionVars
               /\ polls' = (IF order[o].state \in Live THEN polls \cup {o} ELSE polls)
      <3>1. PositionTyped' /\ polls' \subseteq Orders
        BY <1>b, <1>c, <2>2, <2>4 DEF positionVars, PositionTyped
      <3> QED BY <1>3, <2>1, <2>4, <3>1
    <2> QED BY <1>6, <2>3, <2>4 DEF RecoverHedge
  <1> QED BY <1>5, <1>6

(* place_offchain_order_at_broker, whoever calls it.                       *)
LEMMA DriveKeeps ==
    ASSUME IInv, NEW p \in Placers, Drive(p) \/ BrokerErrs(p)
    PROVE  IInv'
  <1> DEFINE o == placer[p].order
  <1>b. PositionTyped /\ Books /\ PlacersTyped /\ EnvTyped /\ QueuesTyped
    BY DEF IInv, Rows, Placement
  <1>c. hedges \in [Orders -> Amounts] /\ polls \subseteq Orders
    BY <1>b DEF QueuesTyped
  <1>d. placer[p] \in PlacerType /\ PlacerSound(p)
    BY <1>b DEF PlacersTyped, IInv, Placement
  <1>e. o \in Orders
    BY <1>d DEF Drive, RecordIntent, BrokerAccepts, BrokerErrs, CommitOutcome, RoutePlacement, At,
                PlacerSound
  <1>1. CASE RecordIntent(p)
    <2> DEFINE st == IF order[o].state \in {"absent", "Pending"} THEN "broker" ELSE "route"
               x == [placer[p] EXCEPT !.key = ClientOrderId(o), !.step = st]
    <2>1. placer' = [placer EXCEPT ![p] = x]
      BY <1>1, <1>b DEF RecordIntent, PlacersTyped
    <2>2. ClientOrderId(o) \in Orders
      BY <1>b, <1>e DEF ClientOrderId, PositionTyped
    <2>3. x \in PlacerType /\ x.step \in {"broker", "route"} /\ x.order = o /\ x.key \in Orders
      BY <1>d, <2>2 DEF PlacerType
    <2> HIDE DEF x
    <2>4. placer'[p] = x
      BY <1>b, <2>1 DEF PlacersTyped
    <2>5. placer[p].shares # 0 /\ placer[p].shares \in Amounts
      BY <1>1, <1>d DEF RecordIntent, At, PlacerSound, PlacerType
    <2>6. Books' /\ Evolves /\ order'[o].state # "absent"
      BY <1>1, <1>b, <1>e, <2>5, BooksPlace DEF RecordIntent, brokerVars
    <2>7. PlacerSound(p)'
      BY <1>e, <2>3, <2>4, <2>6 DEF PlacerSound
    <2>8. PlacersTyped' /\ \A q \in Placers : placer'[q] = placer[q] \/ PlacerSound(q)'
      BY <1>1, <1>b, <2>1, <2>3, <2>7, PlacerSet DEF RecordIntent, PlacersTyped
    <2>9. PositionTyped' /\ EnvTyped'
      BY <1>1, <1>b DEF RecordIntent, positionVars, envVars, PositionTyped, EnvTyped
    <2> QED BY <1>1, <1>c, <2>6, <2>8, <2>9, PlacerStep DEF RecordIntent, queueVars
  <1>2. ASSUME At(p, "broker") PROVE Request(p) \in RequestType /\ Request(p).shares # 0
    <2>1. placer[p].key \in Orders /\ order[o].state # "absent"
      BY <1>2, <1>d DEF At, PlacerSound
    <2>2. order[o].shares \in Amounts /\ order[o].shares # 0
      BY <1>b, <1>e, <2>1 DEF Books, OrderKnown, OrderType
    <2>3. placer[p].ext \in BOOLEAN
      BY <1>d DEF PlacerType
    <2> QED BY <2>1, <2>2, <2>3 DEF Request, RequestType
  <1>3. CASE BrokerAccepts(p)
    <2> DEFINE x == [placer[p] EXCEPT !.step = "commit", !.accepted = TRUE]
    <2>1. placer' = [placer EXCEPT ![p] = x]
      BY <1>3, <1>b DEF BrokerAccepts, PlacersTyped
    <2>2. x \in PlacerType /\ x.step = "commit" /\ x.order = o /\ x.key = placer[p].key
      BY <1>d DEF PlacerType
    <2> HIDE DEF x
    <2>3. placer'[p] = x
      BY <1>b, <2>1 DEF PlacersTyped
    <2>4. Request(p) \in RequestType /\ Request(p).shares # 0
      BY <1>2, <1>3 DEF BrokerAccepts
    <2>5. Request(p).key = placer[p].key
      BY DEF Request
    <2>6. Books' /\ Evolves /\ broker'[placer[p].key].state # "none"
      BY <1>3, <1>b, <2>4, <2>5, BooksReceive DEF BrokerAccepts
    <2>7. placer[p].key \in Orders /\ order'[o].state # "absent"
      BY <1>3, <1>d DEF BrokerAccepts, At, PlacerSound
    <2>8. PlacerSound(p)'
      BY <1>e, <2>2, <2>3, <2>6, <2>7 DEF PlacerSound
    <2>9. PlacersTyped' /\ \A q \in Placers : placer'[q] = placer[q] \/ PlacerSound(q)'
      BY <1>3, <1>b, <2>1, <2>2, <2>8, PlacerSet DEF BrokerAccepts, PlacersTyped
    <2>10. PositionTyped' /\ EnvTyped'
      BY <1>3, <1>b DEF BrokerAccepts, positionVars, envVars, PositionTyped, EnvTyped
    <2> QED BY <1>3, <1>c, <2>6, <2>9, <2>10, PlacerStep DEF BrokerAccepts, queueVars
  <1>4. CASE BrokerErrs(p)
    <2> DEFINE x == [placer[p] EXCEPT !.step = "commit", !.accepted = FALSE]
    <2>1. placer' = [placer EXCEPT ![p] = x]
      BY <1>4, <1>b DEF BrokerErrs, PlacersTyped
    <2>2. x \in PlacerType /\ x.step = "commit" /\ x.order = o /\ x.key = placer[p].key
          /\ ~x.accepted
      BY <1>d DEF PlacerType
    <2> HIDE DEF x
    <2>3. placer'[p] = x
      BY <1>b, <2>1 DEF PlacersTyped
    <2>4. Request(p) \in RequestType /\ Request(p).shares # 0
      BY <1>2, <1>4 DEF BrokerErrs
    <2>5. UNCHANGED <<order, broker>> /\ wire' \in {wire, wire \cup {Request(p)}}
      BY <1>4 DEF BrokerErrs
    <2>6. Books' /\ Evolves
      <3>1. wire' \subseteq RequestType /\ \A r \in wire' : r.shares # 0
        BY <1>b, <2>4, <2>5 DEF Books, BrokerSound
      <3>2. Books'
        BY <1>b, <2>5, <3>1 DEF Books, OrderKnown, BrokerSound
      <3>3. \A q \in Orders : order[q].fill \in Int /\ broker[q].fill \in Int
        BY <1>b DEF Books, OrderType, BrokerType
      <3> QED BY <2>5, <3>2, <3>3 DEF Evolves, OrderKept, BrokerKept
    <2>7. placer[p].key \in Orders /\ order'[o].state # "absent"
      BY <1>4, <1>d DEF BrokerErrs, At, PlacerSound
    <2>8. PlacerSound(p)'
      BY <1>e, <2>2, <2>3, <2>7 DEF PlacerSound
    <2>9. PlacersTyped' /\ \A q \in Placers : placer'[q] = placer[q] \/ PlacerSound(q)'
      BY <1>4, <1>b, <2>1, <2>2, <2>8, PlacerSet DEF BrokerErrs, PlacersTyped
    <2>10. PositionTyped' /\ EnvTyped'
      BY <1>4, <1>b, HedgePlacementAssumption
      DEF BrokerErrs, Fault, positionVars, PositionTyped, EnvTyped
    <2> QED BY <1>4, <1>c, <2>6, <2>9, <2>10, PlacerStep DEF BrokerErrs, queueVars
  <1>5. CASE CommitOutcome(p)
    <2> DEFINE x == [placer[p] EXCEPT !.step = "route"]
    <2>1. placer' = [placer EXCEPT ![p] = x]
      BY <1>5, <1>b DEF CommitOutcome, Goto, PlacersTyped
    <2>2. x \in PlacerType /\ x.step = "route" /\ x.order = o
      BY <1>d DEF PlacerType
    <2> HIDE DEF x
    <2>3. placer'[p] = x
      BY <1>b, <2>1 DEF PlacersTyped
    <2>4. Books' /\ Evolves
      <3>1. placer[p].key \in Orders /\ (placer[p].accepted => broker[placer[p].key].state # "none")
        BY <1>5, <1>d DEF CommitOutcome, At, PlacerSound
      <3> QED BY <1>5, <1>b, <1>e, <3>1, BooksAccepted, BooksRefused DEF CommitOutcome, brokerVars
    <2>5. PlacerSound(p)'
      BY <1>e, <2>2, <2>3 DEF PlacerSound
    <2>6. PlacersTyped' /\ \A q \in Placers : placer'[q] = placer[q] \/ PlacerSound(q)'
      BY <1>5, <1>b, <2>1, <2>2, <2>5, PlacerSet DEF CommitOutcome, PlacersTyped
    <2>7. PositionTyped' /\ EnvTyped'
      BY <1>5, <1>b DEF CommitOutcome, positionVars, envVars, PositionTyped, EnvTyped
    <2> QED BY <1>5, <1>c, <2>4, <2>6, <2>7, PlacerStep DEF CommitOutcome, queueVars
  <1>6. CASE RoutePlacement(p)
    <2>1. Books' /\ Evolves
      BY <1>6, <1>b, BooksIdle DEF RoutePlacement, brokerVars
    <2>2. EnvTyped' /\ UNCHANGED <<worker, reconciles, rejections>>
      BY <1>6, <1>b DEF RoutePlacement, envVars, EnvTyped
    <2>3. Leave(p) /\ (DropRow(placer[p].job) \/ UNCHANGED hedges)
      BY <1>6 DEF RoutePlacement, Finish, GiveUp, Retry
    <2>4. PlacersTyped' /\ \A q \in Placers : placer'[q] = placer[q] \/ PlacerSound(q)'
      BY <1>b, <2>3, Leaves
    <2>5. hedges' \in [Orders -> Amounts]
      BY <1>b, <2>3, RowDropped
    <2>6. PositionTyped' /\ polls' \subseteq Orders
      <3>1. CASE PostPlace(o)
        BY <1>b, <1>c, <1>e, <3>1, PostPlaceTyped
      <3>2. CASE FailOffChainOrder(o) /\ UNCHANGED polls
        BY <1>b, <1>c, <1>e, <3>2, FailTyped
      <3>3. CASE UNCHANGED <<positionVars, polls>>
        BY <1>b, <1>c, <3>3 DEF positionVars, PositionTyped
      <3> QED BY <1>6, <3>1, <3>2, <3>3 DEF RoutePlacement
    <2> QED BY <2>1, <2>2, <2>4, <2>5, <2>6, PlacerStep
  <1> QED BY <1>1, <1>3, <1>4, <1>5, <1>6 DEF Drive

(* The scan's own steps.                                                   *)
LEMMA ScanKeeps ==
    ASSUME IInv, \/ FinalizeTerminalPending \/ RequestCancellation \/ CancellationFails
                 \/ CatchUpPolls \/ EnqueueHedge \/ Restart
    PROVE  IInv'
  <1>b. PositionTyped /\ Books /\ PlacersTyped /\ EnvTyped /\ QueuesTyped
    BY DEF IInv, Rows, Placement
  <1>c. hedges \in [Orders -> Amounts] /\ polls \subseteq Orders
    BY <1>b DEF QueuesTyped
  <1>d. "scan" \in Placers
    BY DEF Placers
  <1>e. pending # None => pending \in Orders
    BY <1>b DEF PositionTyped
  <1>1. UNCHANGED <<lock, worker, reconciles, rejections>>
    BY DEF FinalizeTerminalPending, RequestCancellation, CancellationFails, CatchUpPolls,
           EnqueueHedge, Restart, queueVars
  <1>2. \E st \in {"idle", "cancel", "recover", "enqueue"} : Goto("scan", st)
    BY DEF FinalizeTerminalPending, RequestCancellation, CancellationFails, CatchUpPolls,
           EnqueueHedge, Restart
  <1>3. PlacersTyped' /\ \A q \in Placers : placer'[q] = placer[q] \/ PlacerSound(q)'
    BY <1>1, <1>2, <1>b, <1>d, GoesTo
  <1>4. EnvTyped'
    BY <1>b, HedgePlacementAssumption
    DEF FinalizeTerminalPending, RequestCancellation, CancellationFails, CatchUpPolls,
        EnqueueHedge, Restart, Fault, envVars, EnvTyped
  <1>5. CASE EnqueueHedge
    <2>1. UNCHANGED <<net, pending, anchor, wire, polls>>
      BY <1>5 DEF EnqueueHedge
    <2>2. ASSUME Ready, NEW o \in Orders, NEW n \in HedgeShares, Mint(o),
                 hedges' = [hedges EXCEPT ![o] = n]
          PROVE  IInv'
      <3>1. Books' /\ Evolves
        BY <1>b, <2>1, <2>2, BooksMint
      <3>2. PositionTyped'
        BY <1>b, <2>1, <2>2 DEF PositionTyped, Mint
      <3>3. hedges' \in [Orders -> Amounts]
        BY <1>b, <1>c, <2>2, SharesToHedge DEF PositionTyped
      <3> QED BY <1>1, <1>3, <1>4, <1>c, <2>1, <3>1, <3>2, <3>3, PlacerStep
    <2>3. CASE UNCHANGED <<credited, order, broker, hedges>>
      <3>1. Books' /\ Evolves
        BY <1>b, <2>1, <2>3, BooksIdle
      <3>2. PositionTyped'
        BY <1>b, <2>1, <2>3 DEF PositionTyped
      <3> QED BY <1>1, <1>3, <1>4, <1>c, <2>1, <2>3, <3>1, <3>2, PlacerStep
    <2> QED BY <1>5, <2>2, <2>3 DEF EnqueueHedge
  <1>6. CASE RequestCancellation
    <2>1. Books' /\ Evolves
      <3>1. CASE CancellationDue /\ CancelOrder(pending)
        BY <1>6, <1>b, <1>e, <3>1, BooksCancel DEF RequestCancellation, CancellationDue, Live, brokerVars
      <3>2. CASE UNCHANGED order
        BY <1>6, <1>b, <3>2, BooksIdle DEF RequestCancellation, brokerVars
      <3> QED BY <1>6, <3>1, <3>2 DEF RequestCancellation
    <2>2. PositionTyped'
      BY <1>6, <1>b DEF RequestCancellation, positionVars, PositionTyped
    <2> QED BY <1>1, <1>3, <1>4, <1>6, <1>c, <2>1, <2>2, PlacerStep DEF RequestCancellation, queueVars
  <1>7. CASE FinalizeTerminalPending \/ CancellationFails \/ CatchUpPolls \/ Restart
    <2>1. Books' /\ Evolves
      BY <1>7, <1>b, BooksIdle
      DEF FinalizeTerminalPending, CancellationFails, CatchUpPolls, Restart, brokerVars
    <2>2. PositionTyped'
      <3>1. CASE pending # None /\ order[pending].state \in Terminal /\ Finalize(pending)
        BY <1>b, <1>e, <3>1, FinalizeTyped
      <3>2. CASE UNCHANGED positionVars
        BY <1>b, <3>2 DEF positionVars, PositionTyped
      <3> QED BY <1>7, <3>1, <3>2 DEF FinalizeTerminalPending, CancellationFails, CatchUpPolls, Restart
    <2>3. hedges' \in [Orders -> Amounts] /\ polls' \subseteq Orders
      BY <1>7, <1>c
      DEF FinalizeTerminalPending, CancellationFails, CatchUpPolls, Restart, queueVars
    <2> QED BY <1>1, <1>3, <1>4, <2>1, <2>2, <2>3, PlacerStep
  <1> QED BY <1>5, <1>6, <1>7

(* Taking a row off one of the three queues.                               *)
LEMMA Dequeues ==
    ASSUME QueuesTyped, NEW w \in Workers, NEW o, Dequeue(w, o)
    PROVE  /\ polls' \subseteq Orders
           /\ reconciles' \subseteq reconciles /\ rejections' \subseteq rejections
  BY DEF QueuesTyped, Dequeue

(* The poll.                                                               *)
LEMMA PollKeeps ==
    ASSUME IInv, (\E o \in Orders : PollStart(o)) \/ PollRecord \/ PollDispatch
    PROVE  IInv'
  <1>b. PositionTyped /\ Books /\ QueuesTyped /\ worker \in [Workers -> WorkerType] /\ PollHonest
    BY DEF IInv, Rows, Work
  <1>c. polls \subseteq Orders /\ reconciles \subseteq Orders /\ rejections \subseteq Orders
        /\ hedges \in [Orders -> Amounts]
    BY <1>b DEF QueuesTyped
  <1>d. "poll" \in Workers
    BY DEF Workers
  <1>1. UNCHANGED <<positionVars, brokerVars, hedges, placer, lock, envVars>>
    BY DEF PollStart, PollRecord, PollDispatch
  <1>2. PositionTyped' /\ UNCHANGED <<broker, wire, placer, lock, hedges, session, up, fills>>
        /\ faults' \in 0..MaxFaults
    BY <1>1, <1>b DEF positionVars, PositionTyped, brokerVars, envVars, IInv, EnvTyped
  <1> HIDE DEF IInv
  <1>3. ASSUME NEW o \in Orders, PollStart(o) PROVE IInv'
    <2>1. UNCHANGED order
      BY <1>3 DEF PollStart
    <2>2. Books' /\ Evolves
      BY <1>2, <1>b, <2>1, BooksIdle
    <2>3. CASE Dequeue("poll", o) /\ UNCHANGED worker
      <3>1. polls' \subseteq Orders /\ reconciles' \subseteq reconciles /\ rejections' \subseteq rejections
        BY <1>b, <1>d, <2>3, Dequeues
      <3> QED BY <1>2, <1>b, <2>2, <2>3, <3>1, WorkerStep
    <2>4. CASE order[o].state = "Cancelled" /\ Advance("poll", o, "position")
               /\ UNCHANGED <<polls, reconciles, rejections>>
      <3>1. /\ worker' \in [Workers -> WorkerType]
            /\ \A v \in Workers : worker'[v] = worker[v] \/ WorkerSound(v)'
            /\ worker'["poll"] = worker["poll"] \/ PollHonest'
        BY <1>b, <1>d, <2>1, <2>4, Turns DEF Terminal
      <3> QED BY <1>2, <1>c, <2>2, <2>4, <3>1, WorkerStep
    <2>5. CASE /\ order[o].state \in Live
               /\ LET seen == broker[order[o].ref] IN
                  worker' = [worker EXCEPT !["poll"] =
                               [step  |-> IF seen.fill = 0 \/ seen.state = "filled"
                                          THEN "dispatch" ELSE "record",
                                order |-> o, seen |-> seen]]
               /\ UNCHANGED <<polls, reconciles, rejections>>
      <3> DEFINE seen == broker[order[o].ref]
                 st == IF seen.fill = 0 \/ seen.state = "filled" THEN "dispatch" ELSE "record"
                 x == [step |-> st, order |-> o, seen |-> seen]
      <3>1. OrderKnown(o) /\ order[o] \in OrderType
        BY <1>b DEF Books
      <3>2. order[o].ref # None /\ order[o].ref \in Orders /\ seen.state # "none"
            /\ order[o].fill <= seen.fill
        BY <2>5, <3>1 DEF OrderKnown, OrderType
      <3>3. seen \in BrokerType
        BY <1>b, <3>2 DEF Books
      <3>4. x \in WorkerType
        BY <3>3 DEF WorkerType
      <3>5. worker' = [worker EXCEPT !["poll"] = x]
        BY <2>5
      <3>6. x.step = st /\ x.order = o /\ x.seen = seen
        OBVIOUS
      <3>7. order[o].fill \in Nat /\ seen.fill \in Nat
        BY <3>1, <3>3, HedgePlacementAssumption DEF OrderType, BrokerType
      <3>8. /\ st = "record" => seen.state # "filled"
            /\ st = "dispatch" /\ seen.state \in {"failed", "cancelled"} => order[o].fill = seen.fill
            /\ st \in {"record", "dispatch"}
        BY <3>2, <3>7
      <3>9. seen.fill <= seen.fill
        BY <3>7
      <3>10. worker'["poll"] = x /\ worker' \in [Workers -> WorkerType]
             /\ \A v \in Workers \ {"poll"} : worker'[v] = worker[v]
        BY <1>b, <1>d, <3>4, <3>5
      <3>11. UNCHANGED <<order, broker>>
        BY <1>2, <2>1
      <3> HIDE DEF x, st
      <3>12. PollHonest'
        BY <3>2, <3>6, <3>8, <3>9, <3>10, <3>11 DEF PollHonest
      <3>13. WorkerSound("poll")'
        BY <3>6, <3>8, <3>10 DEF WorkerSound
      <3>14. \A v \in Workers : worker'[v] = worker[v] \/ WorkerSound(v)'
        BY <3>10, <3>13
      <3>15. polls' \subseteq Orders /\ reconciles' \subseteq reconciles /\ rejections' \subseteq rejections
        BY <1>c, <2>5
      <3> QED BY <1>2, <2>2, <3>10, <3>12, <3>14, <3>15, WorkerStep
    <2> QED BY <1>3, <2>3, <2>4, <2>5 DEF PollStart
  <1> DEFINE o == worker["poll"].order
             seen == worker["poll"].seen
  <1>4. ASSUME worker["poll"].step \in {"record", "dispatch"}
        PROVE  /\ o \in Orders /\ order[o].ref # None /\ order[o].ref \in Orders
               /\ seen \in BrokerType
    BY <1>4, <1>b, <1>d DEF PollHonest, Books, OrderType, WorkerType
  <1>5. ASSUME Rest("poll"), Books', Evolves, polls' \subseteq Orders,
               \/ Rows'
               \/ reconciles' \subseteq reconciles /\ rejections' \subseteq rejections
        PROVE  IInv'
    <2>1. /\ worker' \in [Workers -> WorkerType]
          /\ \A v \in Workers : worker'[v] = worker[v] \/ WorkerSound(v)'
          /\ worker'["poll"] = worker["poll"] \/ PollHonest'
      BY <1>5, <1>b, <1>d, Rests
    <2> QED BY <1>2, <1>5, <2>1, WorkerStep
  <1>6. CASE PollRecord
    <2>1. o \in Orders /\ order[o].ref # None /\ order[o].ref \in Orders /\ seen \in BrokerType
          /\ worker["poll"].step = "record"
      BY <1>4, <1>6 DEF PollRecord
    <2>2. ASSUME Advance("poll", o, "dispatch"), Books', Evolves, order'[o].ref = order[o].ref,
                 seen.state # "live" => order'[o].fill >= seen.fill,
                 UNCHANGED <<polls, reconciles, rejections>>
          PROVE  IInv'
      <3>1. worker' \in [Workers -> WorkerType]
        BY <1>b, <1>d, <2>1, <2>2 DEF Advance, WorkerType
      <3>2. worker'["poll"].step = "dispatch" /\ worker'["poll"].order = o /\ worker'["poll"].seen = seen
            /\ \A v \in Workers \ {"poll"} : worker'[v] = worker[v]
        BY <1>b, <1>d, <2>2 DEF Advance, WorkerType
      <3> HIDE DEF o, seen
      <3>a. \A q \in Orders : OrderKnown(q)'
        BY <2>2 DEF Books
      <3>3. order'[o] \in OrderType /\ broker[order[o].ref] \in BrokerType
        BY <1>b, <2>1, <2>2 DEF Books
      <3>4. order'[o].fill \in Int /\ broker[order[o].ref].fill \in Int /\ seen.fill \in Int
        BY <2>1, <3>3 DEF OrderType, BrokerType
      <3>5. order'[o].fill <= broker[order[o].ref].fill
        BY <1>2, <2>1, <2>2, <3>a DEF OrderKnown
      <3> USE DEF o, seen
      <3>6. seen.fill <= broker[order[o].ref].fill /\ seen.state # "none"
            /\ (seen.state # "live" => seen = broker[order[o].ref])
        BY <1>b, <2>1 DEF PollHonest
      <3>7. seen.state # "live" => order'[o].fill = broker[order[o].ref].fill
        BY <2>2, <3>4, <3>5, <3>6
      <3>8. PollHonest'
        BY <1>2, <2>1, <2>2, <3>2, <3>6, <3>7 DEF PollHonest
      <3>9. WorkerSound("poll")'
        BY <3>2 DEF WorkerSound
      <3>10. \A v \in Workers : worker'[v] = worker[v] \/ WorkerSound(v)'
        BY <3>2, <3>9
      <3> QED BY <1>2, <1>c, <2>2, <3>1, <3>8, <3>10, WorkerStep
    <2>3. CASE Rest("poll") /\ UNCHANGED <<order, polls, reconciles, rejections>>
      BY <1>2, <1>5, <1>b, <1>c, <2>3, BooksIdle
    <2>4. CASE /\ order[o].state \in Live /\ UpdatePartialFill(o, seen.fill)
               /\ Advance("poll", o, "dispatch") /\ UNCHANGED <<polls, reconciles, rejections>>
      <3>1. seen.fill \in 0..MaxShares
        BY <2>1 DEF BrokerType
      <3>2. seen.fill <= broker[order[o].ref].fill
        BY <1>b, <2>1 DEF PollHonest
      <3>3. Books' /\ Evolves /\ order'[o].fill >= seen.fill /\ order'[o].ref = order[o].ref
        BY <1>2, <1>b, <2>1, <2>4, <3>1, <3>2, BooksPartialFill
      <3> QED BY <2>2, <2>4, <3>3
    <2>5. CASE /\ seen.state = "live" /\ Advance("poll", o, "dispatch")
               /\ UNCHANGED <<order, polls, reconciles, rejections>>
      BY <1>2, <1>b, <2>2, <2>5, BooksIdle
    <2>6. CASE Rest("poll") /\ Dequeue("poll", o) /\ UNCHANGED order
      <3>1. polls' \subseteq Orders /\ reconciles' \subseteq reconciles /\ rejections' \subseteq rejections
        BY <1>b, <1>d, <2>6, Dequeues
      <3> QED BY <1>2, <1>5, <1>b, <2>6, <3>1, BooksIdle
    <2> QED BY <1>6, <2>3, <2>4, <2>5, <2>6 DEF PollRecord
  <1>7. CASE PollDispatch
    <2>1. o \in Orders /\ order[o].ref # None /\ order[o].ref \in Orders /\ seen \in BrokerType
          /\ worker["poll"].step = "dispatch"
      BY <1>4, <1>7 DEF PollDispatch
    <2>2. seen.state # "live" => seen = broker[order[o].ref]
      BY <1>b, <2>1 DEF PollHonest
    <2>3. seen.state \in {"failed", "cancelled"} => order[o].fill = broker[order[o].ref].fill
      BY <1>b, <2>1 DEF PollHonest
    <2>4. CASE Rest("poll") /\ UNCHANGED <<order, polls, reconciles, rejections>>
      BY <1>2, <1>5, <1>b, <1>c, <2>4, BooksIdle
    <2>5. ASSUME UNCHANGED order, polls' = polls \ {o},
                 reconciles' = reconciles \/ (reconciles' = reconciles \cup {o} /\ seen.state = "filled"),
                 \/ rejections' = rejections
                 \/ /\ rejections' = rejections \cup {o}
                    /\ seen.state = "failed" \/ order[o].state \in Terminal
          PROVE  Rows'
      <3>1. QueuesTyped'
        BY <1>2, <1>c, <2>1, <2>5 DEF QueuesTyped
      <3>2. \A q \in Orders : RowsHonest(q)
        BY DEF IInv, Rows
      <3>3. UNCHANGED broker
        BY <1>2
      <3>4. ASSUME NEW q \in Orders PROVE RowsHonest(q)'
        <4>1. RowsHonest(q)
          BY <3>2
        <4>2. CASE q # o
          BY <2>5, <3>3, <4>1, <4>2 DEF RowsHonest
        <4>3. CASE q = o
          BY <2>1, <2>2, <2>3, <2>5, <3>3, <4>1, <4>3 DEF RowsHonest
        <4> QED BY <4>2, <4>3
      <3> QED BY <3>1, <3>4 DEF Rows
    <2>6. CASE Rest("poll") /\ UNCHANGED order /\ Rows' /\ polls' = polls \ {o}
      BY <1>2, <1>5, <1>b, <1>c, <2>6, BooksIdle
    <2>7. CASE /\ seen.state = "filled" /\ reconciles' = reconciles \cup {o} /\ polls' = polls \ {o}
               /\ Rest("poll") /\ UNCHANGED <<order, rejections>>
      BY <2>5, <2>6, <2>7
    <2>8. CASE /\ \/ seen.state = "failed"
                  \/ seen.state = "cancelled" /\ order[o].state \in Terminal
               /\ rejections' = rejections \cup {o} /\ polls' = polls \ {o}
               /\ Rest("poll") /\ UNCHANGED <<order, reconciles>>
      BY <2>5, <2>6, <2>8
    <2>9. CASE /\ seen.state = "cancelled" /\ order[o].state \in Live
               /\ IF order[o].state = "Cancelling"
                  THEN order' = [order EXCEPT ![o].state = "Cancelled"]
                  ELSE CancelOrder(o)
               /\ Advance("poll", o, "position") /\ UNCHANGED <<polls, reconciles, rejections>>
      <3>1. broker[order[o].ref].state = "cancelled"
        BY <2>2, <2>9
      <3>2. Books' /\ Evolves /\ order'[o].state = "Cancelled"
        <4>1. CASE CancelOrder(o)
          BY <1>2, <1>b, <2>1, <2>9, <3>1, <4>1, BooksCancel
        <4>2. CASE order' = [order EXCEPT ![o].state = "Cancelled"]
          <5> DEFINE n == order[o].fill
          <5>1. order[o] \in OrderType
            BY <1>b, <2>1 DEF Books
          <5>2. n \in 0..MaxShares /\ n <= n
            BY <5>1 DEF OrderType
          <5>3. order' = [order EXCEPT ![o] = [order[o] EXCEPT !.fill = n, !.state = "Cancelled"]]
            <6>1. [order[o] EXCEPT !.fill = n, !.state = "Cancelled"] = [order[o] EXCEPT !.state = "Cancelled"]
              BY <5>1 DEF OrderType
            <6> QED BY <4>2, <6>1
          <5>4. n = broker[order[o].ref].fill /\ n <= broker[order[o].ref].fill
            BY <2>3, <2>9, <5>2
          <5> QED BY <1>2, <1>b, <2>1, <2>9, <3>1, <5>2, <5>3, <5>4, BooksEnds
        <4> QED BY <2>9, <4>1, <4>2
      <3>3. /\ worker' \in [Workers -> WorkerType]
            /\ \A v \in Workers : worker'[v] = worker[v] \/ WorkerSound(v)'
            /\ worker'["poll"] = worker["poll"] \/ PollHonest'
        BY <1>b, <1>d, <2>1, <2>9, <3>2, Turns DEF Terminal
      <3> QED BY <1>2, <1>c, <2>9, <3>2, <3>3, WorkerStep
    <2> QED BY <1>7, <2>4, <2>7, <2>8, <2>9 DEF PollDispatch
  <1> QED BY <1>3, <1>6, <1>7

(* The reconcile and rejection workers, and the second write of all three. *)
LEMMA VerdictKeeps ==
    ASSUME IInv, \/ \E o \in Orders : ReconcileStart(o) \/ RejectStart(o)
                 \/ \E w \in Workers : PropagateTerminal(w) \/ WorkerError(w)
    PROVE  IInv'
  <1>b. PositionTyped /\ Books /\ QueuesTyped /\ worker \in [Workers -> WorkerType] /\ EnvTyped
    BY DEF IInv, Rows, Work
  <1>c. polls \subseteq Orders /\ reconciles \subseteq Orders /\ rejections \subseteq Orders
    BY <1>b DEF QueuesTyped
  <1>d. "reconcile" \in Workers /\ "reject" \in Workers
    BY DEF Workers
  <1>1. ASSUME NEW o \in Orders, ReconcileStart(o) \/ RejectStart(o),
               \/ UNCHANGED order
               \/ /\ order[o].state \in Live
                  /\ \E st \in {"Filled", "Failed"} : order' = [order EXCEPT ![o].state = st]
        PROVE  IInv'
    <2>1. PositionTyped' /\ UNCHANGED <<broker, wire, placer, lock, hedges, session, up, fills, polls>>
          /\ faults' \in 0..MaxFaults
      BY <1>1, <1>b DEF ReconcileStart, RejectStart, positionVars, PositionTyped, brokerVars,
                        envVars, EnvTyped
    <2>2. RowsHonest(o) /\ OrderKnown(o) /\ order[o] \in OrderType
      BY <1>b DEF IInv, Rows, Books
    <2>3. Books' /\ Evolves
      <3>1. CASE UNCHANGED order
        BY <1>b, <2>1, <3>1, BooksIdle
      <3>2. ASSUME order[o].state \in Live, NEW st \in {"Filled", "Failed"},
                   order' = [order EXCEPT ![o].state = st]
            PROVE  Books' /\ Evolves
        <4>1. CASE ReconcileStart(o) /\ st = "Filled"
          <5>1. o \in reconciles
            BY <4>1 DEF ReconcileStart, Take, Queue
          <5>2. broker[order[o].ref].state = "filled"
            BY <2>2, <5>1 DEF RowsHonest
          <5> DEFINE n == order[o].fill
          <5>3. n \in 0..MaxShares /\ n <= n
            BY <2>2 DEF OrderType
          <5>4. n <= broker[order[o].ref].fill
            BY <2>2, <3>2 DEF OrderKnown
          <5>5. order' = [order EXCEPT ![o] = [order[o] EXCEPT !.fill = n, !.state = "Filled"]]
            <6>1. [order[o] EXCEPT !.fill = n, !.state = "Filled"] = [order[o] EXCEPT !.state = "Filled"]
              BY <2>2 DEF OrderType
            <6> QED BY <3>2, <4>1, <6>1
          <5> QED BY <1>b, <2>1, <3>2, <5>2, <5>3, <5>4, <5>5, BooksEnds
        <4>2. CASE RejectStart(o) /\ st = "Failed"
          <5>1. o \in rejections
            BY <4>2 DEF RejectStart, Take, Queue
          <5> DEFINE n == order[o].fill
          <5>2. broker[order[o].ref].state = "failed" /\ n = broker[order[o].ref].fill
            BY <2>2, <3>2, <5>1 DEF RowsHonest, Live, Terminal
          <5>3. n \in 0..MaxShares /\ n <= n
            BY <2>2 DEF OrderType
          <5>4. n <= broker[order[o].ref].fill
            BY <5>2, <5>3
          <5>5. order' = [order EXCEPT ![o] = [order[o] EXCEPT !.fill = n, !.state = "Failed"]]
            <6>1. [order[o] EXCEPT !.fill = n, !.state = "Failed"] = [order[o] EXCEPT !.state = "Failed"]
              BY <2>2 DEF OrderType
            <6> QED BY <3>2, <4>2, <6>1
          <5> QED BY <1>b, <2>1, <3>2, <5>2, <5>3, <5>4, <5>5, BooksEnds
        <4>3. order'[o].state = st
          BY <1>b, <2>2, <3>2 DEF Books, OrderType
        <4>4. CASE ReconcileStart(o) /\ st = "Failed"
          <5>1. order'[o].state = "Filled" \/ order' = order
            BY <1>b, <2>2, <4>4 DEF ReconcileStart, Books, OrderType
          <5> QED BY <2>2, <3>2, <4>3, <4>4, <5>1 DEF Live
        <4>5. CASE RejectStart(o) /\ st = "Filled"
          <5>1. order'[o].state \in {"Cancelled", "Failed"} \/ order' = order
            BY <1>b, <2>2, <4>5 DEF RejectStart, Books, OrderType
          <5> QED BY <2>2, <3>2, <4>3, <4>5, <5>1 DEF Live
        <4> QED BY <1>1, <3>2, <4>1, <4>2, <4>4, <4>5
      <3> QED BY <1>1, <3>1, <3>2
    <2>4. reconciles' \subseteq reconciles /\ rejections' \subseteq rejections
      BY <1>1 DEF ReconcileStart, RejectStart
    <2>5. ASSUME NEW w \in Workers, Advance(w, o, "position"), order'[o].state \in Terminal
          PROVE  IInv'
      <3>1. /\ worker' \in [Workers -> WorkerType]
            /\ \A v \in Workers : worker'[v] = worker[v] \/ WorkerSound(v)'
            /\ worker'["poll"] = worker["poll"] \/ PollHonest'
        BY <1>b, <2>5, Turns
      <3> QED BY <1>c, <2>1, <2>3, <2>4, <3>1, WorkerStep
    <2>6. CASE UNCHANGED worker
      BY <1>b, <1>c, <2>1, <2>3, <2>4, <2>6, WorkerStep
    <2>7. CASE ReconcileStart(o)
      <3>1. order[o].state \in Live \cup {"Filled"} => order'[o].state \in Terminal
        BY <1>b, <2>2, <2>7 DEF ReconcileStart, Books, OrderType, Terminal
      <3> QED BY <1>d, <2>5, <2>6, <2>7, <3>1 DEF ReconcileStart
    <2>8. CASE RejectStart(o)
      <3>1. order[o].state \notin {"absent", "Filled"} => order'[o].state \in Terminal
        BY <1>b, <2>2, <2>8 DEF RejectStart, Books, OrderType, Terminal
      <3> QED BY <1>d, <2>5, <2>6, <2>8, <3>1 DEF RejectStart
    <2> QED BY <1>1, <2>7, <2>8
  <1>2. ASSUME NEW o \in Orders, ReconcileStart(o) \/ RejectStart(o)
        PROVE  \/ UNCHANGED order
               \/ /\ order[o].state \in Live
                  /\ \E st \in {"Filled", "Failed"} : order' = [order EXCEPT ![o].state = st]
    <2>1. order[o] \in OrderType /\ RowsHonest(o) /\ OrderKnown(o)
      BY <1>b DEF Books, IInv, Rows
    <2>2. ASSUME NEW st, order' = [order EXCEPT ![o].state = st], order[o].state = st
          PROVE  order' = order
      <3>1. order \in [Orders -> OrderType]
        BY <1>b DEF Books
      <3> QED BY <2>1, <2>2, <3>1 DEF OrderType
    <2>3. CASE ReconcileStart(o)
      BY <2>2, <2>3 DEF ReconcileStart
    <2>4. CASE RejectStart(o)
      <3>1. o \in rejections
        BY <2>4 DEF RejectStart, Take, Queue
      <3>2. order[o].state \in Live \cup Terminal
        BY <2>1, <3>1 DEF RowsHonest, OrderKnown, OrderType
      <3>3. CASE order[o].state \in {"absent", "Filled"}
        BY <2>4, <3>3 DEF RejectStart
      <3>4. CASE order[o].state \in Live \cup {"Failed", "Cancelled"}
        <4> DEFINE st == IF order[o].state = "Cancelled" THEN "Cancelled" ELSE "Failed"
        <4>1. order' = [order EXCEPT ![o].state = st]
          BY <2>4, <3>4 DEF RejectStart, Live
        <4>2. order[o].state \in Live => st = "Failed"
          BY DEF Live
        <4>3. order[o].state \in {"Failed", "Cancelled"} => order[o].state = st
          OBVIOUS
        <4> HIDE DEF st
        <4> QED BY <2>2, <3>4, <4>1, <4>2, <4>3
      <3> QED BY <3>2, <3>3, <3>4 DEF Terminal
    <2> QED BY <1>2, <2>3, <2>4
  <1>3. ASSUME NEW w \in Workers, PropagateTerminal(w) \/ WorkerError(w) PROVE IInv'
    <2>1. Rest(w) /\ UNCHANGED <<order, broker, wire, placer, lock, hedges, session, up, fills>>
      BY <1>3 DEF PropagateTerminal, WorkerError, brokerVars, envVars, queueVars
    <2>2. faults' \in 0..MaxFaults
      BY <1>3, <1>b, HedgePlacementAssumption
      DEF PropagateTerminal, WorkerError, envVars, Fault, EnvTyped
    <2>3. Books' /\ Evolves
      BY <1>b, <2>1, BooksIdle
    <2>4. /\ worker' \in [Workers -> WorkerType]
          /\ \A v \in Workers : worker'[v] = worker[v] \/ WorkerSound(v)'
          /\ worker'["poll"] = worker["poll"] \/ PollHonest'
      BY <1>b, <2>1, Rests
    <2>5. polls' \subseteq Orders /\ reconciles' \subseteq reconciles /\ rejections' \subseteq rejections
      <3>1. CASE PropagateTerminal(w)
        BY <1>b, <3>1, Dequeues DEF PropagateTerminal
      <3>2. CASE WorkerError(w)
        BY <1>c, <3>2 DEF WorkerError, queueVars
      <3> QED BY <1>3, <3>1, <3>2
    <2>6. PositionTyped'
      <3>1. CASE UNCHANGED positionVars
        BY <1>b, <3>1 DEF positionVars, PositionTyped
      <3>2. CASE PropagateTerminal(w) /\ Finalize(worker[w].order)
        <4>1. worker[w].order \in Orders /\ order[worker[w].order].state \in Terminal
          BY <3>2 DEF PropagateTerminal, IInv, Work, WorkerSound
        <4> QED BY <1>b, <3>2, <4>1, FinalizeTyped
      <3> QED BY <1>3, <3>1, <3>2 DEF PropagateTerminal, WorkerError
    <2> QED BY <2>1, <2>2, <2>3, <2>4, <2>5, <2>6, WorkerStep
  <1> QED BY <1>1, <1>2, <1>3

(* The bot fails or stops.                                                 *)
LEMMA FailureKeeps ==
    ASSUME IInv, \/ \E p \in Placers : PlacerError(p)
                 \/ Crash \/ \E o \in Orders : Exhausted(o)
    PROVE  IInv'
  <1>b. PositionTyped /\ Books /\ PlacersTyped /\ EnvTyped /\ QueuesTyped
    BY DEF IInv, Rows, Placement
  <1>c. hedges \in [Orders -> Amounts] /\ polls \subseteq Orders
    BY <1>b DEF QueuesTyped
  <1>1. Books' /\ Evolves
    BY <1>b, BooksIdle DEF PlacerError, Crash, Exhausted, brokerVars
  <1>2. PositionTyped'
    BY <1>b DEF PlacerError, Crash, Exhausted, positionVars, PositionTyped
  <1>3. EnvTyped'
    BY <1>b, HedgePlacementAssumption DEF PlacerError, Crash, Exhausted, Stop, Fault, EnvTyped
  <1>4. ASSUME NEW p \in Placers, PlacerError(p) PROVE IInv'
    <2>1. Leave(p) /\ (DropRow(placer[p].job) \/ UNCHANGED hedges)
      BY <1>4 DEF PlacerError, GiveUp, Retry
    <2>2. PlacersTyped' /\ \A q \in Placers : placer'[q] = placer[q] \/ PlacerSound(q)'
      BY <1>b, <2>1, Leaves
    <2>3. hedges' \in [Orders -> Amounts]
      BY <1>b, <2>1, RowDropped
    <2> QED BY <1>1, <1>2, <1>3, <1>4, <1>c, <2>2, <2>3, PlacerStep DEF PlacerError
  <1>5. ASSUME Stop, hedges' \in [Orders -> Amounts], polls' \subseteq Orders,
               reconciles' \subseteq reconciles, rejections' \subseteq rejections
        PROVE  IInv'
    <2>1. Idle \in PlacerType /\ Idle.step = "idle"
      BY HedgePlacementAssumption DEF Idle, PlacerType, Amounts
    <2>2. Resting \in WorkerType /\ Resting.step = "idle"
      BY HedgePlacementAssumption DEF Resting, WorkerType, BrokerType, NoOrder, Amounts
    <2>3. Placement'
      <3>1. PlacersTyped' /\ \A p \in Placers : placer'[p] = Idle
        BY <1>5, <2>1 DEF Stop, PlacersTyped
      <3>2. \A p \in Placers : PlacerSound(p)'
        BY <2>1, <3>1 DEF PlacerSound
      <3> QED BY <3>1, <3>2 DEF Placement
    <2>4. Work'
      <3>1. worker' \in [Workers -> WorkerType] /\ \A w \in Workers : worker'[w] = Resting
        BY <1>5, <2>2 DEF Stop
      <3>2. \A w \in Workers : WorkerSound(w)'
        BY <2>2, <3>1 DEF WorkerSound
      <3>3. worker'["poll"].step = "idle"
        BY <2>2, <3>1 DEF Workers
      <3>4. PollHonest'
        BY <3>3 DEF PollHonest
      <3> QED BY <3>1, <3>2, <3>4 DEF Work
    <2>5. QueuesTyped'
      BY <1>5, <1>b DEF QueuesTyped
    <2>6. Rows'
      BY <1>1, <1>5, <2>5, RowsKeep
    <2> QED BY <1>1, <1>2, <1>3, <2>3, <2>4, <2>6 DEF IInv
  <1>6. CASE Crash
    <2>1. hedges' \in [Orders -> Amounts]
      BY <1>6, <1>b, RowDropped DEF Crash, Retry
    <2> QED BY <1>5, <1>6, <1>c, <2>1 DEF Crash
  <1>7. ASSUME NEW o \in Orders, Exhausted(o) PROVE IInv'
    <2>1. hedges' \in [Orders -> Amounts]
      <3>1. \E job : DropRow(job) \/ UNCHANGED hedges
        BY <1>7 DEF Exhausted, Retry
      <3> QED BY <1>b, <3>1, RowDropped
    <2>2. CASE UNCHANGED <<polls, reconciles, rejections>>
      BY <1>5, <1>7, <1>c, <2>1, <2>2 DEF Exhausted
    <2>3. ASSUME NEW w \in Workers, Dequeue(w, o) PROVE IInv'
      <3>1. polls' \subseteq Orders /\ reconciles' \subseteq reconciles /\ rejections' \subseteq rejections
        BY <1>b, <2>3, Dequeues
      <3> QED BY <1>5, <1>7, <2>1, <3>1 DEF Exhausted
    <2> QED BY <1>7, <2>2, <2>3 DEF Exhausted
  <1> QED BY <1>4, <1>6, <1>7

(* The broker and the market.                                              *)
LEMMA OutsideKeeps ==
    ASSUME IInv, \/ \E k \in Orders : BrokerFill(k) \/ BrokerCancel(k) \/ BrokerFail(k)
                 \/ \E r \in wire : LateArrival(r)
                 \/ SessionChange
    PROVE  IInv'
  <1>b. PositionTyped /\ Books /\ PlacersTyped /\ EnvTyped /\ QueuesTyped
    BY DEF IInv, Rows, Placement
  <1>1. PositionTyped' /\ UNCHANGED <<order, queueVars, placer, lock, worker>>
    BY <1>b DEF BrokerFill, BrokerCancel, BrokerFail, LateArrival, SessionChange, positionVars,
                PositionTyped
  <1>2. EnvTyped'
    <2>1. /\ UNCHANGED <<up, fills>> /\ session' \in Sessions
          /\ UNCHANGED faults \/ Fault
      <3>1. session \in Sessions
        BY <1>b DEF EnvTyped
      <3>2. CASE \E k \in Orders : BrokerFill(k) \/ BrokerCancel(k) \/ BrokerFail(k)
        BY <3>1, <3>2 DEF BrokerFill, BrokerCancel, BrokerFail, envVars
      <3>3. CASE SessionChange \/ \E r \in wire : LateArrival(r)
        BY <3>1, <3>3 DEF LateArrival, SessionChange, envVars
      <3> QED BY <3>2, <3>3
    <2>2. faults' \in 0..MaxFaults
      BY <1>b, <2>1, HedgePlacementAssumption DEF Fault, EnvTyped
    <2> QED BY <1>b, <2>1, <2>2 DEF EnvTyped
  <1>3. ASSUME Books', Evolves PROVE IInv'
    BY <1>1, <1>2, <1>3, <1>b, PlacerStep DEF queueVars, PlacersTyped, QueuesTyped
  <1>4. ASSUME NEW k \in Orders, BrokerFill(k) \/ BrokerCancel(k) \/ BrokerFail(k) PROVE IInv'
    <2>1. broker[k] \in BrokerType /\ broker[k].state = "live" /\ broker[k].shares # 0
          /\ broker[k].fill <= Abs(broker[k].shares) /\ broker[k].fill < Abs(broker[k].shares)
      BY <1>4, <1>b DEF Books, BrokerSound, BrokerFill, BrokerCancel, BrokerFail
    <2>2. broker[k].fill \in Nat /\ Abs(broker[k].shares) \in Nat
          /\ Abs(broker[k].shares) <= MaxShares
      BY <2>1, HedgePlacementAssumption DEF BrokerType, Amounts, Abs
    <2>3. UNCHANGED wire
      BY <1>4 DEF BrokerFill, BrokerCancel, BrokerFail
    <2>4. ASSUME NEW st \in {"live", "filled", "failed", "cancelled"}, NEW n \in Nat,
                 broker[k].fill <= n, n <= Abs(broker[k].shares),
                 st = "live" => n < Abs(broker[k].shares),
                 st = "filled" => n = Abs(broker[k].shares),
                 broker' = [broker EXCEPT ![k] = [broker[k] EXCEPT !.fill = n, !.state = st]]
          PROVE  IInv'
      <3> DEFINE r == [broker[k] EXCEPT !.fill = n, !.state = st]
      <3>1. n \in 0..MaxShares
        BY <2>2, <2>4, HedgePlacementAssumption
      <3>2. r \in BrokerType /\ r.state = st /\ r.fill = n /\ r.shares = broker[k].shares
        BY <2>1, <3>1 DEF BrokerType
      <3>3. broker' = [broker EXCEPT ![k] = r]
        BY <2>4
      <3> HIDE DEF r
      <3>4. broker'[k] = r
        BY <1>b, <3>3 DEF Books
      <3>5. BrokerKept(k)
        BY <2>1, <2>4, <3>2, <3>4 DEF BrokerKept
      <3>6. Books' /\ Evolves
        BY <1>1, <1>b, <2>1, <2>3, <2>4, <3>2, <3>3, <3>5, BooksBroker
      <3> QED BY <1>3, <3>6
    <2>5. CASE BrokerFill(k)
      <3> DEFINE n == broker[k].fill + 1
                 st == IF broker[k].fill + 1 = Abs(broker[k].shares) THEN "filled" ELSE "live"
      <3>1. n \in Nat /\ broker[k].fill <= n /\ n <= Abs(broker[k].shares)
            /\ (st = "live" => n < Abs(broker[k].shares))
            /\ (st = "filled" => n = Abs(broker[k].shares))
        BY <2>1, <2>2
      <3>2. broker' = [broker EXCEPT ![k] = [broker[k] EXCEPT !.fill = n, !.state = st]]
        BY <2>5 DEF BrokerFill
      <3>3. st \in {"live", "filled", "failed", "cancelled"}
        OBVIOUS
      <3> HIDE DEF n, st
      <3> QED BY <2>4, <3>1, <3>2, <3>3
    <2>6. CASE BrokerCancel(k) \/ BrokerFail(k)
      <3> DEFINE n == broker[k].fill
      <3>1. PICK st \in {"failed", "cancelled"} : broker' = [broker EXCEPT ![k].state = st]
        BY <2>6 DEF BrokerCancel, BrokerFail
      <3>2. [broker[k] EXCEPT !.fill = n, !.state = st] = [broker[k] EXCEPT !.state = st]
        BY <2>1 DEF BrokerType
      <3>3. broker' = [broker EXCEPT ![k] = [broker[k] EXCEPT !.fill = n, !.state = st]]
        BY <3>1, <3>2
      <3>4. n \in Nat /\ broker[k].fill <= n /\ n <= Abs(broker[k].shares)
        BY <2>1, <2>2
      <3> HIDE DEF n
      <3> QED BY <2>4, <3>1, <3>3, <3>4
    <2> QED BY <1>4, <2>5, <2>6
  <1>5. ASSUME NEW r \in wire, LateArrival(r) PROVE IInv'
    <2>1. r \in RequestType /\ r.shares # 0
      BY <1>b DEF Books, BrokerSound
    <2>2. Books' /\ Evolves
      BY <1>1, <1>5, <1>b, <2>1, BooksReceive DEF LateArrival
    <2> QED BY <1>3, <2>2
  <1>6. CASE SessionChange
    BY <1>3, <1>6, <1>b, BooksIdle DEF SessionChange, brokerVars
  <1> QED BY <1>4, <1>5, <1>6

-----------------------------------------------------------------------------
(* Nothing has been placed and nobody holds anything.                      *)
LEMMA InitIInv == Init => IInv
  <1> SUFFICES ASSUME Init PROVE IInv
    OBVIOUS
  <1>1. Absent \in OrderType /\ Absent.state = "absent" /\ Absent.ref = None /\ Absent.fill = 0
    BY HedgePlacementAssumption DEF Absent, OrderType, Amounts
  <1>2. NoOrder \in BrokerType /\ NoOrder.state = "none" /\ NoOrder.fill = 0
    BY HedgePlacementAssumption DEF NoOrder, BrokerType, Amounts
  <1>3. Idle \in PlacerType /\ Idle.step = "idle"
    BY HedgePlacementAssumption DEF Idle, PlacerType, Amounts
  <1>4. Resting \in WorkerType /\ Resting.step = "idle"
    BY HedgePlacementAssumption DEF Resting, WorkerType, BrokerType, NoOrder, Amounts
  <1>5. PositionTyped /\ EnvTyped
    BY HedgePlacementAssumption DEF Init, PositionTyped, EnvTyped
  <1>6. Books
    <2>1. \A o \in Orders : order[o] = Absent /\ broker[o] = NoOrder
      BY DEF Init
    <2>2. order \in [Orders -> OrderType] /\ broker \in [Orders -> BrokerType]
          /\ wire \subseteq RequestType
      BY <1>1, <1>2 DEF Init
    <2>3. \A o \in Orders : OrderKnown(o)
      BY <1>1, <2>1 DEF OrderKnown, Live
    <2>4. BrokerSound
      BY <1>2, <2>1 DEF BrokerSound, Init
    <2> QED BY <2>2, <2>3, <2>4 DEF Books
  <1>7. Rows
    <2>1. QueuesTyped
      BY HedgePlacementAssumption DEF Init, QueuesTyped, Amounts
    <2>2. reconciles = {} /\ rejections = {}
      BY DEF Init
    <2> QED BY <2>1, <2>2 DEF Rows, RowsHonest
  <1>8. Placement
    <2>1. PlacersTyped /\ \A p \in Placers : placer[p] = Idle
      BY <1>3 DEF Init, PlacersTyped
    <2> QED BY <1>3, <2>1 DEF Placement, PlacerSound
  <1>9. Work
    <2>1. worker \in [Workers -> WorkerType] /\ \A w \in Workers : worker[w] = Resting
      BY <1>4 DEF Init
    <2>2. worker["poll"].step = "idle"
      BY <1>4, <2>1 DEF Workers
    <2>3. PollHonest
      BY <2>2 DEF PollHonest
    <2> QED BY <1>4, <2>1, <2>3 DEF Work, WorkerSound
  <1> QED BY <1>5, <1>6, <1>7, <1>8, <1>9 DEF IInv

(* Every step keeps the invariant.                                         *)
LEMMA NextIInv == IInv /\ [Next]_vars => IInv'
  <1> SUFFICES ASSUME IInv, [Next]_vars PROVE IInv'
    OBVIOUS
  <1>1. CASE AccountantStep
    BY <1>1, AccountantKeeps, ClaimKeeps, RecoverKeeps, DriveKeeps DEF AccountantStep, Placers
  <1>2. CASE HedgeStep
    BY <1>2, ClaimKeeps, RecoverKeeps, DriveKeeps DEF HedgeStep, Placers
  <1>3. CASE ScanStep
    BY <1>3, ScanKeeps, RecoverKeeps, DriveKeeps DEF ScanStep, Placers
  <1>4. CASE PollStep
    BY <1>4, PollKeeps, VerdictKeeps DEF PollStep, Workers
  <1>5. CASE ReconcileStep \/ RejectStep
    BY <1>5, VerdictKeeps DEF ReconcileStep, RejectStep, Workers
  <1>6. CASE FaultStep
    BY <1>6, DriveKeeps, FailureKeeps, VerdictKeeps, ScanKeeps DEF FaultStep
  <1>7. CASE Restart
    BY <1>7, ScanKeeps
  <1>8. CASE OutsideStep
    BY <1>8, AccountantKeeps, OutsideKeeps DEF OutsideStep
  <1>9. CASE UNCHANGED vars
    <2>1. UNCHANGED <<order, broker, wire, worker, reconciles, rejections, polls, hedges, placer,
                      lock, net, pending, anchor, credited, session, up, fills, faults>>
      BY <1>9 DEF vars, positionVars, brokerVars, queueVars, envVars
    <2>2. Books' /\ Evolves
      BY <2>1, BooksIdle DEF IInv
    <2>3. PositionTyped' /\ EnvTyped' /\ PlacersTyped'
      BY <2>1 DEF IInv, PositionTyped, EnvTyped, Placement, PlacersTyped
    <2> QED BY <2>1, <2>2, <2>3, PlacerStep DEF IInv, Rows, QueuesTyped
  <1> QED BY <1>1, <1>2, <1>3, <1>4, <1>5, <1>6, <1>7, <1>8, <1>9 DEF Next

(* The inductive invariant holds in every reachable state, for any orders, *)
(* sessions, limits and number of faults, with or without retried rows.    *)
THEOREM Invariance == Spec => []IInv
  BY InitIInv, NextIInv, PTL DEF Spec

(* The history of strayed rows is only added to.                           *)
LEMMA StrayStays ==
    ASSUME [Next]_vars
    PROVE  (stray => stray') /\ (stray \in BOOLEAN => stray' \in BOOLEAN)
  <1> DEFINE Keeps == UNCHANGED stray \/ stray' = TRUE
  <1>1. ASSUME NEW p \in Placers, Drive(p) \/ BrokerErrs(p) \/ PlacerError(p) PROVE Keeps
    BY <1>1 DEF Drive, RecordIntent, BrokerAccepts, CommitOutcome, RoutePlacement, BrokerErrs,
                PlacerError, envVars
  <1>2. ASSUME RecoverClaimed("accountant") \/ RecoverClaimed("scan") PROVE Keeps
    BY <1>2 DEF RecoverClaimed, envVars
  <1>3. ASSUME Claim("accountant") \/ Claim("hedge") \/ RecoverHedge PROVE Keeps
    BY <1>3 DEF Claim, RecoverHedge
  <1>4. ASSUME \/ ReconcileExisting \/ ClearAbsent \/ CheckReadiness
               \/ \E o \in Orders : HedgeStart(o)
               \/ \E d \in FillSizes : OnchainFill(d)
        PROVE  Keeps
    BY <1>4 DEF ReconcileExisting, ClearAbsent, CheckReadiness, HedgeStart, OnchainFill, envVars
  <1>5. ASSUME \/ FinalizeTerminalPending \/ RequestCancellation \/ CancellationFails
               \/ CatchUpPolls \/ EnqueueHedge \/ Restart
        PROVE  Keeps
    BY <1>5 DEF FinalizeTerminalPending, RequestCancellation, CancellationFails, CatchUpPolls,
                EnqueueHedge, Restart, envVars
  <1>6. ASSUME PollStep \/ ReconcileStep \/ RejectStep \/ \E w \in Workers : WorkerError(w)
        PROVE  Keeps
    BY <1>6 DEF PollStep, ReconcileStep, RejectStep, PollStart, PollRecord, PollDispatch,
                ReconcileStart, RejectStart, PropagateTerminal, WorkerError, envVars
  <1>7. ASSUME \/ Crash \/ \E o \in Orders : Exhausted(o)
               \/ \E k \in Orders : BrokerFill(k) \/ BrokerCancel(k) \/ BrokerFail(k)
               \/ \E r \in wire : LateArrival(r)
               \/ SessionChange \/ UNCHANGED vars
        PROVE  Keeps
    BY <1>7 DEF Crash, Exhausted, BrokerFill, BrokerCancel, BrokerFail, LateArrival,
                SessionChange, vars, envVars
  <1>8. Keeps
    <2> HIDE DEF Keeps
    <2> QED BY <1>1, <1>2, <1>3, <1>4, <1>5, <1>6, <1>7
            DEF Next, AccountantStep, HedgeStep, ScanStep, FaultStep, OutsideStep, Placers
  <1>9. CASE UNCHANGED stray
    BY <1>9, Zenon
  <1>10. CASE stray' = TRUE
    BY <1>10, Zenon
  <1> QED BY <1>8, <1>9, <1>10

(* The position, the orders, the broker and the queues keep their types;   *)
(* in particular no recorded fill exceeds the limit on one order's shares  *)
(* (UpdatePartialFill, CancelOrder).                                       *)
THEOREM TypeCorrect == Spec => []TypeOK
  <1>1. Init => stray \in BOOLEAN
    BY DEF Init
  <1>2. stray \in BOOLEAN /\ [Next]_vars => (stray \in BOOLEAN)'
    BY StrayStays
  <1>3. Spec => [](stray \in BOOLEAN)
    BY <1>1, <1>2, PTL DEF Spec
  <1> QED BY <1>3, TypeParts, Invariance, PTL

(* A local verdict is the broker's, with the broker's fill, whatever the   *)
(* workers, the scan, the placers and the broker do between the reading    *)
(* and the write (dispatch_for_broker_state, reconcile_pre_cancel).        *)
THEOREM VerdictsAgree == Spec => []VerdictIsTheBrokers
  <1>1. IInv => VerdictIsTheBrokers
    <2> SUFFICES ASSUME IInv, NEW o \in Orders,
                        order[o].state \in Terminal, order[o].ref # None
                 PROVE  LET at == broker[order[o].ref] IN
                        /\ order[o].state = "Filled" => at.state = "filled"
                        /\ order[o].state # "Filled" => order[o].fill = at.fill
                        /\ order[o].state = "Cancelled" => at.state = "cancelled"
                        /\ order[o].state = "Failed" => at.state = "failed"
      BY DEF VerdictIsTheBrokers
    <2>1. OrderKnown(o)
      BY DEF IInv, Books
    <2> QED BY <2>1 DEF OrderKnown, Terminal
  <1> QED BY <1>1, Invariance, PTL

=============================================================================
