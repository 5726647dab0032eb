------------------------- MODULE EquityTransferProofs -------------------------
(***************************************************************************)
(* Proofs about EquityTransfer for any mints and redemptions, any number   *)
(* of faults, crashes, attempts and transactions, with the recovery jobs,  *)
(* the sweep and the operator.                                             *)
(*                                                                         *)
(* The types need to know how the parts depend on each other: a state, a   *)
(* step of a run and a sweep belong to a transfer of one kind (so that an  *)
(* event is looked up in the table it is in), whoever works has a row with *)
(* attempts left, a recovery that moves the balance knows how much it is,  *)
(* and the wallet covers what a mined transaction takes from it.           *)
(*                                                                         *)
(* That one job spends at a time rests on Owned: the slot is that of the   *)
(* job that works or may be run again, a settled transfer's row apart,     *)
(* which is run again to no effect (Noop, NoopStep).  The step of an       *)
(* engaged job then meets nobody else (OwnStep), and it is enough to show  *)
(* of each step that it is the job's own and gives the slot away only at   *)
(* its end.                                                                *)
(*                                                                         *)
(* That deposits are backed needs less, and survives the sweep and         *)
(* crashes: one row at a time can be run (Alone), so that whatever was     *)
(* sent after the wrap that a mint goes on with is its own (Wrap).  A      *)
(* wallet short of that token then means that a deposit of the mint was    *)
(* mined.                                                                  *)
(***************************************************************************)
EXTENDS EquityTransfer, FiniteSetTheorems, TLAPS

(* The states of the aggregate of t.                                       *)
StatesOf(t) == IF t \in Mints THEN MintStates ELSE RedemptionStates

AggType == [st : MintStates \cup RedemptionStates, tx : 0..MaxTxs,
            sent : 0..MaxTxs, accepted : BOOLEAN, received : BOOLEAN]

RunType == [on : Transfers \cup {None}, pc : PCs, tx : 0..MaxTxs,
            fresh : BOOLEAN, resumed : BOOLEAN, recheck : BOOLEAN]

RecType == [st : {"none", "Detected", "OrphanWrapSubmitted", "OrphanWrapped",
                  "OrphanDepositSubmitted", "terminal"},
            shares : Nat, tx : 0..MaxTxs, held : BOOLEAN]

MemType == [slot : [st : {"free", "active", "held"}, by : Jobs \cup {None}],
            tracked : SUBSET Transfers,
            active : [Sides -> Transfers \cup {None}],
            tombs : SUBSET Transfers,
            inflight : [Sides -> Nat],
            polled : SUBSET Sides]

(* The aggregate of a transfer is in a state of its kind.                  *)
AggInv ==
    /\ agg \in [Transfers -> AggType]
    /\ \A t \in Transfers : agg[t].st \in StatesOf(t)

(* A row that can be run has attempts left.                                *)
QueueInv ==
    /\ row \in [Jobs -> {"none", "ready", "failed", "done", "dead"}]
    /\ attempts \in [Jobs -> 0..MaxAttempts]
    /\ stale \subseteq Mints
    /\ \A j \in Jobs : row[j] \in {"none", "ready", "failed"} => attempts[j] < MaxAttempts

(* The steps of resume_mint after its loads, and those of resume_redemption.*)
MintPCs == {"requested", "rejected", "recordWrap", "confirmWrap", "deposit",
            "recordDeposit", "confirmDeposit"}
RedemptionPCs == {"persist", "sending"}

(* A working job has a row that can be run; a driver in the middle of a    *)
(* mint or of a redemption drives a transfer of that kind.                 *)
RunInv ==
    /\ run \in [Drivers -> RunType]
    /\ \A j \in Jobs : run[j] # Idle => Live(j)
    /\ \A d \in Drivers : /\ run[d].pc \in MintPCs => run[d].on \in Mints
                          /\ run[d].pc \in RedemptionPCs => run[d].on \in Redemptions

(* The steps of a recovery that moves the balance by itself.               *)
OrphanPCs == {"orphanWrap", "orphanDeposit", "recordOrphan"}

(* A recovery that moves the balance by itself knows how much it is.       *)
RecInv ==
    /\ rec \in [Recoveries -> RecType]
    /\ \A k \in Recoveries :
          /\ rec[k].st \notin {"none", "terminal"} => rec[k].shares > 0
          /\ run[k].pc \in OrphanPCs => rec[k].shares > 0

(* Only transfers that were requested are tracked.                         *)
MemInv ==
    /\ mem \in MemType
    /\ \A t \in mem.tracked : agg[t].st # "Absent"

(* The sweep gives up on a transfer in a state that it read.               *)
SweepInv ==
    /\ sweep \in [t : Transfers \cup {None}, pc : {"idle", "clear", "fail"},
                  stage : MintStates \cup RedemptionStates]
    /\ sweep.pc # "idle" => /\ sweep.t \in Transfers /\ sweep.stage \in StatesOf(sweep.t)
                            /\ sweep.stage # "Absent"
    /\ sweep.pc = "fail" => sweep.stage \notin Terminal

(* The wallet never holds less than nothing.                               *)
ChainInv ==
    /\ txs \in Seq([kind : Kinds, by : Jobs, amt : Nat \ {0},
                    st : {"pending", "mined", "reverted", "dropped"}])
    /\ Len(txs) <= MaxTxs
    /\ moved \in [Kinds -> Nat]
    /\ \A k \in Recoveries : Wallet(k) >= 0

OutsideInv ==
    /\ seen \in [Recoveries \cup Sides -> Nat]
    /\ prov \in [Transfers -> {"none", "pending", "completed", "rejected"}]
    /\ faults \in 0..MaxFaults
    /\ crashes \in 0..MaxCrashes
    /\ operations \in 0..MaxOperations

IInv ==
    /\ AggInv /\ QueueInv /\ RunInv /\ RecInv /\ MemInv /\ SweepInv
    /\ ChainInv /\ OutsideInv

(* The parts of the invariant that the types of the model are made of.     *)
LEMMA TypeParts == IInv => TypeOK
  BY DEF IInv, TypeOK, AggInv, QueueInv, RunInv, RecInv, MemInv, SweepInv, ChainInv,
         OutsideInv, AggType, RunType, RecType, MemType

-----------------------------------------------------------------------------
(* The tables: what an event of a transfer's kind leads to.                *)
LEMMA EventTable ==
  ASSUME NEW t \in Transfers, NEW e \in DOMAIN Table(t)
  PROVE  /\ Table(t)[e].to \in StatesOf(t) \ {"Absent"}
         /\ Table(t)[e].from \subseteq StatesOf(t)
  <1>1. CASE t \in Mints
    <2>1. e \in DOMAIN MintTable
      BY <1>1 DEF Table
    <2>2. /\ MintTable[e].to \in MintStates \ {"Absent"}
          /\ MintTable[e].from \subseteq MintStates
      BY <2>1 DEF MintTable, MintStates
    <2> QED
      BY <1>1, <2>2 DEF Table, StatesOf
  <1>2. CASE t \notin Mints
    <2>1. e \in DOMAIN RedemptionTable
      BY <1>2 DEF Table
    <2>2. /\ RedemptionTable[e].to \in RedemptionStates \ {"Absent"}
          /\ RedemptionTable[e].from \subseteq RedemptionStates
      BY <2>1 DEF RedemptionTable, RedemptionStates, BeforeSend
    <2> QED
      BY <1>2, <2>2 DEF Table, StatesOf
  <1> QED
    BY <1>1, <1>2

(* An event leaves the aggregate in a state of its kind.                   *)
LEMMA EvolvedTyped ==
  ASSUME AggInv, NEW t \in Transfers, NEW e \in DOMAIN Table(t), NEW x \in 0..MaxTxs
  PROVE  /\ Evolved(agg[t], Table(t), e, x) \in AggType
         /\ Evolved(agg[t], Table(t), e, x).st \in StatesOf(t) \ {"Absent"}
  <1>1. /\ Table(t)[e].to \in StatesOf(t) \ {"Absent"}
        /\ StatesOf(t) \subseteq MintStates \cup RedemptionStates
    BY EventTable DEF StatesOf
  <1>2. agg[t] \in AggType
    BY DEF AggInv
  <1> QED
    BY <1>1, <1>2 DEF Evolved, AggType

(* The sweep and `transfer fail` record an event of the transfer's kind.   *)
LEMMA FailureTable ==
  ASSUME NEW t \in Transfers, NEW st \in StatesOf(t), st \notin Terminal \cup {"Absent"}
  PROVE  /\ FailureOf(st) \in DOMAIN Table(t)
         /\ Table(t)[FailureOf(st)].to = "Failed"
  <1>1. CASE t \in Mints
    <2>1. st \in {"MintAccepted", "TokensReceived", "WrapSubmitted", "TokensWrapped",
                  "VaultDepositSubmitted"}
      BY <1>1 DEF StatesOf, MintStates, Terminal
    <2>2. /\ FailureOf(st) \in DOMAIN MintTable
          /\ MintTable[FailureOf(st)].to = "Failed"
      BY <2>1 DEF FailureOf, MintTable, BeforeSend
    <2> QED
      BY <1>1, <2>2 DEF Table
  <1>2. CASE t \notin Mints
    <2>1. st \in BeforeSend \cup {"TokensSent", "Pending"}
      BY <1>2 DEF StatesOf, RedemptionStates, Terminal
    <2>2. /\ FailureOf(st) \in DOMAIN RedemptionTable
          /\ RedemptionTable[FailureOf(st)].to = "Failed"
      BY <2>1 DEF FailureOf, RedemptionTable, BeforeSend
    <2> QED
      BY <1>2, <2>2 DEF Table
  <1> QED
    BY <1>1, <1>2

(* What the reactor makes of an event: the memory keeps its type, and only *)
(* the transfer of the event is newly tracked.                             *)
LEMMA ReactTyped ==
  ASSUME NEW m \in MemType, NEW t \in Transfers, NEW e
  PROVE  /\ React(m, t, e) \in MemType
         /\ React(m, t, e).tracked \subseteq m.tracked \cup {t}
  <1> DEFINE side == Side(t)
             n == [m EXCEPT !.tracked = IF e \in Genesis THEN @ \cup {t} ELSE @]
             o == [n EXCEPT !.inflight[side] = IF e \in StartsInflight THEN @ + 1
                                               ELSE IF e \in EndsInflight THEN @ - 1 ELSE @,
                            !.polled = IF e \in StartsInflight THEN @ \ {side} ELSE @]
  <1>1. side \in Sides
    BY DEF Side, Sides
  <1>2. n \in MemType /\ n.tracked \subseteq m.tracked \cup {t}
    BY DEF MemType
  <1>3. ~Short(n, side, e) => o \in MemType /\ o.tracked = n.tracked
    <2> SUFFICES ASSUME ~Short(n, side, e) PROVE o \in MemType /\ o.tracked = n.tracked
      OBVIOUS
    <2> DEFINE f == [n.inflight EXCEPT ![side] = IF e \in StartsInflight THEN @ + 1
                                                 ELSE IF e \in EndsInflight THEN @ - 1 ELSE @]
    <2>1. n.inflight \in [Sides -> Nat] /\ n.inflight[side] \in Nat
      BY <1>1, <1>2 DEF MemType
    <2>2. e \in EndsInflight => n.inflight[side] # 0
      BY DEF Short
    <2>3. f \in [Sides -> Nat]
      BY <1>1, <2>1, <2>2
    <2>4. o = [n EXCEPT !.inflight = f,
                        !.polled = IF e \in StartsInflight THEN @ \ {side} ELSE @]
      OBVIOUS
    <2> HIDE DEF f, side, n
    <2> QED
      BY <1>2, <2>3, <2>4 DEF MemType
  <1>4. ASSUME NEW p \in MemType
        PROVE  /\ [p EXCEPT !.tracked = @ \ {t}, !.active[side] = None, !.slot = Free] \in MemType
               /\ [p EXCEPT !.active[side] = t] \in MemType
    BY <1>1 DEF MemType, Free
  <1>5. React(m, t, e) =
            IF t \in m.tombs THEN m
            ELSE IF t \notin n.tracked \/ Short(n, side, e) THEN n
            ELSE IF IsTerminalEvent(Table(t), e)
                 THEN [o EXCEPT !.tracked = @ \ {t}, !.active[side] = None, !.slot = Free]
                 ELSE [o EXCEPT !.active[side] = t]
    BY DEF React
  <1>6. CASE t \in m.tombs \/ t \notin n.tracked \/ Short(n, side, e)
    <2>1. React(m, t, e) \in {m, n}
      BY <1>5, <1>6
    <2> HIDE DEF n
    <2> QED
      BY <2>1, <1>2
  <1>7. CASE ~(t \in m.tombs \/ t \notin n.tracked \/ Short(n, side, e))
    <2>1. o \in MemType /\ o.tracked \subseteq m.tracked \cup {t}
      BY <1>7, <1>2, <1>3
    <2>2. React(m, t, e) \in {[o EXCEPT !.tracked = @ \ {t}, !.active[side] = None, !.slot = Free],
                              [o EXCEPT !.active[side] = t]}
      BY <1>5, <1>7
    <2> HIDE DEF o, n, side
    <2>3. /\ [o EXCEPT !.tracked = @ \ {t}, !.active[side] = None, !.slot = Free].tracked
               \subseteq m.tracked \cup {t}
          /\ [o EXCEPT !.active[side] = t].tracked \subseteq m.tracked \cup {t}
      BY <2>1 DEF MemType
    <2> QED
      BY <1>4, <2>1, <2>2, <2>3
  <1> QED
    BY <1>6, <1>7

-----------------------------------------------------------------------------
(* What a driver's step must leave in order.                               *)
DriverInv == AggInv /\ QueueInv /\ RunInv /\ RecInv /\ MemInv

(* The memory m fits the aggregates as they are after the step.            *)
Fits(m) == m \in MemType /\ \A t \in m.tracked : agg'[t].st # "Absent"

(* Nobody works.                                                           *)
LEMMA IdleTyped ==
  /\ Idle \in RunType /\ Idle.pc = "idle"
  /\ NoRecovery \in RecType /\ NoRecovery.st = "none"
  <1>1. 0 \in 0..MaxTxs
    BY EquityTransferAssumption
  <1> QED
    BY <1>1 DEF Idle, RunType, PCs, NoRecovery, RecType

(* A driver that stops leaves the runs in order, whatever the rows of the  *)
(* others are.                                                             *)
LEMMA StopKeepsRuns ==
  ASSUME RunInv, RecInv, NEW d \in Drivers, run' = [run EXCEPT ![d] = Idle],
         \A j \in Jobs : j # d => row'[j] = row[j]
  PROVE  RunInv'
  <1>1. run' \in [Drivers -> RunType] /\ run'[d] = Idle
    BY IdleTyped DEF RunInv
  <1>2. \A c \in Drivers : c # d => run'[c] = run[c]
    BY DEF RunInv
  <1>3. \A j \in Jobs : run'[j] # Idle => row'[j] \in {"ready", "failed"}
    BY <1>1, <1>2 DEF RunInv, Live, Drivers
  <1>4. \A c \in Drivers : /\ run'[c].pc \in MintPCs => run'[c].on \in Mints
                           /\ run'[c].pc \in RedemptionPCs => run'[c].on \in Redemptions
    BY <1>1, <1>2, IdleTyped DEF RunInv, MintPCs, RedemptionPCs
  <1> QED
    BY <1>1, <1>3, <1>4 DEF RunInv, Live

(* A row that ends, and one that failed once more.                         *)
LEMMA RowEnds ==
  ASSUME QueueInv, NEW j \in Jobs, Finishes(j), UNCHANGED stale
  PROVE  QueueInv' /\ \A i \in Jobs : i # j => row'[i] = row[i]
  BY DEF QueueInv, Finishes

LEMMA RowRetries ==
  ASSUME QueueInv, NEW j \in Jobs, Live(j), Retries(j), UNCHANGED stale
  PROVE  QueueInv' /\ \A i \in Jobs : i # j => row'[i] = row[i]
  <1>1. attempts[j] \in 0..MaxAttempts /\ attempts[j] < MaxAttempts /\ MaxAttempts \in Nat
    BY EquityTransferAssumption DEF QueueInv, Live
  <1>2. row' \in [Jobs -> {"none", "ready", "failed", "done", "dead"}]
    BY DEF QueueInv, Retries
  <1>3. attempts' \in [Jobs -> 0..MaxAttempts] /\ attempts'[j] = attempts[j] + 1
    BY <1>1 DEF QueueInv, Retries
  <1>4. \A i \in Jobs : i # j => row'[i] = row[i] /\ attempts'[i] = attempts[i]
    BY DEF QueueInv, Retries
  <1>5. row'[j] \in {"none", "ready", "failed"} => attempts'[j] < MaxAttempts
    BY <1>1, <1>3 DEF QueueInv, Retries
  <1> QED
    BY <1>2, <1>3, <1>4, <1>5 DEF QueueInv

(* A recovery that is over, whatever its outcome.                          *)
LEMMA RecoveryEndsKeeps ==
  ASSUME QueueInv, RecInv, NEW k \in Recoveries, NEW m, Fits(m), RecoveryEnds(k, m),
         UNCHANGED stale, run' = [run EXCEPT ![k] = Idle], RunInv
  PROVE  /\ QueueInv' /\ RecInv' /\ MemInv'
         /\ \A i \in Jobs : i # k => row'[i] = row[i]
  <1>1. QueueInv' /\ \A i \in Jobs : i # k => row'[i] = row[i]
    BY RowEnds DEF RecoveryEnds, Jobs
  <1>2. MemInv'
    BY DEF RecoveryEnds, Released, Fits, MemInv, MemType, Free
  <1>3. rec' \in [Recoveries -> RecType] /\ rec'[k].st = "terminal"
    BY DEF RecInv, RecoveryEnds, RecType
  <1>4. \A j \in Recoveries : j # k => rec'[j] = rec[j] /\ run'[j] = run[j]
    BY DEF RecInv, RecoveryEnds, RunInv, Drivers, Jobs
  <1>5. run'[k].pc = "idle"
    BY IdleTyped DEF RunInv, Drivers, Jobs
  <1> QED
    BY <1>1, <1>2, <1>3, <1>4, <1>5 DEF RecInv, OrphanPCs

(* The recoveries are untouched by what a transfer or the operator does.   *)
LEMMA RecoveriesUntouched ==
  ASSUME RecInv, UNCHANGED rec, \A k \in Recoveries : run'[k].pc = run[k].pc
  PROVE  RecInv'
  BY DEF RecInv

(* A run that came to its end.                                             *)
LEMMA EndsKeeps ==
  ASSUME IInv, NEW d \in Drivers, NEW m, Fits(m), Ends(d, m), AggInv', UNCHANGED stale
  PROVE  DriverInv'
  <1> USE DEF IInv
  <1>0. run' = [run EXCEPT ![d] = Idle]
    BY DEF Ends
  <1>a. d \notin Recoveries => \A k \in Recoveries : run'[k] = run[k]
    BY <1>0 DEF RunInv, Drivers, Jobs
  <1>1. CASE d \in Transfers /\ Finishes(d) /\ mem' = m /\ UNCHANGED rec
    <2>1. QueueInv' /\ \A i \in Jobs : i # d => row'[i] = row[i]
      BY <1>1, RowEnds DEF Jobs
    <2>2. RunInv'
      BY <1>0, <2>1, StopKeepsRuns
    <2>3. RecInv'
      BY <1>1, <1>a, RecoveriesUntouched, EquityTransferAssumption DEF Recoveries
    <2> QED
      BY <1>1, <2>1, <2>2, <2>3 DEF DriverInv, MemInv, Fits
  <1>2. CASE d \in Recoveries /\ RecoveryEnds(d, m)
    <2>1. QueueInv' /\ RecInv' /\ MemInv' /\ \A i \in Jobs : i # d => row'[i] = row[i]
      BY <1>0, <1>2, RecoveryEndsKeeps
    <2>2. RunInv'
      BY <1>0, <2>1, StopKeepsRuns
    <2> QED
      BY <2>1, <2>2 DEF DriverInv
  <1>3. CASE d = "operator" /\ mem' = m /\ UNCHANGED <<row, attempts, rec>>
    <2>1. RunInv'
      BY <1>0, <1>3, StopKeepsRuns
    <2>2. RecInv'
      BY <1>3, <1>a, RecoveriesUntouched DEF Recoveries
    <2> QED
      BY <1>3, <2>1, <2>2 DEF DriverInv, MemInv, Fits, QueueInv
  <1> QED
    BY <1>1, <1>2, <1>3 DEF Ends

(* A run that returned an error.                                           *)
LEMMA FailsKeeps ==
  ASSUME IInv, NEW d \in Drivers, run[d] # Idle, NEW m, Fits(m), NEW st, Fails(d, m, st),
         AggInv', UNCHANGED stale
  PROVE  DriverInv'
  <1> USE DEF IInv
  <1>0. run' = [run EXCEPT ![d] = Idle]
    BY DEF Fails
  <1>a. d \notin Recoveries => \A k \in Recoveries : run'[k] = run[k]
    BY <1>0 DEF RunInv, Drivers, Jobs
  <1>1. CASE d \in Transfers /\ JobFails(d, m, st) /\ UNCHANGED rec
    <2>0. d \in Jobs /\ Live(d)
      BY <1>1 DEF RunInv, Jobs
    <2>1. Finishes(d) \/ Retries(d)
      BY <1>1 DEF JobFails, MarkHeld
    <2>2. QueueInv' /\ \A i \in Jobs : i # d => row'[i] = row[i]
      BY <2>0, <2>1, RowEnds, RowRetries
    <2>3. RunInv'
      BY <1>0, <2>2, StopKeepsRuns
    <2>4. RecInv'
      BY <1>1, <1>a, RecoveriesUntouched, EquityTransferAssumption DEF Recoveries
    <2>5. mem' \in {m, [m EXCEPT !.slot = Held]}
      BY <1>1 DEF JobFails, MarkHeld
    <2>6. MemInv'
      BY <2>5 DEF MemInv, Fits, MemType, Held
    <2> QED
      BY <2>2, <2>3, <2>4, <2>6 DEF DriverInv
  <1>2. CASE d \in Recoveries /\ RecoveryEnds(d, m)
    <2>1. QueueInv' /\ RecInv' /\ MemInv' /\ \A i \in Jobs : i # d => row'[i] = row[i]
      BY <1>0, <1>2, RecoveryEndsKeeps
    <2>2. RunInv'
      BY <1>0, <2>1, StopKeepsRuns
    <2> QED
      BY <2>1, <2>2 DEF DriverInv
  <1>3. CASE /\ d = "operator"
             /\ mem' = IF run[d].recheck THEN Abandoned(m, run[d].on) ELSE m
             /\ UNCHANGED <<row, attempts, rec>>
    <2>1. RunInv'
      BY <1>0, <1>3, StopKeepsRuns
    <2>2. RecInv'
      BY <1>3, <1>a, RecoveriesUntouched DEF Recoveries
    <2>3. "mint" \in Sides
      BY DEF Sides
    <2>4. MemInv'
      BY <1>3, <2>3 DEF MemInv, Fits, MemType, Abandoned, Free
    <2> QED
      BY <1>3, <2>1, <2>2, <2>4 DEF DriverInv, QueueInv
  <1> QED
    BY <1>1, <1>2, <1>3 DEF Fails

(* The transfer a driver works on, and the error it returns.               *)
LEMMA ErrsKeeps ==
  ASSUME IInv, NEW d \in Drivers, run[d].pc # "idle", Errs(d), UNCHANGED stale
  PROVE  DriverInv'
  <1>1. AggInv'
    BY DEF IInv, AggInv, Errs
  <1>2. Fits(mem)
    BY DEF IInv, MemInv, Fits, Errs
  <1>3. run[d] # Idle
    BY IdleTyped
  <1> QED
    BY <1>1, <1>2, <1>3, FailsKeeps DEF Errs

(* An event of a transfer's kind leaves aggregates and memory in order.    *)
LEMMA EventKeeps ==
  ASSUME AggInv, NEW t \in Transfers, NEW e \in DOMAIN Table(t), NEW x \in 0..MaxTxs,
         NEW m \in MemType, \A u \in m.tracked : u = t \/ agg[u].st # "Absent",
         agg' = [agg EXCEPT ![t] = Evolved(@, Table(t), e, x)]
  PROVE  AggInv' /\ Fits(React(m, t, e))
  <1>0. agg'[t] = Evolved(agg[t], Table(t), e, x) /\ \A u \in Transfers : u # t => agg'[u] = agg[u]
    BY DEF AggInv
  <1>1. /\ agg'[t] \in AggType /\ agg'[t].st \in StatesOf(t) \ {"Absent"}
    BY <1>0, EvolvedTyped
  <1>2. AggInv'
    BY <1>0, <1>1 DEF AggInv
  <1>3. /\ React(m, t, e) \in MemType /\ React(m, t, e).tracked \subseteq m.tracked \cup {t}
    BY ReactTyped
  <1>4. m.tracked \subseteq Transfers
    BY DEF MemType
  <1> QED
    BY <1>0, <1>1, <1>2, <1>3, <1>4 DEF Fits

(* A driver that goes on, holding x, at a step of its transfer's kind.     *)
LEMMA GoesOn ==
  ASSUME IInv, NEW d \in Drivers, run[d].pc # "idle", NEW x \in 0..MaxTxs,
         NEW pc \in PCs \ OrphanPCs,
         pc \in MintPCs => run[d].on \in Mints,
         pc \in RedemptionPCs => run[d].on \in Redemptions,
         run' = [run EXCEPT ![d].pc = pc, ![d].tx = x], UNCHANGED <<row, attempts, rec, stale>>
  PROVE  RunInv' /\ RecInv' /\ QueueInv'
  <1> USE DEF IInv
  <1>1. /\ run' \in [Drivers -> RunType]
        /\ run'[d].pc = pc /\ run'[d].on = run[d].on
        /\ \A c \in Drivers : c # d => run'[c] = run[c]
    BY DEF RunInv, RunType
  <1>2. d \in Jobs => Live(d)
    BY IdleTyped DEF RunInv
  <1>3. RunInv'
    BY <1>1, <1>2 DEF RunInv, Live, Drivers
  <1>4. RecInv'
    BY <1>1 DEF RecInv, Drivers, Jobs
  <1> QED
    BY <1>3, <1>4 DEF QueueInv

(* A driver records an event and goes on, or ends with it, or only goes on.*)
LEMMA RecordsKeeps ==
  ASSUME IInv, NEW d \in Drivers, run[d].on \in Transfers, run[d].pc # "idle",
         NEW e \in DOMAIN Table(run[d].on), NEW x \in 0..MaxTxs,
         NEW pc \in PCs \ OrphanPCs,
         pc \in MintPCs => run[d].on \in Mints,
         pc \in RedemptionPCs => run[d].on \in Redemptions,
         Records(d, e, x, pc), UNCHANGED stale
  PROVE  DriverInv'
  <1>1. RunInv' /\ RecInv' /\ QueueInv'
    BY GoesOn DEF Records
  <1>2. AggInv' /\ Fits(React(mem, run[d].on, e))
    BY EventKeeps DEF IInv, MemInv, Records
  <1> QED
    BY <1>1, <1>2 DEF DriverInv, MemInv, Fits, Records

LEMMA RecordsLastKeeps ==
  ASSUME IInv, NEW d \in Drivers, run[d].on \in Transfers, run[d].pc # "idle",
         NEW e \in DOMAIN Table(run[d].on), NEW x \in 0..MaxTxs,
         RecordsLast(d, e, x), UNCHANGED stale
  PROVE  DriverInv'
  <1> DEFINE m == React(mem, run[d].on, e)
  <1>1. AggInv' /\ Fits(m)
    BY EventKeeps DEF IInv, MemInv, RecordsLast
  <1>2. run[d] # Idle
    BY IdleTyped
  <1>3. Ends(d, m) \/ Fails(d, m, "Failed")
    BY DEF RecordsLast
  <1> QED
    BY <1>1, <1>2, <1>3, EndsKeeps, FailsKeeps

LEMMA HoldsKeeps ==
  ASSUME IInv, NEW d \in Drivers, run[d].pc # "idle", NEW x \in 0..MaxTxs,
         NEW pc \in PCs \ OrphanPCs,
         pc \in MintPCs => run[d].on \in Mints,
         pc \in RedemptionPCs => run[d].on \in Redemptions,
         Holds(d, x, pc), UNCHANGED stale
  PROVE  DriverInv'
  <1>1. RunInv' /\ RecInv' /\ QueueInv'
    BY GoesOn DEF Holds
  <1> QED
    BY <1>1 DEF IInv, DriverInv, Holds, AggInv, MemInv

-----------------------------------------------------------------------------
(* What the steps of the drivers do outside.                               *)
OutsideKept == SweepInv' /\ ChainInv' /\ OutsideInv'

(* A fault, or none, with or without something else that was due.          *)
LEMMA FaultsKeep ==
  ASSUME OutsideInv, Fault \/ NoFault, UNCHANGED seen,
         prov' \in [Transfers -> {"none", "pending", "completed", "rejected"}]
  PROVE  OutsideInv'
  BY EquityTransferAssumption DEF OutsideInv, Fault, NoFault, envVars

(* A transaction that is sent changes no balance yet.                      *)
LEMMA SubmitKeeps ==
  ASSUME ChainInv, NEW j \in Jobs, NEW kind \in Kinds, NEW amt \in Nat \ {0}, Submit(j, kind, amt)
  PROVE  ChainInv' /\ Len(txs) + 1 \in 0..MaxTxs
  <1> DEFINE x == [kind |-> kind, by |-> j, amt |-> amt, st |-> "pending"]
             T == [kind : Kinds, by : Jobs, amt : Nat \ {0},
                   st : {"pending", "mined", "reverted", "dropped"}]
  <1>1. x \in T
    OBVIOUS
  <1>2. txs' = Append(txs, x) /\ Len(txs) < MaxTxs /\ moved' = moved
    BY DEF Submit
  <1>3. txs \in Seq(T) /\ Len(txs) \in Nat /\ MaxTxs \in Nat
    BY EquityTransferAssumption DEF ChainInv
  <1> HIDE DEF x, T
  <1>4. txs' \in Seq(T) /\ Len(txs') = Len(txs) + 1
    BY <1>1, <1>2, <1>3
  <1>5. \A k \in Recoveries : Wallet(k)' >= 0
    BY <1>2 DEF ChainInv, Wallet
  <1> QED
    BY <1>2, <1>3, <1>4, <1>5 DEF ChainInv, T

(* Nothing happens on the chain.                                           *)
LEMMA ChainIdle ==
  ASSUME ChainInv, UNCHANGED chain
  PROVE  ChainInv'
  BY DEF ChainInv, chain, Wallet

(* The sweep and the rows of earlier processes are not the drivers'.       *)
LEMMA RestIdle ==
  ASSUME SweepInv, UNCHANGED rest
  PROVE  SweepInv' /\ UNCHANGED stale /\ UNCHANGED seen
  BY DEF SweepInv, rest

(* A driver's step with what it does outside.                              *)
LEMMA StepDone ==
  ASSUME IInv, DriverInv', ChainInv', UNCHANGED rest, Fault \/ NoFault,
         prov' \in [Transfers -> {"none", "pending", "completed", "rejected"}]
  PROVE  IInv'
  BY RestIdle, FaultsKeep DEF IInv, DriverInv

LEMMA QuietStep ==
  ASSUME IInv, DriverInv', UNCHANGED <<world, rest>>, Fault \/ NoFault
  PROVE  IInv'
  <1>1. ChainInv'
    BY ChainIdle DEF IInv, world
  <1> QED
    BY <1>1, StepDone DEF IInv, OutsideInv, world

LEMMA FaultUnlessIs == \A due : FaultUnless(due) => Fault \/ NoFault
  BY DEF FaultUnless

(* The events of a mint and of a redemption.                               *)
LEMMA MintEvents ==
  ASSUME NEW t \in Mints
  PROVE  t \in Transfers
         /\ {"MintAccepted", "MintRejected", "MintAcceptanceFailed", "TokensReceived",
             "WrapSubmitted", "TokensWrapped", "VaultDepositSubmitted",
             "DepositedIntoRaindex", "ProviderCompletionRecovered", "OperatorReconciled"}
               \subseteq DOMAIN Table(t)
  BY DEF Table, MintTable, Transfers

LEMMA RedemptionEvents ==
  ASSUME NEW t \in Redemptions
  PROVE  t \in Transfers
         /\ {"VaultWithdrawPending", "VaultWithdrawSubmitted", "WithdrawnFromRaindex",
             "UnwrapPending", "UnwrapSubmitted", "TokensUnwrapped", "SendPending", "TokensSent",
             "TransferFailed", "Detected", "DetectionFailed", "Completed", "RedemptionRejected",
             "ProviderCompletionRecovered", "OperatorReconciled"}
               \subseteq DOMAIN Table(t)
  <1>1. t \notin Mints
    BY EquityTransferAssumption
  <1> QED
    BY <1>1 DEF Table, RedemptionTable, Transfers

(* A state tells the kind of its transfer.                                 *)
LEMMA KindOfState ==
  ASSUME AggInv, NEW t \in Transfers
  PROVE  /\ agg[t].st \in {"MintAccepted", "TokensReceived", "WrapSubmitted", "TokensWrapped",
                           "VaultDepositSubmitted"} => t \in Mints
         /\ agg[t].st \in BeforeSend \cup {"TokensSent", "Pending"} => t \in Redemptions
  BY DEF AggInv, StatesOf, MintStates, RedemptionStates, BeforeSend, Transfers

(* A submission that fails, sent or not, with the error it ends in.        *)
LEMMA SubmissionFailsKeeps ==
  ASSUME IInv, NEW d \in Drivers, run[d].on \in Transfers, run[d].pc # "idle",
         NEW kind \in Kinds, SubmissionFails(d, kind), Errs(d), UNCHANGED <<prov, rest>>
  PROVE  IInv'
  <1>1. DriverInv'
    BY ErrsKeeps DEF rest
  <1>2. ChainInv'
    BY ChainIdle, SubmitKeeps DEF SubmissionFails, IInv, Jobs
  <1>3. Fault \/ NoFault
    BY DEF SubmissionFails
  <1> QED
    BY <1>1, <1>2, <1>3, StepDone DEF IInv, OutsideInv

(* A submission that the driver goes on from.                              *)
LEMMA SubmissionKeeps ==
  ASSUME IInv, NEW d \in Drivers, run[d].on \in Transfers, run[d].pc # "idle",
         NEW kind \in Kinds, Submit(run[d].on, kind, 1),
         NEW pc \in PCs \ OrphanPCs,
         pc \in MintPCs => run[d].on \in Mints,
         pc \in RedemptionPCs => run[d].on \in Redemptions,
         Holds(d, Len(txs) + 1, pc), NoFault, UNCHANGED <<prov, rest>>
  PROVE  IInv'
  <1>1. ChainInv' /\ Len(txs) + 1 \in 0..MaxTxs
    BY SubmitKeeps DEF IInv, Jobs
  <1>2. DriverInv'
    BY <1>1, HoldsKeeps DEF rest
  <1> QED
    BY <1>1, <1>2, StepDone DEF IInv, OutsideInv

(* The steps of resume_mint keep the invariant.                            *)
LEMMA MintStepKeeps ==
  ASSUME IInv, NEW d \in Drivers, MintStep(d)
  PROVE  IInv'
  <1> DEFINE t == run[d].on
  <1>r. run \in [Drivers -> RunType] /\ run[d].tx \in 0..MaxTxs /\ 0 \in 0..MaxTxs
    BY EquityTransferAssumption DEF IInv, RunInv, RunType
  <1>k. AggInv
    BY DEF IInv
  <1>p. /\ {"go", "requested", "rejected", "recordWrap", "confirmWrap", "deposit", "recordDeposit",
            "confirmDeposit"} \subseteq PCs \ OrphanPCs
        /\ {"go"} \cap MintPCs = {} /\ {"go"} \cap RedemptionPCs = {}
        /\ MintPCs \cap RedemptionPCs = {}
        /\ {"wrap", "deposit"} \subseteq Kinds
    BY DEF PCs, MintPCs, RedemptionPCs, OrphanPCs, Kinds
  <1>q. run[d].pc \in MintPCs => t \in Mints
    BY DEF IInv, RunInv
  <1>1. CASE RequestMint(d)
    <2>0. t \in Mints /\ t \in Transfers /\ run[d].pc # "idle" /\ UNCHANGED stale
      BY <1>1 DEF RequestMint, Goes, rest
    <2>a. prov \in [Transfers -> {"none", "pending", "completed", "rejected"}]
      BY DEF IInv, OutsideInv
    <2>c. ChainInv' /\ UNCHANGED rest
      BY <1>1, ChainIdle DEF RequestMint, IInv
    <2>1. ASSUME NEW pc \in {"requested", "rejected"}, Holds(d, 0, pc) PROVE DriverInv'
      BY <2>0, <2>1, <1>p, <1>r, HoldsKeeps DEF MintPCs, RedemptionPCs
    <2>2. ASSUME Errs(d) PROVE DriverInv'
      BY <2>0, <2>2, ErrsKeeps
    <2>3. DriverInv' /\ (Fault \/ NoFault)
      BY <1>1, <2>1, <2>2 DEF RequestMint
    <2>4. prov' \in [Transfers -> {"none", "pending", "completed", "rejected"}]
      BY <1>1, <2>a, <2>0 DEF RequestMint
    <2> QED
      BY <2>c, <2>3, <2>4, StepDone
  <1>2. CASE RecordRequest(d)
    <2>0. /\ run[d].pc \in {"requested", "rejected"} /\ t \in Transfers
          /\ UNCHANGED <<world, rest>> /\ NoFault /\ UNCHANGED stale
      BY <1>2 DEF RecordRequest, At, NoFault, rest, envVars
    <2>1. t \in Mints /\ run[d].pc # "idle"
      BY <2>0, <1>q DEF MintPCs
    <2>2. DriverInv'
      <3>1. CASE Records(d, "MintAccepted", 0, "go")
        BY <3>1, <2>0, <2>1, <1>p, <1>r, RecordsKeeps, MintEvents
      <3>2. CASE RecordsLast(d, "MintRejected", 0)
        BY <3>2, <2>0, <2>1, <1>r, RecordsLastKeeps, MintEvents
      <3> QED
        BY <1>2, <3>1, <3>2 DEF RecordRequest
    <2> QED
      BY <2>0, <2>2, QuietStep
  <1>3. CASE PollMint(d)
    <2>0. /\ t \in Mints /\ t \in Transfers /\ run[d].pc # "idle"
          /\ UNCHANGED <<world, rest>> /\ UNCHANGED stale /\ (Fault \/ NoFault)
      BY <1>3, <1>k, KindOfState, FaultUnlessIs DEF PollMint, Goes, rest
    <2>1. DriverInv'
      <3>1. CASE Records(d, "TokensReceived", 0, "go")
        BY <3>1, <2>0, <1>p, <1>r, RecordsKeeps, MintEvents
      <3>2. CASE RecordsLast(d, "MintAcceptanceFailed", 0)
        BY <3>2, <2>0, <1>r, RecordsLastKeeps, MintEvents
      <3>3. CASE Errs(d)
        BY <3>3, <2>0, ErrsKeeps
      <3> QED
        BY <1>3, <3>1, <3>2, <3>3 DEF PollMint
    <2> QED
      BY <2>0, <2>1, QuietStep
  <1>4. CASE SubmitWrap(d)
    <2>0. /\ t \in Mints /\ t \in Transfers /\ run[d].pc # "idle"
      BY <1>4, <1>k, KindOfState DEF SubmitWrap, Goes
    <2>1. CASE SubmissionFails(d, "wrap") /\ Errs(d)
      BY <2>0, <2>1, <1>4, <1>p, SubmissionFailsKeeps DEF SubmitWrap
    <2>2. CASE Submit(t, "wrap", 1) /\ Holds(d, Len(txs) + 1, "recordWrap") /\ NoFault
      BY <2>0, <2>2, <1>4, <1>p, SubmissionKeeps DEF SubmitWrap, RedemptionPCs
    <2> QED
      BY <1>4, <2>1, <2>2 DEF SubmitWrap
  <1>5. CASE RecordWrap(d)
    <2>0. /\ run[d].pc = "recordWrap" /\ t \in Transfers
          /\ UNCHANGED <<world, rest>> /\ NoFault /\ UNCHANGED stale
      BY <1>5 DEF RecordWrap, At, NoFault, rest, envVars
    <2>1. t \in Mints /\ run[d].pc # "idle"
      BY <2>0, <1>q DEF MintPCs
    <2>2. DriverInv'
      <3>1. CASE Records(d, "WrapSubmitted", run[d].tx, "confirmWrap")
        BY <3>1, <2>0, <2>1, <1>p, <1>r, RecordsKeeps, MintEvents DEF RedemptionPCs
      <3>2. CASE Errs(d)
        BY <3>2, <2>0, <2>1, ErrsKeeps
      <3> QED
        BY <1>5, <3>1, <3>2 DEF RecordWrap
    <2> QED
      BY <2>0, <2>2, QuietStep
  <1>6. CASE ResumeWrap(d) \/ ResumeWrapped(d)
    <2>0. /\ t \in Mints /\ t \in Transfers /\ run[d].pc # "idle"
          /\ UNCHANGED <<world, rest>> /\ NoFault /\ UNCHANGED stale
          /\ UNCHANGED <<agg, row, attempts, rec, mem>>
      BY <1>6, <1>k, KindOfState DEF ResumeWrap, ResumeWrapped, Goes, NoFault, rest
    <2>1. agg[t].tx \in 0..MaxTxs
      BY <2>0, <1>k DEF AggInv, AggType
    <2>2. /\ run' \in [Drivers -> RunType] /\ run'[d].pc \in {"confirmWrap", "deposit"}
          /\ run'[d].on = t /\ \A c \in Drivers : c # d => run'[c] = run[c]
      BY <1>6, <1>r, <1>p, <2>1 DEF ResumeWrap, ResumeWrapped, RunType
    <2>3. d \in Jobs => Live(d)
      BY <2>0, IdleTyped DEF IInv, RunInv
    <2>4. RunInv'
      BY <2>0, <2>2, <2>3 DEF IInv, RunInv, Live, Drivers, RedemptionPCs
    <2>5. RecInv'
      BY <2>0, <2>2 DEF IInv, RecInv, OrphanPCs, Drivers, Jobs
    <2> QED
      BY <2>0, <2>4, <2>5, QuietStep DEF DriverInv, IInv, AggInv, QueueInv, MemInv
  <1>7. CASE ConfirmWrap(d)
    <2>0. /\ run[d].pc = "confirmWrap" /\ t \in Transfers
          /\ UNCHANGED <<world, rest>> /\ (Fault \/ NoFault) /\ UNCHANGED stale
      BY <1>7, FaultUnlessIs DEF ConfirmWrap, At, rest
    <2>1. t \in Mints /\ run[d].pc # "idle"
      BY <2>0, <1>q DEF MintPCs
    <2>2. DriverInv'
      <3>1. CASE Records(d, "TokensWrapped", run[d].tx, "deposit")
        BY <3>1, <2>0, <2>1, <1>p, <1>r, RecordsKeeps, MintEvents DEF RedemptionPCs
      <3>2. CASE Errs(d)
        BY <3>2, <2>0, <2>1, ErrsKeeps
      <3> QED
        BY <1>7, <3>1, <3>2 DEF ConfirmWrap
    <2> QED
      BY <2>0, <2>2, QuietStep
  <1>8. CASE SubmitDeposit(d)
    <2>0. run[d].pc = "deposit" /\ t \in Transfers /\ UNCHANGED <<prov, rest>>
      BY <1>8 DEF SubmitDeposit, At
    <2>1. t \in Mints /\ run[d].pc # "idle"
      BY <2>0, <1>q DEF MintPCs
    <2>2. CASE Submit(t, "deposit", 1) /\ Holds(d, Len(txs) + 1, "recordDeposit") /\ NoFault
      BY <2>0, <2>1, <2>2, <1>p, SubmissionKeeps DEF RedemptionPCs
    <2>3. CASE SubmissionFails(d, "deposit") /\ Errs(d)
      BY <2>0, <2>1, <2>3, <1>p, SubmissionFailsKeeps
    <2>4. CASE /\ Fault \/ NoFault
               /\ UNCHANGED chain
               /\ RecordsLast(d, "DepositedIntoRaindex", 0) \/ Errs(d)
      <3>1. UNCHANGED <<world, rest>> /\ UNCHANGED stale
        BY <2>0, <2>4 DEF world, rest
      <3>2. DriverInv'
        <4>1. CASE RecordsLast(d, "DepositedIntoRaindex", 0)
          BY <4>1, <3>1, <2>0, <2>1, <1>r, RecordsLastKeeps, MintEvents
        <4>2. CASE Errs(d)
          BY <4>2, <3>1, <2>0, <2>1, ErrsKeeps
        <4> QED
          BY <2>4, <4>1, <4>2
      <3> QED
        BY <2>4, <3>1, <3>2, QuietStep
    <2> QED
      BY <1>8, <2>2, <2>3, <2>4 DEF SubmitDeposit
  <1>9. CASE RecordDeposit(d)
    <2>0. /\ run[d].pc = "recordDeposit" /\ t \in Transfers
          /\ UNCHANGED <<world, rest>> /\ NoFault /\ UNCHANGED stale
      BY <1>9 DEF RecordDeposit, At, NoFault, rest, envVars
    <2>1. t \in Mints /\ run[d].pc # "idle"
      BY <2>0, <1>q DEF MintPCs
    <2>2. DriverInv'
      <3>1. CASE Records(d, "VaultDepositSubmitted", run[d].tx, "confirmDeposit")
        BY <3>1, <2>0, <2>1, <1>p, <1>r, RecordsKeeps, MintEvents DEF RedemptionPCs
      <3>2. CASE Errs(d)
        BY <3>2, <2>0, <2>1, ErrsKeeps
      <3> QED
        BY <1>9, <3>1, <3>2 DEF RecordDeposit
    <2> QED
      BY <2>0, <2>2, QuietStep
  <1>10. CASE ResumeDeposit(d)
    <2>0. /\ t \in Mints /\ t \in Transfers /\ run[d].pc # "idle"
          /\ UNCHANGED <<world, rest>> /\ NoFault /\ UNCHANGED stale
          /\ Holds(d, agg[t].tx, "confirmDeposit")
      BY <1>10, <1>k, KindOfState DEF ResumeDeposit, Goes, NoFault, rest
    <2>1. agg[t].tx \in 0..MaxTxs
      BY <2>0, <1>k DEF AggInv, AggType
    <2>2. DriverInv'
      BY <2>0, <2>1, <1>p, HoldsKeeps DEF RedemptionPCs
    <2> QED
      BY <2>0, <2>2, QuietStep
  <1>11. CASE ConfirmDeposit(d)
    <2>0. /\ run[d].pc = "confirmDeposit" /\ t \in Transfers
          /\ UNCHANGED <<world, rest>> /\ (Fault \/ NoFault) /\ UNCHANGED stale
      BY <1>11, FaultUnlessIs DEF ConfirmDeposit, At, rest
    <2>1. t \in Mints /\ run[d].pc # "idle"
      BY <2>0, <1>q DEF MintPCs
    <2>2. DriverInv'
      <3>1. CASE RecordsLast(d, "DepositedIntoRaindex", run[d].tx)
        BY <3>1, <2>0, <2>1, <1>r, RecordsLastKeeps, MintEvents
      <3>2. CASE Errs(d)
        BY <3>2, <2>0, <2>1, ErrsKeeps
      <3> QED
        BY <1>11, <3>1, <3>2 DEF ConfirmDeposit
    <2> QED
      BY <2>0, <2>2, QuietStep
  <1> HIDE DEF t
  <1> QED
    BY <1>1, <1>2, <1>3, <1>4, <1>5, <1>6, <1>7, <1>8, <1>9, <1>10, <1>11 DEF MintStep

(* The steps of resume_redemption keep the invariant.                      *)
LEMMA RedemptionStepKeeps ==
  ASSUME IInv, NEW d \in Drivers, RedemptionStep(d)
  PROVE  IInv'
  <1> DEFINE t == run[d].on
  <1>r. run \in [Drivers -> RunType] /\ run[d].tx \in 0..MaxTxs /\ 0 \in 0..MaxTxs
    BY EquityTransferAssumption DEF IInv, RunInv, RunType
  <1>k. AggInv
    BY DEF IInv
  <1>p. /\ {"go", "persist", "sending"} \subseteq PCs \ OrphanPCs
        /\ {"go"} \cap MintPCs = {} /\ {"go"} \cap RedemptionPCs = {}
        /\ {"persist", "sending"} \cap MintPCs = {}
        /\ {"withdraw", "unwrap", "send"} \subseteq Kinds
    BY DEF PCs, MintPCs, RedemptionPCs, OrphanPCs, Kinds
  <1>q. run[d].pc \in RedemptionPCs => t \in Redemptions
    BY DEF IInv, RunInv
  <1>a. ASSUME t \in Transfers, agg[t].st \in BeforeSend \cup {"TokensSent", "Pending"}
        PROVE  t \in Redemptions
    BY <1>a, <1>k, KindOfState
  <1>1. CASE Redeem(d)
    <2>0. /\ t \in Redemptions /\ t \in Transfers /\ run[d].pc # "idle"
          /\ UNCHANGED <<world, rest>> /\ UNCHANGED stale /\ (Fault \/ NoFault)
      BY <1>1 DEF Redeem, Goes, rest
    <2>1. DriverInv'
      <3>1. CASE Records(d, "VaultWithdrawPending", 0, "go")
        BY <3>1, <2>0, <1>p, <1>r, RecordsKeeps, RedemptionEvents
      <3>2. CASE Errs(d)
        BY <3>2, <2>0, ErrsKeeps
      <3> QED
        BY <1>1, <3>1, <3>2 DEF Redeem
    <2> QED
      BY <2>0, <2>1, QuietStep
  <1>2. CASE Prepare(d)
    <2>0. /\ t \in Transfers /\ run[d].pc # "idle"
          /\ agg[t].st \in {"WithdrawnFromRaindex", "TokensUnwrapped"}
          /\ UNCHANGED <<world, rest>> /\ UNCHANGED stale /\ NoFault
      BY <1>2 DEF Prepare, Goes, rest, NoFault
    <2>1. t \in Redemptions
      BY <2>0, <1>a DEF BeforeSend
    <2>2. DriverInv'
      <3>1. CASE Records(d, "UnwrapPending", 0, "go")
        BY <3>1, <2>0, <2>1, <1>p, <1>r, RecordsKeeps, RedemptionEvents
      <3>2. CASE Records(d, "SendPending", 0, "go")
        BY <3>2, <2>0, <2>1, <1>p, <1>r, RecordsKeeps, RedemptionEvents
      <3> QED
        BY <1>2, <3>1, <3>2 DEF Prepare
    <2> QED
      BY <2>0, <2>2, QuietStep
  <1>3. CASE SubmitCall(d)
    <2> DEFINE kind == CallOf(agg[t].st)
    <2>0. /\ t \in Transfers /\ run[d].pc # "idle"
          /\ agg[t].st \in {"VaultWithdrawPending", "UnwrapPending"}
          /\ UNCHANGED <<prov, rest>>
      BY <1>3 DEF SubmitCall, Goes
    <2>1. t \in Redemptions /\ kind \in Kinds
      BY <2>0, <1>a, <1>p DEF BeforeSend, CallOf
    <2>2. CASE Submit(t, kind, 1) /\ Holds(d, Len(txs) + 1, "persist") /\ NoFault
      <3> HIDE DEF kind
      <3> QED
        BY <2>0, <2>1, <2>2, <1>p, SubmissionKeeps
    <2>3. CASE SubmissionFails(d, kind) /\ Errs(d)
      <3> HIDE DEF kind
      <3> QED
        BY <2>0, <2>1, <2>3, SubmissionFailsKeeps
    <2> QED
      BY <1>3, <2>2, <2>3 DEF SubmitCall
  <1>4. CASE PersistCall(d)
    <2>0. /\ run[d].pc = "persist" /\ t \in Transfers
          /\ UNCHANGED <<world, rest>> /\ NoFault /\ UNCHANGED stale
      BY <1>4 DEF PersistCall, At, NoFault, rest
    <2>1. t \in Redemptions /\ run[d].pc # "idle"
      BY <2>0, <1>q DEF RedemptionPCs
    <2>2. DriverInv'
      <3>1. ASSUME NEW e \in {"VaultWithdrawSubmitted", "UnwrapSubmitted"},
                   Records(d, e, run[d].tx, "go")
            PROVE  DriverInv'
        <4>1. e \in DOMAIN Table(t)
          BY <2>1, RedemptionEvents
        <4> QED
          BY <3>1, <4>1, <2>0, <2>1, <1>p, <1>r, RecordsKeeps
      <3>2. CASE Errs(d)
        BY <3>2, <2>0, <2>1, ErrsKeeps
      <3> QED
        BY <1>4, <3>1, <3>2 DEF PersistCall
    <2> QED
      BY <2>0, <2>2, QuietStep
  <1>5. CASE ConfirmCall(d)
    <2>0. /\ t \in Transfers /\ run[d].pc # "idle"
          /\ agg[t].st \in {"VaultWithdrawSubmitted", "UnwrapSubmitted"}
          /\ UNCHANGED <<world, rest>> /\ UNCHANGED stale /\ (Fault \/ NoFault)
      BY <1>5, FaultUnlessIs DEF ConfirmCall, Goes, rest
    <2>1. t \in Redemptions /\ agg[t].tx \in 0..MaxTxs
      BY <2>0, <1>a, <1>k DEF BeforeSend, AggInv, AggType
    <2>2. DriverInv'
      <3>1. ASSUME NEW e \in {"WithdrawnFromRaindex", "TokensUnwrapped"},
                   Records(d, e, agg[t].tx, "go")
            PROVE  DriverInv'
        <4>1. e \in DOMAIN Table(t)
          BY <2>1, RedemptionEvents
        <4> QED
          BY <3>1, <4>1, <2>0, <2>1, <1>p, RecordsKeeps
      <3>2. CASE Errs(d)
        BY <3>2, <2>0, <2>1, ErrsKeeps
      <3> QED
        BY <1>5, <3>1, <3>2 DEF ConfirmCall
    <2> QED
      BY <2>0, <2>2, QuietStep
  <1>6. CASE SendTokens(d)
    <2>0. /\ t \in Transfers /\ run[d].pc # "idle" /\ agg[t].st = "SendPending"
          /\ UNCHANGED <<prov, rest>> /\ UNCHANGED stale
      BY <1>6 DEF SendTokens, Goes, rest
    <2>1. t \in Redemptions
      BY <2>0, <1>a DEF BeforeSend
    <2>2. CASE Submit(t, "send", 1) /\ Holds(d, Len(txs) + 1, "sending") /\ NoFault
      BY <2>0, <2>1, <2>2, <1>p, SubmissionKeeps
    <2>3. CASE /\ FaultUnless(~Spends("send", 1)) /\ UNCHANGED chain
               /\ RecordsLast(d, "TransferFailed", 0)
      <3>1. DriverInv'
        BY <2>0, <2>1, <2>3, <1>r, RecordsLastKeeps, RedemptionEvents
      <3>2. UNCHANGED <<world, rest>>
        BY <2>0, <2>3 DEF world
      <3> QED
        BY <2>3, <3>1, <3>2, QuietStep, FaultUnlessIs
    <2>4. CASE Fault /\ UNCHANGED chain /\ Errs(d)
      <3>1. DriverInv'
        BY <2>0, <2>4, ErrsKeeps
      <3>2. UNCHANGED <<world, rest>>
        BY <2>0, <2>4 DEF world
      <3> QED
        BY <2>4, <3>1, <3>2, QuietStep
    <2> QED
      BY <1>6, <2>2, <2>3, <2>4 DEF SendTokens
  <1>7. CASE ConfirmSend(d)
    <2>0. /\ run[d].pc = "sending" /\ t \in Transfers
          /\ UNCHANGED <<world, rest>> /\ (Fault \/ NoFault) /\ UNCHANGED stale
      BY <1>7, FaultUnlessIs DEF ConfirmSend, At, rest
    <2>1. t \in Redemptions /\ run[d].pc # "idle"
      BY <2>0, <1>q DEF RedemptionPCs
    <2>2. DriverInv'
      <3>1. CASE Records(d, "TokensSent", run[d].tx, "go")
        BY <3>1, <2>0, <2>1, <1>p, <1>r, RecordsKeeps, RedemptionEvents
      <3>2. CASE RecordsLast(d, "TransferFailed", 0)
        BY <3>2, <2>0, <2>1, <1>r, RecordsLastKeeps, RedemptionEvents
      <3>3. CASE Errs(d)
        BY <3>3, <2>0, <2>1, ErrsKeeps
      <3> QED
        BY <1>7, <3>1, <3>2, <3>3 DEF ConfirmSend
    <2> QED
      BY <2>0, <2>2, QuietStep
  <1>8. CASE PollDetection(d) \/ PollCompletion(d)
    <2>0. /\ t \in Transfers /\ run[d].pc # "idle" /\ agg[t].st \in {"TokensSent", "Pending"}
          /\ UNCHANGED <<world, rest>> /\ UNCHANGED stale /\ (Fault \/ NoFault)
      BY <1>8, FaultUnlessIs DEF PollDetection, PollCompletion, Goes, rest
    <2>1. t \in Redemptions
      BY <2>0, <1>a
    <2>2. DriverInv'
      <3>1. CASE Records(d, "Detected", 0, "go")
        BY <3>1, <2>0, <2>1, <1>p, <1>r, RecordsKeeps, RedemptionEvents
      <3>2. ASSUME NEW e \in {"DetectionFailed", "Completed", "RedemptionRejected"},
                   RecordsLast(d, e, 0)
            PROVE  DriverInv'
        <4>1. e \in DOMAIN Table(t)
          BY <2>1, RedemptionEvents
        <4> QED
          BY <3>2, <4>1, <2>0, <2>1, <1>r, RecordsLastKeeps
      <3>3. CASE Errs(d)
        BY <3>3, <2>0, ErrsKeeps
      <3> QED
        BY <1>8, <3>1, <3>2, <3>3 DEF PollDetection, PollCompletion
    <2> QED
      BY <2>0, <2>2, QuietStep
  <1> HIDE DEF t
  <1> QED
    BY <1>1, <1>2, <1>3, <1>4, <1>5, <1>6, <1>7, <1>8 DEF RedemptionStep

(* A settled transfer ends the run that finds it.                          *)
LEMMA NothingLeftKeeps ==
  ASSUME IInv, NEW d \in Drivers, NothingLeft(d)
  PROVE  IInv'
  <1>1. /\ run[d].pc # "idle" /\ UNCHANGED agg /\ UNCHANGED <<world, rest>> /\ UNCHANGED stale
        /\ NoFault /\ (Ends(d, mem) \/ Errs(d))
    BY DEF NothingLeft, At, Errs, rest, NoFault
  <1>2. AggInv' /\ Fits(mem)
    BY <1>1 DEF IInv, AggInv, MemInv, Fits
  <1>3. DriverInv'
    BY <1>1, <1>2, EndsKeeps, ErrsKeeps
  <1> QED
    BY <1>1, <1>3, QuietStep

-----------------------------------------------------------------------------
(* The transfer queue.                                                     *)
LEMMA QueueKeeps ==
  ASSUME IInv, NEW t \in Transfers, Trigger(t) \/ Start(t)
  PROVE  IInv'
  <1> USE DEF IInv
  <1>0. /\ UNCHANGED <<agg, attempts, rec>> /\ UNCHANGED <<world, rest>> /\ UNCHANGED stale /\ NoFault
        /\ t \in Jobs /\ t \in Drivers
    BY DEF Trigger, Start, rest, NoFault, Jobs, Drivers
  <1>1. CASE Trigger(t)
    <2>0. row \in [Jobs -> {"none", "ready", "failed", "done", "dead"}]
      BY DEF QueueInv
    <2>1. /\ UNCHANGED run
          /\ row' = [u \in Jobs |-> IF u = t THEN "ready"
                                    ELSE IF u \in Zombies THEN "dead" ELSE row[u]]
      BY <1>1 DEF Trigger
    <2>2. row' \in [Jobs -> {"none", "ready", "failed", "done", "dead"}]
      BY <2>0, <2>1
    <2>3. \A j \in Jobs : row'[j] \in {"none", "ready", "failed"}
                          => row[j] \in {"none", "ready", "failed"}
      BY <1>1, <2>1 DEF Trigger
    <2>4. QueueInv'
      BY <1>0, <2>2, <2>3 DEF QueueInv
    <2>5. \A j \in Jobs : run[j] # Idle => row'[j] \in {"ready", "failed"}
      BY <2>1 DEF RunInv, Live, Zombies
    <2>6. RunInv'
      BY <2>1, <2>5 DEF RunInv, Live
    <2>7. MemInv'
      BY <1>0, <1>1 DEF Trigger, MemInv, MemType
    <2>8. RecInv'
      BY <1>0, <2>1, RecoveriesUntouched
    <2> QED
      BY <1>0, <2>4, <2>6, <2>7, <2>8, QuietStep DEF DriverInv, AggInv
  <1>2. CASE Start(t)
    <2> DEFINE started == [Idle EXCEPT !.on = t, !.pc = "go", !.fresh = (agg[t].st = "Absent")]
    <2>0. run' = [run EXCEPT ![t] = started] /\ UNCHANGED <<row, mem>>
      BY <1>2 DEF Start
    <2>1. started \in RunType
      BY IdleTyped DEF RunType, PCs
    <2>2. started.pc = "go"
      BY DEF Idle
    <2> HIDE DEF started
    <2>3. /\ run' \in [Drivers -> RunType] /\ run'[t].pc = "go"
          /\ \A c \in Drivers : c # t => run'[c] = run[c]
      BY <1>0, <2>0, <2>1, <2>2 DEF RunInv
    <2>4. RunInv'
      BY <1>2, <2>0, <2>3 DEF Start, RunInv, Live, Drivers, MintPCs, RedemptionPCs
    <2>5. t \notin Recoveries
      BY EquityTransferAssumption DEF Recoveries
    <2>6. RecInv'
      BY <1>0, <2>3, <2>5, RecoveriesUntouched DEF Drivers, Jobs
    <2> QED
      BY <1>0, <2>0, <2>4, <2>6, QuietStep DEF DriverInv, AggInv, QueueInv, MemInv
  <1> QED
    BY <1>1, <1>2

-----------------------------------------------------------------------------
(* A recovery that lets go of its claim for now.                           *)
LEMMA DropsKeeps ==
  ASSUME IInv, NEW k \in Recoveries, Drops(k), QueueInv', UNCHANGED <<agg, stale>>,
         \A j \in Jobs : j # k => row'[j] = row[j]
  PROVE  DriverInv'
  <1> USE DEF IInv
  <1>1. k \in Jobs /\ k \in Drivers
    BY DEF Jobs, Drivers
  <1>2. RunInv'
    BY <1>1, StopKeepsRuns DEF Drops
  <1>3. MemInv'
    BY DEF Drops, Restored, MemInv, MemType, Held, Free
  <1>4. /\ rec' \in [Recoveries -> RecType] /\ rec'[k].st = rec[k].st /\ rec'[k].shares = rec[k].shares
        /\ \A j \in Recoveries : j # k => rec'[j] = rec[j]
    BY DEF Drops, RecInv, RecType
  <1>5. run'[k].pc = "idle" /\ \A j \in Recoveries : j # k => run'[j] = run[j]
    BY <1>1, IdleTyped DEF Drops, RunInv, Drivers, Jobs
  <1>6. RecInv'
    BY <1>4, <1>5 DEF RecInv, OrphanPCs
  <1> QED
    BY <1>2, <1>3, <1>6 DEF DriverInv, AggInv

(* A recovery that failed for good, or moved the balance.                  *)
LEMMA OrphanFailsKeeps ==
  ASSUME IInv, NEW k \in Recoveries, run' = [run EXCEPT ![k] = Idle], RecoveryEnds(k, mem),
         UNCHANGED <<agg, stale>>
  PROVE  DriverInv'
  <1> USE DEF IInv
  <1>1. k \in Drivers /\ Fits(mem)
    BY DEF Jobs, Drivers, Fits, MemInv
  <1>2. QueueInv' /\ RecInv' /\ MemInv' /\ \A i \in Jobs : i # k => row'[i] = row[i]
    BY <1>1, RecoveryEndsKeeps
  <1>3. RunInv'
    BY <1>1, <1>2, StopKeepsRuns
  <1> QED
    BY <1>2, <1>3 DEF DriverInv, AggInv

(* A recovery that goes on, with what it knows of the balance.             *)
LEMMA RecoveryGoesOn ==
  ASSUME IInv, NEW k \in Recoveries, run[k] # Idle \/ Live(k),
         run' \in [Drivers -> RunType], \A c \in Drivers : c # k => run'[c] = run[c],
         run'[k].pc \notin MintPCs \cup RedemptionPCs,
         rec' \in [Recoveries -> RecType], \A j \in Recoveries : j # k => rec'[j] = rec[j],
         rec'[k].st \notin {"none", "terminal"} => rec'[k].shares > 0,
         run'[k].pc \in OrphanPCs => rec'[k].shares > 0,
         UNCHANGED <<agg, row, attempts, stale>>, mem' \in MemType, mem'.tracked = mem.tracked
  PROVE  DriverInv'
  <1> USE DEF IInv
  <1>1. k \in Jobs /\ Live(k)
    BY DEF Jobs, RunInv
  <1>2. RunInv'
    BY <1>1 DEF RunInv, Live, Drivers
  <1>3. RecInv'
    BY DEF RecInv, Drivers, Jobs
  <1> QED
    BY <1>2, <1>3 DEF DriverInv, AggInv, QueueInv, MemInv

(* The recovery jobs keep the invariant.                                   *)
LEMMA RecoveryStepKeeps ==
  ASSUME IInv, NEW k \in Recoveries, RecoveryStep(k)
  PROVE  IInv'
  <1> USE DEF IInv
  <1>k. k \in Jobs /\ k \in Drivers
    BY DEF Jobs, Drivers
  <1>r. /\ run \in [Drivers -> RunType] /\ rec \in [Recoveries -> RecType] /\ mem \in MemType
        /\ run[k] \in RunType /\ rec[k] \in RecType
        /\ seen[k] \in Nat /\ 0 \in 0..MaxTxs
    BY <1>k, EquityTransferAssumption DEF RunInv, RecInv, MemInv, OutsideInv
  <1>p. /\ {"claimed", "go", "orphanWrap", "orphanDeposit", "recordOrphan", "confirmOrphan"}
             \subseteq PCs \ (MintPCs \cup RedemptionPCs)
        /\ {"wrap", "deposit"} \subseteq Kinds
    BY DEF PCs, MintPCs, RedemptionPCs, OrphanPCs, Kinds
  <1>i. run[k].pc # "idle" => run[k] # Idle /\ Live(k)
    BY <1>k, IdleTyped DEF RunInv
  <1>1. CASE Claim(k)
    <2>1. /\ run' \in [Drivers -> RunType] /\ run'[k].pc = "claimed"
          /\ \A c \in Drivers : c # k => run'[c] = run[c]
      BY <1>1, <1>k, <1>r, <1>p DEF Claim, RunType
    <2>2. /\ rec' \in [Recoveries -> RecType] /\ rec'[k].st = rec[k].st
          /\ rec'[k].shares = rec[k].shares
          /\ \A j \in Recoveries : j # k => rec'[j] = rec[j]
      BY <1>1, <1>r DEF Claim, RecType
    <2>3. mem' \in MemType /\ mem'.tracked = mem.tracked
      BY <1>1, <1>k, <1>r DEF Claim, MemType
    <2>4. /\ UNCHANGED <<agg, row, attempts, stale>> /\ UNCHANGED <<world, rest>> /\ NoFault /\ Live(k)
      BY <1>1 DEF Claim, rest, NoFault
    <2>5. DriverInv'
      BY <2>1, <2>2, <2>3, <2>4, <1>p, RecoveryGoesOn DEF RecInv, OrphanPCs
    <2> QED
      BY <2>4, <2>5, QuietStep
  <1>2. CASE NoBalanceSkip(k) \/ DetectFails(k)
    <2>1. /\ UNCHANGED <<agg, stale>> /\ UNCHANGED <<world, rest>> /\ NoFault /\ Drops(k)
          /\ run[k].pc = "claimed"
      BY <1>2 DEF NoBalanceSkip, DetectFails, rest, NoFault
    <2>2. UNCHANGED <<row, attempts>> \/ Finishes(k) \/ Retries(k)
      BY <1>2 DEF NoBalanceSkip, DetectFails
    <2>3. QueueInv' /\ \A j \in Jobs : j # k => row'[j] = row[j]
      <3>1. CASE UNCHANGED <<row, attempts>>
        BY <3>1, <2>1 DEF QueueInv
      <3> QED
        BY <3>1, <2>1, <2>2, <1>k, <1>i, RowEnds, RowRetries
    <2>4. DriverInv'
      BY <2>1, <2>3, DropsKeeps
    <2> QED
      BY <2>1, <2>4, QuietStep
  <1>3. CASE FailRecovery(k)
    <2>1. DriverInv'
      BY <1>3, OrphanFailsKeeps DEF FailRecovery, rest
    <2> QED
      BY <1>3, <2>1, QuietStep DEF FailRecovery, NoFault
  <1>4. CASE Detect(k)
    <2>1. /\ rec' = [rec EXCEPT ![k].st = "Detected", ![k].shares = seen[k]] /\ seen[k] > 0
          /\ run[k].pc = "claimed"
          /\ UNCHANGED <<agg, row, attempts, mem, stale>> /\ UNCHANGED <<world, rest>> /\ NoFault
      BY <1>4 DEF Detect, rest, NoFault
    <2>2. /\ rec' \in [Recoveries -> RecType] /\ rec'[k].shares = seen[k]
          /\ \A j \in Recoveries : j # k => rec'[j] = rec[j]
      BY <2>1, <1>r DEF RecType
    <2>3. ActiveTransfers \subseteq Transfers
      BY <1>r DEF ActiveTransfers, MemType
    <2>4. /\ run' \in [Drivers -> RunType] /\ run'[k].pc \in {"go", "orphanWrap", "orphanDeposit"}
          /\ \A c \in Drivers : c # k => run'[c] = run[c]
      <3>1. CASE \E t \in ActiveTransfers : run' = [run EXCEPT ![k].on = t, ![k].pc = "go"]
        <4>1. PICK t \in ActiveTransfers : run' = [run EXCEPT ![k].on = t, ![k].pc = "go"]
          BY <3>1
        <4>2. t \in Transfers
          BY <2>3
        <4> QED
          BY <4>1, <4>2, <1>k, <1>r, <1>p DEF RunType
      <3>2. CASE run' = [run EXCEPT ![k].pc = IF k = "unwrapped" THEN "orphanWrap"
                                                                 ELSE "orphanDeposit"]
        BY <3>2, <1>k, <1>r, <1>p DEF RunType
      <3> QED
        BY <1>4, <3>1, <3>2 DEF Detect
    <2>5. DriverInv'
      BY <2>1, <2>2, <2>4, <1>i, <1>p, <1>r, RecoveryGoesOn
    <2> QED
      BY <2>1, <2>5, QuietStep
  <1>5. CASE SubmitOrphan(k)
    <2> DEFINE kind == IF run[k].pc = "orphanWrap" THEN "wrap" ELSE "deposit"
    <2>1. /\ run[k].pc \in {"orphanWrap", "orphanDeposit"} /\ UNCHANGED <<prov, rest>>
          /\ UNCHANGED stale
      BY <1>5 DEF SubmitOrphan, rest
    <2>2. rec[k].shares \in Nat \ {0} /\ kind \in Kinds
      BY <2>1, <1>r, <1>p DEF RecInv, OrphanPCs, RecType
    <2>3. CASE /\ Submit(k, kind, rec[k].shares)
               /\ run' = [run EXCEPT ![k].pc = "recordOrphan", ![k].tx = Len(txs) + 1]
               /\ UNCHANGED <<agg, row, attempts, rec, mem>> /\ NoFault
      <3> HIDE DEF kind
      <3>1. ChainInv' /\ Len(txs) + 1 \in 0..MaxTxs
        BY <2>2, <2>3, <1>k, SubmitKeeps
      <3>2. /\ run' \in [Drivers -> RunType] /\ run'[k].pc = "recordOrphan"
            /\ \A c \in Drivers : c # k => run'[c] = run[c]
        BY <3>1, <2>3, <1>k, <1>r, <1>p DEF RunType
      <3>3. DriverInv'
        BY <3>2, <2>1, <2>3, <1>i, <1>p, <1>r, RecoveryGoesOn DEF RecInv, OrphanPCs
      <3> QED
        BY <3>1, <3>3, <2>1, <2>3, StepDone DEF OutsideInv
    <2>4. CASE /\ \/ FaultUnless(~Spends(kind, rec[k].shares)) /\ UNCHANGED chain
                  \/ Fault /\ Submit(k, kind, rec[k].shares)
               /\ OrphanFails(k)
      <3> HIDE DEF kind
      <3>1. DriverInv'
        BY <2>1, <2>4, OrphanFailsKeeps DEF OrphanFails
      <3>2. Fault \/ NoFault
        BY <2>4, FaultUnlessIs
      <3>3. ChainInv'
        BY <2>2, <2>4, <1>k, SubmitKeeps, ChainIdle
      <3> QED
        BY <2>1, <3>1, <3>2, <3>3, StepDone DEF OutsideInv
    <2>5. CASE Fault /\ UNCHANGED chain /\ Drops(k) /\ Retries(k) /\ UNCHANGED agg
      <3>1. QueueInv' /\ \A j \in Jobs : j # k => row'[j] = row[j]
        BY <2>1, <2>5, <1>k, <1>i, RowRetries
      <3>2. DriverInv'
        BY <2>1, <2>5, <3>1, DropsKeeps
      <3>3. UNCHANGED <<world, rest>>
        BY <2>1, <2>5 DEF world
      <3> QED
        BY <2>5, <3>2, <3>3, QuietStep
    <2> QED
      BY <1>5, <2>3, <2>4, <2>5 DEF SubmitOrphan
  <1>6. CASE RecordOrphan(k)
    <2>1. /\ run[k].pc = "recordOrphan"
          /\ UNCHANGED <<agg, row, attempts, mem, stale>> /\ UNCHANGED <<world, rest>> /\ NoFault
      BY <1>6 DEF RecordOrphan, rest, NoFault
    <2>2. /\ rec' \in [Recoveries -> RecType] /\ rec'[k].shares = rec[k].shares
          /\ \A j \in Recoveries : j # k => rec'[j] = rec[j]
      BY <1>6, <1>r DEF RecordOrphan, RecType, RunType
    <2>3. /\ run' \in [Drivers -> RunType] /\ run'[k].pc = "confirmOrphan"
          /\ \A c \in Drivers : c # k => run'[c] = run[c]
      BY <1>6, <1>k, <1>r, <1>p DEF RecordOrphan, RunType
    <2>4. rec[k].shares > 0
      BY <2>1 DEF RecInv, OrphanPCs
    <2>5. DriverInv'
      BY <2>1, <2>2, <2>3, <2>4, <1>i, <1>p, <1>r, RecoveryGoesOn
    <2> QED
      BY <2>1, <2>5, QuietStep
  <1>7. CASE ConfirmOrphan(k)
    <2>1. /\ run[k].pc = "confirmOrphan" /\ UNCHANGED <<world, rest>> /\ UNCHANGED stale
          /\ UNCHANGED agg /\ (Fault \/ NoFault)
      BY <1>7, FaultUnlessIs DEF ConfirmOrphan, OrphanFails, rest
    <2>2. CASE OrphanFails(k)
      <3>1. DriverInv'
        BY <2>1, <2>2, OrphanFailsKeeps DEF OrphanFails
      <3> QED
        BY <2>1, <3>1, QuietStep
    <2>3. CASE Drops(k) /\ Retries(k)
      <3>1. QueueInv' /\ \A j \in Jobs : j # k => row'[j] = row[j]
        BY <2>1, <2>3, <1>k, <1>i, RowRetries
      <3>2. DriverInv'
        BY <2>1, <2>3, <3>1, DropsKeeps
      <3> QED
        BY <2>1, <3>2, QuietStep
    <2>4. CASE /\ rec[k].st = "OrphanWrapSubmitted"
               /\ rec' = [rec EXCEPT ![k].st = "OrphanWrapped"]
               /\ run' = [run EXCEPT ![k].pc = "orphanDeposit"]
               /\ UNCHANGED <<agg, row, attempts, mem>>
      <3>1. /\ rec' \in [Recoveries -> RecType] /\ rec'[k].shares = rec[k].shares
            /\ rec[k].shares > 0
            /\ \A j \in Recoveries : j # k => rec'[j] = rec[j]
        BY <2>4, <1>r DEF RecType, RecInv
      <3>2. /\ run' \in [Drivers -> RunType] /\ run'[k].pc = "orphanDeposit"
            /\ \A c \in Drivers : c # k => run'[c] = run[c]
        BY <2>4, <1>k, <1>r, <1>p DEF RunType
      <3>3. DriverInv'
        BY <2>1, <2>4, <3>1, <3>2, <1>i, <1>p, <1>r, RecoveryGoesOn
      <3> QED
        BY <2>1, <3>3, QuietStep
    <2> QED
      BY <1>7, <2>2, <2>3, <2>4 DEF ConfirmOrphan
  <1> QED
    BY <1>1, <1>2, <1>3, <1>4, <1>5, <1>6, <1>7 DEF RecoveryStep

(* A retried recovery enters its orphan path.                              *)
LEMMA ResumeOrphanKeeps ==
  ASSUME IInv, ResumeOrphan
  PROVE  IInv'
  <1> DEFINE k == "unwrapped"
  <1>1. /\ k \in Recoveries /\ k \in Jobs /\ k \in Drivers /\ run[k].pc = "claimed"
        /\ run \in [Drivers -> RunType] /\ mem \in MemType
        /\ rec \in [Recoveries -> RecType]
        /\ UNCHANGED <<agg, row, attempts, rec, mem, stale>> /\ UNCHANGED <<world, rest>> /\ NoFault
    BY DEF ResumeOrphan, IInv, RunInv, RecInv, MemInv, Recoveries, Jobs, Drivers, rest, NoFault
  <1>2. /\ run' \in [Drivers -> RunType] /\ run'[k].pc \in {"confirmOrphan", "orphanDeposit"}
        /\ \A c \in Drivers : c # k => run'[c] = run[c]
    BY <1>1 DEF ResumeOrphan, RunType, PCs
  <1>3. rec[k].shares > 0
    BY <1>1 DEF ResumeOrphan, IInv, RecInv
  <1>4. run[k] # Idle
    BY <1>1, IdleTyped
  <1>5. DriverInv'
    BY <1>1, <1>2, <1>3, <1>4, RecoveryGoesOn DEF MintPCs, RedemptionPCs
  <1> QED
    BY <1>1, <1>5, QuietStep

(* New recovery rows for balances without one.                             *)
LEMMA EnqueuedKeeps ==
  ASSUME QueueInv, NEW ks, ks \subseteq Recoveries, Enqueued(ks), stale' \subseteq Mints
  PROVE  /\ QueueInv'
         /\ \A j \in Jobs : Live(j) => row'[j] \in {"ready", "failed"}
  <1>1. MaxAttempts \in Nat \ {0}
    BY EquityTransferAssumption
  <1> QED
    BY <1>1 DEF QueueInv, Enqueued, Live

(* Polls of the wallet.                                                    *)
LEMMA PollWalletKeeps ==
  ASSUME IInv, NEW k \in Recoveries, PollWallet(k)
  PROVE  IInv'
  <1> USE DEF IInv
  <1> DEFINE ks == {j \in {k} : Due(j, seen')}
  <1>1. /\ UNCHANGED <<agg, stale, run, mem, sweep>> /\ UNCHANGED world /\ UNCHANGED envVars
        /\ seen' = [seen EXCEPT ![k] = Wallet(k)] /\ Enqueued(ks)
        /\ rec' = [j \in Recoveries |-> IF j \in ks THEN NoRecovery ELSE rec[j]]
    BY DEF PollWallet
  <1>2. /\ ks \subseteq Recoveries /\ \A j \in ks : ~Live(j)
    BY DEF Due
  <1>3. /\ "issue" \in Kinds /\ "unwrap" \in Kinds /\ "wrap" \in Kinds /\ "send" \in Kinds
        /\ "withdraw" \in Kinds /\ "deposit" \in Kinds
    BY DEF Kinds
  <1>4. Wallet(k) \in Nat
    BY <1>3 DEF ChainInv, Wallet
  <1>5. OutsideInv'
    BY <1>1, <1>4 DEF OutsideInv, world, envVars
  <1> HIDE DEF ks
  <1>6. QueueInv' /\ \A j \in Jobs : Live(j) => row'[j] \in {"ready", "failed"}
    BY <1>1, <1>2, EnqueuedKeeps DEF QueueInv
  <1>7. RunInv'
    BY <1>1, <1>6 DEF RunInv, Live
  <1>8. \A j \in Recoveries : j \in Jobs /\ j \in Drivers
    BY DEF Jobs, Drivers
  <1>9. \A j \in ks : run[j].pc = "idle"
    BY <1>2, <1>8, IdleTyped DEF RunInv
  <1>10. /\ rec' \in [Recoveries -> RecType]
         /\ \A j \in Recoveries : rec'[j] = rec[j] \/ (rec'[j] = NoRecovery /\ run[j].pc = "idle")
    BY <1>1, <1>2, <1>9, IdleTyped DEF RecInv
  <1>11. RecInv'
    BY <1>1, <1>10, IdleTyped DEF RecInv, OrphanPCs
  <1>12. ChainInv'
    BY <1>1, ChainIdle DEF world
  <1> QED
    BY <1>1, <1>5, <1>6, <1>7, <1>11, <1>12 DEF AggInv, MemInv, SweepInv

(* What the issuer has pending is a number.                                *)
LEMMA PendingIsNat ==
  ASSUME IInv, NEW s
  PROVE  Pending(s) \in Nat
  <1> DEFINE P == {t \in mem.tracked : /\ Side(t) = s /\ prov[t] = "pending"
                                       /\ t \in Mints \/ agg[t].sent # 0}
  <1>1. P \subseteq Transfers
    BY DEF IInv, MemInv, MemType
  <1>2. IsFiniteSet(P)
    BY <1>1, FS_Subset, EquityTransferAssumption
  <1>3. Cardinality(P) \in Nat
    BY <1>2, FS_CardinalityType
  <1> QED
    BY <1>3 DEF Pending

LEMMA PollInflightKeeps ==
  ASSUME IInv, PollInflight
  PROVE  IInv'
  <1> USE DEF IInv
  <1>1. \A s \in Sides : Pending(s) \in Nat
    BY PendingIsNat
  <1> DEFINE f == [s \in Sides |-> IF Pending(s) > 0 \/ s \in mem.polled
                                   THEN Pending(s) ELSE mem.inflight[s]]
             q == {s \in Sides : Pending(s) > 0}
  <1>2. /\ mem' = [mem EXCEPT !.inflight = f, !.polled = q]
        /\ seen' = [k \in DOMAIN seen |-> IF k \in Sides THEN Pending(k) ELSE seen[k]]
        /\ UNCHANGED <<agg, row, attempts, stale, run, rec, sweep>> /\ UNCHANGED world /\ UNCHANGED envVars
    BY DEF PollInflight, queueVars
  <1>3. f \in [Sides -> Nat] /\ q \subseteq Sides
    BY <1>1 DEF MemInv, MemType
  <1>4. seen' \in [Recoveries \cup Sides -> Nat]
    BY <1>1, <1>2 DEF OutsideInv
  <1> HIDE DEF f, q
  <1>5. MemInv'
    BY <1>2, <1>3 DEF MemInv, MemType
  <1>6. OutsideInv'
    BY <1>2, <1>4 DEF OutsideInv, world, envVars
  <1>7. ChainInv'
    BY <1>2, ChainIdle DEF world
  <1> QED
    BY <1>2, <1>5, <1>6, <1>7 DEF AggInv, QueueInv, RunInv, RecInv, SweepInv, Live

-----------------------------------------------------------------------------
(* The sweep keeps the invariant.                                          *)
LEMMA SweepKeeps ==
  ASSUME IInv, (\E t \in Transfers : Sweep(t)) \/ SweepClears \/ SweepFails
  PROVE  IInv'
  <1> USE DEF IInv
  <1>0. NoSweep \in [t : Transfers \cup {None}, pc : {"idle", "clear", "fail"},
                     stage : MintStates \cup RedemptionStates] /\ NoSweep.pc = "idle"
    BY DEF NoSweep, MintStates
  <1>1. /\ UNCHANGED <<row, attempts, stale, run, rec, seen>> /\ UNCHANGED world /\ UNCHANGED envVars
    BY DEF Sweep, SweepClears, SweepFails, queueVars
  <1>2. QueueInv' /\ RunInv' /\ RecInv' /\ ChainInv' /\ OutsideInv'
    BY <1>1, ChainIdle DEF QueueInv, RunInv, RecInv, OutsideInv, Live, world, envVars
  <1>3. ASSUME NEW t \in Transfers, Sweep(t) PROVE IInv'
    <2>1. Side(t) \in Sides /\ t \in mem.tracked /\ mem \in MemType
      BY <1>3 DEF Sweep, Side, Sides, MemInv
    <2>2. MemInv'
      BY <1>3, <2>1 DEF Sweep, MemInv, MemType
    <2>3. /\ agg[t].st \in StatesOf(t) /\ agg[t].st # "Absent"
          /\ agg[t].st \in MintStates \cup RedemptionStates
      BY <2>1 DEF AggInv, MemInv, StatesOf
    <2>4. SweepInv'
      BY <1>3, <2>3 DEF Sweep, SweepInv
    <2> QED
      BY <1>3, <1>2, <2>2, <2>4 DEF Sweep, AggInv
  <1>4. CASE SweepClears
    <2>1. mem' \in {mem, [mem EXCEPT !.slot = Free]} /\ UNCHANGED agg
      BY <1>4 DEF SweepClears
    <2>2. MemInv'
      BY <2>1 DEF MemInv, MemType, Free
    <2>3. sweep' = NoSweep \/ (sweep' = [sweep EXCEPT !.pc = "fail"] /\ sweep.stage \notin Terminal)
      BY <1>4 DEF SweepClears
    <2>4. SweepInv'
      BY <1>4, <2>3, <1>0 DEF SweepInv, SweepClears, StatesOf
    <2> QED
      BY <1>2, <2>1, <2>2, <2>4 DEF AggInv
  <1>5. CASE SweepFails
    <2> DEFINE t == sweep.t  e == FailureOf(sweep.stage)
    <2>1. t \in Transfers /\ sweep.stage \in StatesOf(t) /\ sweep.stage \notin Terminal \cup {"Absent"}
      BY <1>5 DEF SweepFails, SweepInv
    <2>2. e \in DOMAIN Table(t) /\ 0 \in 0..MaxTxs
      BY <2>1, FailureTable, EquityTransferAssumption
    <2>3. AggInv' /\ MemInv'
      <3>1. CASE /\ agg' = [agg EXCEPT ![t] = Evolved(@, Table(t), e, 0)]
                 /\ mem' = React(mem, t, e)
        <4> HIDE DEF e, t
        <4>1. AggInv' /\ Fits(React(mem, t, e))
          BY <3>1, <2>1, <2>2, EventKeeps DEF MemInv
        <4> QED
          BY <3>1, <4>1 DEF MemInv, Fits
      <3>2. CASE UNCHANGED <<agg, mem>>
        BY <3>2 DEF AggInv, MemInv
      <3> QED
        BY <1>5, <3>1, <3>2 DEF SweepFails
    <2>4. SweepInv'
      BY <1>5, <1>0 DEF SweepFails, SweepInv
    <2> QED
      BY <1>2, <2>3, <2>4
  <1> QED
    BY <1>3, <1>4, <1>5

-----------------------------------------------------------------------------
(* The operator's run on a transfer.                                       *)
LEMMA OperatorRun ==
  ASSUME RunInv, RecInv, NEW r \in RunType, r.pc = "go", UNCHANGED <<row, rec>>,
         run' = [run EXCEPT !["operator"] = r]
  PROVE  RunInv' /\ RecInv'
  <1>1. "operator" \in Drivers /\ "operator" \notin Jobs
    BY EquityTransferAssumption DEF Drivers, Jobs, Recoveries
  <1>2. /\ run' \in [Drivers -> RunType] /\ run'["operator"].pc = "go"
        /\ \A c \in Jobs : run'[c] = run[c]
    BY <1>1 DEF RunInv, Drivers
  <1>3. RunInv'
    BY <1>2 DEF RunInv, Live, Drivers, MintPCs, RedemptionPCs
  <1> QED
    BY <1>2, <1>3, RecoveriesUntouched DEF Jobs

LEMMA OperatorKeeps ==
  ASSUME IInv, Operator
  PROVE  IInv'
  <1> USE DEF IInv
  <1>0. PICK t \in Transfers : OperatorResumes(t) \/ RecheckMint(t) \/ RecheckRedemption(t)
                               \/ OperatorCloses(t)
    BY DEF Operator
  <1>1. /\ Operates /\ UNCHANGED <<row, attempts, rec, stale>> /\ UNCHANGED world /\ UNCHANGED rest
    BY <1>0 DEF OperatorResumes, RecheckMint, RecheckRedemption, OperatorCloses, rest
  <1>2. MaxOperations \in Nat /\ 0 \in 0..MaxTxs
    BY EquityTransferAssumption
  <1>3. OutsideInv'
    BY <1>1, <1>2 DEF Operates, OutsideInv, world, rest
  <1>4. QueueInv' /\ ChainInv' /\ SweepInv'
    BY <1>1, ChainIdle, RestIdle DEF QueueInv, world
  <1>5. CASE OperatorResumes(t)
    <2>1. run' = [run EXCEPT !["operator"] = [Idle EXCEPT !.on = t, !.pc = "go"]]
          /\ UNCHANGED <<agg, mem>>
      BY <1>5 DEF OperatorResumes
    <2>2. /\ [Idle EXCEPT !.on = t, !.pc = "go"] \in RunType
          /\ [Idle EXCEPT !.on = t, !.pc = "go"].pc = "go"
      BY IdleTyped DEF RunType, PCs
    <2>3. RunInv' /\ RecInv'
      BY <1>1, <2>1, <2>2, OperatorRun
    <2> QED
      BY <1>3, <1>4, <2>1, <2>3 DEF AggInv, MemInv
  <1>6. CASE RecheckMint(t) \/ RecheckRedemption(t)
    <2> DEFINE e == "ProviderCompletionRecovered"
    <2>1. e \in DOMAIN Table(t)
      BY <1>6, MintEvents, RedemptionEvents DEF RecheckMint, RecheckRedemption
    <2>2. t \in Redemptions => t \notin Mints
      BY EquityTransferAssumption
    <2>3. /\ agg' = [agg EXCEPT ![t] = Evolved(@, Table(t), e, 0)]
          /\ mem' = React(Reclaimed(t), t, e)
      BY <1>6, <2>2 DEF RecheckMint, RecheckRedemption, Table
    <2>4. Side(t) \in Sides
      BY DEF Side, Sides
    <2>5. Reclaimed(t) \in MemType /\ Reclaimed(t).tracked = mem.tracked \cup {t}
      BY <2>4 DEF Reclaimed, MemInv, MemType, Unowned
    <2> HIDE DEF e
    <2>6. AggInv' /\ Fits(React(Reclaimed(t), t, e))
      BY <1>2, <2>1, <2>3, <2>5, EventKeeps DEF MemInv
    <2>7. MemInv'
      BY <2>3, <2>6 DEF MemInv, Fits
    <2>8. RunInv' /\ RecInv'
      <3>1. CASE RecheckMint(t)
        <4>1. /\ [Idle EXCEPT !.on = t, !.pc = "go", !.recheck = TRUE] \in RunType
              /\ [Idle EXCEPT !.on = t, !.pc = "go", !.recheck = TRUE].pc = "go"
          BY IdleTyped DEF RunType, PCs
        <4> QED
          BY <3>1, <4>1, <1>1, OperatorRun DEF RecheckMint
      <3>2. CASE RecheckRedemption(t)
        BY <3>2 DEF RecheckRedemption, RunInv, RecInv, Live
      <3> QED
        BY <1>6, <3>1, <3>2
    <2> QED
      BY <1>3, <1>4, <2>6, <2>7, <2>8
  <1>7. CASE OperatorCloses(t)
    <2>1. UNCHANGED <<run, mem>>
      BY <1>7 DEF OperatorCloses
    <2>2. AggInv' /\ \A u \in Transfers : agg'[u].st = "Absent" => agg[u].st = "Absent"
      <3>1. ASSUME NEW e \in DOMAIN Table(t), agg' = [agg EXCEPT ![t] = Evolved(@, Table(t), e, 0)]
            PROVE  AggInv' /\ \A u \in Transfers : agg'[u].st = "Absent" => agg[u].st = "Absent"
        <4>1. agg'[t] = Evolved(agg[t], Table(t), e, 0) /\ \A u \in Transfers : u # t => agg'[u] = agg[u]
          BY <3>1 DEF AggInv
        <4>2. agg'[t] \in AggType /\ agg'[t].st \in StatesOf(t) \ {"Absent"}
          BY <3>1, <4>1, <1>2, EvolvedTyped
        <4> QED
          BY <3>1, <4>1, <4>2 DEF AggInv
      <3>2. "OperatorReconciled" \in DOMAIN Table(t)
        BY MintEvents, RedemptionEvents DEF Transfers
      <3>3. Open(t) => FailureOf(agg[t].st) \in DOMAIN Table(t)
        BY FailureTable DEF Open, AggInv
      <3> QED
        BY <1>7, <3>1, <3>2, <3>3 DEF OperatorCloses
    <2>3. MemInv'
      BY <2>1, <2>2 DEF MemInv, MemType
    <2> QED
      BY <1>1, <1>3, <1>4, <2>1, <2>2, <2>3 DEF RunInv, RecInv, Live
  <1> QED
    BY <1>0, <1>5, <1>6, <1>7

-----------------------------------------------------------------------------
(* What a start of the bot takes to be in flight.                          *)
LEMMA InflightIsNat ==
  ASSUME IInv, NEW s \in Sides
  PROVE  InflightAtStart(s) \in Nat
  <1> DEFINE stuck == {t \in Redemptions : agg[t].st = "Failed" /\ agg[t].sent # 0}
  <1>1. IsFiniteSet(stuck)
    BY FS_Subset, EquityTransferAssumption DEF Transfers
  <1>2. Cardinality(stuck) \in Nat
    BY <1>1, FS_CardinalityType
  <1>3. seen[s] \in Nat
    BY DEF IInv, OutsideInv
  <1> HIDE DEF stuck
  <1> QED
    BY <1>2, <1>3 DEF InflightAtStart, stuck

(* A crash and the start after it keep the invariant.                      *)
LEMMA RestartKeeps ==
  ASSUME IInv, Restart
  PROVE  IInv'
  <1> USE DEF IInv
  <1> DEFINE ks == {k \in Recoveries : Due(k, seen)}
  <1>1. /\ crashes < MaxCrashes /\ crashes' = crashes + 1
        /\ Enqueued(ks) /\ stale' = {t \in Mints : Live(t)}
        /\ rec' = [k \in Recoveries |-> IF k \in ks THEN NoRecovery
                                        ELSE [rec[k] EXCEPT !.held = FALSE]]
        /\ run' = [d \in Drivers |-> Idle] /\ sweep' = NoSweep
        /\ UNCHANGED <<agg, seen, faults, operations>> /\ UNCHANGED world
    BY DEF Restart
  <1>2. OutsideInv'
    BY <1>1, EquityTransferAssumption DEF OutsideInv, world
  <1>3. AggInv' /\ ChainInv'
    BY <1>1, ChainIdle DEF AggInv, world
  <1>4. SweepInv'
    BY <1>1 DEF SweepInv, NoSweep, MintStates
  <1>5. RunInv'
    BY <1>1, IdleTyped DEF RunInv, MintPCs, RedemptionPCs, Drivers
  <1>6. ks \subseteq Recoveries
    OBVIOUS
  <1>7. MemInv'
    <2>1. PICK m \in Last({t \in Mints : Open(t)}), r \in Last({t \in Redemptions : Open(t)}) :
            mem' = [slot |-> IF r # None THEN Unowned
                             ELSE IF m = None THEN Free
                             ELSE IF HeldAtStart(m) THEN Held ELSE Unowned,
                    tracked |-> {t \in Transfers : Open(t)},
                    active |-> [s \in Sides |-> IF s = "mint" THEN m ELSE r],
                    tombs |-> {},
                    inflight |-> [s \in Sides |-> InflightAtStart(s)],
                    polled |-> {s \in Sides : seen[s] > 0}]
      BY DEF Restart
    <2>2. m \in Transfers \cup {None} /\ r \in Transfers \cup {None}
      BY DEF Last, Transfers
    <2>3. [s \in Sides |-> InflightAtStart(s)] \in [Sides -> Nat]
      BY InflightIsNat
    <2>4. mem' \in MemType
      BY <2>1, <2>2, <2>3 DEF MemType, Unowned, Free, Held
    <2>5. mem'.tracked = {t \in Transfers : Open(t)}
      BY <2>1
    <2> QED
      BY <1>1, <2>4, <2>5 DEF MemInv, Open
  <1> HIDE DEF ks
  <1>8. QueueInv'
    BY <1>1, <1>6, EnqueuedKeeps
  <1>9. RecInv'
    <2>1. \A k \in Recoveries : run'[k].pc = "idle"
      BY <1>1, IdleTyped DEF Drivers, Jobs
    <2>2. ASSUME NEW k \in Recoveries
          PROVE  rec'[k] \in RecType /\ (rec'[k].st \notin {"none", "terminal"} => rec'[k].shares > 0)
      <3>1. rec[k] \in RecType /\ (rec[k].st \notin {"none", "terminal"} => rec[k].shares > 0)
        BY DEF RecInv
      <3>2. CASE k \in ks
        BY <1>1, <3>2, IdleTyped
      <3>3. CASE k \notin ks
        <4>1. rec'[k] = [rec[k] EXCEPT !.held = FALSE]
          BY <1>1, <3>3
        <4> QED
          BY <3>1, <4>1 DEF RecType
      <3> QED
        BY <3>2, <3>3
    <2>3. rec' \in [Recoveries -> RecType]
      BY <1>1, <2>2
    <2> QED
      BY <2>1, <2>2, <2>3 DEF RecInv, OrphanPCs
  <1> QED
    BY <1>2, <1>3, <1>4, <1>5, <1>7, <1>8, <1>9

-----------------------------------------------------------------------------
(* A transaction is mined only if the wallet has what it spends.           *)
LEMMA TokensMove ==
  ASSUME moved \in [Kinds -> Nat], \A k \in Recoveries : Wallet(k) >= 0,
         NEW c \in Kinds, NEW a \in Nat, Spends(c, a),
         moved' = [moved EXCEPT ![c] = @ + a]
  PROVE  \A k \in Recoveries : Wallet(k)' >= 0
  <1> DEFINE m(kind) == moved[kind]
             n(kind) == IF kind = c THEN m(kind) + a ELSE m(kind)
  <1>1. /\ m("issue") \in Nat /\ m("unwrap") \in Nat /\ m("wrap") \in Nat
        /\ m("send") \in Nat /\ m("withdraw") \in Nat /\ m("deposit") \in Nat
    BY DEF Kinds
  <1>2. \A kind \in Kinds : moved'[kind] = n(kind)
    OBVIOUS
  <1>3. /\ (m("issue") + m("unwrap")) - (m("wrap") + m("send")) >= 0
        /\ (m("wrap") + m("withdraw")) - (m("unwrap") + m("deposit")) >= 0
    BY DEF Wallet, Recoveries
  <1>4. /\ c \in {"wrap", "send"} => (m("issue") + m("unwrap")) - (m("wrap") + m("send")) >= a
        /\ c \in {"unwrap", "deposit"}
             => (m("wrap") + m("withdraw")) - (m("unwrap") + m("deposit")) >= a
    BY DEF Spends, Wallet
  <1> HIDE DEF m
  <1>5. /\ (n("issue") + n("unwrap")) - (n("wrap") + n("send")) >= 0
        /\ (n("wrap") + n("withdraw")) - (n("unwrap") + n("deposit")) >= 0
    <2>1. CASE c = "issue"
      BY <1>1, <1>3, <2>1
    <2>2. CASE c = "unwrap"
      BY <1>1, <1>3, <1>4, <2>2
    <2>3. CASE c = "wrap"
      BY <1>1, <1>3, <1>4, <2>3
    <2>4. CASE c = "send"
      BY <1>1, <1>3, <1>4, <2>4
    <2>5. CASE c = "withdraw"
      BY <1>1, <1>3, <2>5
    <2>6. CASE c = "deposit"
      BY <1>1, <1>3, <1>4, <2>6
    <2> QED
      BY <2>1, <2>2, <2>3, <2>4, <2>5, <2>6 DEF Kinds
  <1> HIDE DEF n
  <1>6. /\ moved'["issue"] = n("issue") /\ moved'["unwrap"] = n("unwrap")
        /\ moved'["wrap"] = n("wrap") /\ moved'["send"] = n("send")
        /\ moved'["withdraw"] = n("withdraw") /\ moved'["deposit"] = n("deposit")
    BY <1>2 DEF Kinds
  <1>7. Wallet("unwrapped")' >= 0 /\ Wallet("wrapped")' >= 0
    BY <1>5, <1>6 DEF Wallet
  <1> QED
    BY <1>7 DEF Recoveries

(* The chain and the issuer keep the invariant.                            *)
LEMMA EnvironmentKeeps ==
  ASSUME IInv, Environment
  PROVE  IInv'
  <1> USE DEF IInv
  <1> DEFINE T == [kind : Kinds, by : Jobs, amt : Nat \ {0},
                   st : {"pending", "mined", "reverted", "dropped"}]
  <1>0. /\ UNCHANGED <<agg, row, attempts, run, rec, mem>> /\ UNCHANGED rest
    BY DEF Environment, Mine, Drop, SettleMint, SettleRedemption
  <1>1. DriverInv' /\ SweepInv' /\ UNCHANGED seen
    BY <1>0, RestIdle DEF DriverInv, AggInv, QueueInv, RunInv, RecInv, MemInv, Live
  <1>k. /\ "issue" \in Kinds /\ "unwrap" \in Kinds /\ "wrap" \in Kinds /\ "send" \in Kinds
        /\ "withdraw" \in Kinds /\ "deposit" \in Kinds
    BY DEF Kinds
  <1>t. /\ txs \in Seq(T) /\ Len(txs) \in Nat /\ MaxTxs \in Nat /\ Len(txs) <= MaxTxs
        /\ moved \in [Kinds -> Nat] /\ \A k \in Recoveries : Wallet(k) >= 0
    BY EquityTransferAssumption DEF ChainInv
  <1>s. ASSUME NEW i \in DOMAIN txs PROVE txs[i] \in T
    <2> HIDE DEF T
    <2>1. i \in 1..Len(txs)
      BY <1>t
    <2> QED
      BY <1>t, <2>1
  <1>2. ASSUME NEW i \in DOMAIN txs, Mine(i) PROVE IInv'
    <2>1. txs[i] \in T
      BY <1>s
    <2>2. OutsideInv'
      BY <1>1, <1>2 DEF Mine, OutsideInv, envVars
    <2>3. ASSUME NEW st \in {"mined", "reverted", "dropped"}, txs' = [txs EXCEPT ![i].st = st]
          PROVE  txs' \in Seq(T) /\ Len(txs') = Len(txs)
      <3>1. txs' = [txs EXCEPT ![i] = [txs[i] EXCEPT !.st = st]]
        BY <2>3
      <3>2. [txs[i] EXCEPT !.st = st] \in T
        BY <2>1
      <3> HIDE DEF T
      <3> QED
        BY <1>t, <3>1, <3>2
    <2>4. CASE /\ Spends(txs[i].kind, txs[i].amt)
               /\ txs' = [txs EXCEPT ![i].st = "mined"]
               /\ moved' = [moved EXCEPT ![txs[i].kind] = @ + txs[i].amt]
      <3>1. moved' \in [Kinds -> Nat]
        BY <1>t, <2>1, <2>4
      <3>3. \A k \in Recoveries : Wallet(k)' >= 0
        BY <1>t, <2>1, <2>4, TokensMove
      <3> HIDE DEF T
      <3> QED
        BY <1>1, <1>t, <2>2, <2>3, <2>4, <3>1, <3>3 DEF DriverInv, ChainInv, T
    <2>5. CASE /\ txs' = [txs EXCEPT ![i].st = "reverted"] /\ UNCHANGED moved
      <3>1. \A k \in Recoveries : Wallet(k)' >= 0
        BY <1>t, <2>5 DEF Wallet
      <3> HIDE DEF T
      <3> QED
        BY <1>1, <1>t, <2>2, <2>3, <2>5, <3>1 DEF DriverInv, ChainInv, T
    <2> QED
      BY <1>2, <2>4, <2>5 DEF Mine
  <1>3. ASSUME NEW i \in DOMAIN txs, Drop(i) PROVE IInv'
    <2>1. txs[i] \in T
      BY <1>s
    <2>2. OutsideInv'
      BY <1>1, <1>3, FaultsKeep DEF Drop, OutsideInv
    <2>3. txs' = [txs EXCEPT ![i] = [txs[i] EXCEPT !.st = "dropped"]] /\ UNCHANGED moved
      BY <1>3 DEF Drop
    <2>4. [txs[i] EXCEPT !.st = "dropped"] \in T
      BY <2>1
    <2> HIDE DEF T
    <2>5. txs' \in Seq(T) /\ Len(txs') = Len(txs)
      BY <1>t, <2>3, <2>4
    <2>6. \A k \in Recoveries : Wallet(k)' >= 0
      BY <1>t, <2>3 DEF Wallet
    <2> QED
      BY <1>1, <1>t, <2>2, <2>3, <2>5, <2>6 DEF DriverInv, ChainInv, T
  <1>4. ASSUME NEW t \in Transfers, SettleMint(t) PROVE IInv'
    <2>1. OutsideInv'
      BY <1>1, <1>4 DEF SettleMint, OutsideInv, envVars
    <2>2. CASE UNCHANGED chain
      BY <1>1, <2>1, <2>2, ChainIdle DEF DriverInv
    <2>3. CASE /\ Len(txs) < MaxTxs
               /\ txs' = Append(txs, [kind |-> "issue", by |-> t, amt |-> 1, st |-> "mined"])
               /\ moved' = [moved EXCEPT !["issue"] = @ + 1]
      <3>1. [kind |-> "issue", by |-> t, amt |-> 1, st |-> "mined"] \in T
        BY <1>k DEF Jobs
      <3>2. moved' \in [Kinds -> Nat]
        BY <1>t, <1>k, <2>3
      <3>3. Spends("issue", 1)
        BY DEF Spends
      <3>4. \A k \in Recoveries : Wallet(k)' >= 0
        BY <1>t, <1>k, <2>3, <3>3, TokensMove
      <3> HIDE DEF T
      <3>5. txs' \in Seq(T) /\ Len(txs') = Len(txs) + 1
        BY <1>t, <2>3, <3>1
      <3> QED
        BY <1>1, <1>t, <2>1, <2>3, <3>2, <3>4, <3>5 DEF DriverInv, ChainInv, T
    <2> QED
      BY <1>4, <2>2, <2>3 DEF SettleMint
  <1>5. ASSUME NEW t \in Transfers, SettleRedemption(t) PROVE IInv'
    <2>1. OutsideInv'
      BY <1>1, <1>5 DEF SettleRedemption, OutsideInv, envVars
    <2>2. ChainInv'
      BY <1>5, ChainIdle DEF SettleRedemption
    <2> QED
      BY <1>1, <2>1, <2>2 DEF DriverInv
  <1> QED
    BY <1>2, <1>3, <1>4, <1>5 DEF Environment

-----------------------------------------------------------------------------
(* Nothing has been requested yet.                                         *)
LEMMA InitIInv == Init => IInv
  <1> SUFFICES ASSUME Init PROVE IInv
    OBVIOUS
  <1> USE EquityTransferAssumption
  <1>1. AggInv
    BY DEF Init, AggInv, AggType, Unborn, StatesOf, MintStates, RedemptionStates
  <1>2. QueueInv
    BY DEF Init, QueueInv
  <1>3. RunInv
    BY IdleTyped DEF Init, RunInv, MintPCs, RedemptionPCs, Drivers
  <1>4. RecInv
    BY IdleTyped DEF Init, RecInv, OrphanPCs, Drivers, Jobs
  <1>5. MemInv
    BY DEF Init, MemInv, MemType, Forgotten, Free
  <1>6. SweepInv
    BY DEF Init, SweepInv, NoSweep, MintStates
  <1>7. ChainInv
    BY DEF Init, ChainInv, Wallet, Kinds
  <1>8. OutsideInv
    BY DEF Init, OutsideInv
  <1> QED
    BY <1>1, <1>2, <1>3, <1>4, <1>5, <1>6, <1>7, <1>8 DEF IInv

(* Every step keeps the invariant.                                         *)
LEMMA NextIInv == IInv /\ [Next]_vars => IInv'
  <1> SUFFICES ASSUME IInv, [Next]_vars PROVE IInv'
    OBVIOUS
  <1>1. CASE Next
    <2>1. ASSUME NEW d \in Drivers, JobStep(d) PROVE IInv'
      BY <2>1, NothingLeftKeeps, MintStepKeeps, RedemptionStepKeeps DEF JobStep
    <2>2. ASSUME NEW t \in Transfers, Trigger(t) \/ Start(t) PROVE IInv'
      BY <2>2, QueueKeeps
    <2>3. ASSUME NEW k \in Recoveries, PollWallet(k) \/ RecoveryStep(k) PROVE IInv'
      BY <2>3, PollWalletKeeps, RecoveryStepKeeps
    <2> QED
      BY <1>1, <2>1, <2>2, <2>3, SweepKeeps, PollInflightKeeps, ResumeOrphanKeeps,
         OperatorKeeps, EnvironmentKeeps, RestartKeeps DEF Next
  <1>2. CASE UNCHANGED vars
    BY <1>2 DEF vars, queueVars, chain, envVars, IInv, AggInv, QueueInv, RunInv, RecInv, MemInv,
                SweepInv, ChainInv, OutsideInv, Live, Wallet
  <1> QED
    BY <1>1, <1>2

(* The inductive invariant holds in every reachable state, with faults,    *)
(* crashes, the sweep and the operator.                                    *)
THEOREM Invariance == Spec => []IInv
  BY InitIInv, NextIInv, PTL DEF Spec

(* Every variable keeps its type.  In particular a wallet never has less   *)
(* than nothing, no more shares end than are in flight, and no row is run  *)
(* beyond its attempts.                                                    *)
THEOREM TypeCorrect == Spec => []TypeOK
  BY Invariance, TypeParts, PTL

-----------------------------------------------------------------------------
(* One spender at a time.  The row of a settled transfer may be run again, *)
(* to no effect.                                                           *)
Noop(j) ==
    /\ j \in Transfers /\ agg[j].st \in Terminal
    /\ run[j] # Idle => run[j].on = j /\ run[j].pc = "go"

(* A job is engaged while it runs, and a transfer for as long as its row   *)
(* may be run again, unless that would be to no effect.                    *)
Engaged(j) == (run[j] # Idle \/ (j \in Transfers /\ Live(j))) /\ ~Noop(j)

(* Until a restart, and without sweep and operator, the slot is that of    *)
(* the engaged job.                                                        *)
Owned ==
    crashes = 0 =>
        /\ sweep = NoSweep /\ run["operator"] = Idle
        /\ \A t \in Transfers : run[t] # Idle => run[t].on = t
        /\ \A j \in Jobs : Engaged(j) => mem.slot = [st |-> "active", by |-> j]

(* What is settled stays settled until an operator intervenes.             *)
StaySettled == \A t \in Transfers : agg[t].st \in Terminal => agg'[t].st \in Terminal

(* What the step of a job leaves alone: the other jobs, the transfer it    *)
(* works on, what is settled, and the slot if the job stays engaged.       *)
Own(d) ==
    /\ \A c \in Drivers : c # d => run'[c] = run[c]
    /\ \A j \in Jobs : j # d => row'[j] = row[j]
    /\ run'[d] # Idle => run'[d].on = d \/ (run[d] # Idle /\ run'[d].on = run[d].on)
    /\ StaySettled
    /\ Engaged(d)' => mem'.slot = mem.slot

(* An owned slot says who owns it.                                         *)
LEMMA OwnedSlot ==
  \A j : [st |-> "active", by |-> j].st = "active" /\ [st |-> "active", by |-> j].by = j
  OBVIOUS

(* A job at rest is not engaged by what others do.                         *)
LEMMA AtRest ==
  ASSUME NEW j \in Jobs, ~Engaged(j), run'[j] = run[j], StaySettled,
         row'[j] \in {"ready", "failed"} => Live(j)
  PROVE  ~Engaged(j)'
  BY DEF Engaged, Noop, StaySettled, Live

(* The slot has one owner, so that the step of an engaged job finds and    *)
(* leaves the others at rest.                                              *)
LEMMA OwnStep ==
  ASSUME Owned, NEW d \in Jobs, Engaged(d), Own(d), UNCHANGED <<crashes, sweep>>
  PROVE  Owned'
  <1> SUFFICES ASSUME crashes = 0
               PROVE  /\ sweep' = NoSweep /\ run'["operator"] = Idle
                      /\ \A t \in Transfers : run'[t] # Idle => run'[t].on = t
                      /\ \A j \in Jobs : Engaged(j)' => mem'.slot = [st |-> "active", by |-> j]
    BY DEF Owned
  <1>1. /\ sweep = NoSweep /\ run["operator"] = Idle
        /\ \A t \in Transfers : run[t] # Idle => run[t].on = t
        /\ \A j \in Jobs : Engaged(j) => mem.slot = [st |-> "active", by |-> j]
    BY DEF Owned
  <1>2. d # "operator" /\ "operator" \in Drivers /\ Jobs \subseteq Drivers
    BY EquityTransferAssumption DEF Jobs, Recoveries, Drivers
  <1>3. mem.slot = [st |-> "active", by |-> d]
    BY <1>1
  <1>4. ASSUME NEW j \in Jobs, j # d, Engaged(j)' PROVE FALSE
    <2>1. run'[j] = run[j] /\ row'[j] = row[j] /\ StaySettled
      BY <1>2, <1>4 DEF Own
    <2>2. Engaged(j)
      BY <1>4, <2>1, AtRest DEF Live
    <2>3. [st |-> "active", by |-> j] = [st |-> "active", by |-> d]
      BY <1>1, <1>3, <2>2
    <2>4. [st |-> "active", by |-> j].by = [st |-> "active", by |-> d].by
      BY <2>3
    <2> QED
      BY <1>4, <2>4
  <1>5. Engaged(d)' => mem'.slot = [st |-> "active", by |-> d]
    BY <1>3 DEF Own
  <1>6. \A t \in Transfers : run'[t] # Idle => run'[t].on = t
    BY <1>1, <1>2 DEF Own, Jobs
  <1> QED
    BY <1>1, <1>2, <1>4, <1>5, <1>6 DEF Own

(* The slot after an event: the same, or free after a terminal one.        *)
LEMMA ReactSlot ==
  ASSUME NEW m \in MemType, NEW t \in Transfers, NEW e, ~IsTerminalEvent(Table(t), e)
  PROVE  React(m, t, e).slot = m.slot
  <1> DEFINE side == Side(t)
             n == [m EXCEPT !.tracked = IF e \in Genesis THEN @ \cup {t} ELSE @]
             o == [n EXCEPT !.inflight[side] = IF e \in StartsInflight THEN @ + 1
                                               ELSE IF e \in EndsInflight THEN @ - 1 ELSE @,
                            !.polled = IF e \in StartsInflight THEN @ \ {side} ELSE @]
  <1>1. React(m, t, e) \in {m, n, [o EXCEPT !.active[side] = t]}
    BY DEF React
  <1>2. n.slot = m.slot /\ [o EXCEPT !.active[side] = t].slot = m.slot
    BY DEF MemType
  <1> HIDE DEF n, o
  <1> QED
    BY <1>1, <1>2

(* How the steps of a driver are its own.                                  *)
LEMMA ErrsOwn ==
  ASSUME IInv, Owned, crashes = 0, NEW d \in Jobs, run[d] # Idle, Engaged(d), Errs(d)
  PROVE  Own(d)
  <1>0. d \in Drivers /\ run \in [Drivers -> RunType] /\ d # "operator"
        /\ row \in [Jobs -> {"none", "ready", "failed", "done", "dead"}]
    BY EquityTransferAssumption DEF IInv, RunInv, QueueInv, Drivers, Jobs, Recoveries
  <1>1. mem.slot = [st |-> "active", by |-> d]
    BY DEF Owned
  <1>2. mem.slot.st = "active"
    BY <1>1
  <1>3. run' = [run EXCEPT ![d] = Idle] /\ UNCHANGED agg
    BY DEF Errs, Fails
  <1>4. /\ Retries(d) \/ Finishes(d)
        /\ d \in Transfers => Finishes(d) \/ mem' = mem
        /\ d \in Recoveries => Finishes(d)
    BY <1>0, <1>2, EquityTransferAssumption
       DEF Errs, Fails, JobFails, MarkHeld, RecoveryEnds, Drivers, Jobs, Recoveries
  <1>5. \A j \in Jobs : j # d => row'[j] = row[j]
    BY <1>0, <1>4 DEF Retries, Finishes
  <1>6. Finishes(d) => row'[d] = "done"
    BY <1>0 DEF Finishes
  <1>7. run'[d] = Idle /\ \A c \in Drivers : c # d => run'[c] = run[c]
    BY <1>0, <1>3
  <1>8. Engaged(d)' => mem'.slot = mem.slot
    BY <1>4, <1>6, <1>7, EquityTransferAssumption DEF Engaged, Live, Jobs, Recoveries
  <1> QED
    BY <1>3, <1>5, <1>7, <1>8 DEF Own, StaySettled

(* An event with which a transfer goes on, and one with which it ends; no  *)
(* job records one that follows an end.                                    *)
Onward(t, e) == Table(t)[e].from \cap Terminal = {} /\ ~IsTerminalEvent(Table(t), e)
Closing(t, e) == Table(t)[e].from \cap Terminal = {} /\ IsTerminalEvent(Table(t), e)

(* A job's event leaves what is settled alone.                             *)
LEMMA EventSettles ==
  ASSUME AggInv, NEW t \in Transfers, NEW e, NEW x, Handles(t, e),
         Table(t)[e].from \cap Terminal = {},
         agg' = [agg EXCEPT ![t] = Evolved(@, Table(t), e, x)]
  PROVE  StaySettled /\ agg'[t].st = Table(t)[e].to
  <1>1. agg[t].st \notin Terminal
    BY DEF Handles
  <1>2. agg'[t] = Evolved(agg[t], Table(t), e, x) /\ \A u \in Transfers : u # t => agg'[u] = agg[u]
    BY DEF AggInv
  <1>3. agg[t] \in AggType
    BY DEF AggInv
  <1>4. agg'[t].st = Table(t)[e].to
    <2>1. \A table : \A a \in AggType : Evolved(a, table, e, x).st = table[e].to
      BY DEF Evolved, AggType
    <2> QED
      BY <1>2, <1>3, <2>1
  <1> QED
    BY <1>1, <1>2, <1>4 DEF StaySettled

LEMMA RecordsOwn ==
  ASSUME IInv, NEW d \in Jobs, run[d] # Idle, run[d].on \in Transfers, NEW e, NEW x, NEW pc,
         Onward(run[d].on, e), Records(d, e, x, pc)
  PROVE  Own(d)
  <1>1. mem'.slot = mem.slot
    BY ReactSlot DEF Records, IInv, MemInv, Onward
  <1>2. run \in [Drivers -> RunType] /\ d \in Drivers
    BY DEF IInv, RunInv, Drivers
  <1>3. StaySettled
    BY EventSettles DEF Records, Onward, IInv
  <1>4. run'[d].on = run[d].on /\ \A c \in Drivers : c # d => run'[c] = run[c]
    BY <1>2 DEF Records, RunType
  <1> QED
    BY <1>1, <1>3, <1>4 DEF Own, Records

LEMMA HoldsOwn ==
  ASSUME IInv, NEW d \in Jobs, run[d] # Idle, NEW x, NEW pc, Holds(d, x, pc)
  PROVE  Own(d)
  <1>1. run \in [Drivers -> RunType] /\ d \in Drivers
    BY DEF IInv, RunInv, Drivers
  <1>2. run'[d].on = run[d].on /\ \A c \in Drivers : c # d => run'[c] = run[c]
    BY <1>1 DEF Holds, RunType
  <1> QED
    BY <1>2 DEF Own, Holds, StaySettled

LEMMA EndsOwn ==
  ASSUME IInv, NEW d \in Jobs, NEW m, Ends(d, m), StaySettled
  PROVE  Own(d)
  <1>0. d \in Drivers /\ run \in [Drivers -> RunType] /\ d # "operator"
        /\ row \in [Jobs -> {"none", "ready", "failed", "done", "dead"}]
    BY EquityTransferAssumption DEF IInv, RunInv, QueueInv, Drivers, Jobs, Recoveries
  <1>1. run' = [run EXCEPT ![d] = Idle] /\ Finishes(d)
    BY <1>0 DEF Ends, RecoveryEnds
  <1>2. row'[d] = "done" /\ \A j \in Jobs : j # d => row'[j] = row[j]
    BY <1>0, <1>1 DEF Finishes
  <1> QED
    BY <1>0, <1>1, <1>2 DEF Own, Engaged, Live

(* The row of a transfer whose failure was just recorded may be run again, *)
(* to no effect.                                                           *)
LEMMA RecordsLastOwn ==
  ASSUME IInv, Owned, crashes = 0, NEW d \in Jobs, run[d] # Idle, run[d].on \in Transfers,
         NEW e, NEW x, Closing(run[d].on, e), RecordsLast(d, e, x)
  PROVE  Own(d)
  <1> DEFINE t == run[d].on
             m == React(mem, t, e)
  <1>0. d \in Drivers /\ run \in [Drivers -> RunType] /\ d # "operator"
        /\ row \in [Jobs -> {"none", "ready", "failed", "done", "dead"}]
    BY EquityTransferAssumption DEF IInv, RunInv, QueueInv, Drivers, Jobs, Recoveries
  <1>1. StaySettled /\ agg'[t].st \in Terminal
    BY EventSettles DEF RecordsLast, Closing, IsTerminalEvent, IInv
  <1>2. CASE Ends(d, m)
    BY <1>1, <1>2, EndsOwn
  <1>3. CASE Fails(d, m, "Failed")
    <2>1. run' = [run EXCEPT ![d] = Idle]
      BY <1>3 DEF Fails
    <2>2. /\ Retries(d) \/ Finishes(d)
          /\ d \in Recoveries => Finishes(d)
      BY <1>0, <1>3, EquityTransferAssumption
         DEF Fails, JobFails, MarkHeld, RecoveryEnds, Drivers, Jobs, Recoveries
    <2>3. /\ \A j \in Jobs : j # d => row'[j] = row[j]
          /\ Finishes(d) => row'[d] = "done"
      BY <1>0, <2>2 DEF Retries, Finishes
    <2>4. d \in Transfers => Noop(d)'
      BY <1>0, <1>1, <2>1 DEF Owned, Noop
    <2>5. ~Engaged(d)'
      BY <1>0, <2>1, <2>2, <2>3, <2>4 DEF Engaged, Live, Jobs
    <2> QED
      BY <1>0, <1>1, <2>1, <2>3, <2>5 DEF Own
  <1> QED
    BY <1>2, <1>3 DEF RecordsLast

(* The events with which the jobs go on, and those with which they end.    *)
LEMMA JobEvents ==
  ASSUME NEW t \in Transfers
  PROVE  /\ t \in Mints =>
              /\ \A e \in {"MintAccepted", "TokensReceived", "WrapSubmitted", "TokensWrapped",
                           "VaultDepositSubmitted"} : Onward(t, e)
              /\ \A e \in {"MintRejected", "MintAcceptanceFailed", "DepositedIntoRaindex"} :
                    Closing(t, e)
         /\ t \in Redemptions =>
              /\ \A e \in {"VaultWithdrawPending", "VaultWithdrawSubmitted", "WithdrawnFromRaindex",
                           "UnwrapPending", "UnwrapSubmitted", "TokensUnwrapped", "SendPending",
                           "TokensSent", "Detected"} : Onward(t, e)
              /\ \A e \in {"TransferFailed", "DetectionFailed", "RedemptionRejected", "Completed"} :
                    Closing(t, e)
  <1>1. ASSUME t \in Mints,
               NEW e \in {"MintAccepted", "TokensReceived", "WrapSubmitted", "TokensWrapped",
                          "VaultDepositSubmitted"}
        PROVE  Onward(t, e)
    BY <1>1 DEF Onward, IsTerminalEvent, Table, MintTable, Terminal
  <1>2. ASSUME t \in Mints, NEW e \in {"MintRejected", "MintAcceptanceFailed", "DepositedIntoRaindex"}
        PROVE  Closing(t, e)
    BY <1>2 DEF Closing, IsTerminalEvent, Table, MintTable, Terminal
  <1>3. t \in Redemptions => t \notin Mints
    BY EquityTransferAssumption
  <1>4. ASSUME t \in Redemptions,
               NEW e \in {"VaultWithdrawPending", "VaultWithdrawSubmitted", "WithdrawnFromRaindex",
                          "UnwrapPending", "UnwrapSubmitted", "TokensUnwrapped", "SendPending",
                          "TokensSent", "Detected"}
        PROVE  Onward(t, e)
    BY <1>3, <1>4 DEF Onward, IsTerminalEvent, Table, RedemptionTable, Terminal
  <1>5. ASSUME t \in Redemptions,
               NEW e \in {"TransferFailed", "DetectionFailed", "RedemptionRejected", "Completed"}
        PROVE  Closing(t, e)
    BY <1>3, <1>5 DEF Closing, IsTerminalEvent, Table, RedemptionTable, BeforeSend, Terminal
  <1> QED
    BY <1>1, <1>2, <1>4, <1>5

(* The steps of a job's run are its own.                                   *)
LEMMA MintStepOwn ==
  ASSUME IInv, Owned, crashes = 0, NEW d \in Jobs, run[d] # Idle, Engaged(d), MintStep(d)
  PROVE  Own(d) /\ UNCHANGED sweep /\ UNCHANGED crashes
  <1> DEFINE t == run[d].on
  <1>a. AggInv /\ (run[d].pc \in MintPCs => t \in Mints) /\ Mints \subseteq Transfers
    BY DEF IInv, RunInv, Drivers, Transfers
  <1>b. \A due : FaultUnless(due) => UNCHANGED crashes
    BY DEF FaultUnless, Fault, NoFault, envVars
  <1>c. (Fault \/ NoFault) => UNCHANGED crashes
    BY DEF Fault, NoFault, envVars
  <1>d. \A kind : SubmissionFails(d, kind) => UNCHANGED crashes
    BY <1>c DEF SubmissionFails
  <1>e. UNCHANGED sweep /\ UNCHANGED crashes
    BY <1>b, <1>c, <1>d
       DEF MintStep, RequestMint, RecordRequest, PollMint, SubmitWrap, RecordWrap, ResumeWrap,
           ConfirmWrap, ResumeWrapped, SubmitDeposit, RecordDeposit, ResumeDeposit, ConfirmDeposit,
           rest, envVars
  <1>1. CASE RequestMint(d)
    BY <1>e, <1>1, ErrsOwn, HoldsOwn DEF RequestMint
  <1>2. CASE RecordRequest(d)
    <2>1. t \in Mints
      BY <1>2, <1>a DEF RecordRequest, At, MintPCs
    <2> QED
      BY <1>e, <1>2, <2>1, <1>a, RecordsOwn, RecordsLastOwn, JobEvents DEF RecordRequest
  <1>3. CASE PollMint(d)
    <2>1. t \in Mints
      BY <1>3, <1>a, KindOfState DEF PollMint, Goes
    <2> QED
      BY <1>e, <1>3, <2>1, <1>a, RecordsOwn, RecordsLastOwn, ErrsOwn, JobEvents DEF PollMint
  <1>4. CASE SubmitWrap(d)
    BY <1>e, <1>4, ErrsOwn, HoldsOwn DEF SubmitWrap
  <1>5. CASE RecordWrap(d)
    <2>1. t \in Mints
      BY <1>5, <1>a DEF RecordWrap, At, MintPCs
    <2> QED
      BY <1>e, <1>5, <2>1, <1>a, RecordsOwn, ErrsOwn, JobEvents DEF RecordWrap
  <1>6. CASE ResumeWrap(d) \/ ResumeWrapped(d)
    <2>1. run \in [Drivers -> RunType] /\ d \in Drivers
      BY DEF IInv, RunInv, Drivers
    <2> QED
      BY <1>e, <1>6, <2>1 DEF ResumeWrap, ResumeWrapped, Own, StaySettled, RunType
  <1>7. CASE ConfirmWrap(d)
    <2>1. t \in Mints
      BY <1>7, <1>a DEF ConfirmWrap, At, MintPCs
    <2> QED
      BY <1>e, <1>7, <2>1, <1>a, RecordsOwn, ErrsOwn, JobEvents DEF ConfirmWrap
  <1>8. CASE SubmitDeposit(d)
    <2>1. t \in Mints
      BY <1>8, <1>a DEF SubmitDeposit, At, MintPCs
    <2> QED
      BY <1>e, <1>8, <2>1, <1>a, ErrsOwn, HoldsOwn, RecordsLastOwn, JobEvents DEF SubmitDeposit
  <1>9. CASE RecordDeposit(d)
    <2>1. t \in Mints
      BY <1>9, <1>a DEF RecordDeposit, At, MintPCs
    <2> QED
      BY <1>e, <1>9, <2>1, <1>a, RecordsOwn, ErrsOwn, JobEvents DEF RecordDeposit
  <1>10. CASE ResumeDeposit(d)
    BY <1>e, <1>10, HoldsOwn DEF ResumeDeposit
  <1>11. CASE ConfirmDeposit(d)
    <2>1. t \in Mints
      BY <1>11, <1>a DEF ConfirmDeposit, At, MintPCs
    <2> QED
      BY <1>e, <1>11, <2>1, <1>a, RecordsLastOwn, ErrsOwn, JobEvents DEF ConfirmDeposit
  <1> HIDE DEF t
  <1> QED
    BY <1>e, <1>1, <1>2, <1>3, <1>4, <1>5, <1>6, <1>7, <1>8, <1>9, <1>10, <1>11 DEF MintStep

LEMMA RedemptionStepOwn ==
  ASSUME IInv, Owned, crashes = 0, NEW d \in Jobs, run[d] # Idle, Engaged(d),
         RedemptionStep(d)
  PROVE  Own(d) /\ UNCHANGED sweep /\ UNCHANGED crashes
  <1> DEFINE t == run[d].on
  <1>a. /\ AggInv /\ (run[d].pc \in RedemptionPCs => t \in Redemptions)
        /\ Redemptions \subseteq Transfers
    BY DEF IInv, RunInv, Drivers, Transfers
  <1>b. \A due : FaultUnless(due) => UNCHANGED crashes
    BY DEF FaultUnless, Fault, NoFault, envVars
  <1>c. (Fault \/ NoFault) => UNCHANGED crashes
    BY DEF Fault, NoFault, envVars
  <1>d. \A kind : SubmissionFails(d, kind) => UNCHANGED crashes
    BY <1>c DEF SubmissionFails
  <1>e. UNCHANGED sweep /\ UNCHANGED crashes
    BY <1>b, <1>c, <1>d
       DEF RedemptionStep, Redeem, Prepare, SubmitCall, PersistCall, ConfirmCall, SendTokens,
           ConfirmSend, PollDetection, PollCompletion, rest, envVars
  <1>f. \A st \in BeforeSend \cup {"TokensSent", "Pending"} : Goes(d, st) => t \in Redemptions
    BY <1>a, KindOfState DEF Goes
  <1>1. CASE Redeem(d)
    BY <1>e, <1>1, <1>a, RecordsOwn, ErrsOwn, JobEvents DEF Redeem
  <1>2. CASE Prepare(d)
    <2>1. t \in Redemptions
      BY <1>2, <1>f DEF Prepare, BeforeSend
    <2> QED
      BY <1>e, <1>2, <2>1, <1>a, RecordsOwn, JobEvents DEF Prepare
  <1>3. CASE SubmitCall(d)
    BY <1>e, <1>3, ErrsOwn, HoldsOwn DEF SubmitCall
  <1>4. CASE PersistCall(d)
    <2>1. t \in Redemptions
      BY <1>4, <1>a DEF PersistCall, At, RedemptionPCs
    <2> QED
      BY <1>e, <1>4, <2>1, <1>a, RecordsOwn, ErrsOwn, JobEvents DEF PersistCall
  <1>5. CASE ConfirmCall(d)
    <2>1. t \in Redemptions
      BY <1>5, <1>f DEF ConfirmCall, BeforeSend
    <2> QED
      BY <1>e, <1>5, <2>1, <1>a, RecordsOwn, ErrsOwn, JobEvents DEF ConfirmCall
  <1>6. CASE SendTokens(d)
    <2>1. t \in Redemptions
      BY <1>6, <1>f DEF SendTokens, BeforeSend
    <2> QED
      BY <1>e, <1>6, <2>1, <1>a, HoldsOwn, ErrsOwn, RecordsLastOwn, JobEvents DEF SendTokens
  <1>7. CASE ConfirmSend(d)
    <2>1. t \in Redemptions
      BY <1>7, <1>a DEF ConfirmSend, At, RedemptionPCs
    <2> QED
      BY <1>e, <1>7, <2>1, <1>a, RecordsOwn, RecordsLastOwn, ErrsOwn, JobEvents DEF ConfirmSend
  <1>8. CASE PollDetection(d)
    <2>1. t \in Redemptions
      BY <1>8, <1>f DEF PollDetection
    <2> QED
      BY <1>e, <1>8, <2>1, <1>a, RecordsOwn, RecordsLastOwn, JobEvents DEF PollDetection
  <1>9. CASE PollCompletion(d)
    <2>1. t \in Redemptions
      BY <1>9, <1>f DEF PollCompletion
    <2> QED
      BY <1>e, <1>9, <2>1, <1>a, RecordsLastOwn, ErrsOwn, JobEvents DEF PollCompletion
  <1> HIDE DEF t
  <1> QED
    BY <1>e, <1>1, <1>2, <1>3, <1>4, <1>5, <1>6, <1>7, <1>8, <1>9 DEF RedemptionStep

(* The run of a settled transfer's row finds nothing to do.                *)
LEMMA NoopStep ==
  ASSUME IInv, Owned, crashes = 0, NEW d \in Jobs, Noop(d), run[d] # Idle, JobStep(d)
  PROVE  Owned'
  <1>0. /\ d \in Transfers /\ d \in Drivers /\ run \in [Drivers -> RunType] /\ d # "operator"
        /\ row \in [Jobs -> {"none", "ready", "failed", "done", "dead"}] /\ d \notin Recoveries
    BY EquityTransferAssumption DEF Noop, IInv, RunInv, QueueInv, Drivers, Jobs, Recoveries
  <1>1. run[d].on = d /\ run[d].pc = "go" /\ agg[d].st \in Terminal
    BY DEF Noop
  <1>2. ~MintStep(d)
    BY <1>1 DEF MintStep, At, Goes, Terminal, RequestMint, RecordRequest, PollMint, SubmitWrap,
           RecordWrap, ResumeWrap, ConfirmWrap, ResumeWrapped, SubmitDeposit, RecordDeposit,
           ResumeDeposit, ConfirmDeposit
  <1>3. ~RedemptionStep(d)
    BY <1>1 DEF RedemptionStep, At, Goes, Terminal, Redeem, Prepare, SubmitCall, PersistCall,
           ConfirmCall, SendTokens, ConfirmSend, PollDetection, PollCompletion
  <1>4. NothingLeft(d)
    BY <1>2, <1>3 DEF JobStep
  <1>5. /\ run' = [run EXCEPT ![d] = Idle] /\ UNCHANGED <<agg, sweep, crashes>>
        /\ mem' = mem /\ (Finishes(d) \/ Retries(d))
    BY <1>0, <1>1, <1>4
       DEF NothingLeft, Ends, Errs, Fails, JobFails, HandsOver, Terminal, rest, envVars
  <1>6. \A j \in Jobs : j # d => row'[j] = row[j]
    BY <1>0, <1>5 DEF Finishes, Retries
  <1>7. run'[d] = Idle /\ \A c \in Drivers : c # d => run'[c] = run[c]
    BY <1>0, <1>5
  <1>8. ~Engaged(d)'
    BY <1>0, <1>1, <1>5, <1>7 DEF Engaged, Noop
  <1>9. \A j \in Jobs : Engaged(j)' => Engaged(j)
    BY <1>5, <1>6, <1>7, <1>8, AtRest DEF StaySettled, Live, Drivers
  <1>10. "operator" \in Drivers /\ Transfers \subseteq Drivers
    BY DEF Drivers, Jobs
  <1> QED
    BY <1>0, <1>5, <1>7, <1>9, <1>10 DEF Owned

(* Whoever drives a transfer is a job, and keeps the slot's promise.       *)
LEMMA JobStepOwned ==
  ASSUME IInv, Owned, crashes = 0, NEW d \in Drivers, JobStep(d)
  PROVE  Owned'
  <1>1. run[d].pc # "idle"
    BY DEF JobStep, NothingLeft, MintStep, RedemptionStep, At, Goes,
           RequestMint, RecordRequest, PollMint, SubmitWrap, RecordWrap, ResumeWrap,
           ConfirmWrap, ResumeWrapped, SubmitDeposit, RecordDeposit, ResumeDeposit, ConfirmDeposit,
           Redeem, Prepare, SubmitCall, PersistCall, ConfirmCall, SendTokens,
           ConfirmSend, PollDetection, PollCompletion
  <1>2. run[d] # Idle
    BY <1>1, IdleTyped
  <1>3. d \in Jobs
    BY <1>2 DEF Owned, Drivers
  <1>4. CASE Engaged(d)
    <2>1. Own(d) /\ UNCHANGED <<crashes, sweep>>
      <3>1. CASE NothingLeft(d)
        BY <1>2, <1>3, <1>4, <3>1, EndsOwn, ErrsOwn DEF NothingLeft, StaySettled, rest, envVars
      <3> QED
        BY <1>2, <1>3, <1>4, <3>1, MintStepOwn, RedemptionStepOwn DEF JobStep
    <2> QED
      BY <1>3, <1>4, <2>1, OwnStep
  <1>5. CASE ~Engaged(d)
    BY <1>2, <1>3, <1>5, NoopStep DEF Engaged
  <1> QED
    BY <1>4, <1>5

(* A recovery job's own steps: whatever transfer it turns to.              *)
LEMMA OwnAside ==
  ASSUME Owned, NEW k \in Recoveries, k \notin Transfers, Engaged(k),
         \A c \in Drivers : c # k => run'[c] = run[c],
         \A j \in Jobs : j # k => row'[j] = row[j],
         run'[k] = Idle \/ UNCHANGED mem, UNCHANGED <<agg, crashes, sweep>>
  PROVE  Owned'
  <1> SUFFICES ASSUME crashes = 0 PROVE Owned'
    BY DEF Owned
  <1>0. /\ k \in Jobs /\ k # "operator" /\ "operator" \in Drivers
        /\ Jobs \subseteq Drivers /\ Transfers \subseteq Jobs
    BY EquityTransferAssumption DEF Jobs, Recoveries, Drivers
  <1>1. mem.slot = [st |-> "active", by |-> k]
    BY <1>0 DEF Owned
  <1>2. ASSUME NEW j \in Jobs, j # k PROVE ~Engaged(j)'
    <2>1. ~Engaged(j)
      <3>1. Engaged(j) => [st |-> "active", by |-> j] = [st |-> "active", by |-> k]
        BY <1>1 DEF Owned
      <3> QED
        BY <1>2, <3>1, OwnedSlot
    <2> QED
      BY <1>0, <1>2, <2>1, AtRest DEF StaySettled, Live
  <1>3. Engaged(k)' => mem'.slot = [st |-> "active", by |-> k]
    BY <1>1 DEF Engaged
  <1> QED
    BY <1>0, <1>2, <1>3 DEF Owned

(* The recovery jobs claim the slot before they run.                       *)
LEMMA RecoveryStepOwned ==
  ASSUME IInv, Owned, crashes = 0, NEW k \in Recoveries, RecoveryStep(k)
  PROVE  Owned'
  <1>0. /\ k \in Jobs /\ k \in Drivers /\ run \in [Drivers -> RunType] /\ k \notin Transfers
        /\ k # "operator" /\ mem \in MemType
        /\ row \in [Jobs -> {"none", "ready", "failed", "done", "dead"}]
    BY EquityTransferAssumption
       DEF IInv, RunInv, MemInv, QueueInv, Drivers, Jobs, Recoveries
  <1>1. UNCHANGED <<crashes, sweep>>
    BY DEF RecoveryStep, Claim, NoBalanceSkip, DetectFails, FailRecovery, Detect, SubmitOrphan,
           RecordOrphan, ConfirmOrphan, FaultUnless, Fault, NoFault, envVars, rest
  <1>2. CASE Claim(k)
    <2>1. \A j \in Jobs : ~Engaged(j)
      <3>1. mem.slot.st # "active"
        BY <1>2 DEF Claim
      <3> QED
        BY <3>1, OwnedSlot DEF Owned
    <2>2. /\ \A c \in Drivers : c # k => run'[c] = run[c]
          /\ UNCHANGED <<agg, row>> /\ mem'.slot = [st |-> "active", by |-> k]
      BY <1>0, <1>2 DEF Claim, MemType
    <2>3. \A j \in Jobs : j # k => ~Engaged(j)'
      BY <2>1, <2>2, AtRest DEF StaySettled, Live, Drivers
    <2>4. \A c \in Transfers \cup {"operator"} : run'[c] = run[c]
      BY <1>0, <2>2 DEF Drivers, Jobs
    <2> QED
      BY <1>1, <2>2, <2>3, <2>4 DEF Owned
  <1>3. CASE ~Claim(k)
    <2>1. run[k].pc # "idle"
      BY <1>3 DEF RecoveryStep, NoBalanceSkip, DetectFails, FailRecovery, Detect, SubmitOrphan,
                  RecordOrphan, ConfirmOrphan
    <2>2. Engaged(k)
      BY <1>0, <2>1, IdleTyped DEF Engaged, Noop
    <2>3. /\ \A c \in Drivers : c # k => run'[c] = run[c]
          /\ run'[k] = Idle \/ UNCHANGED mem
          /\ UNCHANGED agg
      BY <1>0, <1>3 DEF RecoveryStep, NoBalanceSkip, DetectFails, FailRecovery, Detect,
                        SubmitOrphan, RecordOrphan, ConfirmOrphan, Drops, OrphanFails
    <2>4. UNCHANGED row \/ Finishes(k) \/ Retries(k)
      BY <1>3 DEF RecoveryStep, NoBalanceSkip, DetectFails, FailRecovery, Detect,
                  SubmitOrphan, RecordOrphan, ConfirmOrphan, OrphanFails, RecoveryEnds
    <2>5. \A j \in Jobs : j # k => row'[j] = row[j]
      BY <1>0, <2>4 DEF Finishes, Retries
    <2> QED
      BY <1>0, <1>1, <2>2, <2>3, <2>5, OwnAside
  <1> QED
    BY <1>2, <1>3

(* No step before a restart leaves the slot with another than the engaged  *)
(* job.                                                                    *)
LEMMA NextOwned ==
  ASSUME ~SweepTimesOut, MaxOperations = 0, IInv, Owned, [Next]_vars
  PROVE  Owned'
  <1>0. CASE crashes # 0
    <2>1. crashes' = crashes \/ crashes' = crashes + 1
      BY DEF Next, vars, envVars, Trigger, Start, Sweep, JobStep, NothingLeft, MintStep,
             RedemptionStep, RequestMint, RecordRequest, PollMint, SubmitWrap, RecordWrap, ResumeWrap,
             ConfirmWrap, ResumeWrapped, SubmitDeposit, RecordDeposit, ResumeDeposit,
             ConfirmDeposit, Redeem, Prepare, SubmitCall, PersistCall, ConfirmCall, SendTokens,
             ConfirmSend, PollDetection, PollCompletion, PollWallet, RecoveryStep, Claim,
             NoBalanceSkip, DetectFails, FailRecovery, Detect, SubmitOrphan, RecordOrphan,
             ConfirmOrphan, PollInflight, ResumeOrphan, SweepClears, SweepFails, Operator,
             OperatorResumes, RecheckMint, RecheckRedemption, OperatorCloses, Operates,
             Environment, Mine, Drop, SettleMint, SettleRedemption, Restart, FaultUnless, Fault,
             NoFault, SubmissionFails
    <2>2. crashes \in Nat
      BY DEF IInv, OutsideInv
    <2> QED
      BY <1>0, <2>1, <2>2 DEF Owned
  <1>1. CASE crashes = 0
    <2>a. /\ sweep = NoSweep /\ NoSweep.pc = "idle" /\ run["operator"] = Idle
          /\ \A t \in Transfers : run[t] # Idle => run[t].on = t
          /\ \A j \in Jobs : Engaged(j) => mem.slot = [st |-> "active", by |-> j]
      BY <1>1 DEF Owned, NoSweep
    <2>b. run \in [Drivers -> RunType] /\ mem \in MemType
      BY DEF IInv, RunInv, MemInv
    <2>1. ASSUME NEW t \in Transfers, Trigger(t) PROVE Owned'
      <3>1. mem.slot.st = "free"
        BY <2>1 DEF Trigger, Free
      <3>2. \A j \in Jobs : ~Engaged(j)
        BY <3>1, <2>a, OwnedSlot
      <3>3. /\ UNCHANGED <<agg, run, sweep, crashes>> /\ mem'.slot = [st |-> "active", by |-> t]
            /\ \A j \in Jobs : j # t => row'[j] \in {row[j], "dead"}
        BY <2>1, <2>b DEF Trigger, MemType, rest, envVars
      <3>4. \A j \in Jobs : j # t => ~Engaged(j)'
        BY <3>2, <3>3, AtRest DEF StaySettled, Live
      <3> QED
        BY <2>a, <3>3, <3>4 DEF Owned
    <2>2. ASSUME NEW t \in Transfers, Start(t) PROVE Owned'
      <3>1. t \in Jobs /\ t \in Drivers /\ run[t] = Idle /\ Live(t)
        BY <2>2 DEF Start, Jobs, Drivers
      <3>2. /\ run'[t].on = t /\ run'[t].pc = "go"
            /\ \A c \in Drivers : c # t => run'[c] = run[c]
            /\ UNCHANGED <<agg, row, mem, crashes, sweep>>
        BY <2>2, <2>b, <3>1 DEF Start, Idle, rest, envVars
      <3>3. CASE Engaged(t)
        <4>1. Own(t)
          BY <3>2 DEF Own, StaySettled
        <4> QED
          BY <3>1, <3>2, <3>3, <4>1, OwnStep
      <3>4. CASE ~Engaged(t)
        <4>1. ~Engaged(t)'
          BY <2>2, <3>1, <3>2, <3>4 DEF Engaged, Noop
        <4>2. \A j \in Jobs : Engaged(j)' => Engaged(j)
          BY <3>2, <4>1, AtRest DEF StaySettled, Live, Drivers
        <4>3. "operator" \in Drivers /\ Transfers \subseteq Drivers /\ t # "operator"
          BY EquityTransferAssumption DEF Drivers, Jobs
        <4> QED
          BY <2>a, <3>2, <4>2, <4>3 DEF Owned
      <3> QED
        BY <3>3, <3>4
    <2>3. ASSUME NEW k \in Recoveries, PollWallet(k) PROVE Owned'
      <3>1. UNCHANGED <<agg, run, mem, sweep, crashes>>
        BY <2>3 DEF PollWallet, envVars
      <3>2. \A t \in Transfers : row'[t] = row[t]
        BY <2>3, EquityTransferAssumption DEF PollWallet, Enqueued, Recoveries, Jobs
      <3>3. \A j \in Jobs : Engaged(j)' => Engaged(j)
        BY <3>1, <3>2 DEF Engaged, Noop, Live
      <3> QED
        BY <2>a, <3>1, <3>3 DEF Owned
    <2>4. ASSUME PollInflight PROVE Owned'
      <3>1. UNCHANGED <<agg, run, row, sweep, crashes>> /\ mem'.slot = mem.slot
        BY <2>4, <2>b DEF PollInflight, envVars, queueVars, MemType
      <3> QED
        BY <2>a, <3>1 DEF Owned, Engaged, Noop, Live
    <2>5. ASSUME ResumeOrphan PROVE Owned'
      <3>1. "unwrapped" \in Recoveries /\ "unwrapped" \in Drivers /\ "unwrapped" \notin Transfers
        BY EquityTransferAssumption DEF Jobs, Drivers, Recoveries
      <3>2. Engaged("unwrapped")
        BY <2>5, <3>1, IdleTyped DEF ResumeOrphan, Engaged, Noop
      <3>3. /\ UNCHANGED <<agg, row, mem, crashes, sweep>>
            /\ \A c \in Drivers : c # "unwrapped" => run'[c] = run[c]
        BY <2>5, <2>b, <3>1 DEF ResumeOrphan, rest, envVars
      <3> QED
        BY <3>1, <3>2, <3>3, OwnAside
    <2>6. ASSUME Environment PROVE Owned'
      <3>1. UNCHANGED <<agg, run, mem, row, sweep, crashes>>
        BY <2>6 DEF Environment, Mine, Drop, SettleMint, SettleRedemption, Fault, rest, envVars
      <3> QED
        BY <2>a, <3>1 DEF Owned, Engaged, Noop, Live
    <2>7. ASSUME Restart PROVE Owned'
      BY <1>1, <2>7 DEF Restart, Owned
    <2>8. ~Operator
      BY DEF Operator, OperatorResumes, RecheckMint, RecheckRedemption, OperatorCloses, Operates,
             IInv, OutsideInv
    <2>9. ~SweepClears /\ ~SweepFails /\ \A t \in Transfers : ~Sweep(t)
      BY <2>a DEF SweepClears, SweepFails, Sweep
    <2>10. CASE UNCHANGED vars
      BY <2>a, <2>10 DEF vars, queueVars, envVars, Owned, Engaged, Noop, Live
    <2> QED
      BY <1>1, <2>1, <2>2, <2>3, <2>4, <2>5, <2>6, <2>7, <2>8, <2>9, <2>10,
         JobStepOwned, RecoveryStepOwned DEF Next
  <1> QED
    BY <1>0, <1>1

(* One job at a time spends from the symbol's wallet, with both recovery   *)
(* jobs, any number of transfers and any faults, until a restart, where    *)
(* the sweep does not fire and no operator intervenes.                     *)
THEOREM SpendersTakeTurns == ~SweepTimesOut /\ MaxOperations = 0 /\ Spec => []OneSpender
  <1>1. Init => Owned
    BY IdleTyped, EquityTransferAssumption DEF Init, Owned, Engaged, Live, Drivers, Jobs
  <1>2. ~SweepTimesOut /\ MaxOperations = 0 /\ IInv /\ Owned /\ [Next]_vars => Owned'
    BY NextOwned
  <1>3. IInv /\ Owned => OneSpender
    <2> SUFFICES ASSUME IInv, Owned, crashes = 0
                 PROVE  Cardinality({d \in Jobs : Spending(d)}) <= 1
      BY DEF OneSpender
    <2> DEFINE S == {d \in Jobs : Spending(d)}
    <2>0. \A d \in S : Engaged(d)
      BY IdleTyped DEF Engaged, Noop, Spending, At
    <2>1. \A d \in S : mem.slot = [st |-> "active", by |-> d]
      BY <2>0 DEF Owned
    <2>2. \A d \in S : d = mem.slot.by
      BY <2>1, OwnedSlot
    <2> HIDE DEF S
    <2>3. S = {} \/ S = {mem.slot.by}
      BY <2>2
    <2>4. Cardinality({}) = 0 /\ Cardinality({mem.slot.by}) = 1
      BY FS_EmptySet, FS_Singleton
    <2>5. Cardinality(S) = 0 \/ Cardinality(S) = 1
      BY <2>3, <2>4
    <2>6. Cardinality(S) <= 1
      BY <2>5
    <2> QED
      BY <2>6 DEF S
  <1> QED
    <2>1. CASE ~SweepTimesOut /\ MaxOperations = 0
      <3>1. IInv /\ Owned /\ [Next]_vars => Owned'
        BY <1>2, <2>1
      <3> QED
        BY <1>1, <1>3, <3>1, Invariance, PTL DEF Spec
    <2>2. CASE ~(~SweepTimesOut /\ MaxOperations = 0)
      BY <2>2
    <2> QED
      BY <2>1, <2>2

-----------------------------------------------------------------------------
(* Deposits are backed.  Without the recovery jobs and the operator one    *)
(* row at a time can be run, for a new transfer waits for the row of the   *)
(* one before it, even when the sweep or a restart freed the slot early.   *)
Alone ==
    /\ \A k \in Recoveries : ~Live(k)
    /\ run["operator"] = Idle
    /\ \A t, u \in Transfers : Live(t) /\ Live(u) => t = u
    /\ \A t \in Transfers : run[t] # Idle => run[t].on = t

(* A deposit of t was mined.                                               *)
Landed(t) ==
    \E i \in DOMAIN txs : txs[i].kind = "deposit" /\ txs[i].by = t /\ txs[i].st = "mined"

(* x is the wrap that t goes on with.  Whatever was sent after it is a     *)
(* deposit of t or costs no wrapped tokens, so that once it is mined its   *)
(* token can only have gone into a deposit of t.                           *)
Wrap(t, x) ==
    /\ x \in DOMAIN txs /\ txs[x].kind = "wrap"
    /\ \A i \in DOMAIN txs :
          i > x => txs[i].kind = "issue" \/ (txs[i].kind = "deposit" /\ txs[i].by = t)
    /\ txs[x].st = "mined" => /\ \A i \in DOMAIN txs : i < x => txs[i].st # "pending"
                              /\ Wallet("wrapped") >= 1 \/ Landed(t)

Deposit(t, x) == x \in DOMAIN txs /\ txs[x].kind = "deposit" /\ txs[x].by = t

(* What the run r and the aggregate a of the mint t say of its             *)
(* transactions.                                                           *)
Told(t, r, a) ==
    /\ r.pc \in {"recordWrap", "confirmWrap"} => Wrap(t, r.tx)
    /\ a.st \in {"WrapSubmitted", "TokensWrapped"} => Wrap(t, a.tx)
    /\ a.st = "TokensWrapped" => txs[a.tx].st = "mined"
    /\ r.pc = "deposit" => a.st \in {"TokensWrapped", "Failed"}
    /\ r.pc \in {"recordDeposit", "confirmDeposit"} => Deposit(t, r.tx)
    /\ a.st = "VaultDepositSubmitted" => Deposit(t, a.tx)

(* A mint whose row can be run knows its transactions, a mint recorded as  *)
(* deposited has a deposit of its own, and each of those moved a token.    *)
DepositInv ==
    /\ Alone
    /\ \A t \in Mints : Live(t) => Told(t, run[t], agg[t])
    /\ \A t \in Deposited : Landed(t)
    /\ moved["deposit"] >= Cardinality({t \in Mints : Landed(t)})

(* The transactions are a sequence of records, and the wallet's balance an *)
(* integer.                                                                *)
LEMMA ChainFacts ==
  ASSUME IInv
  PROVE  /\ Len(txs) \in Nat /\ DOMAIN txs = 1..Len(txs)
         /\ \A i \in DOMAIN txs : txs[i] \in [kind : Kinds, by : Jobs, amt : Nat \ {0},
                                        st : {"pending", "mined", "reverted", "dropped"}]
         /\ Wallet("wrapped") \in Nat
         /\ moved \in [Kinds -> Nat]
  <1> DEFINE T == [kind : Kinds, by : Jobs, amt : Nat \ {0},
                   st : {"pending", "mined", "reverted", "dropped"}]
  <1>1. txs \in Seq(T) /\ moved \in [Kinds -> Nat] /\ \A k \in Recoveries : Wallet(k) >= 0
    BY DEF IInv, ChainInv
  <1>2. /\ moved["wrap"] \in Nat /\ moved["withdraw"] \in Nat
        /\ moved["unwrap"] \in Nat /\ moved["deposit"] \in Nat
    BY <1>1 DEF Kinds
  <1>3. Wallet("wrapped") \in Int
    BY <1>2 DEF Wallet
  <1>4. "wrapped" \in Recoveries
    BY DEF Recoveries
  <1> HIDE DEF T
  <1>5. Len(txs) \in Nat /\ DOMAIN txs = 1..Len(txs) /\ \A i \in DOMAIN txs : txs[i] \in T
    BY <1>1
  <1> QED
    BY <1>1, <1>3, <1>4, <1>5 DEF T

(* A transaction that is sent comes last and changes no other.             *)
LEMMA Sent ==
  ASSUME IInv, NEW j, NEW kind, NEW amt, NEW st,
         txs' = Append(txs, [kind |-> kind, by |-> j, amt |-> amt, st |-> st])
  PROVE  /\ DOMAIN txs' = 1..(Len(txs) + 1) /\ DOMAIN txs \subseteq DOMAIN txs'
         /\ \A i \in DOMAIN txs : txs'[i] = txs[i]
         /\ txs'[Len(txs) + 1].kind = kind /\ txs'[Len(txs) + 1].by = j
         /\ txs'[Len(txs) + 1].st = st
         /\ \A i \in DOMAIN txs' : i \in DOMAIN txs \/ i = Len(txs) + 1
  <1> DEFINE r == [kind |-> kind, by |-> j, amt |-> amt, st |-> st]
             T == [kind : Kinds, by : Jobs, amt : Nat \ {0},
                   st : {"pending", "mined", "reverted", "dropped"}]
             U == T \cup {r}
  <1>1. r.kind = kind /\ r.by = j /\ r.st = st
    OBVIOUS
  <1>2. txs \in Seq(T)
    BY DEF IInv, ChainInv
  <1> HIDE DEF r, T
  <1>3. txs \in Seq(U) /\ r \in U
    BY <1>2
  <1>4. txs' = Append(txs, r)
    BY DEF r
  <1> HIDE DEF U
  <1>5. /\ Len(txs) \in Nat /\ DOMAIN txs = 1..Len(txs)
        /\ DOMAIN txs' = 1..(Len(txs) + 1)
        /\ \A i \in 1..Len(txs) : txs'[i] = txs[i]
        /\ txs'[Len(txs) + 1] = r
    BY <1>3, <1>4
  <1> QED
    BY <1>1, <1>5

(* What a job's submission leaves of what is known.                        *)
LEMMA SubmitTells ==
  ASSUME IInv, NEW t \in Transfers, NEW kind \in Kinds, Submit(t, kind, 1)
  PROVE  /\ \A u : Landed(u)' <=> Landed(u)
         /\ \A x : Deposit(t, x) => Deposit(t, x)'
         /\ \A x \in DOMAIN txs : txs'[x] = txs[x]
         /\ kind = "deposit" => /\ \A x : Wrap(t, x) => Wrap(t, x)'
                                /\ \A x : x = Len(txs) + 1 => Deposit(t, x)'
         /\ kind = "wrap" => \A x : x = Len(txs) + 1 => Wrap(t, x)'
  <1>1. /\ txs' = Append(txs, [kind |-> kind, by |-> t, amt |-> 1, st |-> "pending"])
        /\ moved' = moved
    BY DEF Submit
  <1>2. Wallet("wrapped")' = Wallet("wrapped")
    BY <1>1 DEF Wallet
  <1>n. PICK n : n = Len(txs) + 1
    OBVIOUS
  <1>3. /\ DOMAIN txs' = 1..n /\ DOMAIN txs \subseteq DOMAIN txs'
        /\ \A i \in DOMAIN txs : txs'[i] = txs[i]
        /\ txs'[n].kind = kind /\ txs'[n].by = t /\ txs'[n].st = "pending"
        /\ \A i \in DOMAIN txs' : i \in DOMAIN txs \/ i = n
    BY <1>1, <1>n, Sent
  <1>4. Len(txs) \in Nat /\ DOMAIN txs = 1..Len(txs) /\ n \in DOMAIN txs'
        /\ \A i \in DOMAIN txs : i < n /\ i \in Nat
    BY <1>3, <1>n, ChainFacts
  <1>5. \A u : Landed(u)' <=> Landed(u)
    BY <1>3 DEF Landed
  <1>6. \A x : Deposit(t, x) => Deposit(t, x)'
    BY <1>3 DEF Deposit
  <1>7. ASSUME kind = "deposit", NEW x, Wrap(t, x) PROVE Wrap(t, x)'
    <2>1. x \in DOMAIN txs /\ x < n
      BY <1>4, <1>7 DEF Wrap
    <2> QED
      BY <1>2, <1>3, <1>4, <1>5, <1>7, <2>1 DEF Wrap
  <1>8. kind = "deposit" => Deposit(t, n)'
    BY <1>3, <1>4 DEF Deposit
  <1>9. kind = "wrap" => Wrap(t, n)'
    BY <1>3, <1>4 DEF Wrap
  <1> QED
    BY <1>3, <1>5, <1>6, <1>7, <1>8, <1>9, <1>n

(* Nothing happens on the chain.                                           *)
LEMMA QuietTells ==
  ASSUME UNCHANGED chain
  PROVE  /\ \A u : Landed(u)' <=> Landed(u)
         /\ \A u, x : Deposit(u, x) => Deposit(u, x)'
         /\ \A u, x : Wrap(u, x) => Wrap(u, x)'
  BY DEF chain, Landed, Deposit, Wrap, Wallet

(* One more mint has a deposit that was mined, or none.                    *)
LEMMA OneMoreLanded ==
  ASSUME NEW b, \A u \in Mints : Landed(u)' => Landed(u) \/ u = b,
         moved \in [Kinds -> Nat], moved'["deposit"] \in Nat,
         moved["deposit"] >= Cardinality({u \in Mints : Landed(u)}),
         moved'["deposit"] >= moved["deposit"] + 1
           \/ (moved'["deposit"] = moved["deposit"] /\ \A u \in Mints : Landed(u)' => Landed(u))
  PROVE  moved'["deposit"] >= Cardinality({u \in Mints : Landed(u)'})
  <1> DEFINE S == {u \in Mints : Landed(u)}
             R == {u \in Mints : Landed(u)'}
  <1>1. IsFiniteSet(Mints)
    BY EquityTransferAssumption, FS_Subset DEF Transfers
  <1>2. IsFiniteSet(S) /\ R \subseteq S \cup {b} /\ moved["deposit"] \in Nat
    BY <1>1, FS_Subset DEF Kinds
  <1>3. /\ IsFiniteSet(S \cup {b}) /\ Cardinality(S) \in Nat
        /\ Cardinality(S \cup {b}) \in {Cardinality(S), Cardinality(S) + 1}
    BY <1>2, FS_AddElement, FS_CardinalityType
  <1>4. /\ Cardinality(R) \in Nat
        /\ Cardinality(R) <= Cardinality(S \cup {b})
        /\ R \subseteq S => Cardinality(R) <= Cardinality(S)
    BY <1>2, <1>3, FS_Subset, FS_CardinalityType
  <1>5. (\A u \in Mints : Landed(u)' => Landed(u)) => R \subseteq S
    OBVIOUS
  <1> HIDE DEF S, R
  <1>6. moved'["deposit"] >= Cardinality(R)
    BY <1>2, <1>3, <1>4, <1>5 DEF S
  <1> QED
    BY <1>6 DEF R

(* A transaction of the wallet is settled: those before it are, and the    *)
(* others stay as they are.                                                *)
LEMMA Settled ==
  ASSUME IInv, NEW i \in DOMAIN txs, txs[i].st = "pending",
         NEW st \in {"mined", "reverted", "dropped"}, txs' = [txs EXCEPT ![i].st = st]
  PROVE  /\ DOMAIN txs' = DOMAIN txs
         /\ \A j \in DOMAIN txs : /\ txs'[j].kind = txs[j].kind /\ txs'[j].by = txs[j].by
                                  /\ j # i => txs'[j].st = txs[j].st
         /\ txs'[i].st = st
  <1>1. txs[i] \in [kind : Kinds, by : Jobs, amt : Nat \ {0},
                    st : {"pending", "mined", "reverted", "dropped"}]
    BY ChainFacts
  <1>2. /\ DOMAIN txs' = DOMAIN txs /\ txs'[i] = [txs[i] EXCEPT !.st = st]
        /\ \A j \in DOMAIN txs : j # i => txs'[j] = txs[j]
    OBVIOUS
  <1>3. txs'[i].st = st /\ txs'[i].kind = txs[i].kind /\ txs'[i].by = txs[i].by
    BY <1>1, <1>2
  <1> QED
    BY <1>2, <1>3

(* A mined transaction moves its tokens.                                   *)
LEMMA MinedMoves ==
  ASSUME IInv, NEW i \in DOMAIN txs,
         moved' = [moved EXCEPT ![txs[i].kind] = @ + txs[i].amt]
  PROVE  /\ moved'["deposit"] \in Nat
         /\ txs[i].kind = "deposit" => moved'["deposit"] >= moved["deposit"] + 1
         /\ txs[i].kind # "deposit" => moved'["deposit"] = moved["deposit"]
         /\ txs[i].kind = "wrap" => Wallet("wrapped")' >= 1
         /\ txs[i].kind = "issue" => Wallet("wrapped")' = Wallet("wrapped")
  <1>1. /\ txs[i].kind \in Kinds /\ txs[i].amt \in Nat /\ txs[i].amt >= 1
        /\ moved \in [Kinds -> Nat] /\ Wallet("wrapped") \in Nat
    BY ChainFacts
  <1>2. /\ "wrap" \in Kinds /\ "withdraw" \in Kinds /\ "unwrap" \in Kinds /\ "deposit" \in Kinds
    BY DEF Kinds
  <1>3. \A c \in Kinds : /\ moved[c] \in Nat
                         /\ c # txs[i].kind => moved'[c] = moved[c]
                         /\ c = txs[i].kind => moved'[c] = moved[c] + txs[i].amt
    BY <1>1
  <1>4. /\ moved'["deposit"] \in Nat
        /\ txs[i].kind = "deposit" => moved'["deposit"] >= moved["deposit"] + 1
        /\ txs[i].kind # "deposit" => moved'["deposit"] = moved["deposit"]
    BY <1>1, <1>2, <1>3
  <1>5. (moved["wrap"] + moved["withdraw"]) - (moved["unwrap"] + moved["deposit"]) \in Nat
    BY <1>1 DEF Wallet
  <1>6. txs[i].kind = "wrap" =>
           (moved'["wrap"] + moved'["withdraw"]) - (moved'["unwrap"] + moved'["deposit"]) >= 1
    BY <1>1, <1>2, <1>3, <1>5
  <1>7. txs[i].kind = "issue" =>
           (moved'["wrap"] + moved'["withdraw"]) - (moved'["unwrap"] + moved'["deposit"])
             = (moved["wrap"] + moved["withdraw"]) - (moved["unwrap"] + moved["deposit"])
    BY <1>2, <1>3
  <1> QED
    BY <1>4, <1>6, <1>7 DEF Wallet

(* The chain and the issuer make nothing untrue of what is known.          *)
LEMMA ChainTells ==
  ASSUME IInv, Environment,
         moved["deposit"] >= Cardinality({u \in Mints : Landed(u)})
  PROVE  /\ \A u : Landed(u) => Landed(u)'
         /\ \A u, x : Deposit(u, x) => Deposit(u, x)'
         /\ \A u, x : Wrap(u, x) => /\ Wrap(u, x)'
                                    /\ txs[x].st = "mined" => txs'[x].st = "mined"
         /\ moved'["deposit"] >= Cardinality({u \in Mints : Landed(u)'})
  <1>m. moved \in [Kinds -> Nat] /\ moved["deposit"] \in Nat
    BY ChainFacts DEF Kinds
  <1>1. ASSUME UNCHANGED chain
        PROVE  /\ \A u : Landed(u)' <=> Landed(u)
               /\ \A u, x : Deposit(u, x) => Deposit(u, x)'
               /\ \A u, x : Wrap(u, x) => /\ Wrap(u, x)'
                                          /\ txs[x].st = "mined" => txs'[x].st = "mined"
               /\ moved'["deposit"] >= Cardinality({u \in Mints : Landed(u)'})
    <2>1. \A u : Landed(u)' <=> Landed(u)
      BY <1>1, QuietTells
    <2>2. {u \in Mints : Landed(u)'} = {u \in Mints : Landed(u)} /\ moved' = moved
      BY <1>1, <2>1 DEF chain
    <2> QED
      BY <1>1, <2>1, <2>2, QuietTells DEF chain
  <1>2. ASSUME NEW i \in DOMAIN txs, Mine(i) \/ Drop(i)
        PROVE  /\ \A u : Landed(u) => Landed(u)'
               /\ \A u, x : Deposit(u, x) => Deposit(u, x)'
               /\ \A u, x : Wrap(u, x) => /\ Wrap(u, x)'
                                          /\ txs[x].st = "mined" => txs'[x].st = "mined"
               /\ moved'["deposit"] >= Cardinality({u \in Mints : Landed(u)'})
    <2>1. PICK st \in {"mined", "reverted", "dropped"} :
             /\ txs[i].st = "pending" /\ txs' = [txs EXCEPT ![i].st = st]
             /\ st = "mined" => /\ \A j \in 1..(i - 1) : txs[j].st # "pending"
                                /\ moved' = [moved EXCEPT ![txs[i].kind] = @ + txs[i].amt]
             /\ st # "mined" => moved' = moved
      BY <1>2 DEF Mine, Drop
    <2>2. /\ DOMAIN txs' = DOMAIN txs
          /\ \A j \in DOMAIN txs : /\ txs'[j].kind = txs[j].kind /\ txs'[j].by = txs[j].by
                                   /\ j # i => txs'[j].st = txs[j].st
          /\ txs'[i].st = st
      BY <2>1, Settled
    <2>3. \A u : Landed(u) => Landed(u)'
      BY <2>1, <2>2 DEF Landed
    <2>4. \A u, x : Deposit(u, x) => Deposit(u, x)'
      BY <2>2 DEF Deposit
    <2>5. \A u : Landed(u)' => Landed(u) \/ (u = txs[i].by /\ txs[i].kind = "deposit" /\ st = "mined")
      BY <2>2 DEF Landed
    <2>d. st # "mined" \/ txs[i].kind # "deposit" => \A u : Landed(u)' => Landed(u)
      BY <2>5
    <2>6. moved'["deposit"] >= Cardinality({u \in Mints : Landed(u)'})
      <3>1. CASE st = "mined"
        <4>1. /\ moved'["deposit"] \in Nat
              /\ txs[i].kind = "deposit" => moved'["deposit"] >= moved["deposit"] + 1
              /\ txs[i].kind # "deposit" => moved'["deposit"] = moved["deposit"]
          BY <2>1, <3>1, MinedMoves
        <4>2. \A u \in Mints : Landed(u)' => Landed(u) \/ u = txs[i].by
          BY <2>5
        <4>3. \/ moved'["deposit"] >= moved["deposit"] + 1
              \/ moved'["deposit"] = moved["deposit"] /\ \A u \in Mints : Landed(u)' => Landed(u)
          BY <2>d, <4>1
        <4> HIDE DEF Landed
        <4> QED
          BY <1>m, <4>1, <4>2, <4>3, OneMoreLanded
      <3>2. CASE st # "mined"
        BY <1>m, <2>1, <2>5, <2>d, <3>2, OneMoreLanded
      <3> QED
        BY <3>1, <3>2
    <2>7. ASSUME NEW u, NEW x, Wrap(u, x)
          PROVE  Wrap(u, x)' /\ (txs[x].st = "mined" => txs'[x].st = "mined")
      <3>1. x \in DOMAIN txs /\ x \in Nat /\ i \in Nat /\ i >= 1 /\ \A j \in DOMAIN txs : j \in Nat
        BY <2>7, ChainFacts DEF Wrap
      <3>2. txs[x].st = "mined" => txs'[x].st = "mined"
        BY <2>1, <2>2, <3>1
      <3>3. /\ x \in DOMAIN txs' /\ txs'[x].kind = "wrap"
            /\ \A j \in DOMAIN txs' :
                  j > x => txs'[j].kind = "issue" \/ (txs'[j].kind = "deposit" /\ txs'[j].by = u)
        BY <2>2, <2>7, <3>1 DEF Wrap
      <3>4. ASSUME txs'[x].st = "mined"
            PROVE  /\ \A j \in DOMAIN txs' : j < x => txs'[j].st # "pending"
                   /\ Wallet("wrapped")' >= 1 \/ Landed(u)'
        <4>1. CASE i = x
          <5>1. st = "mined" /\ txs[i].kind = "wrap"
            BY <2>2, <2>7, <3>4, <4>1 DEF Wrap
          <5>2. Wallet("wrapped")' >= 1
            BY <2>1, <5>1, MinedMoves
          <5>3. \A j \in DOMAIN txs : j < x => j \in 1..(i - 1)
            BY <3>1, <4>1, ChainFacts
          <5> QED
            BY <2>1, <2>2, <3>1, <4>1, <5>1, <5>2, <5>3
        <4>2. CASE i # x
          <5>1. txs[x].st = "mined"
            BY <2>2, <3>1, <3>4, <4>2
          <5>2. /\ \A j \in DOMAIN txs : j < x => txs[j].st # "pending"
                /\ Wallet("wrapped") >= 1 \/ Landed(u)
            BY <2>7, <5>1 DEF Wrap
          <5>3. \A j \in DOMAIN txs' : j < x => txs'[j].st # "pending"
            BY <2>2, <5>2
          <5>4. i > x
            BY <2>1, <3>1, <4>2, <5>2
          <5>5. txs[i].kind = "issue" \/ (txs[i].kind = "deposit" /\ txs[i].by = u)
            BY <2>7, <5>4 DEF Wrap
          <5>6. CASE st = "mined" /\ txs[i].kind = "deposit"
            BY <2>2, <5>3, <5>5, <5>6 DEF Landed
          <5>7. CASE st = "mined" /\ txs[i].kind = "issue"
            BY <2>1, <2>3, <5>2, <5>3, <5>7, MinedMoves
          <5>8. CASE st # "mined"
            BY <2>1, <2>3, <5>2, <5>3, <5>8 DEF Wallet
          <5> QED
            BY <5>5, <5>6, <5>7, <5>8
        <4> QED
          BY <4>1, <4>2
      <3> QED
        BY <3>2, <3>3, <3>4 DEF Wrap
    <2> QED
      BY <2>3, <2>4, <2>6, <2>7
  <1>3. ASSUME NEW t \in Transfers,
               txs' = Append(txs, [kind |-> "issue", by |-> t, amt |-> 1, st |-> "mined"]),
               moved' = [moved EXCEPT !["issue"] = @ + 1]
        PROVE  /\ \A u : Landed(u) => Landed(u)'
               /\ \A u, x : Deposit(u, x) => Deposit(u, x)'
               /\ \A u, x : Wrap(u, x) => /\ Wrap(u, x)'
                                          /\ txs[x].st = "mined" => txs'[x].st = "mined"
               /\ moved'["deposit"] >= Cardinality({u \in Mints : Landed(u)'})
    <2>1. PICK n : n = Len(txs) + 1
      OBVIOUS
    <2>2. /\ DOMAIN txs \subseteq DOMAIN txs'
          /\ \A i \in DOMAIN txs : txs'[i] = txs[i]
          /\ txs'[n].kind = "issue"
          /\ \A i \in DOMAIN txs' : i \in DOMAIN txs \/ i = n
      BY <1>3, <2>1, Sent
    <2>3. \A i \in DOMAIN txs : i < n
      BY <2>1, ChainFacts
    <2>4. moved'["deposit"] = moved["deposit"] /\ Wallet("wrapped")' = Wallet("wrapped")
      BY <1>3, <1>m DEF Wallet
    <2>5. \A u : Landed(u)' <=> Landed(u)
      BY <2>2 DEF Landed
    <2>6. \A u, x : Deposit(u, x) => Deposit(u, x)'
      BY <2>2 DEF Deposit
    <2>7. ASSUME NEW u, NEW x, Wrap(u, x)
          PROVE  Wrap(u, x)' /\ (txs[x].st = "mined" => txs'[x].st = "mined")
      <3>1. x \in DOMAIN txs /\ x < n /\ x \in Nat /\ n \in Nat
        BY <2>1, <2>3, <2>7, ChainFacts DEF Wrap
      <3> QED
        BY <2>2, <2>3, <2>4, <2>5, <2>7, <3>1 DEF Wrap
    <2>8. {u \in Mints : Landed(u)'} = {u \in Mints : Landed(u)}
      BY <2>5
    <2> QED
      BY <2>4, <2>5, <2>6, <2>7, <2>8
  <1> QED
    BY <1>1, <1>2, <1>3 DEF Environment, SettleMint, SettleRedemption

(* A step of the run of d: only d's row, run and aggregate change, and its *)
(* run stays on d.                                                         *)
Lone(d) ==
    /\ \A c \in Drivers : c # d => run'[c] = run[c]
    /\ \A j \in Jobs : j # d => row'[j] = row[j]
    /\ \A t \in Transfers : t # d => agg'[t] = agg[t]
    /\ run'[d] = Idle \/ run'[d].on = d

(* The ways in which a run goes on and ends are its own.                   *)
LEMMA RunParts ==
  ASSUME IInv, NEW d \in Transfers, run[d].on = d
  PROVE  /\ Errs(d) => Lone(d) /\ run'[d] = Idle /\ agg' = agg
         /\ \A m : Ends(d, m) => /\ run'[d] = Idle /\ row'[d] = "done"
                                 /\ agg' = agg => Lone(d)
         /\ \A e, x : RecordsLast(d, e, x) =>
               /\ Lone(d) /\ run'[d] = Idle /\ agg'[d].st = Table(d)[e].to
         /\ \A x, pc : Holds(d, x, pc) =>
               Lone(d) /\ run'[d].pc = pc /\ run'[d].tx = x /\ agg' = agg /\ row' = row
         /\ \A e, x, pc : Records(d, e, x, pc) =>
               /\ Lone(d) /\ run'[d].pc = pc /\ run'[d].tx = x
               /\ agg'[d].st = Table(d)[e].to /\ agg'[d].tx = x
  <1>1. /\ d \in Jobs /\ d \in Drivers /\ d \notin Recoveries /\ d # "operator"
        /\ run \in [Drivers -> RunType] /\ agg \in [Transfers -> AggType]
        /\ row \in [Jobs -> {"none", "ready", "failed", "done", "dead"}]
        /\ run[d] \in RunType /\ agg[d] \in AggType
    BY EquityTransferAssumption
       DEF IInv, RunInv, AggInv, QueueInv, Drivers, Jobs, Recoveries
  <1>2. ASSUME NEW e, NEW x
        PROVE  Evolved(agg[d], Table(d), e, x).st = Table(d)[e].to
               /\ Evolved(agg[d], Table(d), e, x).tx = x
    BY <1>1 DEF Evolved, AggType
  <1>3. Errs(d) => Lone(d) /\ run'[d] = Idle /\ agg' = agg
    <2> SUFFICES ASSUME Errs(d) PROVE Lone(d) /\ run'[d] = Idle /\ agg' = agg
      OBVIOUS
    <2>1. Retries(d) \/ Finishes(d)
      BY <1>1 DEF Errs, Fails, JobFails, MarkHeld
    <2>2. run' = [run EXCEPT ![d] = Idle] /\ agg' = agg
      BY DEF Errs, Fails
    <2> QED
      BY <1>1, <2>1, <2>2 DEF Lone, Retries, Finishes
  <1>4. ASSUME NEW m, Ends(d, m)
        PROVE  /\ run'[d] = Idle /\ row'[d] = "done"
               /\ \A c \in Drivers : c # d => run'[c] = run[c]
               /\ \A j \in Jobs : j # d => row'[j] = row[j]
    BY <1>1, <1>4 DEF Ends, Finishes
  <1>5. ASSUME NEW e, NEW x, RecordsLast(d, e, x)
        PROVE  Lone(d) /\ run'[d] = Idle /\ agg'[d].st = Table(d)[e].to
    <2>1. agg' = [agg EXCEPT ![d] = Evolved(@, Table(d), e, x)]
      BY <1>5 DEF RecordsLast
    <2>2. /\ run'[d] = Idle
          /\ \A c \in Drivers : c # d => run'[c] = run[c]
          /\ \A j \in Jobs : j # d => row'[j] = row[j]
      <3>1. CASE Ends(d, React(mem, d, e))
        BY <3>1, <1>4
      <3>2. CASE Fails(d, React(mem, d, e), "Failed")
        <4>1. run' = [run EXCEPT ![d] = Idle] /\ (Retries(d) \/ Finishes(d))
          BY <1>1, <3>2 DEF Fails, JobFails, MarkHeld
        <4> QED
          BY <1>1, <4>1 DEF Retries, Finishes
      <3> QED
        BY <1>5, <3>1, <3>2 DEF RecordsLast
    <2> QED
      BY <1>1, <1>2, <2>1, <2>2 DEF Lone
  <1>6. ASSUME NEW x, NEW pc, Holds(d, x, pc)
        PROVE  Lone(d) /\ run'[d].pc = pc /\ run'[d].tx = x /\ agg' = agg /\ row' = row
    <2>1. run'[d].on = run[d].on /\ run'[d].pc = pc /\ run'[d].tx = x
      BY <1>1, <1>6 DEF Holds, RunType
    <2> QED
      BY <1>1, <1>6, <2>1 DEF Holds, Lone
  <1>7. ASSUME NEW e, NEW x, NEW pc, Records(d, e, x, pc)
        PROVE  /\ Lone(d) /\ run'[d].pc = pc /\ run'[d].tx = x
               /\ agg'[d].st = Table(d)[e].to /\ agg'[d].tx = x
    <2>1. run'[d].on = run[d].on /\ run'[d].pc = pc /\ run'[d].tx = x
      BY <1>1, <1>7 DEF Records, RunType
    <2>2. agg' = [agg EXCEPT ![d] = Evolved(@, Table(d), e, x)]
      BY <1>7 DEF Records
    <2> QED
      BY <1>1, <1>2, <1>7, <2>1, <2>2 DEF Records, Lone
  <1>8. \A m : Ends(d, m) => /\ run'[d] = Idle /\ row'[d] = "done"
                             /\ agg' = agg => Lone(d)
    BY <1>4 DEF Lone
  <1> QED
    BY <1>3, <1>5, <1>6, <1>7, <1>8

(* The step of the only row that can be run keeps the invariant if it      *)
(* leaves its mint with what it must know.                                 *)
LEMMA LoneKeeps ==
  ASSUME IInv, DepositInv, NEW d \in Transfers, Live(d), Lone(d), moved' = moved,
         \A u : Landed(u)' <=> Landed(u),
         d \in Mints /\ Live(d)' => Told(d, run[d], agg[d])',
         d \in Mints /\ agg'[d].st = "DepositedIntoRaindex" => Landed(d)
  PROVE  DepositInv'
  <1>1. /\ \A k \in Recoveries : ~Live(k) /\ k # d /\ k \in Jobs
        /\ run["operator"] = Idle /\ d # "operator" /\ "operator" \in Drivers
        /\ \A t \in Transfers : t # d => ~Live(t)
        /\ \A t \in Transfers : (run[t] # Idle => run[t].on = t) /\ t \in Jobs /\ t \in Drivers
    BY EquityTransferAssumption DEF DepositInv, Alone, Recoveries, Jobs, Drivers
  <1>2. Alone'
    BY <1>1 DEF Lone, Alone, Live
  <1>3. \A t \in Mints : Live(t)' => t = d
    BY <1>1 DEF Lone, Live, Transfers
  <1>4. \A t \in Deposited' : Landed(t)'
    BY DEF Deposited, DepositInv, Lone, Transfers
  <1>5. {u \in Mints : Landed(u)'} = {u \in Mints : Landed(u)}
    OBVIOUS
  <1>6. moved'["deposit"] >= Cardinality({u \in Mints : Landed(u)'})
    BY <1>5 DEF DepositInv
  <1>7. \A t \in Mints : Live(t)' => Told(t, run[t], agg[t])'
    BY <1>3
  <1> QED
    BY <1>2, <1>4, <1>6, <1>7 DEF DepositInv

(* The one at work, and what its run is on.                                *)
LEMMA AtWork ==
  ASSUME IInv, DepositInv, NEW d \in Drivers, run[d] # Idle
  PROVE  /\ d \in Transfers /\ run[d].on = d /\ Live(d)
         /\ d \in Mints => Told(d, run[d], agg[d])
  <1>1. d \in Jobs /\ Live(d)
    BY DEF DepositInv, Alone, Drivers, IInv, RunInv
  <1>2. d \in Transfers
    BY <1>1 DEF DepositInv, Alone, Jobs
  <1> QED
    BY <1>1, <1>2 DEF DepositInv, Alone

(* A submission that fails or whose answer is lost.                        *)
LEMMA FailedTells ==
  ASSUME IInv, NEW d \in Transfers, run[d].on = d, NEW kind \in Kinds, SubmissionFails(d, kind)
  PROVE  /\ moved' = moved
         /\ \A u : Landed(u)' <=> Landed(u)
         /\ \A x : Deposit(d, x) => Deposit(d, x)'
         /\ \A x \in DOMAIN txs : txs'[x] = txs[x]
         /\ kind = "deposit" => \A x : Wrap(d, x) => Wrap(d, x)'
  <1>1. UNCHANGED chain \/ Submit(d, kind, 1)
    BY DEF SubmissionFails
  <1>2. moved' = moved
    BY <1>1 DEF chain, Submit
  <1> QED
    BY <1>1, <1>2, QuietTells, SubmitTells DEF chain

(* A run that waits, or that only records.                                 *)
LEMMA QuietKeeps ==
  ASSUME IInv, DepositInv, NEW d \in Transfers, Live(d), Lone(d), UNCHANGED chain,
         d \in Mints /\ Live(d)' => Told(d, run'[d], agg'[d]),
         d \in Mints /\ agg'[d].st = "DepositedIntoRaindex" => Landed(d)
  PROVE  DepositInv'
  <1>1. /\ moved' = moved /\ txs' = txs
        /\ \A u : Landed(u)' <=> Landed(u)
        /\ \A u, x : Deposit(u, x) => Deposit(u, x)'
        /\ \A u, x : Wrap(u, x) => Wrap(u, x)'
    BY QuietTells DEF chain
  <1>2. d \in Mints /\ Live(d)' => Told(d, run[d], agg[d])'
    BY <1>1 DEF Told
  <1> QED
    BY <1>1, <1>2, LoneKeeps

(* An error leaves the aggregate as it was.                                *)
LEMMA ErrsKeepsDeposits ==
  ASSUME IInv, DepositInv, NEW d \in Transfers, Live(d), run[d].on = d, Errs(d), UNCHANGED chain
  PROVE  DepositInv'
  <1>1. Lone(d) /\ run'[d] = Idle /\ agg' = agg
    BY RunParts
  <1>2. d \in Mints => Told(d, run[d], agg[d])
    BY DEF DepositInv
  <1>3. d \in Mints => Told(d, run'[d], agg'[d])
    BY <1>1, <1>2, IdleTyped DEF Told
  <1>4. d \in Mints /\ agg'[d].st = "DepositedIntoRaindex" => Landed(d)
    BY <1>1 DEF DepositInv, Deposited
  <1> QED
    BY <1>1, <1>3, <1>4, QuietKeeps

(* The last event of a run is not a deposit, or the deposit was mined.     *)
LEMMA LastKeepsDeposits ==
  ASSUME IInv, DepositInv, NEW d \in Transfers, Live(d), run[d].on = d, NEW e, NEW x,
         RecordsLast(d, e, x), UNCHANGED chain,
         d \in Mints => \/ Table(d)[e].to = "Failed"
                        \/ Table(d)[e].to = "DepositedIntoRaindex" /\ Landed(d)
  PROVE  DepositInv'
  <1>1. Lone(d) /\ run'[d] = Idle /\ agg'[d].st = Table(d)[e].to
    BY RunParts
  <1>2. d \in Mints => Told(d, run'[d], agg'[d])
    BY <1>1, IdleTyped DEF Told
  <1> QED
    BY <1>1, <1>2, QuietKeeps

(* The steps of a mint's run.                                              *)
LEMMA MintTells ==
  ASSUME IInv, DepositInv, NEW d \in Mints, Live(d), run[d].on = d, MintStep(d)
  PROVE  DepositInv'
  <1>a. d \in Transfers /\ Told(d, run[d], agg[d]) /\ Table(d) = MintTable
    BY DEF Transfers, DepositInv, Table
  <1>b. /\ MintTable["MintAccepted"].to = "MintAccepted"
        /\ MintTable["MintRejected"].to = "Failed"
        /\ MintTable["MintAcceptanceFailed"].to = "Failed"
        /\ MintTable["TokensReceived"].to = "TokensReceived"
        /\ MintTable["WrapSubmitted"].to = "WrapSubmitted"
        /\ MintTable["TokensWrapped"].to = "TokensWrapped"
        /\ MintTable["VaultDepositSubmitted"].to = "VaultDepositSubmitted"
        /\ MintTable["DepositedIntoRaindex"].to = "DepositedIntoRaindex"
        /\ MintTable["DepositedIntoRaindex"].from = {"TokensWrapped", "VaultDepositSubmitted"}
    BY DEF MintTable
  <1>c. agg[d].st = "DepositedIntoRaindex" => Landed(d)
    BY DEF DepositInv, Deposited
  <1>d. "wrap" \in Kinds /\ "deposit" \in Kinds
    BY DEF Kinds
  <1>1. CASE RequestMint(d)
    <2>1. UNCHANGED chain /\ agg[d].st = "Absent"
      BY <1>1 DEF RequestMint, Goes
    <2>2. ASSUME NEW x, NEW pc \in {"requested", "rejected"}, Holds(d, x, pc) PROVE DepositInv'
      <3>1. Lone(d) /\ run'[d].pc = pc /\ agg' = agg
        BY <1>a, <2>2, RunParts
      <3>2. Told(d, run'[d], agg'[d])
        BY <2>1, <3>1 DEF Told
      <3> QED
        BY <1>a, <1>c, <2>1, <3>1, <3>2, QuietKeeps
    <2> QED
      BY <1>1, <1>a, <2>1, <2>2, ErrsKeepsDeposits DEF RequestMint
  <1>2. CASE RecordRequest(d)
    <2>1. UNCHANGED chain
      BY <1>2 DEF RecordRequest, world
    <2>2. CASE Records(d, "MintAccepted", 0, "go")
      <3>1. Lone(d) /\ run'[d].pc = "go" /\ agg'[d].st = "MintAccepted"
        BY <1>a, <1>b, <2>2, RunParts
      <3>2. Told(d, run'[d], agg'[d])
        BY <3>1 DEF Told
      <3> QED
        BY <1>a, <2>1, <3>1, <3>2, QuietKeeps
    <2>3. CASE RecordsLast(d, "MintRejected", 0)
      BY <1>a, <1>b, <2>1, <2>3, LastKeepsDeposits
    <2> QED
      BY <1>2, <2>2, <2>3 DEF RecordRequest
  <1>3. CASE PollMint(d)
    <2>1. UNCHANGED chain
      BY <1>3 DEF PollMint, world
    <2>2. CASE Records(d, "TokensReceived", 0, "go")
      <3>1. Lone(d) /\ run'[d].pc = "go" /\ agg'[d].st = "TokensReceived"
        BY <1>a, <1>b, <2>2, RunParts
      <3>2. Told(d, run'[d], agg'[d])
        BY <3>1 DEF Told
      <3> QED
        BY <1>a, <2>1, <3>1, <3>2, QuietKeeps
    <2>3. CASE RecordsLast(d, "MintAcceptanceFailed", 0)
      BY <1>a, <1>b, <2>1, <2>3, LastKeepsDeposits
    <2>4. CASE Errs(d)
      BY <1>a, <2>1, <2>4, ErrsKeepsDeposits
    <2> QED
      BY <1>3, <2>2, <2>3, <2>4 DEF PollMint
  <1>4. CASE SubmitWrap(d)
    <2>1. agg[d].st = "TokensReceived"
      BY <1>4 DEF SubmitWrap, Goes
    <2>2. CASE Submit(d, "wrap", 1) /\ Holds(d, Len(txs) + 1, "recordWrap")
      <3>1. Lone(d) /\ run'[d].pc = "recordWrap" /\ run'[d].tx = Len(txs) + 1 /\ agg' = agg
        BY <1>a, <2>2, RunParts
      <3>2. Wrap(d, run[d].tx)' /\ moved' = moved /\ \A u : Landed(u)' <=> Landed(u)
        BY <1>a, <1>d, <2>2, <3>1, SubmitTells DEF Submit
      <3>3. Told(d, run[d], agg[d])'
        BY <2>1, <3>1, <3>2 DEF Told
      <3> QED
        BY <1>a, <1>c, <3>1, <3>2, <3>3, LoneKeeps
    <2>3. CASE SubmissionFails(d, "wrap") /\ Errs(d)
      <3>1. Lone(d) /\ run'[d] = Idle /\ agg' = agg
        BY <1>a, <2>3, RunParts
      <3>2. moved' = moved /\ \A u : Landed(u)' <=> Landed(u)
        BY <1>a, <1>d, <2>3, FailedTells
      <3>3. Told(d, run[d], agg[d])'
        BY <2>1, <3>1, IdleTyped DEF Told
      <3> QED
        BY <1>a, <1>c, <3>1, <3>2, <3>3, LoneKeeps
    <2> QED
      BY <1>4, <2>2, <2>3 DEF SubmitWrap
  <1>5. CASE RecordWrap(d)
    <2>1. UNCHANGED chain /\ Wrap(d, run[d].tx)
      BY <1>5, <1>a DEF RecordWrap, At, world, Told
    <2>2. CASE Records(d, "WrapSubmitted", run[d].tx, "confirmWrap")
      <3>1. /\ Lone(d) /\ run'[d].pc = "confirmWrap" /\ run'[d].tx = run[d].tx
            /\ agg'[d].st = "WrapSubmitted" /\ agg'[d].tx = run[d].tx
        BY <1>a, <1>b, <2>2, RunParts
      <3>2. Told(d, run'[d], agg'[d])
        BY <2>1, <3>1 DEF Told
      <3> QED
        BY <1>a, <2>1, <3>1, <3>2, QuietKeeps
    <2> QED
      BY <1>5, <1>a, <2>1, <2>2, ErrsKeepsDeposits DEF RecordWrap

  <1>6. CASE ResumeWrap(d) \/ ResumeWrapped(d)
    <2>1. UNCHANGED chain /\ agg' = agg /\ row' = row
      BY <1>6 DEF ResumeWrap, ResumeWrapped, world
    <2>2. run \in [Drivers -> RunType] /\ d \in Drivers /\ run[d] \in RunType
      BY <1>a DEF IInv, RunInv, Drivers, Jobs
    <2>3. CASE ResumeWrap(d)
      <3>1. run'[d].pc = "confirmWrap" /\ run'[d].tx = agg[d].tx /\ run'[d].on = d
            /\ agg[d].st = "WrapSubmitted"
            /\ \A c \in Drivers : c # d => run'[c] = run[c]
        BY <2>2, <2>3 DEF ResumeWrap, Goes, RunType
      <3>2. Told(d, run'[d], agg'[d])
        BY <1>a, <2>1, <3>1 DEF Told
      <3> QED
        BY <1>a, <1>c, <2>1, <3>1, <3>2, QuietKeeps DEF Lone
    <2>4. CASE ResumeWrapped(d)
      <3>1. run'[d].pc = "deposit" /\ run'[d].on = d /\ agg[d].st = "TokensWrapped"
            /\ \A c \in Drivers : c # d => run'[c] = run[c]
        BY <2>2, <2>4 DEF ResumeWrapped, Goes, RunType
      <3>2. Told(d, run'[d], agg'[d])
        BY <1>a, <2>1, <3>1 DEF Told
      <3> QED
        BY <1>a, <1>c, <2>1, <3>1, <3>2, QuietKeeps DEF Lone
    <2> QED
      BY <1>6, <2>3, <2>4
  <1>7. CASE ConfirmWrap(d)
    <2>1. UNCHANGED chain /\ Wrap(d, run[d].tx)
      BY <1>7, <1>a DEF ConfirmWrap, At, world, Told
    <2>2. CASE Lands(run[d].tx) /\ Records(d, "TokensWrapped", run[d].tx, "deposit")
      <3>1. /\ Lone(d) /\ run'[d].pc = "deposit"
            /\ agg'[d].st = "TokensWrapped" /\ agg'[d].tx = run[d].tx
        BY <1>a, <1>b, <2>2, RunParts
      <3>2. Told(d, run'[d], agg'[d])
        BY <2>1, <2>2, <3>1 DEF Told, Lands
      <3> QED
        BY <1>a, <2>1, <3>1, <3>2, QuietKeeps
    <2> QED
      BY <1>7, <1>a, <2>1, <2>2, ErrsKeepsDeposits DEF ConfirmWrap
  <1>8. CASE SubmitDeposit(d)
    <2>1. agg[d].st \in {"TokensWrapped", "Failed"}
      BY <1>8, <1>a DEF SubmitDeposit, At, Told
    <2>2. agg[d].st = "TokensWrapped" => Wrap(d, agg[d].tx) /\ txs[agg[d].tx].st = "mined"
      BY <1>a DEF Told
    <2>3. CASE Submit(d, "deposit", 1) /\ Holds(d, Len(txs) + 1, "recordDeposit")
      <3>1. Lone(d) /\ run'[d].pc = "recordDeposit" /\ run'[d].tx = Len(txs) + 1 /\ agg' = agg
        BY <1>a, <2>3, RunParts
      <3>2. /\ Deposit(d, run[d].tx)' /\ moved' = moved /\ \A u : Landed(u)' <=> Landed(u)
            /\ \A x \in DOMAIN txs : txs'[x] = txs[x]
            /\ \A x : Wrap(d, x) => Wrap(d, x)'
        BY <1>a, <1>d, <2>3, <3>1, SubmitTells DEF Submit
      <3>3. Told(d, run[d], agg[d])'
        BY <2>1, <2>2, <3>1, <3>2 DEF Told, Wrap
      <3> QED
        BY <1>a, <1>c, <3>1, <3>2, <3>3, LoneKeeps
    <2>4. CASE /\ ~Spends("deposit", 1) /\ UNCHANGED chain
               /\ RecordsLast(d, "DepositedIntoRaindex", 0)
      <3>1. agg[d].st = "TokensWrapped"
        BY <1>a, <1>b, <2>1, <2>4 DEF RecordsLast, Handles
      <3>2. Wallet("wrapped") >= 1 \/ Landed(d)
        BY <2>2, <3>1 DEF Wrap
      <3>3. Landed(d)
        BY <2>4, <3>2 DEF Spends
      <3> QED
        BY <1>a, <1>b, <2>4, <3>3, LastKeepsDeposits
    <2>5. CASE SubmissionFails(d, "deposit") /\ Errs(d)
      <3>1. Lone(d) /\ run'[d] = Idle /\ agg' = agg
        BY <1>a, <2>5, RunParts
      <3>2. /\ moved' = moved /\ \A u : Landed(u)' <=> Landed(u)
            /\ \A x \in DOMAIN txs : txs'[x] = txs[x]
            /\ \A x : Wrap(d, x) => Wrap(d, x)'
        BY <1>a, <1>d, <2>5, FailedTells
      <3>3. Told(d, run[d], agg[d])'
        BY <2>1, <2>2, <3>1, <3>2, IdleTyped DEF Told, Wrap
      <3> QED
        BY <1>a, <1>c, <3>1, <3>2, <3>3, LoneKeeps
    <2> QED
      BY <1>8, <1>a, <2>3, <2>4, <2>5, ErrsKeepsDeposits DEF SubmitDeposit
  <1>9. CASE RecordDeposit(d)
    <2>1. UNCHANGED chain /\ Deposit(d, run[d].tx)
      BY <1>9, <1>a DEF RecordDeposit, At, world, Told
    <2>2. CASE Records(d, "VaultDepositSubmitted", run[d].tx, "confirmDeposit")
      <3>1. /\ Lone(d) /\ run'[d].pc = "confirmDeposit" /\ run'[d].tx = run[d].tx
            /\ agg'[d].st = "VaultDepositSubmitted" /\ agg'[d].tx = run[d].tx
        BY <1>a, <1>b, <2>2, RunParts
      <3>2. Told(d, run'[d], agg'[d])
        BY <2>1, <3>1 DEF Told
      <3> QED
        BY <1>a, <2>1, <3>1, <3>2, QuietKeeps
    <2> QED
      BY <1>9, <1>a, <2>1, <2>2, ErrsKeepsDeposits DEF RecordDeposit
  <1>10. CASE ResumeDeposit(d)
    <2>1. UNCHANGED chain /\ agg[d].st = "VaultDepositSubmitted"
          /\ Holds(d, agg[d].tx, "confirmDeposit")
      BY <1>10 DEF ResumeDeposit, Goes, world
    <2>2. Lone(d) /\ run'[d].pc = "confirmDeposit" /\ run'[d].tx = agg[d].tx /\ agg' = agg
      BY <1>a, <2>1, RunParts
    <2>3. Told(d, run'[d], agg'[d])
      BY <1>a, <2>1, <2>2 DEF Told
    <2> QED
      BY <1>a, <1>c, <2>1, <2>2, <2>3, QuietKeeps
  <1>11. CASE ConfirmDeposit(d)
    <2>1. UNCHANGED chain /\ Deposit(d, run[d].tx)
      BY <1>11, <1>a DEF ConfirmDeposit, At, world, Told
    <2>2. CASE Lands(run[d].tx) /\ RecordsLast(d, "DepositedIntoRaindex", run[d].tx)
      <3>1. Landed(d)
        BY <2>1, <2>2 DEF Lands, Deposit, Landed
      <3> QED
        BY <1>a, <1>b, <2>1, <2>2, <3>1, LastKeepsDeposits
    <2> QED
      BY <1>11, <1>a, <2>1, <2>2, ErrsKeepsDeposits DEF ConfirmDeposit
  <1> QED
    BY <1>1, <1>2, <1>3, <1>4, <1>5, <1>6, <1>7, <1>8, <1>9, <1>10, <1>11 DEF MintStep

(* The steps of a redemption's run, while no mint can be run.              *)
LEMMA RedemptionTells ==
  ASSUME IInv, DepositInv, NEW d \in Redemptions, Live(d), run[d].on = d, RedemptionStep(d)
  PROVE  DepositInv'
  <1>a. d \in Transfers /\ d \notin Mints
    BY EquityTransferAssumption DEF Transfers
  <1>b. UNCHANGED chain \/ \E kind \in Kinds : Submit(d, kind, 1)
    BY DEF RedemptionStep, Redeem, Prepare, SubmitCall, PersistCall, ConfirmCall, SendTokens,
           ConfirmSend, PollDetection, PollCompletion, SubmissionFails, CallOf, Kinds, world
  <1>c. moved' = moved /\ \A u : Landed(u)' <=> Landed(u)
    BY <1>a, <1>b, QuietTells, SubmitTells DEF chain, Submit
  <1>d. \/ Errs(d) \/ \E x, pc : Holds(d, x, pc)
        \/ (\E e, x, pc : Records(d, e, x, pc)) \/ \E e, x : RecordsLast(d, e, x)
    BY DEF RedemptionStep, Redeem, Prepare, SubmitCall, PersistCall, ConfirmCall, SendTokens,
           ConfirmSend, PollDetection, PollCompletion
  <1>e. Lone(d)
    BY <1>a, <1>d, RunParts
  <1> QED
    BY <1>a, <1>c, <1>e, LoneKeeps

(* The steps of a run.                                                     *)
LEMMA JobTells ==
  ASSUME IInv, DepositInv, NEW d \in Drivers, JobStep(d)
  PROVE  DepositInv'
  <1>1. run[d].on \in Transfers
    BY DEF JobStep, NothingLeft, MintStep, RequestMint, RecordRequest, PollMint, SubmitWrap,
           RecordWrap, ResumeWrap, ConfirmWrap, ResumeWrapped, SubmitDeposit, RecordDeposit,
           ResumeDeposit, ConfirmDeposit, RedemptionStep, Redeem, Prepare, SubmitCall,
           PersistCall, ConfirmCall, SendTokens, ConfirmSend, PollDetection, PollCompletion,
           Goes, At
  <1>2. run[d] # Idle
    BY <1>1, EquityTransferAssumption DEF Idle, Jobs
  <1>3. /\ d \in Transfers /\ run[d].on = d /\ Live(d)
        /\ AggInv /\ (run[d].pc \in MintPCs => d \in Mints)
        /\ (run[d].pc \in RedemptionPCs => d \in Redemptions)
    BY <1>2, AtWork DEF IInv, RunInv
  <1>4. CASE NothingLeft(d)
    <2>1. UNCHANGED chain /\ agg' = agg /\ (Ends(d, mem) \/ Errs(d))
      BY <1>4 DEF NothingLeft, Errs, world
    <2>2. CASE Errs(d)
      BY <1>3, <2>1, <2>2, ErrsKeepsDeposits
    <2>3. CASE Ends(d, mem)
      <3>1. Lone(d) /\ row'[d] = "done"
        BY <1>3, <2>1, <2>3, RunParts
      <3>2. ~Live(d)'
        BY <3>1 DEF Live
      <3>3. d \in Mints /\ agg'[d].st = "DepositedIntoRaindex" => Landed(d)
        BY <2>1 DEF DepositInv, Deposited
      <3> QED
        BY <1>3, <2>1, <3>1, <3>2, <3>3, QuietKeeps
    <2> QED
      BY <2>1, <2>2, <2>3
  <1>5. CASE MintStep(d)
    <2>1. d \in Mints
      BY <1>3, <1>5, KindOfState
         DEF MintStep, RequestMint, RecordRequest, PollMint, SubmitWrap, RecordWrap, ResumeWrap,
             ConfirmWrap, ResumeWrapped, SubmitDeposit, RecordDeposit, ResumeDeposit,
             ConfirmDeposit, Goes, At, MintPCs
    <2> QED
      BY <1>3, <1>5, <2>1, MintTells
  <1>6. CASE RedemptionStep(d)
    <2>1. d \in Redemptions
      BY <1>3, <1>6, KindOfState
         DEF RedemptionStep, Redeem, Prepare, SubmitCall, PersistCall, ConfirmCall, SendTokens,
             ConfirmSend, PollDetection, PollCompletion, Goes, At, RedemptionPCs, BeforeSend
    <2> QED
      BY <1>3, <1>6, <2>1, RedemptionTells
  <1> QED
    BY <1>4, <1>5, <1>6 DEF JobStep

(* A step of nobody's run, on a quiet chain: no row becomes live, the runs *)
(* are as they were, and an aggregate at most fails.                       *)
LEMMA AsideKeeps ==
  ASSUME IInv, DepositInv, UNCHANGED chain, UNCHANGED run, UNCHANGED row,
         \A t \in Transfers : agg'[t] = agg[t] \/ agg'[t].st = "Failed"
  PROVE  DepositInv'
  <1>1. /\ moved' = moved /\ txs' = txs
        /\ \A u : Landed(u)' <=> Landed(u)
        /\ \A u, x : Deposit(u, x) => Deposit(u, x)'
        /\ \A u, x : Wrap(u, x) => Wrap(u, x)'
    BY QuietTells DEF chain
  <1>2. Alone'
    BY DEF DepositInv, Alone, Live
  <1>3. ASSUME NEW t \in Mints, Live(t)' PROVE Told(t, run[t], agg[t])'
    <2>1. Told(t, run[t], agg[t]) /\ t \in Transfers
      BY <1>3 DEF Live, DepositInv, Transfers
    <2> QED
      BY <1>1, <2>1 DEF Told
  <1>4. \A t \in Deposited' : Landed(t)'
    BY <1>1 DEF Deposited, DepositInv, Transfers
  <1>5. {u \in Mints : Landed(u)'} = {u \in Mints : Landed(u)}
    BY <1>1
  <1> QED
    BY <1>1, <1>2, <1>3, <1>4, <1>5 DEF DepositInv

(* Every step keeps the invariant.                                         *)
LEMMA NextDeposits ==
  ASSUME ~RecoveryEnabled, MaxOperations = 0, IInv, DepositInv, [Next]_vars
  PROVE  DepositInv'
  <1>a. /\ run \in [Drivers -> RunType] /\ agg \in [Transfers -> AggType]
        /\ row \in [Jobs -> {"none", "ready", "failed", "done", "dead"}]
        /\ \A k \in Recoveries : k \in Jobs /\ k \in Drivers
        /\ \A t \in Transfers : t \in Jobs /\ t \in Drivers /\ t \notin Recoveries
        /\ "operator" \in Drivers /\ Idle.pc = "idle"
        /\ \A j \in Jobs : run[j] # Idle => Live(j)
    BY IdleTyped, EquityTransferAssumption
       DEF IInv, RunInv, AggInv, QueueInv, Drivers, Jobs, Recoveries
  <1>b. /\ \A k \in Recoveries : ~Live(k) /\ run[k] = Idle
        /\ \A t, u \in Transfers : Live(t) /\ Live(u) => t = u
        /\ \A t \in Transfers : run[t] # Idle => run[t].on = t
        /\ run["operator"] = Idle
    BY <1>a DEF DepositInv, Alone
  <1>1. ASSUME NEW t \in Transfers, Trigger(t) PROVE DepositInv'
    <2>1. /\ UNCHANGED chain /\ UNCHANGED run /\ UNCHANGED agg
          /\ agg[t].st = "Absent" /\ row[t] = "none"
          /\ \A u \in Transfers : Live(u) => u \in Zombies
          /\ row' = [u \in Jobs |-> IF u = t THEN "ready"
                                    ELSE IF u \in Zombies THEN "dead" ELSE row[u]]
      BY <1>1 DEF Trigger, world
    <2>2. ~Live(t) /\ run[t] = Idle
      BY <1>a, <2>1 DEF Live
    <2>3. \A u \in Transfers : u # t => ~Live(u)'
      BY <1>a, <2>1 DEF Live
    <2>4. \A k \in Recoveries : ~Live(k)'
      BY <1>a, <1>b, <2>1 DEF Live
    <2>5. Alone'
      BY <1>b, <2>1, <2>3, <2>4 DEF Alone
    <2>6. Told(t, run[t], agg[t])'
      BY <1>a, <2>1, <2>2 DEF Told
    <2>7. /\ \A u : Landed(u)' <=> Landed(u)
          /\ {u \in Mints : Landed(u)'} = {u \in Mints : Landed(u)} /\ moved' = moved
      BY <2>1, QuietTells DEF chain
    <2>8. \A u \in Deposited' : Landed(u)'
      BY <2>1, <2>7 DEF Deposited, DepositInv
    <2> QED
      BY <2>3, <2>5, <2>6, <2>7, <2>8 DEF DepositInv, Transfers
  <1>2. ASSUME NEW t \in Transfers, Start(t) PROVE DepositInv'
    <2>1. /\ UNCHANGED chain /\ agg' = agg /\ row' = row /\ Live(t)
          /\ run'[t].pc = "go" /\ run'[t].on = t
          /\ \A c \in Drivers : c # t => run'[c] = run[c]
      BY <1>2, <1>a DEF Start, world, Idle
    <2>2. Lone(t)
      BY <2>1 DEF Lone
    <2>3. t \in Mints => Told(t, run'[t], agg'[t])
      BY <2>1 DEF Told, DepositInv
    <2>4. t \in Mints /\ agg'[t].st = "DepositedIntoRaindex" => Landed(t)
      BY <2>1 DEF DepositInv, Deposited
    <2> QED
      BY <2>1, <2>2, <2>3, <2>4, QuietKeeps
  <1>3. ASSUME NEW t \in Transfers, Sweep(t) PROVE DepositInv'
    BY <1>3, AsideKeeps DEF Sweep, queueVars, world
  <1>4. CASE SweepClears \/ PollInflight
    BY <1>4, AsideKeeps DEF SweepClears, PollInflight, queueVars, world
  <1>5. CASE SweepFails
    <2> DEFINE t == sweep.t
               e == FailureOf(sweep.stage)
    <2>1. /\ t \in Transfers /\ sweep.stage \in StatesOf(t)
          /\ sweep.stage \notin Terminal \cup {"Absent"}
      BY <1>5 DEF SweepFails, IInv, SweepInv
    <2>2. Table(t)[e].to = "Failed"
      BY <2>1, FailureTable
    <2>3. /\ UNCHANGED chain /\ UNCHANGED run /\ UNCHANGED row
          /\ agg' = [agg EXCEPT ![t] = Evolved(@, Table(t), e, 0)] \/ agg' = agg
      BY <1>5 DEF SweepFails, queueVars, world
    <2>4. Evolved(agg[t], Table(t), e, 0).st = "Failed"
      BY <1>a, <2>1, <2>2 DEF Evolved, AggType
    <2> HIDE DEF t, e
    <2>5. \A u \in Transfers : agg'[u] = agg[u] \/ agg'[u].st = "Failed"
      BY <1>a, <2>1, <2>3, <2>4
    <2> QED
      BY <2>3, <2>5, AsideKeeps
  <1>6. ASSUME NEW d \in Drivers, JobStep(d) PROVE DepositInv'
    BY <1>6, JobTells
  <1>7. ASSUME NEW k \in Recoveries PROVE ~PollWallet(k) /\ ~RecoveryStep(k)
    BY <1>a, <1>b
       DEF PollWallet, RecoveryStep, Claim, NoBalanceSkip, DetectFails, FailRecovery, Detect,
           SubmitOrphan, RecordOrphan, ConfirmOrphan
  <1>8. ~ResumeOrphan
    BY <1>a, <1>b DEF ResumeOrphan, Recoveries
  <1>9. ~Operator
    BY DEF Operator, OperatorResumes, RecheckMint, RecheckRedemption, OperatorCloses, Operates,
           IInv, OutsideInv
  <1>10. CASE Environment
    <2>1. /\ UNCHANGED <<agg, row, run>>
          /\ \A u : Landed(u) => Landed(u)'
          /\ \A u, x : Deposit(u, x) => Deposit(u, x)'
          /\ \A u, x : Wrap(u, x) => /\ Wrap(u, x)'
                                     /\ txs[x].st = "mined" => txs'[x].st = "mined"
          /\ moved'["deposit"] >= Cardinality({u \in Mints : Landed(u)'})
      BY <1>10, ChainTells
         DEF DepositInv, Environment, Mine, Drop, SettleMint, SettleRedemption
    <2>2. Alone'
      BY <2>1 DEF DepositInv, Alone, Live
    <2>3. ASSUME NEW t \in Mints, Live(t)' PROVE Told(t, run[t], agg[t])'
      <3>1. Told(t, run[t], agg[t])
        BY <2>1, <2>3 DEF Live, DepositInv
      <3> QED
        BY <2>1, <3>1 DEF Told
    <2>4. \A t \in Deposited' : Landed(t)'
      BY <2>1 DEF Deposited, DepositInv
    <2> QED
      BY <2>1, <2>2, <2>3, <2>4 DEF DepositInv
  <1>11. CASE Restart
    <2>1. /\ UNCHANGED chain /\ agg' = agg /\ run' = [d \in Drivers |-> Idle]
          /\ row' = [j \in Jobs |-> row[j]]
      BY <1>11 DEF Restart, Due, Enqueued, world
    <2>2. row' = row /\ \A d \in Drivers : run'[d] = Idle
      BY <1>a, <2>1
    <2>3. /\ txs' = txs /\ moved' = moved
          /\ \A u : Landed(u)' <=> Landed(u)
          /\ \A u, x : Deposit(u, x) => Deposit(u, x)'
          /\ \A u, x : Wrap(u, x) => Wrap(u, x)'
          /\ {u \in Mints : Landed(u)'} = {u \in Mints : Landed(u)}
      BY <2>1, QuietTells DEF chain
    <2>4. Alone'
      BY <1>a, <1>b, <2>2 DEF Alone, Live
    <2>5. ASSUME NEW t \in Mints, Live(t)' PROVE Told(t, run[t], agg[t])'
      <3>1. Told(t, run[t], agg[t]) /\ run'[t].pc = "idle"
        BY <1>a, <2>2, <2>5 DEF Live, DepositInv, Transfers
      <3> QED
        BY <2>1, <2>3, <3>1 DEF Told
    <2>6. \A t \in Deposited' : Landed(t)'
      BY <2>1, <2>3 DEF Deposited, DepositInv
    <2> QED
      BY <2>3, <2>4, <2>5, <2>6 DEF DepositInv
  <1>12. CASE UNCHANGED vars
    BY <1>12, AsideKeeps DEF vars, queueVars
  <1> QED
    BY <1>1, <1>2, <1>3, <1>4, <1>5, <1>6, <1>7, <1>8, <1>9, <1>10, <1>11, <1>12 DEF Next

(* Every mint recorded as deposited has a deposit of its own in the vault, *)
(* and the vault got as many tokens: try_deposit_or_recover takes a short  *)
(* balance for a deposit that landed only when one did, however often      *)
(* calls whose answers were lost were repeated, with crashes and the       *)
(* sweep.  Without the recovery jobs and the operator, which spend beside  *)
(* the row.                                                                *)
THEOREM DepositsLanded ==
  ~RecoveryEnabled /\ MaxOperations = 0 /\ Spec
    => [](DepositsBacked /\ \A t \in Deposited : Landed(t))
  <1>1. Init => DepositInv
    <2> SUFFICES ASSUME Init PROVE DepositInv
      OBVIOUS
    <2>1. Alone
      BY EquityTransferAssumption DEF Init, Alone, Live, Drivers, Jobs
    <2>2. \A t \in Mints : ~Live(t) /\ t \notin Deposited
      BY DEF Init, Live, Deposited, Unborn, Jobs, Transfers
    <2>3. \A t : ~Landed(t)
      BY DEF Init, Landed
    <2>4. {t \in Mints : Landed(t)} = {} /\ moved["deposit"] = 0
      BY <2>3 DEF Init, Kinds
    <2>5. Cardinality({}) = 0
      BY FS_EmptySet
    <2>6. moved["deposit"] >= Cardinality({t \in Mints : Landed(t)})
      BY <2>4, <2>5
    <2>7. \A t \in Deposited : Landed(t)
      BY <2>2 DEF Deposited
    <2> QED
      BY <2>1, <2>2, <2>6, <2>7 DEF DepositInv
  <1>2. IInv /\ DepositInv => DepositsBacked /\ \A t \in Deposited : Landed(t)
    <2> SUFFICES ASSUME IInv, DepositInv PROVE DepositsBacked
      BY DEF DepositInv
    <2> DEFINE S == {t \in Mints : Landed(t)}
    <2>1. IsFiniteSet(Mints)
      BY EquityTransferAssumption, FS_Subset DEF Transfers
    <2>2. IsFiniteSet(S) /\ Deposited \subseteq S
      BY <2>1, FS_Subset DEF DepositInv, Deposited
    <2>3. moved["deposit"] >= Cardinality(S) /\ moved["deposit"] \in Nat
      BY ChainFacts DEF DepositInv, Kinds
    <2> HIDE DEF S
    <2>4. Cardinality(Deposited) <= Cardinality(S)
          /\ Cardinality(Deposited) \in Nat /\ Cardinality(S) \in Nat
      BY <2>2, FS_Subset, FS_CardinalityType
    <2> QED
      BY <2>3, <2>4 DEF DepositsBacked
  <1> QED
    <2>1. CASE ~RecoveryEnabled /\ MaxOperations = 0
      <3>1. IInv /\ DepositInv /\ [Next]_vars => DepositInv'
        BY <2>1, NextDeposits
      <3> QED
        BY <1>1, <1>2, <3>1, Invariance, PTL DEF Spec
    <2>2. CASE ~(~RecoveryEnabled /\ MaxOperations = 0)
      BY <2>2
    <2> QED
      BY <2>1, <2>2

=============================================================================
