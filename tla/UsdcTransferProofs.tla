-------------------------- MODULE UsdcTransferProofs --------------------------
(***************************************************************************)
(* Proofs about UsdcTransfer for any set of transfers, any bounds and any  *)
(* directions, with faults, crashes, attempt timeouts and operators.       *)
(*                                                                         *)
(* That a transfer burns at most once is not inductive: the burn is sent   *)
(* by a detached task, its hash reaches the aggregate in a later step, and *)
(* the run that waits for it may die and be driven again.  BurnLife says   *)
(* what each of the three knows of the burn at every step in between: no   *)
(* task before the aggregate reached BridgingSubmitting, no burn before    *)
(* the task's submission, no task once the hash is recorded, and at most   *)
(* one burn that can still take effect.  Sent adds that what a run waits   *)
(* for was sent, so that Latest names a transaction.                       *)
(*                                                                         *)
(* That settled funds arrived rests on Vouched: every hash the aggregate   *)
(* holds is one the chains confirmed, and the chains take nothing back     *)
(* (ChainKept).  That the mint is the one of the transfer's own burn is    *)
(* LegsAreOwn, a hypothesis there, which UsdcGuardProofs discharges where  *)
(* neither the sweep nor an operator interferes.                           *)
(***************************************************************************)
EXTENDS UsdcTransfer, FiniteSetTheorems, TLAPS

(* The transaction i is the last one of its kind that t sent.              *)
IsLast(t, kind, i) == i \in Of(t, kind) /\ \A j \in Of(t, kind) : j <= i

HasLast(t, kind) == \E i \in DOMAIN txs : IsLast(t, kind, i)

(* The states from which a first burn of the transfer is still to come.    *)
PreBurn(t) ==
    \/ agg[t].st \in {"Absent", "WithdrawalSubmitting", "Withdrawing", "WithdrawalComplete"}
    \/ dir[t] = A2B /\ agg[t].st \in {"Converting", "ConversionComplete"}

(* No burn of t other than b, its last, can take effect.                   *)
OnlyBurn(t, b) ==
    /\ IsLast(t, "burn", b)
    /\ \A i \in Of(t, "burn") : txs[i].st \in {"pending", "mined"} => i = b

(* Of the burns of t at most one has taken effect or still can.            *)
OneBurn(t) ==
    \A i, j \in Of(t, "burn") :
        txs[i].st \in {"pending", "mined"} /\ txs[j].st \in {"pending", "mined"} => i = j

(* What a run, the task and the aggregate know of the burns of t.          *)
BurnLife(t) ==
    /\ PreBurn(t) => task[t] = "none" /\ run[t].pc # "spawn" /\ ~Burned(t)
    /\ run[t].pc = "spawn" => task[t] = "none" /\ ~Burned(t)
    /\ task[t] = "submit" => ~Burned(t)
    /\ task[t] = "record" => \E i \in DOMAIN txs : OnlyBurn(t, i)
    /\ run[t].pc = "confirm" => agg[t].pending # 0
    /\ agg[t].pending # 0 => /\ task[t] = "none" /\ agg[t].st = "BridgingSubmitting"
                             /\ OnlyBurn(t, agg[t].pending)
    /\ OneBurn(t)

(* The transaction that a run waits for was sent.                          *)
Awaited(t) ==
    /\ run[t].pc = "withdraw" /\ dir[t] = A2B => HasLast(t, "alpaca")
    /\ run[t].pc = "withdraw" /\ dir[t] = B2A =>
          HasLast(t, "withdraw") /\ agg[t].st = "WithdrawalSubmitting"
    /\ run[t].pc = "vault" => agg[t].st = "WithdrawalSubmitting"
    /\ run[t].pc = "deposit" => HasLast(t, "deposit") /\ dir[t] = A2B
    /\ run[t].pc = "sending" => HasLast(t, "send")

(* So was the withdrawal on record; only the vault's has an intent.        *)
Sent(t) ==
    /\ Awaited(t)
    /\ agg[t].st = "WithdrawalSubmitting" => dir[t] = B2A
    /\ agg[t].st \in {"Withdrawing", "WithdrawalComplete"} => agg[t].wtx \in DOMAIN txs

(* The inductive invariant.                                                *)
Inv == TypeOK /\ \A t \in Transfers : Sent(t) /\ BurnLife(t)

-----------------------------------------------------------------------------
(* The type invariant by parts: what a run leaves, what a command leaves.  *)

RunType == [pc : PCs, fresh : BOOLEAN, try : 1..2, who : {"bot", "cli"}]

AggType == [st : States, from : Nat, pending : Nat, burn : Nat,
            scan : Nat, mint : Nat, wtx : Nat, dep : Nat]

QueueTyped ==
    /\ row \in [Transfers -> {"none", "claimed", "ready", "failed", "done", "dead"}]
    /\ attempts \in [Transfers -> 0..MaxAttempts]
    /\ redrives \in [Transfers -> 0..MaxRedrives]
    /\ run \in [Transfers -> RunType]

MemoryTyped ==
    /\ guard \in BOOLEAN
    /\ tracked \in [Transfers -> {"none", "conv", "withdraw", "burned"}]
    /\ inflight \in [{A2B, B2A} -> Nat]
    /\ timedOut \subseteq Transfers
    /\ robbed \in BOOLEAN

AggTyped == agg \in [Transfers -> AggType]

RestTyped ==
    /\ dir \in [Transfers -> {A2B, B2A}]
    /\ task \in [Transfers -> {"none", "submit", "record"}]
    /\ conv \in [Transfers -> {"none", "filled", "failed"}]
    /\ faults \in 0..MaxFaults
    /\ crashes \in 0..MaxCrashes

(* The parts are the whole.                                                *)
LEMMA TypeParts == TypeOK <=> /\ QueueTyped /\ MemoryTyped /\ AggTyped /\ RestTyped
                              /\ txs \in Seq(Tx)
  BY DEF TypeOK, QueueTyped, MemoryTyped, AggTyped, RestTyped, RunType, AggType

(* What the command table promises of every command.                       *)
LEMMA CommandTable ==
    /\ \A c \in Commands : EvolvesTo[c] \in States
    /\ \A c \in Commands \ {"Initiate", "ConfirmWithdrawal"} :
          /\ EvolvesTo[c] \in {"Absent", "WithdrawalSubmitting", "Withdrawing",
                               "WithdrawalComplete"} => HandledIn[c] = {"Absent"}
          /\ EvolvesTo[c] \notin {"Withdrawing", "WithdrawalComplete"}
    /\ \A c \in Commands :
          EvolvesTo[c] \in {"Converting", "ConversionComplete"} =>
             \/ c = "InitiatePostDepositConversion"
             \/ HandledIn[c] \subseteq {"Absent", "Converting"}
    /\ \A c \in Commands : EvolvesTo[c] = "WithdrawalSubmitting" => c = "BeginWithdrawal"
    /\ HandledIn["ConfirmWithdrawal"] = {"Withdrawing"}
    /\ EvolvesTo["Initiate"] = "Withdrawing"
  BY DEF Commands, EvolvesTo, HandledIn, States

(* End leaves the run idle and the queues typed, whatever the outcome.     *)
LEMMA Ends ==
    ASSUME TypeOK, NEW t \in Transfers, NEW outcome, End(t, outcome)
    PROVE  QueueTyped' /\ run' = [run EXCEPT ![t] = Idle]
  <1> USE UsdcTransferAssumption DEF TypeOK, QueueTyped, RunType
  <1>1. run' = [run EXCEPT ![t] = Idle]
    BY DEF End
  <1>2. Idle \in RunType
    BY DEF Idle, PCs
  <1>3. run' \in [Transfers -> RunType]
    BY <1>1, <1>2
  <1>4. CASE run[t].who = "cli"
    BY <1>3, <1>4, <1>1 DEF End, queueVars
  <1>5. CASE run[t].who # "cli"
    <2>1. row' \in [Transfers -> {"none", "claimed", "ready", "failed", "done", "dead"}]
      BY <1>5 DEF End
    <2>2. attempts' \in [Transfers -> 0..MaxAttempts]
      <3>1. \/ attempts' = [attempts EXCEPT ![t] = 0]
            \/ /\ attempts' = [attempts EXCEPT ![t] = attempts[t] + 1]
               /\ ~(attempts[t] + 1 >= MaxAttempts)
        BY <1>5 DEF End
      <3>2. MaxAttempts \in Nat \ {0} /\ attempts \in [Transfers -> 0..MaxAttempts]
        OBVIOUS
      <3> HIDE UsdcTransferAssumption DEF TypeOK
      <3> QED BY <3>1, <3>2
    <2>3. redrives' \in [Transfers -> 0..MaxRedrives]
      <3>1. \/ redrives' = [redrives EXCEPT ![t] = redrives[t]]
            \/ /\ redrives' = [redrives EXCEPT ![t] = redrives[t] + 1]
               /\ ~(redrives[t] >= MaxRedrives)
        BY <1>5 DEF End
      <3>2. MaxRedrives \in Nat /\ redrives \in [Transfers -> 0..MaxRedrives]
        OBVIOUS
      <3> HIDE UsdcTransferAssumption DEF TypeOK
      <3> QED BY <3>1, <3>2
    <2> QED BY <2>1, <2>2, <2>3, <1>3, <1>1
  <1> QED BY <1>4, <1>5

(* Continue moves the program counter of one run.                          *)
LEMMA Continues ==
    ASSUME TypeOK, NEW t \in Transfers, NEW pc \in PCs, NEW fresh \in BOOLEAN,
           Continue(t, pc, fresh)
    PROVE  /\ QueueTyped' /\ run'[t].pc = pc
           /\ \A u \in Transfers : u # t => run'[u] = run[u]
  <1> USE DEF TypeOK, QueueTyped, RunType
  <1>1. run' = [run EXCEPT ![t].pc = pc, ![t].fresh = fresh] /\ UNCHANGED queueVars
    BY DEF Continue
  <1>2. run' \in [Transfers -> RunType]
    BY <1>1
  <1> QED BY <1>1, <1>2 DEF queueVars

(* The reactor keeps the service's memory typed, whatever the event.       *)
LEMMA Reacts ==
    ASSUME TypeOK, NEW t \in Transfers, NEW c, React(t, c)
    PROVE  MemoryTyped'
  <1>0. MemoryTyped /\ dir[t] \in {A2B, B2A}
    BY DEF TypeOK, MemoryTyped
  <1>1. guard' \in BOOLEAN
    BY <1>0, Zenon DEF React, memoryVars, MemoryTyped
  <1>2. Stage(t, c) \in {"none", "conv", "withdraw", "burned"}
    BY <1>0 DEF Stage, MemoryTyped
  <1>3. tracked' \in [Transfers -> {"none", "conv", "withdraw", "burned"}]
    BY <1>0, <1>2 DEF React, memoryVars, MemoryTyped
  <1>4. inflight' \in [{A2B, B2A} -> Nat]
    BY <1>0 DEF React, memoryVars, MemoryTyped, Less, A2B, B2A
  <1>5. timedOut' \subseteq Transfers
    BY <1>0 DEF React, memoryVars, MemoryTyped
  <1>6. robbed' \in BOOLEAN
    BY <1>0 DEF React, memoryVars, MemoryTyped
  <1> QED BY <1>1, <1>3, <1>4, <1>5, <1>6 DEF MemoryTyped

(* The write of a command that the aggregate handles.                      *)
Evolved(t, c, ref) == agg' = [agg EXCEPT ![t] = Evolve(@, c, ref)]

(* What a command that is handled leaves of the aggregate.                 *)
LEMMA Evolves ==
    ASSUME TypeOK, NEW t \in Transfers, NEW c \in Commands, NEW ref \in Nat,
           Evolved(t, c, ref)
    PROVE  /\ AggTyped'
           /\ \A u \in Transfers : u # t => agg'[u] = agg[u]
           /\ agg'[t].st = EvolvesTo[c]
           /\ agg'[t].pending = IF c = "RecordPendingBurn" THEN ref ELSE 0
           /\ agg'[t].wtx = IF c = "Initiate" THEN ref ELSE agg[t].wtx
           /\ agg'[t].burn = IF c = "InitiateBridging" THEN ref ELSE agg[t].burn
           /\ agg'[t].mint = IF c \in {"ConfirmBridging", "RecoverBridging"} THEN ref
                             ELSE agg[t].mint
           /\ agg'[t].dep = IF c = "InitiateDeposit" THEN ref ELSE agg[t].dep
  <1>1. EvolvesTo[c] \in States
    BY CommandTable
  <1>2. agg \in [Transfers -> AggType]
    BY DEF TypeOK, AggType
  <1>3. agg[t] \in AggType
    BY <1>2
  <1>4. /\ Evolve(agg[t], c, ref) \in AggType
        /\ Evolve(agg[t], c, ref).st = EvolvesTo[c]
        /\ Evolve(agg[t], c, ref).pending = IF c = "RecordPendingBurn" THEN ref ELSE 0
        /\ Evolve(agg[t], c, ref).wtx = IF c = "Initiate" THEN ref ELSE agg[t].wtx
        /\ Evolve(agg[t], c, ref).burn = IF c = "InitiateBridging" THEN ref ELSE agg[t].burn
        /\ Evolve(agg[t], c, ref).mint =
              IF c \in {"ConfirmBridging", "RecoverBridging"} THEN ref ELSE agg[t].mint
        /\ Evolve(agg[t], c, ref).dep = IF c = "InitiateDeposit" THEN ref ELSE agg[t].dep
    BY <1>1, <1>2, <1>3 DEF Evolve, AggType
  <1> QED BY <1>2, <1>4 DEF AggTyped, Evolved

(* A command of a run is handled, evolves the aggregate and is reacted to. *)
LEMMA Sends ==
    ASSUME TypeOK, NEW t \in Transfers, NEW c \in Commands, NEW ref \in Nat, Send(t, c, ref)
    PROVE  /\ AggTyped' /\ MemoryTyped'
           /\ \A u \in Transfers : u # t => agg'[u] = agg[u]
           /\ Handles(agg[t], c, dir[t])
           /\ agg'[t].st = EvolvesTo[c]
           /\ agg'[t].pending = IF c = "RecordPendingBurn" THEN ref ELSE 0
           /\ agg'[t].wtx = IF c = "Initiate" THEN ref ELSE agg[t].wtx
  <1>1. Evolved(t, c, ref) /\ React(t, c) /\ Handles(agg[t], c, dir[t])
    BY DEF Send, Evolved
  <1> QED BY <1>1, Evolves, Reacts

-----------------------------------------------------------------------------
(* The chains.  What every step of the model leaves of the transactions:   *)
(* none disappears or changes hands, one that cannot take effect any more  *)
(* never does, one that has keeps it, and at most one is added.            *)
ChainKept ==
    /\ txs' \in Seq(Tx)
    /\ DOMAIN txs \subseteq DOMAIN txs'
    /\ \A i \in DOMAIN txs :
          /\ txs'[i].by = txs[i].by /\ txs'[i].kind = txs[i].kind /\ txs'[i].burn = txs[i].burn
          /\ txs'[i].st \in {"pending", "mined"} => txs[i].st \in {"pending", "mined"}
          /\ txs[i].st = "mined" => txs'[i].st = "mined"
    /\ \A i \in DOMAIN txs' \ DOMAIN txs : \A j \in DOMAIN txs' : j <= i

(* The step sends no burn for u.                                           *)
NoNewBurn(u) ==
    \A i \in DOMAIN txs' \ DOMAIN txs : ~(txs'[i].by = u /\ txs'[i].kind = "burn")

(* A step that leaves the transactions alone.                              *)
LEMMA ChainsIdle ==
    ASSUME TypeOK, UNCHANGED txs
    PROVE  ChainKept /\ \A u \in Transfers : NoNewBurn(u)
  BY DEF TypeOK, ChainKept, NoNewBurn

(* A transaction is added at the end.                                      *)
LEMMA Appends ==
    ASSUME TypeOK, NEW x \in Tx, txs' = Append(txs, x)
    PROVE  /\ ChainKept
           /\ DOMAIN txs' = DOMAIN txs \cup {Len(txs) + 1} /\ txs'[Len(txs) + 1] = x
           /\ \A i \in DOMAIN txs : txs'[i] = txs[i] /\ i # Len(txs) + 1
           /\ \A u \in Transfers : x.by # u \/ x.kind # "burn" => NoNewBurn(u)
  <1> USE DEF TypeOK
  <1>1. /\ txs \in Seq(Tx) /\ txs' \in Seq(Tx)
        /\ DOMAIN txs = 1..Len(txs) /\ DOMAIN txs' = 1..(Len(txs) + 1) /\ Len(txs) \in Nat
        /\ txs'[Len(txs) + 1] = x /\ \A i \in 1..Len(txs) : txs'[i] = txs[i]
    OBVIOUS
  <1> HIDE DEF TypeOK
  <1> QED BY <1>1 DEF ChainKept, NoNewBurn

(* A broadcast adds a pending transaction of t.                            *)
LEMMA Broadcasts ==
    ASSUME TypeOK, NEW t \in Transfers, NEW kind \in Kinds, NEW b \in Nat, Broadcast(t, kind, b)
    PROVE  /\ ChainKept
           /\ HasLast(t, kind)'
           /\ \E n \in DOMAIN txs' \ DOMAIN txs : IsLast(t, kind, n)'
           /\ \A u \in Transfers : t # u \/ kind # "burn" => NoNewBurn(u)
  <1> DEFINE x == [kind |-> kind, by |-> t, burn |-> b, st |-> "pending", at |-> 0]
  <1>1. x \in Tx /\ x.by = t /\ x.kind = kind
    BY DEF Tx
  <1>2. txs' = Append(txs, x)
    BY DEF Broadcast
  <1> HIDE DEF x
  <1>3. /\ ChainKept
        /\ DOMAIN txs' = DOMAIN txs \cup {Len(txs) + 1} /\ txs'[Len(txs) + 1] = x
        /\ \A u \in Transfers : t # u \/ kind # "burn" => NoNewBurn(u)
    BY <1>1, <1>2, Appends
  <1>4. Len(txs) + 1 \in DOMAIN txs' /\ Len(txs) + 1 \notin DOMAIN txs
    BY <1>3 DEF TypeOK
  <1>5. \A n \in {Len(txs) + 1} : IsLast(t, kind, n)'
    BY <1>1, <1>3, <1>4 DEF IsLast, Of, ChainKept
  <1> QED BY <1>3, <1>4, <1>5 DEF HasLast

(* The chain head is a number: finitely many transactions are settled.     *)
LEMMA HeightIsNat == TypeOK => Height \in Nat
  <1> SUFFICES ASSUME TypeOK PROVE Height \in Nat
    OBVIOUS
  <1> DEFINE S == {i \in DOMAIN txs : txs[i].st \in {"mined", "reverted"}}
  <1>1. S \subseteq 1..Len(txs) /\ Len(txs) \in Nat
    BY DEF TypeOK
  <1>2. IsFiniteSet(1..Len(txs))
    BY <1>1, FS_Interval
  <1>3. IsFiniteSet(S)
    BY <1>1, <1>2, FS_Subset
  <1> HIDE DEF S
  <1>4. Cardinality(S) \in Nat
    BY <1>3, FS_CardinalityType
  <1> QED BY <1>4 DEF S, Height

(* A pending transaction is mined, reverted or dropped.                    *)
LEMMA Becomes ==
    ASSUME TypeOK, NEW i \in DOMAIN txs, NEW st \in {"mined", "reverted", "dropped"},
           txs[i].st = "pending", Become(i, st)
    PROVE  ChainKept /\ \A u \in Transfers : NoNewBurn(u)
  <1> DEFINE h == IF st = "dropped" THEN 0 ELSE Height + 1
  <1>1. h \in Nat
    BY HeightIsNat
  <1>2. txs' = [txs EXCEPT ![i].st = st, ![i].at = h]
    BY DEF Become
  <1> HIDE DEF h
  <1>3. /\ txs \in Seq(Tx) /\ txs \in [1..Len(txs) -> Tx] /\ Len(txs) \in Nat
        /\ DOMAIN txs = 1..Len(txs)
    BY DEF TypeOK
  <1>4. /\ txs' \in [1..Len(txs) -> Tx]
        /\ txs'[i].by = txs[i].by /\ txs'[i].kind = txs[i].kind /\ txs'[i].burn = txs[i].burn
        /\ txs'[i].st = st /\ \A j \in DOMAIN txs : j # i => txs'[j] = txs[j]
    BY <1>1, <1>2, <1>3 DEF Tx
  <1>5. txs' \in Seq(Tx) /\ DOMAIN txs' = DOMAIN txs
    BY <1>3, <1>4
  <1> QED BY <1>4, <1>5 DEF ChainKept, NoNewBurn

-----------------------------------------------------------------------------
(* The last transaction of a kind is the one that CHOOSE picks.            *)
LEMMA LatestIsLast ==
    ASSUME TypeOK, NEW t \in Transfers, NEW kind, NEW i \in DOMAIN txs, IsLast(t, kind, i)
    PROVE  Latest(t, kind) = i
  <1>1. DOMAIN txs \subseteq Nat
    BY DEF TypeOK
  <1>2. \A k \in Of(t, kind) : (\A j \in Of(t, kind) : j <= k) => k = i
    BY <1>1 DEF IsLast, Of
  <1>3. i \in Of(t, kind) /\ \A j \in Of(t, kind) : j <= i
    BY DEF IsLast
  <1> QED BY <1>2, <1>3 DEF Latest

(* While the chains are kept, a last transaction stays there or a later    *)
(* one of its kind replaces it.                                            *)
LEMMA KeepsLast ==
    ASSUME TypeOK, ChainKept, NEW u \in Transfers, NEW kind, HasLast(u, kind)
    PROVE  HasLast(u, kind)'
  <1>1. PICK i \in DOMAIN txs : IsLast(u, kind, i)
    BY DEF HasLast
  <1>2. CASE \E n \in DOMAIN txs' \ DOMAIN txs : txs'[n].by = u /\ txs'[n].kind = kind
    BY <1>2 DEF HasLast, IsLast, Of, ChainKept
  <1>3. CASE ~\E n \in DOMAIN txs' \ DOMAIN txs : txs'[n].by = u /\ txs'[n].kind = kind
    <2>1. i \in DOMAIN txs' /\ IsLast(u, kind, i)'
      BY <1>1, <1>3 DEF IsLast, Of, ChainKept
    <2> QED BY <2>1 DEF HasLast
  <1> QED BY <1>2, <1>3

(* While no burn of u is added, what holds of the burns of u stays.        *)
LEMMA KeepsBurns ==
    ASSUME TypeOK, ChainKept, NEW u \in Transfers, NoNewBurn(u)
    PROVE  /\ Burned(u)' => Burned(u)
           /\ OneBurn(u) => OneBurn(u)'
           /\ \A b \in Nat : OnlyBurn(u, b) => OnlyBurn(u, b)'
           /\ (\E b \in DOMAIN txs : OnlyBurn(u, b)) => (\E b \in DOMAIN txs : OnlyBurn(u, b))'
  <1>1. /\ \A i \in DOMAIN txs' : i \in Of(u, "burn")' => i \in Of(u, "burn")
        /\ \A i \in Of(u, "burn") : i \in Of(u, "burn")' /\ i \in DOMAIN txs
        /\ \A i \in Of(u, "burn") :
              txs'[i].st \in {"pending", "mined"} => txs[i].st \in {"pending", "mined"}
        /\ \A i : i \in Of(u, "burn")' => i \in DOMAIN txs'
    BY DEF Of, ChainKept, NoNewBurn
  <1>2. Burned(u)' => Burned(u)
    BY <1>1 DEF Burned
  <1>3. OneBurn(u) => OneBurn(u)'
    BY <1>1 DEF OneBurn
  <1>4. \A b : OnlyBurn(u, b) => OnlyBurn(u, b)' /\ b \in DOMAIN txs'
    BY <1>1 DEF OnlyBurn, IsLast
  <1> QED BY <1>2, <1>3, <1>4

(* A step that is none of u's leaves what is known of u.                   *)
LEMMA Frame ==
    ASSUME TypeOK, ChainKept, NEW u \in Transfers, NoNewBurn(u), Sent(u), BurnLife(u),
           agg'[u] = agg[u], run'[u].pc = run[u].pc, task'[u] = task[u], dir'[u] = dir[u]
    PROVE  Sent(u)' /\ BurnLife(u)'
  <1>1. PreBurn(u)' <=> PreBurn(u)
    BY DEF PreBurn
  <1>2. Sent(u)'
    BY KeepsLast DEF Sent, Awaited, ChainKept
  <1>3. agg[u].pending \in Nat
    BY DEF TypeOK
  <1>4. BurnLife(u)'
    BY <1>1, <1>3, KeepsBurns DEF BurnLife
  <1> QED BY <1>2, <1>4

-----------------------------------------------------------------------------
(* A quiet step of t: it adds no burn, keeps the task, and leaves the      *)
(* aggregate as it was or in a state from which no burn is nearer.         *)
QuietAgg(t) ==
    /\ AggTyped' /\ MemoryTyped'
    /\ \A u \in Transfers : u # t => agg'[u] = agg[u]
    /\ \/ agg'[t] = agg[t]
       \/ /\ agg'[t].pending = 0
          /\ PreBurn(t)' => PreBurn(t)
          /\ agg'[t].st = "WithdrawalSubmitting" => dir[t] = B2A
          /\ agg'[t].st \in {"Withdrawing", "WithdrawalComplete"} => agg'[t].wtx \in DOMAIN txs

(* The run neither spawns a burn nor waits for a recorded one after it.    *)
QuietRun(t) ==
    /\ QueueTyped'
    /\ \A u \in Transfers : u # t => run'[u] = run[u]
    /\ run'[t].pc \notin {"spawn", "confirm"} /\ Awaited(t)'

QuietChain == ChainKept /\ \A u \in Transfers : NoNewBurn(u)

Quiet(t) == UNCHANGED <<dir, task>> /\ RestTyped' /\ QuietAgg(t) /\ QuietRun(t) /\ QuietChain

(* A step of t keeps the invariant if it keeps what is known of t.         *)
LEMMA OwnStepKeeps ==
    ASSUME Inv, NEW t \in Transfers, UNCHANGED dir, ChainKept,
           QueueTyped', MemoryTyped', AggTyped', RestTyped',
           \A u \in Transfers : u # t => /\ agg'[u] = agg[u] /\ run'[u].pc = run[u].pc
                                         /\ task'[u] = task[u] /\ NoNewBurn(u),
           Sent(t)', BurnLife(t)'
    PROVE  Inv'
  <1>1. TypeOK'
    <2>1. txs' \in Seq(Tx)
      BY DEF ChainKept
    <2> QED BY <2>1 DEF TypeOK, QueueTyped, MemoryTyped, AggTyped, RestTyped, RunType, AggType
  <1>2. ASSUME NEW u \in Transfers, u # t PROVE Sent(u)' /\ BurnLife(u)'
    BY <1>2, Frame DEF Inv
  <1> QED BY <1>1, <1>2 DEF Inv

(* A quiet step keeps the invariant.                                       *)
LEMMA QuietKeeps ==
    ASSUME Inv, NEW t \in Transfers, Quiet(t)
    PROVE  Inv'
  <1> USE DEF Inv, Quiet, QuietAgg, QuietRun, QuietChain
  <1>1. Sent(t)'
    BY DEF Sent, ChainKept
  <1>2. BurnLife(t)'
    <2>1. /\ PreBurn(t)' => PreBurn(t)
          /\ agg'[t].pending = 0 \/ agg'[t] = agg[t]
      BY DEF PreBurn
    <2>2. task'[t] = task[t] /\ agg[t].pending \in Nat
      BY DEF TypeOK
    <2> QED BY <2>1, <2>2, KeepsBurns DEF BurnLife
  <1> QED BY <1>1, <1>2, OwnStepKeeps

(* A run may come to submit a burn when no burn of t can take effect and   *)
(* no task is about to send one.                                           *)
LEMMA SpawnKeeps ==
    ASSUME Inv, NEW t \in Transfers, UNCHANGED <<dir, task>>, RestTyped', QuietAgg(t), QuietChain,
           QueueTyped', \A u \in Transfers : u # t => run'[u] = run[u],
           run'[t].pc = "spawn", ~PreBurn(t)', ~Burned(t), task[t] = "none"
    PROVE  Inv'
  <1> USE DEF Inv, QuietAgg, QuietChain
  <1>1. Sent(t)'
    BY DEF Sent, Awaited, ChainKept
  <1>2. BurnLife(t)'
    <2>1. agg[t].pending \in Nat
      BY DEF TypeOK
    <2> QED BY <2>1, KeepsBurns DEF BurnLife
  <1> QED BY <1>1, <1>2, OwnStepKeeps

(* Commands that bring no burn nearer, from a run or from the CLI.         *)
LEMMA QuietEvolves ==
    ASSUME Inv, UNCHANGED dir, NEW t \in Transfers,
           NEW c \in Commands \ {"RecordPendingBurn", "Initiate"}, NEW ref \in Nat,
           Handles(agg[t], c, dir[t]), Evolved(t, c, ref),
           MemoryTyped', c = "BeginWithdrawal" => dir[t] = B2A
    PROVE  QuietAgg(t)
  <1>1. /\ AggTyped' /\ \A u \in Transfers : u # t => agg'[u] = agg[u]
        /\ agg'[t].st = EvolvesTo[c] /\ agg'[t].pending = 0 /\ agg'[t].wtx = agg[t].wtx
    <2>1. TypeOK /\ c \in Commands /\ c # "RecordPendingBurn" /\ c # "Initiate"
      BY DEF Inv
    <2> QED BY <2>1, Evolves
  <1>2. PreBurn(t)' => PreBurn(t)
    BY <1>1, CommandTable DEF PreBurn, Handles, A2B, B2A
  <1>3. agg'[t].st \in {"Withdrawing", "WithdrawalComplete"} => agg'[t].wtx \in DOMAIN txs
    BY <1>1, CommandTable DEF Handles, Inv, Sent
  <1>4. agg'[t].st = "WithdrawalSubmitting" => dir[t] = B2A
    BY <1>1, CommandTable
  <1> QED BY <1>1, <1>2, <1>3, <1>4 DEF QuietAgg

(* The same for what a run sends.                                          *)
LEMMA QuietSends ==
    ASSUME Inv, UNCHANGED dir, NEW t \in Transfers,
           NEW c \in Commands \ {"RecordPendingBurn", "Initiate"}, NEW ref \in Nat,
           Send(t, c, ref), c = "BeginWithdrawal" => dir[t] = B2A
    PROVE  QuietAgg(t)
  <1>1. MemoryTyped'
    BY Reacts DEF Inv, Send
  <1>2. Evolved(t, c, ref) /\ Handles(agg[t], c, dir[t])
    BY DEF Send, Evolved
  <1> QED BY <1>1, <1>2, QuietEvolves

(* A withdrawal is put on record before any burn.                          *)
LEMMA QuietInitiates ==
    ASSUME Inv, NEW t \in Transfers, NEW ref \in DOMAIN txs, PreBurn(t), Send(t, "Initiate", ref)
    PROVE  QuietAgg(t)
  <1>1. "Initiate" \in Commands /\ ref \in Nat
    BY DEF Commands, HandledIn, Inv, TypeOK
  <1> QED BY <1>1, Sends, CommandTable DEF Inv, QuietAgg

(* No command.                                                             *)
LEMMA QuietSilence ==
    ASSUME Inv, NEW t \in Transfers, NoCommand
    PROVE  QuietAgg(t)
  <1>1. TypeOK
    BY DEF Inv
  <1>2. AggTyped /\ MemoryTyped
    BY <1>1, TypeParts
  <1>3. MemoryTyped'
    BY <1>2 DEF NoCommand, memoryVars, MemoryTyped
  <1> QED BY <1>2, <1>3 DEF NoCommand, memoryVars, AggTyped, QuietAgg

(* The run ends.                                                           *)
LEMMA QuietEnds ==
    ASSUME Inv, NEW t \in Transfers, NEW outcome, End(t, outcome)
    PROVE  QuietRun(t)
  <1>1. QueueTyped' /\ run' = [run EXCEPT ![t] = Idle] /\ run \in [Transfers -> RunType]
    BY Ends DEF Inv, TypeOK, RunType
  <1>2. run'[t].pc = "idle" /\ \A u \in Transfers : u # t => run'[u] = run[u]
    BY <1>1 DEF Idle
  <1> QED BY <1>1, <1>2 DEF QuietRun, Awaited

(* The run goes on to a step that waits for no transaction.                *)
LEMMA QuietContinues ==
    ASSUME Inv, NEW t \in Transfers, NEW fresh \in BOOLEAN,
           NEW pc \in PCs \ {"spawn", "confirm", "vault", "withdraw", "deposit", "sending"},
           Continue(t, pc, fresh)
    PROVE  QuietRun(t)
  BY Continues DEF Inv, QuietRun, Awaited

(* Nothing or something other than a burn is sent.                         *)
LEMMA QuietWorld ==
    ASSUME Inv, NEW t \in Transfers
    PROVE  /\ UNCHANGED txs => QuietChain
           /\ \A kind \in Kinds \ {"burn"}, b \in Nat :
                 Broadcast(t, kind, b) => QuietChain /\ HasLast(t, kind)'
  BY ChainsIdle, Broadcasts DEF Inv, QuietChain

(* The bounds on faults and crashes.                                       *)
LEMMA QuietRest ==
    ASSUME Inv, UNCHANGED <<dir, crashes>>, task' = task, Fault \/ NoFault,
           conv' \in [Transfers -> {"none", "filled", "failed"}]
    PROVE  RestTyped'
  <1>1. MaxFaults \in Nat
    BY UsdcTransferAssumption
  <1> QED BY <1>1 DEF Inv, TypeOK, RestTyped, Fault, NoFault

(* The names and types that the quiet steps go through.                    *)
LEMMA QuietNames ==
    /\ {"InitiateConversion", "ConfirmConversion", "FailConversion",
        "InitiatePostDepositConversion", "BeginWithdrawal", "ConfirmWithdrawal",
        "FailWithdrawal", "BeginBridging", "ClearPendingBurn", "InitiateBridging",
        "ReceiveAttestation", "TimeoutAttestation", "ConfirmBridging", "FailBridging",
        "RecoverBridging", "InitiateDeposit", "ConfirmDeposit", "FailDeposit",
        "ReconcileStuckRebalance"} = Commands \ {"RecordPendingBurn", "Initiate"}
    /\ {"idle", "go", "convert", "converted", "task", "mint", "minting"} =
          PCs \ {"spawn", "confirm", "vault", "withdraw", "deposit", "sending"}
    /\ {"alpaca", "withdraw", "mint", "deposit", "send"} = Kinds \ {"burn"}
  BY DEF Commands, HandledIn, PCs, Kinds

(* The conversion steps of a run are quiet.                                *)
LEMMA QuietConversion ==
    ASSUME Inv, NEW t \in Transfers,
           \/ BeginConversion(t) \/ PlaceConversion(t)
           \/ RecordConversion(t) \/ ResumeConverting(t)
    PROVE  Quiet(t)
  <1>0. conv \in [Transfers -> {"none", "filled", "failed"}] /\ 0 \in Nat
    BY DEF Inv, TypeOK
  <1> USE <1>0, QuietNames, QuietSends, QuietSilence, QuietEnds, QuietContinues, QuietWorld,
          QuietRest DEF Quiet, At, Sees, worldVars
  <1>1. CASE BeginConversion(t)
    BY <1>1 DEF BeginConversion
  <1>2. CASE PlaceConversion(t)
    BY <1>2 DEF PlaceConversion
  <1>3. CASE RecordConversion(t)
    BY <1>3 DEF RecordConversion
  <1>4. CASE ResumeConverting(t)
    BY <1>4 DEF ResumeConverting
  <1> QED BY <1>1, <1>2, <1>3, <1>4

(* The run goes on to wait for what was just sent, or for the vault.       *)
LEMMA QuietWaits ==
    ASSUME Inv, UNCHANGED dir, NEW t \in Transfers, NEW fresh \in BOOLEAN,
           NEW pc \in {"vault", "withdraw", "deposit", "sending"}, Continue(t, pc, fresh),
           pc = "withdraw" /\ dir[t] = A2B => HasLast(t, "alpaca")',
           pc = "withdraw" /\ dir[t] = B2A =>
              HasLast(t, "withdraw")' /\ agg'[t].st = "WithdrawalSubmitting",
           pc = "vault" => agg'[t].st = "WithdrawalSubmitting",
           pc = "deposit" => HasLast(t, "deposit")' /\ dir[t] = A2B,
           pc = "sending" => HasLast(t, "send")'
    PROVE  QuietRun(t)
  <1>1. pc \in PCs
    BY DEF PCs
  <1> QED BY <1>1, Continues DEF Inv, QuietRun, Awaited

(* The withdrawal steps of a run are quiet.                                *)
LEMMA QuietWithdrawal ==
    ASSUME Inv, NEW t \in Transfers,
           \/ InitiateAlpacaWithdrawal(t) \/ RecordAlpacaWithdrawal(t) \/ PollWithdrawal(t)
           \/ BeginVaultWithdrawal(t) \/ WithdrawFromVault(t) \/ RecordVaultWithdrawal(t)
           \/ ResumeWithdrawalSubmitting(t) \/ ConfirmVaultWithdrawal(t)
    PROVE  Quiet(t)
  <1>0. /\ conv \in [Transfers -> {"none", "filled", "failed"}] /\ 0 \in Nat
        /\ Height \in Nat /\ TypeOK /\ Awaited(t)
    BY HeightIsNat DEF Inv, TypeOK, Sent
  <1> USE <1>0, QuietNames, QuietSilence, QuietEnds, QuietContinues, QuietWorld,
          QuietRest DEF Quiet, At, Sees, worldVars
  <1>1. CASE InitiateAlpacaWithdrawal(t)
    BY <1>1, QuietWaits DEF InitiateAlpacaWithdrawal, A2B, B2A
  <1>2. CASE RecordAlpacaWithdrawal(t)
    <2>1. Latest(t, "alpaca") \in DOMAIN txs
      BY <1>2, LatestIsLast DEF RecordAlpacaWithdrawal, Awaited, HasLast
    <2>2. PreBurn(t)
      BY <1>2 DEF RecordAlpacaWithdrawal, Send, Handles, HandledIn, PreBurn
    <2> QED BY <1>2, <2>1, <2>2, QuietInitiates DEF RecordAlpacaWithdrawal
  <1>3. CASE PollWithdrawal(t)
    BY <1>3, QuietSends DEF PollWithdrawal
  <1>4. CASE BeginVaultWithdrawal(t)
    <2>1. ASSUME Send(t, "BeginWithdrawal", Height) PROVE agg'[t].st = "WithdrawalSubmitting"
      <3>1. "BeginWithdrawal" \in Commands /\ EvolvesTo["BeginWithdrawal"] = "WithdrawalSubmitting"
        BY DEF Commands, HandledIn, EvolvesTo
      <3> QED BY <2>1, <3>1, Sends
    <2> QED BY <1>4, <2>1, QuietSends, QuietWaits DEF BeginVaultWithdrawal
  <1>5. CASE WithdrawFromVault(t)
    <2>1. agg[t].st = "WithdrawalSubmitting" /\ dir[t] = B2A /\ UNCHANGED <<dir, agg>>
      BY <1>5 DEF WithdrawFromVault, Awaited, NoCommand, Inv, Sent
    <2> QED BY <1>5, <2>1, QuietWaits DEF WithdrawFromVault, A2B, B2A
  <1>6. CASE RecordVaultWithdrawal(t)
    <2>1. Latest(t, "withdraw") \in DOMAIN txs
      BY <1>6, LatestIsLast DEF RecordVaultWithdrawal, Awaited, HasLast
    <2>2. PreBurn(t)
      BY <1>6 DEF RecordVaultWithdrawal, Awaited, PreBurn
    <2> QED BY <1>6, <2>1, <2>2, QuietInitiates DEF RecordVaultWithdrawal
  <1>7. CASE ResumeWithdrawalSubmitting(t)
    <2>1. MinedAfter("withdraw", B2A, agg[t].from) \subseteq DOMAIN txs
      BY DEF MinedAfter, Matching
    <2>2. PreBurn(t) /\ agg[t].st = "WithdrawalSubmitting"
      BY <1>7 DEF ResumeWithdrawalSubmitting, PreBurn
    <2> QED BY <1>7, <2>1, <2>2, QuietInitiates, QuietWaits DEF ResumeWithdrawalSubmitting, NoCommand
  <1>8. CASE ConfirmVaultWithdrawal(t)
    BY <1>8, QuietSends DEF ConfirmVaultWithdrawal
  <1> QED BY <1>1, <1>2, <1>3, <1>4, <1>5, <1>6, <1>7, <1>8

(* From the attestation to the mint every step of a run is quiet.          *)
LEMMA QuietBridge ==
    ASSUME Inv, NEW t \in Transfers,
           \/ ReceiveAttestation(t) \/ PollAttestation(t)
           \/ RecoverBridgingFailed(t) \/ BridgingFailedPends(t) \/ ResumeAttested(t)
           \/ Mint(t) \/ ConfirmMint(t) \/ NothingToResume(t)
    PROVE  Quiet(t)
  <1>a. TypeOK
    BY DEF Inv
  <1>b. /\ conv \in [Transfers -> {"none", "filled", "failed"}] /\ 0 \in Nat
        /\ DOMAIN txs \subseteq Nat
    BY <1>a DEF TypeOK
  <1>c. agg[t].burn \in Nat
    BY <1>a DEF TypeOK
  <1>0. /\ conv \in [Transfers -> {"none", "filled", "failed"}] /\ 0 \in Nat
        /\ Height \in Nat /\ TypeOK /\ agg[t].burn \in Nat
        /\ DOMAIN txs \subseteq Nat
    BY <1>a, <1>b, <1>c, HeightIsNat
  <1> USE <1>0, QuietNames, QuietSends, QuietSilence, QuietEnds, QuietContinues, QuietWorld,
          QuietRest DEF Quiet, At, Sees, worldVars
  <1>1. CASE ReceiveAttestation(t)
    BY <1>1 DEF ReceiveAttestation
  <1>2. CASE PollAttestation(t)
    BY <1>2 DEF PollAttestation
  <1>3. CASE RecoverBridgingFailed(t)
    BY <1>3 DEF RecoverBridgingFailed
  <1>4. CASE BridgingFailedPends(t)
    BY <1>4 DEF BridgingFailedPends
  <1>5. CASE ResumeAttested(t)
    <2>1. MinedAfter("mint", dir[t], agg[t].scan) \subseteq Nat
      BY DEF MinedAfter, Matching
    <2> QED BY <1>5, <2>1 DEF ResumeAttested
  <1>6. Delivered(agg[t].burn) \subseteq Nat
    BY DEF Delivered
  <1>7. CASE Mint(t)
    BY <1>6, <1>7 DEF Mint, Minted, MintFailed
  <1>8. CASE ConfirmMint(t)
    BY <1>6, <1>8 DEF ConfirmMint, Minted, MintFailed, FaultUnless
  <1>9. CASE NothingToResume(t)
    BY <1>9 DEF NothingToResume
  <1> QED BY <1>1, <1>2, <1>3, <1>4, <1>5, <1>7, <1>8, <1>9

(* The deposit steps of a run are quiet.                                   *)
LEMMA QuietDeposit ==
    ASSUME Inv, NEW t \in Transfers,
           \/ SubmitDeposit(t) \/ RecordDeposit(t) \/ ConfirmDeposit(t)
           \/ SendDeposit(t) \/ RecordSend(t) \/ PollDeposit(t)
    PROVE  Quiet(t)
  <1>0. /\ conv \in [Transfers -> {"none", "filled", "failed"}] /\ 0 \in Nat
        /\ TypeOK /\ Awaited(t) /\ DOMAIN txs \subseteq Nat
    BY DEF Inv, TypeOK, Sent
  <1> USE <1>0, QuietNames, QuietSends, QuietSilence, QuietEnds, QuietContinues, QuietWorld,
          QuietRest DEF Quiet, At, Sees, worldVars
  <1>1. CASE SubmitDeposit(t)
    BY <1>1, QuietWaits DEF SubmitDeposit, FaultUnless
  <1>2. CASE RecordDeposit(t)
    <2>1. Latest(t, "deposit") \in DOMAIN txs
      BY <1>2, LatestIsLast DEF RecordDeposit, Awaited, HasLast
    <2> QED BY <1>2, <2>1 DEF RecordDeposit
  <1>3. CASE ConfirmDeposit(t)
    BY <1>3 DEF ConfirmDeposit
  <1>4. CASE SendDeposit(t)
    <2>1. MinedAfter("send", B2A, txs[agg[t].mint].at) \subseteq Nat
      BY DEF MinedAfter, Matching
    <2> QED BY <1>4, <2>1, QuietWaits DEF SendDeposit, FaultUnless
  <1>5. CASE RecordSend(t)
    <2>1. Latest(t, "send") \in DOMAIN txs
      BY <1>5, LatestIsLast DEF RecordSend, Awaited, HasLast
    <2> QED BY <1>5, <2>1 DEF RecordSend
  <1>6. CASE PollDeposit(t)
    BY <1>6 DEF PollDeposit
  <1> QED BY <1>1, <1>2, <1>3, <1>4, <1>5, <1>6

-----------------------------------------------------------------------------
(* The burn, one step at a time.                                           *)

(* BeginBridging: before it, no burn of t was ever sent.                   *)
LEMMA BeginBurnKeeps == ASSUME Inv, NEW t \in Transfers, BeginBurn(t) PROVE Inv'
  <1>a. TypeOK /\ Sent(t) /\ BurnLife(t)
    BY DEF Inv
  <1>b. conv \in [Transfers -> {"none", "filled", "failed"}]
    BY <1>a DEF TypeOK
  <1>c. agg[t].st = "WithdrawalComplete" /\ UNCHANGED <<dir, crashes, task, txs, conv>>
        /\ (Fault \/ NoFault)
    BY DEF BeginBurn, Sees, At, worldVars
  <1>d. QuietChain /\ RestTyped'
    BY <1>b, <1>c, QuietWorld, QuietRest
  <1>1. ASSUME NEW ref \in Nat, Send(t, "BeginBridging", ref), Continue(t, "spawn", TRUE)
        PROVE  Inv'
    <2>1. QuietAgg(t)
      BY <1>1, <1>c, QuietNames, QuietSends
    <2>2. ~PreBurn(t)'
      <3>1. "BeginBridging" \in Commands /\ EvolvesTo["BeginBridging"] = "BridgingSubmitting"
        BY DEF Commands, HandledIn, EvolvesTo
      <3> QED BY <1>1, <1>a, <3>1, Sends DEF PreBurn
    <2>3. "spawn" \in PCs
      BY DEF PCs
    <2>4. ~Burned(t) /\ task[t] = "none"
      BY <1>a, <1>c DEF BurnLife, PreBurn
    <2> QED BY <1>1, <1>a, <1>c, <1>d, <2>1, <2>2, <2>3, <2>4, Continues, SpawnKeeps
  <1>2. ASSUME Send(t, "FailBridging", 0) \/ NoCommand, NEW o, End(t, o)
        PROVE  Inv'
    <2>1. QuietAgg(t)
      BY <1>2, <1>c, QuietNames, QuietSends, QuietSilence
    <2> QED BY <1>2, <1>c, <1>d, <2>1, QuietEnds, QuietKeeps DEF Quiet
  <1>3. txs[agg[t].wtx].at \in Nat /\ Height \in Nat
    <2>1. agg[t].wtx \in DOMAIN txs
      BY <1>a, <1>c DEF Sent
    <2>2. txs[agg[t].wtx] \in Tx
      BY <1>a, <2>1 DEF TypeOK
    <2> QED BY <1>a, <2>2, HeightIsNat DEF Tx
  <1> QED BY <1>1, <1>2, <1>3 DEF BeginBurn

(* The task starts with nothing burned and nothing recorded.               *)
LEMMA SpawnBurnKeeps == ASSUME Inv, NEW t \in Transfers, SpawnBurn(t) PROVE Inv'
  <1>a. TypeOK /\ Sent(t) /\ BurnLife(t)
    BY DEF Inv
  <1>b. /\ conv \in [Transfers -> {"none", "filled", "failed"}]
        /\ task \in [Transfers -> {"none", "submit", "record"}]
    BY <1>a DEF TypeOK
  <1>c. /\ run[t].pc = "spawn" /\ UNCHANGED <<dir, crashes, txs, conv>>
        /\ (Fault \/ NoFault) /\ QuietChain
    BY QuietWorld DEF SpawnBurn, At, worldVars
  <1>d. task[t] = "none" /\ ~Burned(t)
    BY <1>a, <1>c DEF BurnLife
  <1>1. CASE NoCommand /\ UNCHANGED task /\ End(t, "error")
    BY <1>1, <1>b, <1>c, QuietSilence, QuietEnds, QuietRest, QuietKeeps DEF Quiet
  <1>2. CASE /\ Send(t, "ClearPendingBurn", 0) /\ task' = [task EXCEPT ![t] = "submit"]
             /\ Continue(t, "task", TRUE) /\ NoFault
    <2>1. "ClearPendingBurn" \in Commands /\ EvolvesTo["ClearPendingBurn"] = "BridgingSubmitting"
      BY DEF Commands, HandledIn, EvolvesTo
    <2>2. /\ AggTyped' /\ MemoryTyped' /\ \A u \in Transfers : u # t => agg'[u] = agg[u]
          /\ agg'[t].st = "BridgingSubmitting" /\ agg'[t].pending = 0
      BY <1>2, <1>a, <2>1, Sends
    <2>3. /\ QueueTyped' /\ run'[t].pc = "task"
          /\ \A u \in Transfers : u # t => run'[u] = run[u]
      <3>1. "task" \in PCs
        BY DEF PCs
      <3> QED BY <1>2, <1>a, <3>1, Continues
    <2>4. RestTyped' /\ task'[t] = "submit" /\ \A u \in Transfers : u # t => task'[u] = task[u]
      BY <1>2, <1>a, <1>b, <1>c DEF RestTyped, TypeOK, NoFault
    <2>5. Sent(t)'
      BY <2>2, <2>3 DEF Sent, Awaited
    <2>6. BurnLife(t)'
      BY <1>a, <1>c, <1>d, <2>2, <2>3, <2>4, KeepsBurns DEF BurnLife, PreBurn, QuietChain
    <2> QED BY <1>c, <2>2, <2>3, <2>4, <2>5, <2>6, OwnStepKeeps DEF QuietChain
  <1> QED BY <1>1, <1>2 DEF SpawnBurn

(* The task's result ends the run that waits for it, or nobody's.          *)
LEMMA Delivers ==
    ASSUME TypeOK, NEW t \in Transfers, NEW o, Deliver(t, o) \/ UNCHANGED <<run, queueVars>>
    PROVE  /\ QueueTyped' /\ run'[t].pc \in {run[t].pc, "idle"}
           /\ \A u \in Transfers : u # t => run'[u] = run[u]
  <1>1. CASE UNCHANGED <<run, queueVars>>
    BY <1>1, TypeParts DEF QueueTyped, queueVars
  <1>2. CASE End(t, o)
    <2>1. QueueTyped' /\ run' = [run EXCEPT ![t] = Idle] /\ run \in [Transfers -> RunType]
      BY <1>2, Ends DEF TypeOK, RunType
    <2> QED BY <2>1 DEF Idle
  <1> QED BY <1>1, <1>2 DEF Deliver

(* The transactions that a run waits for are still there when nothing but  *)
(* the chains moved.                                                       *)
LEMMA KeepsSent ==
    ASSUME TypeOK, ChainKept, NEW t \in Transfers, Sent(t), agg'[t] = agg[t], dir'[t] = dir[t],
           run'[t].pc \in {run[t].pc, "idle"}
    PROVE  Sent(t)'
  BY KeepsLast DEF Sent, Awaited, ChainKept

(* The first burn that can take effect is the only one.                    *)
LEMMA FirstBurn ==
    ASSUME TypeOK, NEW t \in Transfers, ~Burned(t), Broadcast(t, "burn", 0)
    PROVE  OneBurn(t)' /\ (\E i \in DOMAIN txs : OnlyBurn(t, i))'
  <1>1. /\ ChainKept /\ \E n \in DOMAIN txs' \ DOMAIN txs : IsLast(t, "burn", n)'
    BY Broadcasts DEF Kinds
  <1>2. PICK n \in DOMAIN txs' \ DOMAIN txs : IsLast(t, "burn", n)'
    BY <1>1
  <1>3. \A i \in DOMAIN txs' : i = n \/ i \in DOMAIN txs
    <2>1. \A i \in DOMAIN txs' \ DOMAIN txs : i <= n /\ n <= i
      BY <1>1 DEF ChainKept
    <2>2. DOMAIN txs' \subseteq Nat
      BY <1>1 DEF ChainKept
    <2> QED BY <2>1, <2>2
  <1>4. \A i \in Of(t, "burn")' : txs'[i].st \in {"pending", "mined"} => i = n
    BY <1>1, <1>3 DEF Burned, Of, ChainKept
  <1>5. OnlyBurn(t, n)'
    BY <1>2, <1>4 DEF OnlyBurn
  <1> QED BY <1>4, <1>5 DEF OneBurn

(* The task sends its burn, or fails to, or loses the answer.              *)
LEMMA SubmitBurnKeeps == ASSUME Inv, NEW t \in Transfers, SubmitBurn(t) PROVE Inv'
  <1>a. TypeOK /\ Sent(t) /\ BurnLife(t)
    BY DEF Inv
  <1>b. /\ conv \in [Transfers -> {"none", "filled", "failed"}]
        /\ task \in [Transfers -> {"none", "submit", "record"}]
    BY <1>a DEF TypeOK
  <1>c. /\ task[t] = "submit" /\ UNCHANGED <<dir, crashes, conv>> /\ NoCommand
        /\ (Fault \/ NoFault)
        /\ task' = [task EXCEPT ![t] = "none"] \/ task' = [task EXCEPT ![t] = "record"]
        /\ \E o : Deliver(t, o) \/ UNCHANGED <<run, queueVars>>
    BY DEF SubmitBurn, FaultUnless
  <1>d. \/ Broadcast(t, "burn", 0)
        \/ UNCHANGED txs /\ task' = [task EXCEPT ![t] = "none"]
    BY DEF SubmitBurn
  <1>e. ~Burned(t) /\ ~PreBurn(t) /\ run[t].pc \notin {"spawn", "confirm"} /\ agg[t].pending = 0
    BY <1>a, <1>c DEF BurnLife
  <1>1. AggTyped' /\ MemoryTyped' /\ UNCHANGED agg
    BY <1>c, QuietSilence DEF QuietAgg, NoCommand
  <1>2. /\ QueueTyped' /\ run'[t].pc \in {run[t].pc, "idle"}
        /\ \A u \in Transfers : u # t => run'[u] = run[u]
    BY <1>a, <1>c, Delivers
  <1>3. /\ task'[t] \in {"none", "record"} /\ \A u \in Transfers : u # t => task'[u] = task[u]
        /\ task' \in [Transfers -> {"none", "submit", "record"}]
    BY <1>b, <1>c
  <1>4. RestTyped'
    <2>1. MaxFaults \in Nat
      BY UsdcTransferAssumption
    <2> QED BY <1>a, <1>c, <1>3, <2>1 DEF RestTyped, TypeOK, Fault, NoFault
  <1>5. ChainKept /\ \A u \in Transfers : u # t => NoNewBurn(u)
    BY <1>a, <1>d, Broadcasts, ChainsIdle DEF Kinds
  <1>6. Sent(t)'
    BY <1>a, <1>c, <1>1, <1>2, <1>5, KeepsSent
  <1>7. OneBurn(t)' /\ (task'[t] = "record" => (\E i \in DOMAIN txs : OnlyBurn(t, i))')
    <2>1. CASE Broadcast(t, "burn", 0)
      BY <1>a, <1>e, <2>1, FirstBurn
    <2>2. CASE UNCHANGED txs /\ task' = [task EXCEPT ![t] = "none"]
      <3>1. NoNewBurn(t)
        BY <1>a, <2>2, ChainsIdle
      <3> QED BY <1>a, <1>b, <1>5, <2>2, <3>1, KeepsBurns DEF BurnLife
    <2> QED BY <1>d, <2>1, <2>2
  <1>8. BurnLife(t)'
    BY <1>a, <1>c, <1>e, <1>1, <1>2, <1>3, <1>7 DEF BurnLife, PreBurn
  <1> QED BY <1>c, <1>1, <1>2, <1>3, <1>4, <1>5, <1>6, <1>8, OwnStepKeeps

(* The task records the hash of the one burn it sent, or cannot.           *)
LEMMA RecordPendingBurnKeeps == ASSUME Inv, NEW t \in Transfers, RecordPendingBurn(t) PROVE Inv'
  <1>a. TypeOK /\ Sent(t) /\ BurnLife(t)
    BY DEF Inv
  <1>b. task \in [Transfers -> {"none", "submit", "record"}] /\ DOMAIN txs \subseteq Nat \ {0}
    BY <1>a DEF TypeOK
  <1>c. /\ task[t] = "record" /\ task' = [task EXCEPT ![t] = "none"]
        /\ UNCHANGED <<dir, crashes, txs, conv>> /\ (Fault \/ NoFault)
    BY DEF RecordPendingBurn, worldVars
  <1>d. ~PreBurn(t) /\ run[t].pc \notin {"spawn", "confirm"} /\ agg[t].pending = 0
    BY <1>a, <1>c DEF BurnLife
  <1>1. task'[t] = "none" /\ \A u \in Transfers : u # t => task'[u] = task[u]
    BY <1>b, <1>c
  <1>2. RestTyped'
    <2>1. MaxFaults \in Nat
      BY UsdcTransferAssumption
    <2> QED BY <1>a, <1>b, <1>c, <2>1 DEF RestTyped, TypeOK, Fault, NoFault
  <1>3. ChainKept /\ \A u \in Transfers : NoNewBurn(u)
    BY <1>a, <1>c, ChainsIdle
  <1>4. ASSUME NoCommand, NEW o, Deliver(t, o) PROVE Inv'
    <2>1. AggTyped' /\ MemoryTyped' /\ UNCHANGED agg
      BY <1>4, QuietSilence DEF QuietAgg, NoCommand
    <2>2. /\ QueueTyped' /\ run'[t].pc \in {run[t].pc, "idle"}
          /\ \A u \in Transfers : u # t => run'[u] = run[u]
      BY <1>a, <1>4, Delivers
    <2>3. Sent(t)'
      BY <1>a, <1>c, <1>3, <2>1, <2>2, KeepsSent
    <2>4. BurnLife(t)'
      BY <1>a, <1>c, <1>d, <1>1, <1>3, <2>1, <2>2, KeepsBurns DEF BurnLife, PreBurn
    <2> QED BY <1>c, <1>1, <1>2, <1>3, <2>1, <2>2, <2>3, <2>4, OwnStepKeeps
  <1>5. ASSUME Send(t, "RecordPendingBurn", Latest(t, "burn")),
               IF run[t].pc = "task" THEN Continue(t, "confirm", TRUE)
               ELSE UNCHANGED <<run, queueVars>>
        PROVE  Inv'
    <2>1. PICK b \in DOMAIN txs : OnlyBurn(t, b)
      BY <1>a, <1>c DEF BurnLife
    <2>2. Latest(t, "burn") = b
      BY <1>a, <2>1, LatestIsLast DEF OnlyBurn
    <2>3. /\ "RecordPendingBurn" \in Commands
          /\ EvolvesTo["RecordPendingBurn"] = "BridgingSubmitting"
      BY DEF Commands, HandledIn, EvolvesTo
    <2>4. /\ AggTyped' /\ MemoryTyped' /\ \A u \in Transfers : u # t => agg'[u] = agg[u]
          /\ agg'[t].st = "BridgingSubmitting" /\ agg'[t].pending = b
      BY <1>5, <1>a, <1>b, <2>1, <2>2, <2>3, Sends
    <2>5. /\ QueueTyped' /\ run'[t].pc \in {run[t].pc, "confirm"}
          /\ \A u \in Transfers : u # t => run'[u] = run[u]
      <3>1. "confirm" \in PCs
        BY DEF PCs
      <3>2. CASE run[t].pc = "task"
        BY <1>5, <1>a, <3>1, <3>2, Continues
      <3>3. CASE UNCHANGED <<run, queueVars>>
        BY <1>a, <3>3, Delivers
      <3> QED BY <1>5, <3>2, <3>3
    <2>6. Sent(t)'
      BY <1>a, <1>c, <1>d, <1>3, <2>4, <2>5, KeepsLast DEF Sent, Awaited, PreBurn
    <2>7. OneBurn(t)' /\ OnlyBurn(t, b)'
      BY <1>a, <1>b, <1>3, <2>1, KeepsBurns DEF BurnLife
    <2>8. BurnLife(t)'
      BY <1>b, <1>d, <1>1, <2>1, <2>4, <2>5, <2>7 DEF BurnLife, PreBurn
    <2> QED BY <1>c, <1>1, <1>2, <1>3, <2>4, <2>5, <2>6, <2>8, OwnStepKeeps
  <1> QED BY <1>4, <1>5 DEF RecordPendingBurn

(* A burn is sent again only when the one on record is known to have       *)
(* reverted; it was the only one that could take effect.                   *)
LEMMA ConfirmBurnKeeps ==
    ASSUME Inv, NEW t \in Transfers, ConfirmBurn(t) \/ ResumeBridgingSubmitting(t)
    PROVE  Inv'
  <1>a. TypeOK /\ Sent(t) /\ BurnLife(t)
    BY DEF Inv
  <1>b. /\ conv \in [Transfers -> {"none", "filled", "failed"}]
        /\ DOMAIN txs \subseteq Nat /\ run \in [Transfers -> RunType]
    BY <1>a DEF TypeOK, RunType
  <1>c. /\ UNCHANGED <<dir, crashes, task, txs, conv>> /\ (Fault \/ NoFault)
    BY DEF ConfirmBurn, ResumeBridgingSubmitting, CheckPendingBurn, ScanForBurn, At, Sees, worldVars
  <1>d. QuietChain /\ RestTyped'
    BY <1>b, <1>c, QuietWorld, QuietRest
  <1>1. ASSUME NoCommand, NEW o, End(t, o) PROVE Inv'
    BY <1>1, <1>c, <1>d, QuietSilence, QuietEnds, QuietKeeps DEF Quiet
  <1>2. ASSUME NEW i \in DOMAIN txs, Send(t, "InitiateBridging", i), Continue(t, "go", TRUE)
        PROVE  Inv'
    BY <1>2, <1>b, <1>c, <1>d, QuietNames, QuietSends, QuietContinues, QuietKeeps DEF Quiet
  <1>3. ASSUME NoCommand, agg[t].pending # 0, txs[agg[t].pending].st = "reverted",
               run'[t].pc = "spawn", QueueTyped', \A u \in Transfers : u # t => run'[u] = run[u]
        PROVE  Inv'
    <2>1. ~Burned(t) /\ task[t] = "none" /\ ~PreBurn(t)
      BY <1>3, <1>a DEF BurnLife, OnlyBurn, Burned, PreBurn
    <2>2. QuietAgg(t) /\ ~PreBurn(t)'
      BY <1>3, <1>c, <2>1, QuietSilence DEF NoCommand, PreBurn
    <2> QED BY <1>3, <1>c, <1>d, <2>1, <2>2, SpawnKeeps
  <1>4. agg[t].pending # 0 => /\ agg[t].pending \in DOMAIN txs
                              /\ Latest(t, "burn") = agg[t].pending
    <2>1. ASSUME agg[t].pending # 0 PROVE /\ agg[t].pending \in DOMAIN txs
                                          /\ Latest(t, "burn") = agg[t].pending
      <3>1. IsLast(t, "burn", agg[t].pending) /\ agg[t].pending \in DOMAIN txs
        BY <1>a, <2>1 DEF BurnLife, OnlyBurn, IsLast, Of
      <3> QED BY <1>a, <3>1, LatestIsLast
    <2> QED BY <2>1
  <1>5. CASE ConfirmBurn(t)
    <2>1. agg[t].pending # 0
      BY <1>5, <1>a DEF ConfirmBurn, At, BurnLife
    <2>2. ASSUME NoCommand, txs[agg[t].pending].st = "reverted", UNCHANGED queueVars,
                 run' = [run EXCEPT ![t].pc = "spawn", ![t].try = 2]
          PROVE  Inv'
      <3>1. QueueTyped' /\ run'[t].pc = "spawn" /\ \A u \in Transfers : u # t => run'[u] = run[u]
        <4>1. QueueTyped
          BY <1>a, TypeParts
        <4>2. run' \in [Transfers -> RunType]
          <5>1. "spawn" \in PCs /\ 2 \in 1..2
            BY DEF PCs
          <5> QED BY <2>2, <1>b, <5>1 DEF RunType
        <4> QED BY <1>b, <2>2, <4>1, <4>2 DEF QueueTyped, queueVars, RunType
      <3> QED BY <2>1, <2>2, <3>1, <1>3
    <2> QED BY <1>5, <1>1, <1>2, <1>4, <2>1, <2>2 DEF ConfirmBurn
  <1>6. CASE ResumeBridgingSubmitting(t)
    <2>1. CASE CheckPendingBurn(t)
      BY <2>1, <1>1, <1>2, <1>4 DEF CheckPendingBurn
    <2>2. CASE ScanForBurn(t)
      <3>1. MinedAfter("burn", dir[t], agg[t].from) \subseteq DOMAIN txs
        BY DEF MinedAfter, Matching
      <3>2. ASSUME agg[t].pending # 0, txs[agg[t].pending].st = "reverted", NoCommand,
                   Continue(t, "spawn", TRUE)
            PROVE  Inv'
        <4>1. "spawn" \in PCs
          BY DEF PCs
        <4> QED BY <3>2, <4>1, <1>3, <1>a, Continues
      <3> QED BY <2>2, <3>1, <3>2, <1>1, <1>2 DEF ScanForBurn, MayReburn
    <2> QED BY <1>6, <2>1, <2>2 DEF ResumeBridgingSubmitting
  <1> QED BY <1>5, <1>6

-----------------------------------------------------------------------------
(* The job queues, the sweep, the operator, the chains.                    *)

(* A step of the world that no run, task or aggregate takes part in.       *)
LEMMA WorldKeeps ==
    ASSUME Inv, UNCHANGED <<dir, agg, run, task>>, QuietChain,
           QueueTyped', MemoryTyped', RestTyped'
    PROVE  Inv'
  <1>1. TypeOK'
    <2>1. txs' \in Seq(Tx) /\ agg' \in [Transfers -> AggType]
      BY DEF QuietChain, ChainKept, Inv, TypeOK, AggType
    <2> QED BY <2>1 DEF TypeOK, QueueTyped, MemoryTyped, RestTyped, RunType, AggType
  <1>2. ASSUME NEW u \in Transfers PROVE Sent(u)' /\ BurnLife(u)'
    BY Frame DEF Inv, QuietChain
  <1> QED BY <1>1, <1>2 DEF Inv

(* A run starts or is cancelled; its first step reads the aggregate.       *)
LEMMA RunKeeps ==
    ASSUME Inv, NEW t \in Transfers, Start(t) \/ AttemptTimesOut(t) \/ CliTransfer(t) \/ CliResume(t)
    PROVE  Inv'
  <1>a. TypeOK
    BY DEF Inv
  <1>b. /\ conv \in [Transfers -> {"none", "filled", "failed"}]
        /\ run \in [Transfers -> RunType] /\ QueueTyped
    BY <1>a, TypeParts DEF TypeOK, RunType
  <1>c. UNCHANGED <<dir, task, crashes, txs, conv>> /\ NoCommand /\ (Fault \/ NoFault)
    BY DEF Start, AttemptTimesOut, CliTransfer, CliResume, worldVars, envVars, NoCommand, NoFault
  <1>d. RestTyped' /\ QuietChain /\ QuietAgg(t)
    BY <1>b, <1>c, QuietRest, QuietWorld, QuietSilence
  <1>1. CASE AttemptTimesOut(t)
    BY <1>1, <1>c, <1>d, QuietEnds, QuietKeeps DEF AttemptTimesOut, Quiet
  <1>2. CASE Start(t) \/ CliTransfer(t) \/ CliResume(t)
    <2>1. UNCHANGED queueVars /\ \E who \in {"bot", "cli"} :
            run' = [run EXCEPT ![t] = [pc |-> "go", fresh |-> FALSE, try |-> 1, who |-> who]]
      BY <1>2 DEF Start, CliTransfer, CliResume, Drive
    <2>2. \A who \in {"bot", "cli"} :
            [pc |-> "go", fresh |-> FALSE, try |-> 1, who |-> who] \in RunType
      BY DEF RunType, PCs
    <2>3. /\ run' \in [Transfers -> RunType] /\ run'[t].pc = "go"
          /\ \A u \in Transfers : u # t => run'[u] = run[u]
      <3>1. PICK r \in RunType : r.pc = "go" /\ run' = [run EXCEPT ![t] = r]
        BY <2>1, <2>2
      <3> QED BY <1>b, <3>1
    <2>4. QuietRun(t)
      BY <1>b, <2>1, <2>3 DEF QuietRun, Awaited, QueueTyped, queueVars
    <2> QED BY <1>c, <1>d, <2>4, QuietKeeps DEF Quiet
  <1> QED BY <1>1, <1>2

(* A trigger and a sweep touch rows and memory only.                       *)
LEMMA TriggerKeeps ==
    ASSUME Inv, NEW t \in Transfers, ClaimGuard(t) \/ CheckAndTrigger(t) \/ Sweep(t)
    PROVE  Inv'
  <1>a. TypeOK
    BY DEF Inv
  <1>b. QueueTyped /\ MemoryTyped /\ RestTyped
    BY <1>a, TypeParts
  <1>c. UNCHANGED <<dir, agg, run, task, txs, conv, faults, crashes>>
    BY DEF ClaimGuard, CheckAndTrigger, Sweep, worldVars, envVars
  <1>d. RestTyped' /\ QuietChain
    BY <1>b, <1>c, QuietWorld DEF RestTyped
  <1>1. CASE ClaimGuard(t) \/ CheckAndTrigger(t)
    <2>1. guard' \in BOOLEAN
      BY <1>1, <1>b, Zenon DEF ClaimGuard, CheckAndTrigger, MemoryTyped
    <2>2. MemoryTyped' /\ QueueTyped'
      BY <1>1, <1>b, <2>1 DEF ClaimGuard, CheckAndTrigger, MemoryTyped, QueueTyped
    <2> QED BY <1>c, <1>d, <2>2, WorldKeeps
  <1>2. CASE Sweep(t)
    <2>1. guard' \in BOOLEAN
      BY <1>2, Zenon DEF Sweep, SweepPostBurn, SweepPreBurn, Forget
    <2>4. robbed' \in BOOLEAN
      BY <1>2, <1>b, Zenon DEF Sweep, SweepPostBurn, SweepPreBurn, Forget, MemoryTyped
    <2>2. MemoryTyped'
      BY <1>2, <1>b, <2>1, <2>4 DEF Sweep, SweepPostBurn, SweepPreBurn, Forget, MemoryTyped
    <2>3. QueueTyped'
      <3>1. 0 \in 0..MaxAttempts /\ 0 \in 0..MaxRedrives
        BY UsdcTransferAssumption
      <3> QED BY <1>2, <1>b, <1>c, <3>1
              DEF Sweep, SweepPostBurn, SweepPreBurn, Enqueue, queueVars, QueueTyped
    <2> QED BY <1>c, <1>d, <2>2, <2>3, WorldKeeps
  <1> QED BY <1>1, <1>2

(* The operator's commands on a transfer nobody drives.                    *)
LEMMA OperatorKeeps ==
    ASSUME Inv, NEW t \in Transfers,
           FailUsdcTransfer(t) \/ ClearPendingBurn(t) \/ Reconcile(t)
    PROVE  Inv'
  <1>a. TypeOK
    BY DEF Inv
  <1>b. QueueTyped /\ MemoryTyped /\ RestTyped
    BY <1>a, TypeParts
  <1>c. PICK c \in {"FailBridging", "ClearPendingBurn", "ReconcileStuckRebalance"} :
          CliCommand(t, c)
    BY DEF FailUsdcTransfer, ClearPendingBurn, Reconcile
  <1>d. run[t].pc = "idle"
    BY DEF FailUsdcTransfer, ClearPendingBurn, Reconcile, Stuck, Running
  <1>1. /\ UNCHANGED <<dir, queueVars, run, task, memoryVars, worldVars, envVars>>
        /\ Handles(agg[t], c, dir[t]) /\ Evolved(t, c, 0)
    BY <1>c DEF CliCommand, Evolved
  <1>2. MemoryTyped' /\ QueueTyped' /\ RestTyped'
    BY <1>1, <1>b DEF MemoryTyped, QueueTyped, RestTyped, memoryVars, queueVars, worldVars, envVars
  <1>3. QuietAgg(t)
    BY <1>1, <1>2, QuietNames, QuietEvolves
  <1>4. QuietRun(t) /\ QuietChain
    BY <1>d, <1>1, <1>2, QuietWorld DEF QuietRun, Awaited, worldVars
  <1> QED BY <1>1, <1>2, <1>3, <1>4, QuietKeeps DEF Quiet

(* The operator's run is killed and its task with it.                      *)
LEMMA CliAbortsKeeps == ASSUME Inv, NEW t \in Transfers, CliAborts(t) PROVE Inv'
  <1>a. TypeOK /\ Sent(t) /\ BurnLife(t)
    BY DEF Inv
  <1>b. /\ QueueTyped /\ MemoryTyped /\ AggTyped /\ RestTyped
        /\ run \in [Transfers -> RunType] /\ task \in [Transfers -> {"none", "submit", "record"}]
    BY <1>a, TypeParts DEF QueueTyped, RestTyped
  <1>1. /\ UNCHANGED <<dir, agg, queueVars, memoryVars, worldVars, crashes>> /\ Fault
        /\ run' = [run EXCEPT ![t] = Idle] /\ task' = [task EXCEPT ![t] = "none"]
    BY DEF CliAborts
  <1>2. /\ run' \in [Transfers -> RunType] /\ run'[t].pc = "idle" /\ task'[t] = "none"
        /\ task' \in [Transfers -> {"none", "submit", "record"}]
        /\ \A u \in Transfers : u # t => run'[u] = run[u] /\ task'[u] = task[u]
    <2>1. Idle \in RunType /\ Idle.pc = "idle"
      BY DEF Idle, RunType, PCs
    <2> QED BY <1>b, <1>1, <2>1
  <1>3. QueueTyped' /\ MemoryTyped' /\ AggTyped' /\ RestTyped'
    <2>1. MaxFaults \in Nat
      BY UsdcTransferAssumption
    <2>2. QueueTyped' /\ MemoryTyped' /\ AggTyped'
      BY <1>b, <1>1, <1>2 DEF QueueTyped, MemoryTyped, AggTyped, queueVars, memoryVars
    <2>3. RestTyped'
      BY <1>b, <1>1, <1>2, <2>1 DEF RestTyped, worldVars, Fault
    <2> QED BY <2>2, <2>3
  <1>4. ChainKept /\ \A u \in Transfers : NoNewBurn(u)
    BY <1>a, <1>1, ChainsIdle DEF worldVars
  <1>5. Sent(t)'
    BY <1>a, <1>1, <1>2, <1>4, KeepsSent
  <1>6. BurnLife(t)'
    <2>1. agg[t].pending \in Nat
      BY <1>a DEF TypeOK
    <2> QED BY <1>a, <1>1, <1>2, <1>4, <2>1, KeepsBurns DEF BurnLife, PreBurn
  <1> QED BY <1>1, <1>2, <1>3, <1>4, <1>5, <1>6, OwnStepKeeps

(* A crash takes every run and every burn task with it.                    *)
LEMMA RestartKeeps == ASSUME Inv, Restart PROVE Inv'
  <1>a. TypeOK
    BY DEF Inv
  <1>b. /\ QueueTyped /\ MemoryTyped /\ AggTyped /\ RestTyped /\ txs \in Seq(Tx)
    BY <1>a, TypeParts
  <1>1. /\ UNCHANGED <<dir, agg, txs, conv, faults>>
        /\ run' = [t \in Transfers |-> Idle] /\ task' = [t \in Transfers |-> "none"]
    BY DEF Restart, worldVars
  <1>2. QueueTyped'
    <2>1. Idle \in RunType
      BY DEF Idle, RunType, PCs
    <2>2. 0 \in 0..MaxAttempts /\ 0 \in 0..MaxRedrives
      BY UsdcTransferAssumption
    <2>3. row' \in [Transfers -> {"none", "claimed", "ready", "failed", "done", "dead"}]
      BY <1>b DEF Restart, QueueTyped
    <2>4. attempts' \in [Transfers -> 0..MaxAttempts]
      BY <1>b, <2>2 DEF Restart, QueueTyped
    <2>5. redrives' \in [Transfers -> 0..MaxRedrives]
      BY <1>b, <2>2 DEF Restart, QueueTyped
    <2> QED BY <1>1, <2>1, <2>3, <2>4, <2>5 DEF QueueTyped
  <1>3. MemoryTyped'
    <2>1. guard' \in BOOLEAN
      BY Zenon DEF Restart
    <2>2. tracked' \in [Transfers -> {"none", "conv", "withdraw", "burned"}]
      BY DEF Restart
    <2>3. inflight' \in [{A2B, B2A} -> Nat]
      BY DEF Restart
    <2>4. timedOut' \subseteq Transfers
      BY DEF Restart
    <2>5. robbed' \in BOOLEAN
      BY <1>b DEF Restart, MemoryTyped
    <2> QED BY <2>1, <2>2, <2>3, <2>4, <2>5 DEF MemoryTyped
  <1>4. RestTyped'
    <2>1. MaxCrashes \in Nat
      BY UsdcTransferAssumption
    <2> QED BY <1>b, <1>1, <2>1 DEF RestTyped, Restart
  <1>5. TypeOK'
    BY <1>b, <1>1, <1>2, <1>3, <1>4
       DEF TypeOK, QueueTyped, MemoryTyped, AggTyped, RestTyped, RunType, AggType
  <1>6. ASSUME NEW u \in Transfers PROVE Sent(u)' /\ BurnLife(u)'
    <2>1. run'[u].pc = "idle" /\ task'[u] = "none" /\ Sent(u) /\ BurnLife(u)
      BY <1>1 DEF Idle, Inv
    <2>2. ChainKept /\ NoNewBurn(u)
      BY <1>a, <1>1, ChainsIdle
    <2>3. Sent(u)'
      BY <1>a, <1>1, <2>1, <2>2, KeepsSent
    <2>4. agg[u].pending \in Nat
      BY <1>a DEF TypeOK
    <2>5. BurnLife(u)'
      BY <1>a, <1>1, <2>1, <2>2, <2>4, KeepsBurns DEF BurnLife, PreBurn
    <2> QED BY <2>3, <2>5
  <1> QED BY <1>5, <1>6 DEF Inv

(* The chains and the relayers add no burn.                                *)
LEMMA ChainsQuiet == ASSUME TypeOK, Mine \/ Drop \/ Relay PROVE QuietChain
  <1>1. CASE Mine \/ Drop
    <2>1. PICK i \in DOMAIN txs, st \in {"mined", "reverted", "dropped"} :
            txs[i].st = "pending" /\ Become(i, st)
      BY <1>1 DEF Mine, Drop, NextInLine
    <2> QED BY <2>1, Becomes DEF QuietChain
  <1>2. CASE Relay
    <2>1. PICK b \in DOMAIN txs :
            txs' = Append(txs, [kind |-> "mint", by |-> txs[b].by, burn |-> b,
                                st |-> "mined", at |-> Height + 1])
      BY <1>2 DEF Relay
    <2> DEFINE x == [kind |-> "mint", by |-> txs[b].by, burn |-> b,
                     st |-> "mined", at |-> Height + 1]
    <2>2. x \in Tx /\ x.kind = "mint"
      <3>1. txs[b] \in Tx /\ b \in Nat
        BY DEF TypeOK
      <3> QED BY <3>1, HeightIsNat DEF Tx, Kinds
    <2> HIDE DEF x
    <2> QED BY <2>1, <2>2, Appends DEF QuietChain, x
  <1> QED BY <1>1, <1>2

(* They touch nothing else.                                                *)
LEMMA ChainsKeep == ASSUME Inv, Mine \/ Drop \/ Relay PROVE Inv'
  <1>a. TypeOK
    BY DEF Inv
  <1>b. QueueTyped /\ MemoryTyped /\ AggTyped /\ RestTyped
    BY <1>a, TypeParts
  <1>1. /\ UNCHANGED <<dir, agg, queueVars, run, task, memoryVars, conv, crashes>>
        /\ (Fault \/ NoFault)
    BY DEF Mine, Drop, Relay, envVars, NoFault
  <1>2. QueueTyped' /\ MemoryTyped' /\ RestTyped'
    <2>1. MaxFaults \in Nat
      BY UsdcTransferAssumption
    <2> QED BY <1>b, <1>1, <2>1
            DEF QueueTyped, MemoryTyped, RestTyped, queueVars, memoryVars, Fault, NoFault
  <1> QED BY <1>a, <1>1, <1>2, ChainsQuiet, WorldKeeps

-----------------------------------------------------------------------------
(* Nothing was sent before the first trigger.                              *)
LEMMA InitInv == Init => Inv
  <1> SUFFICES ASSUME Init PROVE Inv
    OBVIOUS
  <1>1. QueueTyped
    <2>1. Idle \in RunType
      BY DEF Idle, RunType, PCs
    <2>2. 0 \in 0..MaxAttempts /\ 0 \in 0..MaxRedrives
      BY UsdcTransferAssumption
    <2> QED BY <2>1, <2>2 DEF Init, QueueTyped
  <1>2. MemoryTyped
    <2>1. guard \in BOOLEAN
      BY Zenon DEF Init
    <2> QED BY <2>1 DEF Init, MemoryTyped
  <1>3. AggTyped
    <2>1. Unborn \in AggType
      BY DEF Unborn, AggType, States
    <2> QED BY <2>1 DEF Init, AggTyped
  <1>4. RestTyped /\ txs \in Seq(Tx)
    BY UsdcTransferAssumption DEF Init, RestTyped
  <1>5. ASSUME NEW t \in Transfers PROVE Sent(t) /\ BurnLife(t)
    <2>1. /\ run[t].pc = "idle" /\ agg[t].st = "Absent" /\ agg[t].pending = 0
          /\ task[t] = "none" /\ Of(t, "burn") = {}
      BY DEF Init, Idle, Unborn, Of
    <2> QED BY <2>1 DEF Sent, Awaited, BurnLife, Burned, OneBurn
  <1> QED BY <1>1, <1>2, <1>3, <1>4, <1>5, TypeParts DEF Inv

(* Every step of the manager, of a burn task, of the service, of the       *)
(* operator and of the chains keeps the invariant.                         *)
LEMMA NextInv == Inv /\ [Next]_vars => Inv'
  <1> SUFFICES ASSUME Inv, [Next]_vars PROVE Inv'
    OBVIOUS
  <1>1. ASSUME NEW t \in Transfers, ManagerStep(t) PROVE Inv'
    <2>1. CASE \/ BeginConversion(t) \/ PlaceConversion(t)
               \/ RecordConversion(t) \/ ResumeConverting(t)
      BY <2>1, QuietConversion, QuietKeeps
    <2>2. CASE \/ InitiateAlpacaWithdrawal(t) \/ RecordAlpacaWithdrawal(t) \/ PollWithdrawal(t)
               \/ BeginVaultWithdrawal(t) \/ WithdrawFromVault(t) \/ RecordVaultWithdrawal(t)
               \/ ResumeWithdrawalSubmitting(t) \/ ConfirmVaultWithdrawal(t)
      BY <2>2, QuietWithdrawal, QuietKeeps
    <2>3. CASE BeginBurn(t) \/ SpawnBurn(t)
      BY <2>3, BeginBurnKeeps, SpawnBurnKeeps
    <2>4. CASE ConfirmBurn(t) \/ ResumeBridgingSubmitting(t)
      BY <2>4, ConfirmBurnKeeps
    <2>5. CASE \/ ReceiveAttestation(t) \/ PollAttestation(t)
               \/ RecoverBridgingFailed(t) \/ BridgingFailedPends(t) \/ ResumeAttested(t)
               \/ Mint(t) \/ ConfirmMint(t) \/ NothingToResume(t)
      BY <2>5, QuietBridge, QuietKeeps
    <2>6. CASE \/ SubmitDeposit(t) \/ RecordDeposit(t) \/ ConfirmDeposit(t)
               \/ SendDeposit(t) \/ RecordSend(t) \/ PollDeposit(t)
      BY <2>6, QuietDeposit, QuietKeeps
    <2> QED BY <1>1, <2>1, <2>2, <2>3, <2>4, <2>5, <2>6 DEF ManagerStep
  <1>2. ASSUME NEW t \in Transfers, TaskStep(t) PROVE Inv'
    BY <1>2, SubmitBurnKeeps, RecordPendingBurnKeeps DEF TaskStep
  <1>3. ASSUME NEW t \in Transfers, OperatorStep(t) PROVE Inv'
    BY <1>3, RunKeeps, CliAbortsKeeps, OperatorKeeps DEF OperatorStep
  <1>4. ASSUME NEW t \in Transfers, ClaimGuard(t) \/ CheckAndTrigger(t) \/ Sweep(t)
        PROVE  Inv'
    BY <1>4, TriggerKeeps
  <1>5. ASSUME NEW t \in Transfers, Start(t) \/ AttemptTimesOut(t) PROVE Inv'
    BY <1>5, RunKeeps
  <1>6. CASE Restart
    BY <1>6, RestartKeeps
  <1>7. CASE Mine \/ Drop \/ Relay
    BY <1>7, ChainsKeep
  <1>8. CASE UNCHANGED vars
    <2>1. QueueTyped' /\ MemoryTyped' /\ RestTyped' /\ QuietChain
      <3>1. TypeOK /\ QueueTyped /\ MemoryTyped /\ RestTyped
        BY TypeParts DEF Inv
      <3> QED BY <1>8, <3>1, ChainsIdle
              DEF vars, queueVars, memoryVars, worldVars, envVars,
                  QueueTyped, MemoryTyped, RestTyped, QuietChain
    <2> QED BY <1>8, <2>1, WorldKeeps DEF vars
  <1> QED BY <1>1, <1>2, <1>3, <1>4, <1>5, <1>6, <1>7, <1>8 DEF Next

(* Type correctness and the life of every burn, in every reachable state.  *)
THEOREM Invariance == Spec => []Inv
  BY InitInv, NextInv, PTL DEF Spec

(* The aggregates, the queues, the service's memory and the chains keep    *)
(* their types: every reference a command records is a transaction that    *)
(* was sent.                                                               *)
THEOREM TypeCorrect == Spec => []TypeOK
  <1>1. Inv => TypeOK
    BY DEF Inv
  <1> QED BY <1>1, Invariance, PTL

(* At most one burn of a transfer can ever take effect, for any number of  *)
(* transfers, faults, crashes, retries, timeouts, sweeps and operator      *)
(* commands (burn_recording_pending, resume_bridging_submitting).          *)
THEOREM BurnedAtMostOnce == Spec => []NoDoubleBurn
  <1>1. Inv => NoDoubleBurn
    BY DEF Inv, BurnLife, OneBurn, NoDoubleBurn
  <1> QED BY <1>1, Invariance, PTL

-----------------------------------------------------------------------------
(* The funds.  What a state vouches for: once bridging, a mined burn; once *)
(* bridged, a mined mint; once the deposit is confirmed, a mined deposit.  *)
Mined(i) == i \in DOMAIN txs /\ txs[i].st = "mined"

MinedMint(i) == Mined(i) /\ txs[i].kind = "mint"

Vouched(t) ==
    LET a == agg[t]
        converted == dir[t] = B2A /\ a.st \in {"Converting", "ConversionComplete"}
    IN  /\ a.burn # 0 => Mined(a.burn)
        /\ a.mint # 0 => MinedMint(a.mint)
        /\ a.st \in {"Bridging", "AwaitingAttestation", "Attested"} => a.burn # 0
        /\ a.st \in {"Bridged", "DepositInitiated", "DepositConfirmed"} \/ converted =>
              a.burn # 0 /\ a.mint # 0
        /\ a.st = "DepositInitiated" => a.dep \in DOMAIN txs /\ (dir[t] = B2A => Mined(a.dep))
        /\ a.st = "DepositConfirmed" \/ converted => Mined(a.dep)

(* A command carries what it claims.                                       *)
Fits(t, c, ref) ==
    /\ c \in Commands /\ ref \in Nat
    /\ c = "InitiateBridging" => Mined(ref)
    /\ c \in {"ConfirmBridging", "RecoverBridging"} => MinedMint(ref)
    /\ c = "InitiateDeposit" => ref \in DOMAIN txs /\ (dir[t] = B2A => Mined(ref))
    /\ c = "ConfirmDeposit" /\ dir[t] = A2B => txs[agg[t].dep].st = "mined"
    /\ c = "InitiateConversion" => dir[t] = A2B
    /\ c = "Initiate" => PreBurn(t)

(* At most one command of t was handled, and it carried what it claims.    *)
Commanded(t) ==
    \/ UNCHANGED agg
    \/ \E c \in Commands, ref \in Nat :
          Fits(t, c, ref) /\ Handles(agg[t], c, dir[t]) /\ Evolved(t, c, ref)

(* So it is when the process that drives t sent it.                        *)
Posted(t) ==
    \/ NoCommand
    \/ \E c \in Commands \ {"ReconcileStuckRebalance"}, ref \in Nat :
          Fits(t, c, ref) /\ Send(t, c, ref)

(* What the process of t sends is a command of t that was handled.         *)
LEMMA PostedCommands == ASSUME NEW t, Posted(t) PROVE Commanded(t)
  BY DEF Posted, NoCommand, Commanded, Send, Evolved

(* The commands that lead to a state in which funds are vouched for.       *)
LEMMA CommandOrigins ==
    \A c \in Commands :
        /\ EvolvesTo[c] = "Bridging" => c = "InitiateBridging"
        /\ EvolvesTo[c] \in {"AwaitingAttestation", "Attested"} =>
              HandledIn[c] \subseteq {"Bridging", "AwaitingAttestation"}
        /\ EvolvesTo[c] = "Bridged" => \/ c = "ConfirmBridging" /\ HandledIn[c] = {"Attested"}
                                       \/ c = "RecoverBridging"
        /\ EvolvesTo[c] = "DepositInitiated" => c = "InitiateDeposit" /\ HandledIn[c] = {"Bridged"}
        /\ EvolvesTo[c] = "DepositConfirmed" =>
              c = "ConfirmDeposit" /\ HandledIn[c] = {"DepositInitiated"}
        /\ EvolvesTo[c] = "Converting" =>
              \/ c = "InitiateConversion"
              \/ c = "InitiatePostDepositConversion" /\ HandledIn[c] = {"DepositConfirmed"}
        /\ EvolvesTo[c] = "ConversionComplete" =>
              c = "ConfirmConversion" /\ HandledIn[c] = {"Converting"}
  BY DEF Commands, EvolvesTo, HandledIn

(* Fitting commands keep what the state vouches for.                       *)
LEMMA CommandedKeeps ==
    ASSUME TypeOK, NEW t \in Transfers, UNCHANGED dir, ChainKept, Commanded(t),
           \A u \in Transfers : Vouched(u)
    PROVE  \A u \in Transfers : Vouched(u)'
  <1>0. DOMAIN txs \subseteq Nat \ {0}
    BY DEF TypeOK
  <1> DEFINE MinedNow(i) == i \in DOMAIN txs' /\ txs'[i].st = "mined"
  <1>1. \A i : /\ Mined(i) => MinedNow(i)
               /\ MinedMint(i) => MinedNow(i) /\ txs'[i].kind = "mint"
               /\ i \in DOMAIN txs => i \in DOMAIN txs'
    BY DEF Mined, MinedMint, ChainKept
  <1> HIDE DEF MinedNow
  <1>2. ASSUME NEW u \in Transfers, agg'[u] = agg[u] PROVE Vouched(u)'
    BY <1>1, <1>2 DEF Vouched, Mined, MinedMint, MinedNow
  <1>3. CASE UNCHANGED agg
    BY <1>2, <1>3
  <1>4. ASSUME NEW c \in Commands, NEW ref \in Nat,
               Fits(t, c, ref), Handles(agg[t], c, dir[t]), Evolved(t, c, ref)
        PROVE  \A u \in Transfers : Vouched(u)'
    <2>1. /\ \A u \in Transfers : u # t => agg'[u] = agg[u]
          /\ agg'[t].st = EvolvesTo[c]
          /\ agg'[t].burn = IF c = "InitiateBridging" THEN ref ELSE agg[t].burn
          /\ agg'[t].mint = IF c \in {"ConfirmBridging", "RecoverBridging"} THEN ref
                            ELSE agg[t].mint
          /\ agg'[t].dep = IF c = "InitiateDeposit" THEN ref ELSE agg[t].dep
      BY <1>4, Evolves
    <2>2. /\ agg[t].st \in HandledIn[c]
          /\ c = "InitiatePostDepositConversion" => dir[t] = B2A
          /\ c = "RecoverBridging" => agg[t].burn # 0
      BY <1>4 DEF Handles
    <2>3. /\ agg'[t].burn # 0 => MinedNow(agg'[t].burn)
          /\ agg'[t].mint # 0 =>
                MinedNow(agg'[t].mint) /\ txs'[agg'[t].mint].kind = "mint"
      BY <1>1, <1>4, <2>1 DEF Vouched, Fits
    <2>4. agg'[t].st \in {"Bridging", "AwaitingAttestation", "Attested"} => agg'[t].burn # 0
      BY <1>0, <1>4, <2>1, <2>2, CommandOrigins DEF Vouched, Fits, Mined
    <2>5. \/ agg'[t].st \in {"Bridged", "DepositInitiated", "DepositConfirmed"}
          \/ dir[t] = B2A /\ agg'[t].st \in {"Converting", "ConversionComplete"}
          => agg'[t].burn # 0 /\ agg'[t].mint # 0
      BY <1>0, <1>4, <2>1, <2>2, CommandOrigins DEF Vouched, Fits, Mined, MinedMint, A2B, B2A
    <2>6. agg'[t].st = "DepositInitiated" =>
             agg'[t].dep \in DOMAIN txs' /\ (dir[t] = B2A => MinedNow(agg'[t].dep))
      BY <1>1, <1>4, <2>1, <2>2, CommandOrigins DEF Fits
    <2>7. \/ agg'[t].st = "DepositConfirmed"
          \/ dir[t] = B2A /\ agg'[t].st \in {"Converting", "ConversionComplete"}
          => MinedNow(agg'[t].dep)
      <3>1. \/ agg'[t].st = "DepositConfirmed"
            \/ dir[t] = B2A /\ agg'[t].st \in {"Converting", "ConversionComplete"}
            => Mined(agg[t].dep) /\ agg'[t].dep = agg[t].dep
        BY <1>4, <2>1, <2>2, CommandOrigins DEF Vouched, Fits, Mined, A2B, B2A, TypeOK
      <3> QED BY <1>1, <3>1
    <2>8. Vouched(t)'
      BY <2>3, <2>4, <2>5, <2>6, <2>7 DEF Vouched, Mined, MinedMint, MinedNow
    <2> QED BY <1>2, <2>1, <2>8
  <1> QED BY <1>3, <1>4 DEF Commanded

(* No step of the model loses, changes hands of or revives a transaction,  *)
(* or turns a transfer round.                                              *)
LEMMA StepKeepsChain == Inv /\ [Next]_vars => ChainKept /\ UNCHANGED dir
  <1> SUFFICES ASSUME Inv, [Next]_vars PROVE ChainKept /\ UNCHANGED dir
    OBVIOUS
  <1>a. TypeOK
    BY DEF Inv
  <1>1. ASSUME NEW t \in Transfers, Quiet(t) PROVE ChainKept /\ UNCHANGED dir
    BY <1>1 DEF Quiet, QuietChain
  <1>2. CASE UNCHANGED <<dir, txs>>
    BY <1>a, <1>2, ChainsIdle
  <1>3. ASSUME NEW t \in Transfers, ManagerStep(t) PROVE ChainKept /\ UNCHANGED dir
    <2>1. CASE BeginBurn(t) \/ SpawnBurn(t) \/ ConfirmBurn(t) \/ ResumeBridgingSubmitting(t)
      BY <2>1, <1>2 DEF BeginBurn, SpawnBurn, ConfirmBurn, ResumeBridgingSubmitting, At, Sees,
                        worldVars
    <2>2. CASE ~(BeginBurn(t) \/ SpawnBurn(t) \/ ConfirmBurn(t) \/ ResumeBridgingSubmitting(t))
      BY <2>2, <1>1, <1>3, QuietConversion, QuietWithdrawal, QuietBridge, QuietDeposit
         DEF ManagerStep
    <2> QED BY <2>1, <2>2
  <1>4. ASSUME NEW t \in Transfers, TaskStep(t) PROVE ChainKept /\ UNCHANGED dir
    <2>1. UNCHANGED dir /\ (UNCHANGED txs \/ Broadcast(t, "burn", 0))
      BY <1>4 DEF TaskStep, SubmitBurn, RecordPendingBurn, worldVars
    <2> QED BY <1>a, <2>1, ChainsIdle, Broadcasts DEF Kinds
  <1>5. ASSUME NEW t \in Transfers, OperatorStep(t) PROVE ChainKept /\ UNCHANGED dir
    BY <1>5, <1>2 DEF OperatorStep, CliTransfer, CliResume, CliAborts, FailUsdcTransfer,
                      ClearPendingBurn, Reconcile, CliCommand, worldVars
  <1>6. ASSUME NEW t \in Transfers,
               \/ ClaimGuard(t) \/ CheckAndTrigger(t) \/ Start(t)
               \/ AttemptTimesOut(t) \/ Sweep(t)
        PROVE  ChainKept /\ UNCHANGED dir
    BY <1>6, <1>2 DEF ClaimGuard, CheckAndTrigger, Start, AttemptTimesOut, Sweep, worldVars
  <1>7. CASE Mine \/ Drop \/ Relay
    BY <1>a, <1>7, ChainsQuiet DEF QuietChain, Mine, Drop, Relay
  <1>8. CASE Restart
    BY <1>8, <1>2 DEF Restart, worldVars
  <1>9. CASE UNCHANGED vars
    BY <1>9, <1>2 DEF vars, worldVars
  <1> QED BY <1>3, <1>4, <1>5, <1>6, <1>7, <1>8, <1>9 DEF Next

(* A command that claims nothing about the chains fits.                    *)
LEMMA PlainFits ==
    ASSUME NEW t \in Transfers, NEW ref \in Nat,
           NEW c \in Commands \ {"InitiateBridging", "ConfirmBridging", "RecoverBridging",
                                 "InitiateDeposit", "ConfirmDeposit", "InitiateConversion",
                                 "Initiate", "ReconcileStuckRebalance"},
           Send(t, c, ref)
    PROVE  Posted(t)
  BY DEF Posted, Fits

(* One that claims something fits when what it claims is so.               *)
LEMMA SendFits ==
    ASSUME NEW t \in Transfers, NEW c \in Commands \ {"ReconcileStuckRebalance"},
           NEW ref \in Nat, Send(t, c, ref), Fits(t, c, ref)
    PROVE  Posted(t)
  BY DEF Posted

(* Every command that the manager sends claims what the chains show.       *)
LEMMA ManagerFits == ASSUME Inv, NEW t \in Transfers, ManagerStep(t) PROVE Posted(t)
  <1>a. TypeOK /\ Awaited(t) /\ BurnLife(t)
    BY DEF Inv, Sent
  <1>b. DOMAIN txs \subseteq Nat \ {0} /\ 0 \in Nat /\ Height \in Nat
    <2>1. DOMAIN txs \subseteq Nat \ {0}
      BY <1>a DEF TypeOK
    <2> QED BY <1>a, <2>1, HeightIsNat
  <1>c. /\ {"ConfirmConversion", "FailConversion", "InitiatePostDepositConversion",
            "BeginWithdrawal", "ConfirmWithdrawal", "FailWithdrawal",
            "BeginBridging", "RecordPendingBurn", "ClearPendingBurn", "ReceiveAttestation",
            "TimeoutAttestation", "FailBridging", "FailDeposit"} \subseteq
              Commands \ {"InitiateBridging", "ConfirmBridging", "RecoverBridging",
                          "InitiateDeposit", "ConfirmDeposit", "InitiateConversion",
                          "Initiate", "ReconcileStuckRebalance"}
        /\ {"InitiateBridging", "ConfirmBridging", "RecoverBridging",
            "InitiateDeposit", "ConfirmDeposit", "InitiateConversion", "Initiate"}
              \subseteq Commands \ {"ReconcileStuckRebalance"}
    BY DEF Commands, HandledIn
  <1>d. NoCommand => Posted(t)
    BY DEF Posted
  <1>e. ASSUME NEW w \in Nat, Send(t, "Initiate", w),
               dir[t] = A2B \/ agg[t].st = "WithdrawalSubmitting"
        PROVE  Posted(t)
    <2>1. PreBurn(t)
      BY <1>e DEF PreBurn, Send, Handles, HandledIn
    <2> QED BY <1>c, <1>e, <2>1, SendFits DEF Fits
  <1> USE <1>b, <1>c, <1>d, PlainFits
  <1>1. CASE BeginConversion(t)
    BY <1>1, SendFits DEF BeginConversion, Sees, At, Fits
  <1>2. CASE PlaceConversion(t) \/ RecordConversion(t) \/ ResumeConverting(t)
    BY <1>2 DEF PlaceConversion, RecordConversion, ResumeConverting
  <1>3. CASE \/ InitiateAlpacaWithdrawal(t) \/ RecordAlpacaWithdrawal(t) \/ PollWithdrawal(t)
             \/ BeginVaultWithdrawal(t) \/ WithdrawFromVault(t)
             \/ ResumeWithdrawalSubmitting(t) \/ ConfirmVaultWithdrawal(t)
    <2>1. CASE RecordAlpacaWithdrawal(t)
      <3>1. Latest(t, "alpaca") \in Nat
        BY <1>a, <2>1, LatestIsLast DEF RecordAlpacaWithdrawal, At, Awaited, HasLast
      <3> QED BY <1>e, <2>1, <3>1 DEF RecordAlpacaWithdrawal
    <2>2. CASE ResumeWithdrawalSubmitting(t)
      <3>1. MinedAfter("withdraw", B2A, agg[t].from) \subseteq Nat
        BY DEF MinedAfter, Matching
      <3> QED BY <1>e, <2>2, <3>1 DEF ResumeWithdrawalSubmitting, Sees
    <2>3. CASE \/ InitiateAlpacaWithdrawal(t) \/ PollWithdrawal(t)
               \/ BeginVaultWithdrawal(t) \/ WithdrawFromVault(t) \/ ConfirmVaultWithdrawal(t)
      BY <2>3 DEF InitiateAlpacaWithdrawal, PollWithdrawal, BeginVaultWithdrawal,
                  WithdrawFromVault, ConfirmVaultWithdrawal
    <2> QED BY <1>3, <2>1, <2>2, <2>3
  <1>4. CASE RecordVaultWithdrawal(t)
    <2>1. Latest(t, "withdraw") \in Nat /\ agg[t].st = "WithdrawalSubmitting"
      BY <1>a, <1>4, LatestIsLast DEF RecordVaultWithdrawal, At, Awaited, HasLast
    <2> QED BY <1>e, <1>4, <2>1 DEF RecordVaultWithdrawal
  <1>5. CASE BeginBurn(t) \/ SpawnBurn(t)
    <2>1. Sees(t, "WithdrawalComplete") => txs[agg[t].wtx].at \in Nat
      <3>1. Sees(t, "WithdrawalComplete") => agg[t].wtx \in DOMAIN txs
        BY DEF Sees, Inv, Sent
      <3>2. \A i \in DOMAIN txs : txs[i] \in Tx
        BY <1>a DEF TypeOK
      <3> QED BY <3>1, <3>2 DEF Tx
    <2> QED BY <1>5, <2>1 DEF BeginBurn, SpawnBurn
  <1>6. CASE ConfirmBurn(t) \/ ResumeBridgingSubmitting(t)
    <2>1. ASSUME NEW i \in DOMAIN txs, txs[i].st = "mined", Send(t, "InitiateBridging", i)
          PROVE  Posted(t)
      <3>1. Fits(t, "InitiateBridging", i)
        BY <2>1 DEF Fits, Mined
      <3> QED BY <2>1, <3>1, SendFits
    <2>2. agg[t].pending # 0 => /\ agg[t].pending \in DOMAIN txs
                                /\ Latest(t, "burn") = agg[t].pending
      <3>1. agg[t].pending # 0 => IsLast(t, "burn", agg[t].pending) /\ agg[t].pending \in DOMAIN txs
        BY <1>a DEF BurnLife, OnlyBurn, IsLast, Of
      <3> QED BY <1>a, <3>1, LatestIsLast
    <2>3. CASE ConfirmBurn(t)
      BY <1>a, <2>1, <2>2, <2>3 DEF ConfirmBurn, At, BurnLife
    <2>4. \A i \in MinedAfter("burn", dir[t], agg[t].from) :
            i \in DOMAIN txs /\ txs[i].st = "mined"
      BY DEF MinedAfter, Matching
    <2>5. CASE ResumeBridgingSubmitting(t)
      BY <2>1, <2>2, <2>4, <2>5 DEF ResumeBridgingSubmitting, CheckPendingBurn, ScanForBurn
    <2> QED BY <1>6, <2>3, <2>5
  <1>7. CASE \/ ReceiveAttestation(t) \/ PollAttestation(t) \/ RecoverBridgingFailed(t)
             \/ BridgingFailedPends(t) \/ NothingToResume(t)
    BY <1>7 DEF ReceiveAttestation, PollAttestation, RecoverBridgingFailed,
                BridgingFailedPends, NothingToResume
  <1>8. CASE ResumeAttested(t) \/ Mint(t) \/ ConfirmMint(t)
    <2>1. ASSUME NEW m \in DOMAIN txs, txs[m].st = "mined", txs[m].kind = "mint",
                 NEW c \in {"ConfirmBridging", "RecoverBridging"}, Send(t, c, m)
          PROVE  Posted(t)
      <3>1. Fits(t, c, m)
        BY <2>1 DEF Fits, Mined, MinedMint
      <3> QED BY <2>1, <3>1, SendFits
    <2>2. /\ \A m \in Delivered(agg[t].burn) :
               m \in DOMAIN txs /\ txs[m].st = "mined" /\ txs[m].kind = "mint"
          /\ \A m \in MinedAfter("mint", dir[t], agg[t].scan) :
               m \in DOMAIN txs /\ txs[m].st = "mined" /\ txs[m].kind = "mint"
      BY DEF Delivered, MinedAfter, Matching
    <2> QED BY <1>8, <2>1, <2>2
            DEF ResumeAttested, Mint, ConfirmMint, Minted, MintFailed
  <1>9. CASE SubmitDeposit(t)
    BY <1>9 DEF SubmitDeposit
  <1>10. CASE RecordDeposit(t)
    <2>1. Latest(t, "deposit") \in DOMAIN txs
      BY <1>a, <1>10, LatestIsLast DEF RecordDeposit, At, Awaited, HasLast
    <2>2. dir[t] = A2B
      BY <1>a, <1>10 DEF RecordDeposit, At, Awaited
    <2> QED BY <1>10, <2>1, <2>2, SendFits DEF RecordDeposit, Fits, A2B, B2A
  <1>11. CASE ConfirmDeposit(t)
    BY <1>11, SendFits DEF ConfirmDeposit, Fits
  <1>12. CASE SendDeposit(t) \/ RecordSend(t)
    <2>1. ASSUME NEW i \in DOMAIN txs, txs[i].st = "mined", Send(t, "InitiateDeposit", i)
          PROVE  Posted(t)
      <3>1. Fits(t, "InitiateDeposit", i)
        BY <2>1 DEF Fits, Mined
      <3> QED BY <2>1, <3>1, SendFits
    <2>2. \A i \in MinedAfter("send", B2A, txs[agg[t].mint].at) :
            i \in DOMAIN txs /\ txs[i].st = "mined"
      BY DEF MinedAfter, Matching
    <2>3. RecordSend(t) => Latest(t, "send") \in DOMAIN txs
      BY <1>a, LatestIsLast DEF RecordSend, At, Awaited, HasLast
    <2> QED BY <1>12, <2>1, <2>2, <2>3 DEF SendDeposit, RecordSend
  <1>13. CASE PollDeposit(t)
    BY <1>13, SendFits DEF PollDeposit, Sees, At, Fits, A2B, B2A
  <1> QED BY <1>1, <1>2, <1>3, <1>4, <1>5, <1>6, <1>7, <1>8, <1>9, <1>10, <1>11, <1>12, <1>13,
             ManagerStep(t) DEF ManagerStep

(* Every step vouches for no more than the chains show.                    *)
LEMMA NextVouched ==
    Inv /\ (\A t \in Transfers : Vouched(t)) /\ [Next]_vars => (\A t \in Transfers : Vouched(t))'
  <1> SUFFICES ASSUME Inv, \A t \in Transfers : Vouched(t), [Next]_vars,
                      NEW u \in Transfers
               PROVE  Vouched(u)'
    OBVIOUS
  <1>a. TypeOK /\ ChainKept /\ UNCHANGED dir
    BY StepKeepsChain DEF Inv
  <1>b. DOMAIN txs \subseteq Nat
    <2>1. TypeOK
      BY <1>a
    <2>2. txs \in Seq(Tx)
      BY <2>1 DEF TypeOK
    <2> QED BY <2>2
  <1>1. ASSUME NEW t \in Transfers, Commanded(t) PROVE Vouched(u)'
    BY <1>a, <1>1, CommandedKeeps
  <1>2. CASE UNCHANGED agg
    BY <1>1, <1>2 DEF Commanded
  <1>3. ASSUME NEW t \in Transfers, ManagerStep(t) PROVE Vouched(u)'
    BY <1>1, <1>3, ManagerFits, PostedCommands
  <1>4. ASSUME NEW t \in Transfers, TaskStep(t) PROVE Vouched(u)'
    <2>1. CASE RecordPendingBurn(t) /\ Send(t, "RecordPendingBurn", Latest(t, "burn"))
      <3>1. \E i \in DOMAIN txs : IsLast(t, "burn", i)
        BY <2>1 DEF RecordPendingBurn, Inv, BurnLife, OnlyBurn
      <3>2. Latest(t, "burn") \in Nat
        BY <1>a, <1>b, <3>1, LatestIsLast
      <3>3. "RecordPendingBurn" \in Commands \ {"InitiateBridging", "ConfirmBridging",
                "RecoverBridging", "InitiateDeposit", "ConfirmDeposit", "InitiateConversion",
                "Initiate", "ReconcileStuckRebalance"}
        BY DEF Commands, HandledIn
      <3> QED BY <1>1, <2>1, <3>2, <3>3, PlainFits, PostedCommands
    <2>2. CASE ~(RecordPendingBurn(t) /\ Send(t, "RecordPendingBurn", Latest(t, "burn")))
      BY <1>2, <1>4, <2>2 DEF TaskStep, SubmitBurn, RecordPendingBurn, NoCommand
    <2> QED BY <2>1, <2>2
  <1>5. ASSUME NEW t \in Transfers, OperatorStep(t) PROVE Vouched(u)'
    <2>1. ASSUME NEW c \in {"FailBridging", "ClearPendingBurn", "ReconcileStuckRebalance"},
                 CliCommand(t, c)
          PROVE  Vouched(u)'
      <3>1. Fits(t, c, 0) /\ c \in Commands
        BY DEF Fits, Commands, HandledIn
      <3>2. Handles(agg[t], c, dir[t]) /\ Evolved(t, c, 0)
        BY <2>1 DEF CliCommand, Evolved
      <3>3. Commanded(t)
        BY <3>1, <3>2 DEF Commanded
      <3> QED BY <1>1, <3>3
    <2> QED BY <1>2, <1>5, <2>1 DEF OperatorStep, CliTransfer, CliResume, CliAborts,
                                    FailUsdcTransfer, ClearPendingBurn, Reconcile
  <1>6. ASSUME NEW t \in Transfers,
               \/ ClaimGuard(t) \/ CheckAndTrigger(t) \/ Start(t)
               \/ AttemptTimesOut(t) \/ Sweep(t)
        PROVE  Vouched(u)'
    BY <1>2, <1>6 DEF ClaimGuard, CheckAndTrigger, Start, AttemptTimesOut, Sweep, NoCommand
  <1>7. CASE Restart \/ Mine \/ Drop \/ Relay \/ UNCHANGED vars
    BY <1>2, <1>7 DEF Restart, Mine, Drop, Relay, vars
  <1> QED BY <1>3, <1>4, <1>5, <1>6, <1>7 DEF Next

(* A transfer that settled moved its funds through every leg, provided the *)
(* mint that a resumed run adopted by scan is the mint of its own burn: a  *)
(* mined burn, delivered, and a mined deposit.                             *)
THEOREM SettledArrived == Spec /\ []LegsAreOwn => []SettledFundsArrived
  <1> DEFINE AllVouched == \A t \in Transfers : Vouched(t)
  <1>1. Init => AllVouched
    <2> SUFFICES ASSUME Init, NEW t \in Transfers PROVE Vouched(t)
      OBVIOUS
    <2>1. agg[t] = Unborn
      BY DEF Init
    <2> QED BY <2>1 DEF Vouched, Unborn
  <1>2. Inv /\ AllVouched /\ [Next]_vars => AllVouched'
    BY NextVouched
  <1>3. AllVouched /\ LegsAreOwn => SettledFundsArrived
    <2> SUFFICES ASSUME AllVouched, LegsAreOwn, NEW t \in Transfers, Settled(agg[t], dir[t])
                 PROVE  /\ txs[agg[t].burn].st = "mined" /\ Delivered(agg[t].burn) # {}
                        /\ txs[agg[t].dep].st = "mined"
      BY DEF SettledFundsArrived
    <2>1. agg[t].burn # 0 /\ Mined(agg[t].burn) /\ agg[t].mint # 0 /\ MinedMint(agg[t].mint)
          /\ Mined(agg[t].dep)
      BY DEF Settled, Vouched
    <2>2. agg[t].mint \in Delivered(agg[t].burn)
      BY <2>1 DEF LegsAreOwn, Delivered, MinedMint, Mined
    <2> QED BY <2>1, <2>2 DEF Mined
  <1> HIDE DEF AllVouched
  <1> QED BY <1>1, <1>2, <1>3, Invariance, PTL DEF Spec

=============================================================================
