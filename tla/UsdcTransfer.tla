----------------------------- MODULE UsdcTransfer -----------------------------
(***************************************************************************)
(* Moving USDC between the Alpaca account and the Raindex vault.           *)
(*                                                                         *)
(* A transfer is one UsdcRebalance aggregate, one job row and a run of the *)
(* CrossVenueCashTransfer manager: convert, withdraw, burn, attest, mint,  *)
(* deposit.  The aggregate and the chains share no transaction, so before  *)
(* each irreversible call the manager records an intent with a block bound *)
(* and after a failure it looks for what it may already have done.  The    *)
(* burn is submitted by a task of its own that outlives the run that       *)
(* started it.  In memory the rebalancing service keeps one in-progress    *)
(* guard, a tracking entry per transfer and the USDC in flight at each     *)
(* source venue; a sweep clears what timed out, startup rebuilds the guard *)
(* from the aggregates, and an operator may drive or close a transfer from *)
(* another process, whose events the service does not see.                 *)
(*                                                                         *)
(* Every action is one store command, one call to a chain or to Alpaca, or *)
(* one such call with the command that follows it when the call itself     *)
(* changes nothing.  All transfers move the same amount, the case in which *)
(* a scan by amount cannot tell them apart.                                *)
(***************************************************************************)
EXTENDS UsdcRebalance, Sequences, FiniteSets

CONSTANTS
    Transfers,     \* UsdcRebalanceIds
    Directions,    \* the directions an imbalance may ask for
    MaxFaults,     \* bound on failed calls, lost answers, dropped transactions
    MaxCrashes,    \* bound on crashes of the bot
    MaxAttempts,   \* attempts apalis makes of a row that fails
    MaxRedrives,   \* max_burn_revert_redrives
    MaxTxs,        \* bound on transactions
    SweepTimesOut, \* whether transfer_timeout may elapse without progress
    DeadlinePasses,\* whether the attestation retry deadline may elapse
    Relayed,       \* whether anyone else may deliver an attested message
    OperatorActs,  \* whether the CLI is used on stuck transfers
    ManualStarts   \* whether the CLI also starts transfers

ASSUME UsdcTransferAssumption ==
    /\ Directions \subseteq {A2B, B2A}
    /\ {MaxFaults, MaxCrashes, MaxRedrives, MaxTxs} \subseteq Nat
    /\ MaxAttempts \in Nat \ {0}
    /\ {SweepTimesOut, DeadlinePasses, Relayed, OperatorActs, ManualStarts} \subseteq BOOLEAN

VARIABLES
    dir,       \* the direction a transfer was asked for
    agg,       \* the UsdcRebalance aggregates
    row,       \* the transfer's job row: none, ready, failed, done, dead; claimed while the
               \* trigger that may push it holds the guard
    attempts,  \* failed attempts of that row
    redrives,  \* its revert_redrive_attempts
    run,       \* the manager's program counter per transfer
    task,      \* the detached burn submission per transfer
    guard,     \* usdc_in_progress
    tracked,   \* usdc_tracking: none, conv, withdraw, burned
    inflight,  \* USDC in flight at the source venue of each direction
    timedOut,  \* timed_out_usdc_rebalances
    robbed,    \* history: the sweep of one transfer released the guard of another
    txs,       \* the transactions of both chains, in order of submission
    conv,      \* the conversion order at Alpaca
    faults, crashes

queueVars  == <<row, attempts, redrives>>
memoryVars == <<guard, tracked, inflight, timedOut, robbed>>
worldVars  == <<txs, conv>>
envVars    == <<faults, crashes>>
vars == <<dir, agg, queueVars, run, task, memoryVars, worldVars, envVars>>

-----------------------------------------------------------------------------
(* The two chains.  A transaction is pending until it is mined, reverted   *)
(* or dropped; `at` is its block.  `burn` is the burn a mint delivers.     *)

Kinds == {"alpaca", "withdraw", "burn", "mint", "deposit", "send"}

Tx == [kind : Kinds, by : Transfers, burn : Nat,
       st : {"pending", "mined", "reverted", "dropped"}, at : Nat]

Height == Cardinality({i \in DOMAIN txs : txs[i].st \in {"mined", "reverted"}})

Source(d) == IF d = A2B THEN "ethereum" ELSE "base"
Target(d) == IF d = A2B THEN "base" ELSE "ethereum"

(* The chain a transaction is sent on.                                     *)
ChainOf(x) ==
    CASE x.kind \in {"alpaca", "send"}       -> "ethereum"
      [] x.kind \in {"withdraw", "deposit"}  -> "base"
      [] x.kind = "burn"                     -> Source(dir[x.by])
      [] x.kind = "mint"                     -> Target(dir[x.by])

Credits(c) == {i \in DOMAIN txs : /\ txs[i].st = "mined"
                                  /\ txs[i].kind \in {"alpaca", "withdraw", "mint"}
                                  /\ ChainOf(txs[i]) = c}
Debits(c)  == {i \in DOMAIN txs : /\ txs[i].st = "mined"
                                  /\ txs[i].kind \in {"burn", "deposit", "send"}
                                  /\ ChainOf(txs[i]) = c}

(* The market-maker wallet's USDC, in transfers.                           *)
Balance(c) == Cardinality(Credits(c)) - Cardinality(Debits(c))

Of(t, kind) == {i \in DOMAIN txs : txs[i].by = t /\ txs[i].kind = kind}

(* The transaction the current run or task of t submitted last.            *)
Latest(t, kind) == CHOOSE i \in Of(t, kind) : \A j \in Of(t, kind) : j <= i

Matching(kind, d, block) ==
    {i \in DOMAIN txs : /\ txs[i].kind = kind /\ txs[i].st = "mined"
                        /\ dir[txs[i].by] = d /\ txs[i].at > block}

(* find_recent_*: the newest mined transaction of one kind and direction   *)
(* after a block, whoever's it is.                                         *)
UnboundedScan(kind, d, block) ==
    {i \in Matching(kind, d, 0) : \A j \in Matching(kind, d, 0) : txs[j].at <= txs[i].at}

MinedAfter(kind, d, block) ==
    {i \in Matching(kind, d, block) :
        \A j \in Matching(kind, d, block) : txs[j].at <= txs[i].at}

(* The mint that consumed the message of burn b, if any.                   *)
Delivered(b) == {i \in DOMAIN txs : /\ txs[i].kind = "mint" /\ txs[i].burn = b
                                    /\ txs[i].st = "mined"}

Broadcast(t, kind, b) ==
    /\ Len(txs) < MaxTxs
    /\ txs' = Append(txs, [kind |-> kind, by |-> t, burn |-> b, st |-> "pending", at |-> 0])

(* Gas estimation fails for a call that would revert in the latest block.  *)
Estimates(t, kind) ==
    Balance(ChainOf([kind |-> kind, by |-> t])) > 0

Become(i, st) ==
    txs' = [txs EXCEPT ![i].st = st, ![i].at = IF st = "dropped" THEN 0 ELSE Height + 1]

(* A wallet's transactions on one chain are mined in the order of their    *)
(* nonces; an Alpaca withdrawal is sent by somebody else.                  *)
NextInLine(i) ==
    /\ txs[i].st = "pending"
    /\ txs[i].kind # "alpaca" =>
          \A j \in 1..(i - 1) : /\ txs[j].kind # "alpaca"
                                /\ ChainOf(txs[j]) = ChainOf(txs[i])
                                => txs[j].st # "pending"

Succeeds(x) ==
    /\ x.kind \in {"burn", "deposit", "send"} => Balance(ChainOf(x)) > 0
    /\ x.kind = "mint" => Delivered(x.burn) = {}

-----------------------------------------------------------------------------
Idle == [pc |-> "idle", fresh |-> FALSE, try |-> 1, who |-> "bot"]

PCs == {"idle", "go", "convert", "converted", "vault", "withdraw", "spawn", "task",
        "confirm", "mint", "minting", "deposit", "sending"}

TypeOK ==
    /\ dir \in [Transfers -> {A2B, B2A}]
    /\ agg \in [Transfers -> [st : States, from : Nat, pending : Nat, burn : Nat,
                              scan : Nat, mint : Nat, wtx : Nat, dep : Nat]]
    /\ row \in [Transfers -> {"none", "claimed", "ready", "failed", "done", "dead"}]
    /\ attempts \in [Transfers -> 0..MaxAttempts]
    /\ redrives \in [Transfers -> 0..MaxRedrives]
    /\ run \in [Transfers -> [pc : PCs, fresh : BOOLEAN, try : 1..2, who : {"bot", "cli"}]]
    /\ task \in [Transfers -> {"none", "submit", "record"}]
    /\ guard \in BOOLEAN
    /\ tracked \in [Transfers -> {"none", "conv", "withdraw", "burned"}]
    /\ inflight \in [{A2B, B2A} -> Nat]
    /\ timedOut \subseteq Transfers
    /\ robbed \in BOOLEAN
    /\ txs \in Seq(Tx)
    /\ conv \in [Transfers -> {"none", "filled", "failed"}]
    /\ faults \in 0..MaxFaults
    /\ crashes \in 0..MaxCrashes

Init ==
    /\ dir \in [Transfers -> Directions]
    /\ agg = [t \in Transfers |-> Unborn]
    /\ row = [t \in Transfers |-> "none"]
    /\ attempts = [t \in Transfers |-> 0]
    /\ redrives = [t \in Transfers |-> 0]
    /\ run = [t \in Transfers |-> Idle]
    /\ task = [t \in Transfers |-> "none"]
    /\ guard = FALSE
    /\ tracked = [t \in Transfers |-> "none"]
    /\ inflight = [d \in {A2B, B2A} |-> 0]
    /\ timedOut = {}
    /\ robbed = FALSE
    /\ txs = <<>>
    /\ conv = [t \in Transfers |-> "none"]
    /\ faults = 0
    /\ crashes = 0

Fault   == faults < MaxFaults /\ faults' = faults + 1
NoFault == UNCHANGED faults

(* It happens by itself when `due`, and by a fault otherwise.              *)
FaultUnless(due) == (due /\ NoFault) \/ Fault

Live(t) == row[t] \in {"ready", "failed"}

-----------------------------------------------------------------------------
(* The reactor.  The service applies each event of a transfer its own      *)
(* process drives, under usdc_event_sync, unless the sweep gave up on it.  *)

Stage(t, c) ==
    CASE c = "InitiateConversion" -> "conv"
      [] c = "InitiatePostDepositConversion" -> "burned"
      [] c = "Initiate" -> "withdraw"
      [] tracked[t] = "none" -> "none"
      [] c = "ConfirmConversion" -> "conv"
      [] c = "ConfirmWithdrawal" -> "withdraw"
      [] c \in {"InitiateBridging", "ReceiveAttestation", "ConfirmBridging",
                "RecoverBridging", "InitiateDeposit", "ConfirmDeposit"} -> "burned"
      [] OTHER -> tracked[t]

SourceStarted(t) == tracked[t] \in {"withdraw", "burned"}

Completes(t, c) ==
    \/ c = "ConfirmDeposit" /\ dir[t] = A2B
    \/ c = "ConfirmConversion" /\ dir[t] = B2A

Failures == {"FailConversion", "FailWithdrawal", "FailBridging", "FailDeposit"}

(* post_burn_failure: decided by the event, or by the tracked stage.       *)
KeepsGuard(t, c) ==
    \/ c = "FailDeposit"
    \/ c = "FailBridging" /\ agg[t].burn # 0
    \/ c = "FailConversion" /\ tracked[t] \in {"none", "burned"}
    \/ c \in {"FailWithdrawal", "FailBridging"} /\ tracked[t] = "burned"

Unsaturated(n) == n - 1

Less(n) == IF n = 0 THEN 0 ELSE n - 1

React(t, c) ==
    IF t \in timedOut \/ run[t].who = "cli"
    THEN UNCHANGED memoryVars
    ELSE /\ UNCHANGED <<timedOut, robbed>>
         /\ IF Completes(t, c) \/ (c \in Failures /\ ~KeepsGuard(t, c))
            THEN /\ guard' = FALSE
                 /\ tracked' = [tracked EXCEPT ![t] = "none"]
                 /\ inflight' = IF SourceStarted(t)
                                THEN [inflight EXCEPT ![dir[t]] = Less(@)] ELSE inflight
            ELSE IF c \in Failures
            THEN guard' = TRUE /\ UNCHANGED <<tracked, inflight>>
            ELSE /\ UNCHANGED guard
                 /\ tracked' = [tracked EXCEPT ![t] = Stage(t, c)]
                 /\ inflight' = IF c = "Initiate" /\ ~SourceStarted(t)
                                THEN [inflight EXCEPT ![dir[t]] = @ + 1] ELSE inflight

Send(t, c, ref) ==
    /\ Handles(agg[t], c, dir[t])
    /\ agg' = [agg EXCEPT ![t] = Evolve(@, c, ref)]
    /\ React(t, c)

NoCommand == UNCHANGED <<agg, memoryVars>>

-----------------------------------------------------------------------------
(* The end of a run.  A job that returns Ok leaves its row done, a redrive *)
(* pushes a new row, an error leaves the row to apalis.  "bounded" is a    *)
(* redrive that counts towards max_burn_revert_redrives.  A run of the CLI *)
(* just ends: it loops over what the bot would redrive.                    *)

End(t, outcome) ==
    LET exhausted == outcome = "bounded" /\ redrives[t] >= MaxRedrives
        failed    == outcome = "error" \/ exhausted
        dead      == failed /\ attempts[t] + 1 >= MaxAttempts
    IN  /\ run' = [run EXCEPT ![t] = Idle]
        /\ IF run[t].who = "cli" THEN UNCHANGED queueVars
           ELSE /\ row' = [row EXCEPT ![t] = IF dead THEN "dead"
                                             ELSE IF failed THEN "failed"
                                             ELSE IF outcome = "ok" THEN "done" ELSE "ready"]
                /\ attempts' = [attempts EXCEPT ![t] = IF failed /\ ~dead THEN @ + 1 ELSE 0]
                /\ redrives' = [redrives EXCEPT ![t] = IF outcome = "bounded" /\ ~failed
                                                       THEN @ + 1 ELSE @]

(* The run goes on at pc; `fresh` tells a state the run produced itself    *)
(* from one it loaded or adopted.                                          *)
Continue(t, pc, fresh) ==
    /\ run' = [run EXCEPT ![t].pc = pc, ![t].fresh = fresh]
    /\ UNCHANGED queueVars

At(t, pc) == run[t].pc = pc /\ UNCHANGED <<dir, crashes>>

(* The run dispatches on the aggregate's state.                            *)
Sees(t, st) == At(t, "go") /\ agg[t].st = st

-----------------------------------------------------------------------------
(* Conversion: USD to USDC before an A2B withdrawal, USDC to USD after a   *)
(* B2A deposit.                                                            *)

BeginConversion(t) ==
    /\ \/ Sees(t, "Absent") /\ dir[t] = A2B /\ Send(t, "InitiateConversion", 0)
       \/ Sees(t, "DepositConfirmed") /\ dir[t] = B2A
          /\ Send(t, "InitiatePostDepositConversion", 0)
    /\ Continue(t, "convert", TRUE)
    /\ NoFault /\ UNCHANGED <<task, worldVars>>

PlaceConversion(t) ==
    /\ At(t, "convert")
    /\ \/ conv' = [conv EXCEPT ![t] = "filled"] /\ NoFault
       \/ \E c \in {"none", "failed"} : conv' = [conv EXCEPT ![t] = c] /\ Fault
    /\ Continue(t, "converted", TRUE)
    /\ NoCommand /\ UNCHANGED <<task, txs>>

RecordConversion(t) ==
    /\ At(t, "converted")
    /\ IF conv[t] = "filled"
       THEN /\ Send(t, "ConfirmConversion", 0)
            /\ IF dir[t] = A2B THEN Continue(t, "go", TRUE) ELSE End(t, "ok")
       ELSE Send(t, "FailConversion", 0) /\ End(t, "error")
    /\ NoFault /\ UNCHANGED <<task, worldVars>>

(* resume_converting looks the order up by its client id; the A2B          *)
(* direction does not keep one and gives up.                               *)
ResumeConverting(t) ==
    /\ Sees(t, "Converting")
    /\ \/ /\ dir[t] = B2A /\ conv[t] = "filled"
          /\ Send(t, "ConfirmConversion", 0) /\ End(t, "ok") /\ NoFault
       \/ /\ dir[t] = A2B \/ conv[t] # "filled"
          /\ Send(t, "FailConversion", 0) /\ End(t, "error") /\ NoFault
       \/ dir[t] = B2A /\ Fault /\ NoCommand /\ End(t, "error")
    /\ UNCHANGED <<task, worldVars>>

-----------------------------------------------------------------------------
(* Withdrawal from Alpaca.                                                 *)

InitiateAlpacaWithdrawal(t) ==
    /\ Sees(t, "ConversionComplete") /\ dir[t] = A2B
    /\ \/ Broadcast(t, "alpaca", 0) /\ Continue(t, "withdraw", TRUE) /\ NoFault
       \/ Fault /\ UNCHANGED txs /\ End(t, "error")
       \/ Fault /\ Broadcast(t, "alpaca", 0) /\ End(t, "error")
    /\ NoCommand /\ UNCHANGED <<task, conv>>

RecordAlpacaWithdrawal(t) ==
    /\ At(t, "withdraw") /\ dir[t] = A2B
    /\ Send(t, "Initiate", Latest(t, "alpaca"))
    /\ Continue(t, "go", TRUE)
    /\ NoFault /\ UNCHANGED <<task, worldVars>>

(* Alpaca may call a withdrawal complete before its transaction is mined.  *)
PollWithdrawal(t) ==
    /\ Sees(t, "Withdrawing") /\ dir[t] = A2B
    /\ LET st == txs[agg[t].wtx].st
       IN  \/ /\ st # "dropped"
              /\ Send(t, "ConfirmWithdrawal", 0) /\ Continue(t, "go", TRUE) /\ NoFault
           \/ /\ st = "dropped"
              /\ Send(t, "FailWithdrawal", 0) /\ End(t, "error") /\ NoFault
           \/ st = "pending" /\ NoCommand /\ End(t, "redrive") /\ NoFault
           \/ Fault /\ NoCommand /\ End(t, "redrive")
    /\ UNCHANGED <<task, worldVars>>

(* Withdrawal from the Raindex vault.  The intent is recorded with the     *)
(* chain head before the call.                                             *)
BeginVaultWithdrawal(t) ==
    /\ Sees(t, "Absent") /\ dir[t] = B2A
    /\ \/ Send(t, "BeginWithdrawal", Height) /\ Continue(t, "vault", TRUE) /\ NoFault
       \/ Fault /\ NoCommand /\ End(t, "error")
    /\ UNCHANGED <<task, worldVars>>

WithdrawFromVault(t) ==
    /\ At(t, "vault")
    /\ \/ Broadcast(t, "withdraw", 0) /\ Continue(t, "withdraw", TRUE) /\ NoFault
       \/ Fault /\ Broadcast(t, "withdraw", 0) /\ End(t, "error")
       \/ \E outcome \in {"ok", "error"} :  \* "ok": InsufficientVaultLiquidity
             Fault /\ UNCHANGED txs /\ End(t, outcome)
    /\ NoCommand /\ UNCHANGED <<task, conv>>

RecordVaultWithdrawal(t) ==
    /\ At(t, "withdraw") /\ dir[t] = B2A
    /\ LET w == Latest(t, "withdraw")
       IN  \/ /\ txs[w].st = "mined"
              /\ Send(t, "Initiate", w) /\ Continue(t, "go", TRUE) /\ NoFault
           \/ /\ txs[w].st \in {"reverted", "dropped"}
              /\ NoCommand /\ End(t, "error") /\ NoFault
           \/ Fault /\ NoCommand /\ End(t, "error")
    /\ UNCHANGED <<task, worldVars>>

ResumeWithdrawalSubmitting(t) ==
    /\ Sees(t, "WithdrawalSubmitting")
    /\ LET found == MinedAfter("withdraw", B2A, agg[t].from)
       IN  \/ \E w \in found : /\ Send(t, "Initiate", w)
                               /\ Continue(t, "go", TRUE) /\ NoFault
           \/ found = {} /\ NoCommand /\ Continue(t, "vault", TRUE) /\ NoFault
           \/ Fault /\ NoCommand /\ End(t, "error")
    /\ UNCHANGED <<task, worldVars>>

ConfirmVaultWithdrawal(t) ==
    /\ Sees(t, "Withdrawing") /\ dir[t] = B2A
    /\ Send(t, "ConfirmWithdrawal", 0) /\ Continue(t, "go", TRUE)
    /\ NoFault /\ UNCHANGED <<task, worldVars>>

-----------------------------------------------------------------------------
(* The burn.  From Alpaca the withdrawal must be mined and the wallet hold *)
(* something, and no more than this transfer's amount; the scan bound is   *)
(* the withdrawal's block.  From the vault it is the chain head.           *)

SettlementGate(t) == txs[agg[t].wtx].st = "mined" /\ Balance("ethereum") > 0

BeginBurn(t) ==
    /\ Sees(t, "WithdrawalComplete")
    /\ \/ /\ dir[t] = A2B /\ SettlementGate(t) /\ Balance("ethereum") = 1
          /\ Send(t, "BeginBridging", txs[agg[t].wtx].at)
          /\ Continue(t, "spawn", TRUE) /\ NoFault
       \/ /\ dir[t] = A2B /\ SettlementGate(t) /\ Balance("ethereum") > 1
          /\ Send(t, "FailBridging", 0) /\ End(t, "ok") /\ NoFault
       \/ dir[t] = A2B /\ ~SettlementGate(t) /\ NoCommand /\ End(t, "redrive") /\ NoFault
       \/ /\ dir[t] = B2A
          /\ Send(t, "BeginBridging", Height) /\ Continue(t, "spawn", TRUE) /\ NoFault
       \/ /\ Fault /\ NoCommand
          /\ End(t, IF dir[t] = A2B THEN "redrive" ELSE "error")
    /\ UNCHANGED <<task, worldVars>>

(* submit_and_record_burn: the task first clears the recorded hash.  The   *)
(* clear is taken with the spawn: it is the first command of a task that   *)
(* is spawned at once, and an attempt's timeout, the only thing that could *)
(* part the two, is minutes away from a run that has just got here.        *)
SpawnBurn(t) ==
    /\ At(t, "spawn")
    /\ \/ /\ Send(t, "ClearPendingBurn", 0)
          /\ task' = [task EXCEPT ![t] = "submit"]
          /\ Continue(t, "task", TRUE) /\ NoFault
       \/ Fault /\ NoCommand /\ UNCHANGED task /\ End(t, "error")
    /\ UNCHANGED worldVars

(* The task's result reaches the run only if the run still waits for it.   *)
Deliver(t, outcome) ==
    IF run[t].pc = "task" THEN End(t, outcome) ELSE UNCHANGED <<run, queueVars>>

SubmitBurn(t) ==
    /\ task[t] = "submit"
    /\ \/ /\ Estimates(t, "burn") /\ Broadcast(t, "burn", 0) /\ NoFault
          /\ task' = [task EXCEPT ![t] = "record"] /\ UNCHANGED <<run, queueVars>>
       \/ /\ Estimates(t, "burn") /\ Fault          \* broadcast, answer lost
          /\ Broadcast(t, "burn", 0)
          /\ task' = [task EXCEPT ![t] = "none"] /\ Deliver(t, "ok")
       \/ /\ Fault /\ UNCHANGED txs                \* not broadcast, as far as anyone knows
          /\ task' = [task EXCEPT ![t] = "none"] /\ Deliver(t, "ok")
       \/ /\ FaultUnless(~Estimates(t, "burn"))  \* reverted on submission
          /\ UNCHANGED txs
          /\ task' = [task EXCEPT ![t] = "none"] /\ Deliver(t, "bounded")
    /\ NoCommand /\ UNCHANGED <<dir, conv, crashes>>

RecordPendingBurn(t) ==
    /\ task[t] = "record"
    /\ task' = [task EXCEPT ![t] = "none"]
    /\ \/ /\ Send(t, "RecordPendingBurn", Latest(t, "burn")) /\ NoFault
          /\ IF run[t].pc = "task" THEN Continue(t, "confirm", TRUE)
             ELSE UNCHANGED <<run, queueVars>>
       \/ /\ ~Handles(agg[t], "RecordPendingBurn", dir[t])
          /\ NoCommand /\ NoFault /\ Deliver(t, "ok")
       \/ Fault /\ NoCommand /\ Deliver(t, "ok")
    /\ UNCHANGED <<dir, worldVars, crashes>>

(* burn_recording_pending: a burn that reverts is submitted once more.     *)
ConfirmBurn(t) ==
    /\ At(t, "confirm")
    /\ LET b == Latest(t, "burn")
       IN  \/ /\ txs[b].st = "mined"
              /\ Send(t, "InitiateBridging", b) /\ Continue(t, "go", TRUE) /\ NoFault
           \/ /\ txs[b].st = "reverted" /\ run[t].try = 1 /\ NoCommand /\ NoFault
              /\ run' = [run EXCEPT ![t].pc = "spawn", ![t].try = 2]
              /\ UNCHANGED queueVars
           \/ /\ txs[b].st = "reverted" /\ run[t].try = 2
              /\ NoCommand /\ End(t, "bounded") /\ NoFault
           \/ txs[b].st = "dropped" /\ NoCommand /\ End(t, "error") /\ NoFault
           \/ Fault /\ NoCommand /\ End(t, "error")
    /\ UNCHANGED <<task, worldVars>>

(* resume_bridging_submitting: the recorded hash decides, and the scan     *)
(* only when there is none or it reverted.  Nothing is burned again unless *)
(* the recorded burn is known to have reverted.                            *)
WaitsForDropped(t) ==
    LET b == agg[t].pending
    IN  /\ b # 0 /\ NoFault
        /\ \/ /\ txs[b].st = "mined"
              /\ Send(t, "InitiateBridging", b) /\ Continue(t, "go", TRUE)
           \/ txs[b].st \in {"pending", "dropped"} /\ NoCommand /\ End(t, "redrive")

CheckPendingBurn(t) ==
    LET b == agg[t].pending
    IN  /\ b # 0
        /\ \/ /\ txs[b].st = "mined"
              /\ Send(t, "InitiateBridging", b) /\ Continue(t, "go", TRUE) /\ NoFault
           \/ txs[b].st = "pending" /\ NoCommand /\ End(t, "redrive") /\ NoFault
           \/ txs[b].st = "dropped" /\ NoCommand /\ End(t, "ok") /\ NoFault
           \/ Fault /\ NoCommand /\ End(t, "redrive")       \* status unknown
           \/ /\ txs[b].st = "pending" /\ Fault             \* taken for dropped
              /\ NoCommand /\ End(t, "ok")

ReburnsBlindly(t) == TRUE

MayReburn(t) == agg[t].pending # 0

ScanForBurn(t) ==
    LET b     == agg[t].pending
        found == MinedAfter("burn", dir[t], agg[t].from)
    IN  /\ b # 0 => txs[b].st = "reverted"
        /\ \/ \E i \in found : /\ Send(t, "InitiateBridging", i)
                               /\ Continue(t, "go", TRUE) /\ NoFault
           \/ found = {} /\ MayReburn(t) /\ NoCommand /\ Continue(t, "spawn", TRUE) /\ NoFault
           \/ found = {} /\ ~MayReburn(t) /\ NoCommand /\ End(t, "ok") /\ NoFault
           \/ Fault /\ NoCommand /\ End(t, "redrive")

ResumeBridgingSubmitting(t) ==
    /\ Sees(t, "BridgingSubmitting")
    /\ CheckPendingBurn(t) \/ ScanForBurn(t)
    /\ UNCHANGED <<task, worldVars>>

-----------------------------------------------------------------------------
(* The attestation.  It exists some time after the burn is mined.          *)

ReceiveAttestation(t) ==
    /\ At(t, "go") /\ agg[t].st \in {"Bridging", "AwaitingAttestation"}
    /\ Send(t, "ReceiveAttestation", Height) /\ Continue(t, "mint", TRUE)
    /\ NoFault /\ UNCHANGED <<task, worldVars>>

StopsPolling(t) ==
    /\ At(t, "go") /\ agg[t].st \in {"Bridging", "AwaitingAttestation"}
    /\ IF agg[t].st = "Bridging" THEN Send(t, "TimeoutAttestation", 0) ELSE NoCommand
    /\ End(t, "ok") /\ NoFault /\ UNCHANGED <<task, worldVars>>

PollAttestation(t) ==
    /\ At(t, "go") /\ agg[t].st \in {"Bridging", "AwaitingAttestation"}
    /\ \/ /\ IF agg[t].st = "Bridging" THEN Send(t, "TimeoutAttestation", 0) ELSE NoCommand
          /\ End(t, "redrive") /\ NoFault
       \/ /\ DeadlinePasses /\ agg[t].st = "AwaitingAttestation"
          /\ Send(t, "FailBridging", 0) /\ End(t, "ok") /\ NoFault
       \/ Fault /\ Send(t, "FailBridging", 0) /\ End(t, "error")
       \/ Fault /\ NoCommand /\ End(t, "error")       \* no block for the scan bound
    /\ UNCHANGED <<task, worldVars>>

(* recover_from_bridging_failed, which only the B2A resume does.           *)
RecoverBridgingFailed(t) ==
    /\ Sees(t, "BridgingFailed") /\ dir[t] = B2A /\ agg[t].burn # 0
    /\ Continue(t, "mint", FALSE)
    /\ NoFault /\ NoCommand /\ UNCHANGED <<task, worldVars>>

BridgingFailedPends(t) ==
    /\ Sees(t, "BridgingFailed") /\ dir[t] = B2A /\ agg[t].burn # 0
    /\ \/ End(t, "redrive") /\ NoFault
       \/ Fault /\ End(t, "error")
    /\ NoCommand /\ UNCHANGED <<task, worldVars>>

(* A resumed Attested transfer takes any mint to the wallet after its scan *)
(* bound for its own.                                                      *)
ResumeAttested(t) ==
    /\ Sees(t, "Attested")
    /\ LET found == MinedAfter("mint", dir[t], agg[t].scan)
       IN  \/ \E m \in found : /\ Send(t, "ConfirmBridging", m)
                               /\ Continue(t, "go", FALSE) /\ NoFault
           \/ found = {} /\ NoCommand /\ Continue(t, "mint", TRUE) /\ NoFault
           \/ Fault /\ NoCommand /\ End(t, "redrive")
    /\ UNCHANGED <<task, worldVars>>

(* mint: a consumed nonce is not an error, its mint is looked up instead.  *)
Minted(t, m) ==
    IF agg[t].st = "BridgingFailed"
    THEN Send(t, "RecoverBridging", m) /\ Continue(t, "go", FALSE)
    ELSE Send(t, "ConfirmBridging", m) /\ Continue(t, "go", TRUE)

MintFailed(t) ==
    /\ IF agg[t].st = "BridgingFailed" THEN NoCommand ELSE Send(t, "FailBridging", 0)
    /\ End(t, "error")

Mint(t) ==
    /\ At(t, "mint")
    /\ LET b == agg[t].burn
       IN  \/ \E m \in Delivered(b) : Minted(t, m) /\ NoFault /\ UNCHANGED txs
           \/ Delivered(b) # {} /\ Fault /\ NoCommand /\ End(t, "redrive") /\ UNCHANGED txs
           \/ /\ Delivered(b) = {} /\ Broadcast(t, "mint", b)
              /\ NoCommand /\ Continue(t, "minting", TRUE) /\ NoFault
           \/ Delivered(b) = {} /\ Fault /\ MintFailed(t) /\ UNCHANGED txs
    /\ UNCHANGED <<task, conv>>

ConfirmMint(t) ==
    /\ At(t, "minting")
    /\ LET b == agg[t].burn
       IN  \/ \E m \in Delivered(b) : Minted(t, m) /\ NoFault
           \/ Delivered(b) # {} /\ Fault /\ NoCommand /\ End(t, "redrive")
           \/ /\ Delivered(b) = {}
              /\ FaultUnless(txs[Latest(t, "mint")].st # "pending")
              /\ MintFailed(t)
    /\ UNCHANGED <<task, worldVars>>

-----------------------------------------------------------------------------
(* The deposit into the vault: the hash is recorded before the receipt is  *)
(* awaited, but a deposit whose hash was not recorded is not looked for.   *)

SubmitDeposit(t) ==
    /\ Sees(t, "Bridged") /\ dir[t] = A2B
    /\ \/ /\ Estimates(t, "deposit") /\ Broadcast(t, "deposit", 0)
          /\ Continue(t, "deposit", TRUE) /\ NoFault
       \/ /\ FaultUnless(~Estimates(t, "deposit"))
          /\ UNCHANGED txs /\ End(t, "error")
       \/ /\ Estimates(t, "deposit") /\ Fault
          /\ Broadcast(t, "deposit", 0) /\ End(t, "error")
    /\ NoCommand /\ UNCHANGED <<task, conv>>

RecordDeposit(t) ==
    /\ At(t, "deposit")
    /\ Send(t, "InitiateDeposit", Latest(t, "deposit"))
    /\ Continue(t, "go", TRUE)
    /\ NoFault /\ UNCHANGED <<task, worldVars>>

ConfirmsUnmined(t) ==
    /\ Sees(t, "DepositInitiated") /\ dir[t] = A2B
    /\ Send(t, "ConfirmDeposit", 0) /\ End(t, "ok")
    /\ NoFault /\ UNCHANGED <<task, worldVars>>

ConfirmDeposit(t) ==
    /\ Sees(t, "DepositInitiated") /\ dir[t] = A2B
    /\ LET st == txs[agg[t].dep].st
       IN  \/ st = "mined" /\ Send(t, "ConfirmDeposit", 0) /\ End(t, "ok") /\ NoFault
           \/ /\ st = "dropped" /\ ~run[t].fresh
              /\ Send(t, "FailDeposit", 0) /\ End(t, "error") /\ NoFault
           \/ /\ st = "reverted" \/ (st = "dropped" /\ run[t].fresh)
              /\ NoCommand /\ End(t, "error") /\ NoFault
           \/ Fault /\ NoCommand /\ End(t, "error")
    /\ UNCHANGED <<task, worldVars>>

(* The deposit with Alpaca: the minted USDC is sent to its address.  A     *)
(* resumed run first looks for a transfer mined after the mint.            *)
SendDeposit(t) ==
    /\ Sees(t, "Bridged") /\ dir[t] = B2A
    /\ LET found == IF run[t].fresh THEN {}
                    ELSE MinedAfter("send", B2A, txs[agg[t].mint].at)
       IN  \/ \E i \in found : /\ Send(t, "InitiateDeposit", i)
                               /\ Continue(t, "go", TRUE) /\ NoFault /\ UNCHANGED txs
           \/ /\ found = {} /\ Estimates(t, "send") /\ Broadcast(t, "send", 0)
              /\ NoCommand /\ Continue(t, "sending", TRUE) /\ NoFault
           \/ /\ FaultUnless(found = {} /\ ~Estimates(t, "send"))
              /\ NoCommand /\ UNCHANGED txs /\ End(t, "error")
           \/ /\ found = {} /\ Estimates(t, "send") /\ Fault
              /\ NoCommand /\ Broadcast(t, "send", 0) /\ End(t, "error")
    /\ UNCHANGED <<task, conv>>

RecordSend(t) ==
    /\ At(t, "sending")
    /\ LET s == Latest(t, "send")
       IN  \/ /\ txs[s].st = "mined"
              /\ Send(t, "InitiateDeposit", s) /\ Continue(t, "go", TRUE) /\ NoFault
           \/ /\ txs[s].st \in {"reverted", "dropped"}
              /\ NoCommand /\ End(t, "error") /\ NoFault
           \/ Fault /\ NoCommand /\ End(t, "error")
    /\ UNCHANGED <<task, worldVars>>

PollDeposit(t) ==
    /\ Sees(t, "DepositInitiated") /\ dir[t] = B2A
    /\ \/ Send(t, "ConfirmDeposit", 0) /\ Continue(t, "go", TRUE) /\ NoFault
       \/ Fault /\ Send(t, "FailDeposit", 0) /\ End(t, "error")
    /\ UNCHANGED <<task, worldVars>>

(* Nothing is left to do, or nothing a resume can do.                      *)
NothingToResume(t) ==
    /\ At(t, "go")
    /\ \/ Settled(agg[t], dir[t]) \/ agg[t].st = "Reconciled"
       \/ agg[t].st \in {"WithdrawalFailed", "ConversionFailed", "DepositFailed"}
       \/ agg[t].st = "BridgingFailed" /\ (dir[t] = A2B \/ agg[t].burn = 0)
    /\ NoCommand /\ End(t, "ok")
    /\ NoFault /\ UNCHANGED <<task, worldVars>>

-----------------------------------------------------------------------------
(* The job queues: one worker per direction.                               *)

Running(t) == run[t].pc # "idle"

Start(t) ==
    /\ Live(t) /\ ~Running(t)
    /\ \A u \in Transfers : Running(u) => dir[u] # dir[t] \/ run[u].who = "cli"
    /\ run' = [run EXCEPT ![t] = [pc |-> "go", fresh |-> FALSE, try |-> 1, who |-> "bot"]]
    /\ UNCHANGED <<dir, agg, queueVars, task, memoryVars, worldVars, envVars>>

(* The hedging job's attempt timeout cancels the run wherever it waits;    *)
(* the burn task goes on.                                                  *)
AttemptTimesOut(t) ==
    /\ Running(t) /\ run[t].who = "bot" /\ dir[t] = B2A
    /\ Fault /\ End(t, "bounded")
    /\ NoCommand /\ UNCHANGED <<dir, task, worldVars, crashes>>

(* check_and_trigger_usdc, one at a time: claim the guard, then see an     *)
(* imbalance and nothing in flight in the inventory or in the queues and   *)
(* enqueue, or else drop the guard, whoever raised it by then.  A failed   *)
(* row whose aggregate no longer holds the guard is killed on the way.     *)
Zombie(t) ==
    /\ row[t] = "failed" /\ ~Running(t)
    /\ agg[t].st # "Absent" /\ ~HoldsGuard(agg[t], dir[t])

Unused(t) == agg[t].st = "Absent" /\ row[t] = "none" /\ ~Running(t)

ClaimGuard(t) ==
    /\ Unused(t) /\ \A u \in Transfers : row[u] # "claimed"
    /\ ~guard
    /\ guard' = TRUE
    /\ row' = [row EXCEPT ![t] = "claimed"]
    /\ UNCHANGED <<dir, agg, attempts, redrives, run, task, tracked, inflight, timedOut,
                   robbed, worldVars, envVars>>

NothingInFlight == \A d \in {A2B, B2A} : inflight[d] = 0

CheckAndTrigger(t) ==
    /\ row[t] = "claimed"
    /\ \/ /\ NothingInFlight /\ \A u \in Transfers : Live(u) => Zombie(u)
          /\ row' = [u \in Transfers |-> IF u = t THEN "ready"
                                         ELSE IF Zombie(u) THEN "dead" ELSE row[u]]
          /\ UNCHANGED guard
       \/ /\ guard' = FALSE
          /\ row' = [row EXCEPT ![t] = "none"]
    /\ UNCHANGED <<dir, agg, attempts, redrives, run, task, tracked, inflight, timedOut,
                   robbed, worldVars, envVars>>

-----------------------------------------------------------------------------
(* expire_stuck_usdc_rebalances.                                           *)

(* Queued, or holding the guard by its aggregate and not given up.         *)
Underway(u) == Live(u) \/ (HoldsGuard(agg[u], dir[u]) /\ u \notin timedOut)

Forget(t) ==
    /\ guard' = FALSE
    /\ inflight' = [inflight EXCEPT ![dir[t]] = 0]
    /\ tracked' = [tracked EXCEPT ![t] = "none"]
    /\ timedOut' = timedOut \cup {t}
    /\ robbed' = (robbed \/ \E u \in Transfers \ {t} : Underway(u))

Enqueue(t) ==
    /\ row' = [row EXCEPT ![t] = "ready"]
    /\ attempts' = [attempts EXCEPT ![t] = 0]
    /\ redrives' = [redrives EXCEPT ![t] = 0]

SweepForgetsBurn(t) ==
    /\ tracked[t] = "burned" /\ SweepTimesOut
    /\ Forget(t) /\ UNCHANGED queueVars

SweepPostBurn(t) ==
    /\ tracked[t] = "burned"
    /\ \/ agg[t].st = "Reconciled" /\ Forget(t)
       \/ /\ agg[t].st # "Reconciled" /\ SweepTimesOut
          /\ guard' = TRUE /\ UNCHANGED <<tracked, inflight, timedOut, robbed>>
    /\ UNCHANGED queueVars

SweepPreBurn(t) ==
    /\ tracked[t] \in {"conv", "withdraw"} /\ SweepTimesOut
    /\ IF agg[t].st \in {"Withdrawing", "WithdrawalComplete"} /\ dir[t] = A2B
       THEN Enqueue(t) /\ guard' = TRUE /\ UNCHANGED <<tracked, inflight, timedOut, robbed>>
       ELSE Forget(t) /\ UNCHANGED queueVars

Sweep(t) ==
    /\ ~Live(t)
    /\ SweepPostBurn(t) \/ SweepPreBurn(t)
    /\ UNCHANGED <<dir, agg, run, task, worldVars, envVars>>

(* A crash and the startup that follows: recover_usdc_guard and            *)
(* rearm_stranded_transfers, before the workers start.  The guard is       *)
(* rebuilt from the aggregates alone, so it is down for a row that was     *)
(* pushed and has recorded nothing yet.                                    *)
Rearmed(t) ==
    \/ RearmedUnlessLive(agg[t], dir[t]) /\ ~Live(t)
    \/ RearmedUnlessQueued(agg[t], dir[t]) /\ row[t] = "none"

Restart ==
    /\ crashes < MaxCrashes /\ crashes' = crashes + 1
    /\ \A t \in Transfers : run[t].who = "bot"
    /\ run' = [t \in Transfers |-> Idle]
    /\ task' = [t \in Transfers |-> "none"]
    /\ guard' = (\E t \in Transfers : HoldsGuard(agg[t], dir[t]))
    /\ tracked' = [t \in Transfers |-> IF SeedsTracking(agg[t], dir[t]) THEN "burned" ELSE "none"]
    /\ inflight' = [d \in {A2B, B2A} |-> 0]
    /\ timedOut' = {}
    /\ row' = [t \in Transfers |-> IF Rearmed(t) THEN "ready"
                                   ELSE IF row[t] = "claimed" THEN "none" ELSE row[t]]
    /\ attempts' = [t \in Transfers |-> IF Rearmed(t) THEN 0 ELSE attempts[t]]
    /\ redrives' = [t \in Transfers |-> IF Rearmed(t) THEN 0 ELSE redrives[t]]
    /\ UNCHANGED <<dir, agg, robbed, worldVars, faults>>

-----------------------------------------------------------------------------
(* The operator's commands, from another process.  The runbook has the     *)
(* operator run them only on a transfer that the bot is not driving, fail  *)
(* or clear one only when no burn of it can land, and reconcile one only   *)
(* when its funds are accounted for.                                       *)

Stuck(t) == OperatorActs /\ ~Live(t) /\ ~Running(t) /\ task[t] = "none"

Drive(t) ==
    run' = [run EXCEPT ![t] = [pc |-> "go", fresh |-> FALSE, try |-> 1, who |-> "cli"]]

CliTransfer(t) ==
    /\ ManualStarts /\ Unused(t) /\ Drive(t)
    /\ UNCHANGED <<dir, agg, queueVars, task, memoryVars, worldVars, envVars>>

CliResume(t) ==
    /\ Stuck(t) /\ agg[t].st # "Absent" /\ Drive(t)
    /\ UNCHANGED <<dir, agg, queueVars, task, memoryVars, worldVars, envVars>>

CliAborts(t) ==
    /\ Running(t) /\ run[t].who = "cli" /\ Fault
    /\ run' = [run EXCEPT ![t] = Idle]
    /\ task' = [task EXCEPT ![t] = "none"]
    /\ UNCHANGED <<dir, agg, queueVars, memoryVars, worldVars, crashes>>

Burned(t) == \E i \in Of(t, "burn") : txs[i].st \in {"pending", "mined"}

CliCommand(t, c) ==
    /\ Handles(agg[t], c, dir[t])
    /\ agg' = [agg EXCEPT ![t] = Evolve(@, c, 0)]
    /\ UNCHANGED <<dir, queueVars, run, task, memoryVars, worldVars, envVars>>

FailUsdcTransfer(t) ==
    /\ Stuck(t) /\ ~Burned(t)
    /\ agg[t].st \in {"WithdrawalComplete", "BridgingSubmitting"}
    /\ CliCommand(t, "FailBridging")

ClearPendingBurn(t) ==
    /\ Stuck(t) /\ agg[t].pending # 0 /\ txs[agg[t].pending].st = "dropped"
    /\ CliCommand(t, "ClearPendingBurn")

Reconcile(t) ==
    /\ Stuck(t) /\ agg[t].burn # 0 /\ Delivered(agg[t].burn) # {}
    /\ CliCommand(t, "ReconcileStuckRebalance")

-----------------------------------------------------------------------------
(* The chains and the relayers.                                            *)

Mine ==
    /\ \E i \in DOMAIN txs :
          /\ NextInLine(i)
          /\ \/ Become(i, IF Succeeds(txs[i]) THEN "mined" ELSE "reverted") /\ NoFault
             \/ txs[i].kind # "alpaca" /\ Succeeds(txs[i]) /\ Fault /\ Become(i, "reverted")
    /\ UNCHANGED <<dir, agg, queueVars, run, task, memoryVars, conv, crashes>>

(* A transaction leaves the mempool for good, or Alpaca fails a withdrawal *)
(* it has not reported complete.                                           *)
Drop ==
    /\ Fault
    /\ \E i \in DOMAIN txs :
          /\ txs[i].st = "pending"
          /\ txs[i].kind = "alpaca" => agg[txs[i].by].wtx # i \/ agg[txs[i].by].st = "Withdrawing"
          /\ Become(i, "dropped")
    /\ UNCHANGED <<dir, agg, queueVars, run, task, memoryVars, conv, crashes>>

Relay ==
    /\ Relayed
    /\ Len(txs) < MaxTxs
    /\ \E b \in DOMAIN txs :
          /\ txs[b].kind = "burn" /\ txs[b].st = "mined" /\ Delivered(b) = {}
          /\ txs' = Append(txs, [kind |-> "mint", by |-> txs[b].by, burn |-> b,
                                 st |-> "mined", at |-> Height + 1])
    /\ UNCHANGED <<dir, agg, queueVars, run, task, memoryVars, conv, envVars>>

-----------------------------------------------------------------------------
(* One step of the manager's run, and of the burn task, of transfer t.     *)
ManagerStep(t) ==
    \/ BeginConversion(t) \/ PlaceConversion(t) \/ RecordConversion(t) \/ ResumeConverting(t)
    \/ InitiateAlpacaWithdrawal(t) \/ RecordAlpacaWithdrawal(t) \/ PollWithdrawal(t)
    \/ BeginVaultWithdrawal(t) \/ WithdrawFromVault(t) \/ RecordVaultWithdrawal(t)
    \/ ResumeWithdrawalSubmitting(t) \/ ConfirmVaultWithdrawal(t)
    \/ BeginBurn(t) \/ SpawnBurn(t) \/ ConfirmBurn(t) \/ ResumeBridgingSubmitting(t)
    \/ ReceiveAttestation(t) \/ PollAttestation(t)
    \/ RecoverBridgingFailed(t) \/ BridgingFailedPends(t) \/ ResumeAttested(t)
    \/ Mint(t) \/ ConfirmMint(t)
    \/ SubmitDeposit(t) \/ RecordDeposit(t) \/ ConfirmDeposit(t)
    \/ SendDeposit(t) \/ RecordSend(t) \/ PollDeposit(t)
    \/ NothingToResume(t)

TaskStep(t) == SubmitBurn(t) \/ RecordPendingBurn(t)

OperatorStep(t) ==
    \/ CliTransfer(t) \/ CliResume(t) \/ CliAborts(t)
    \/ FailUsdcTransfer(t) \/ ClearPendingBurn(t) \/ Reconcile(t)

Next ==
    \/ \E t \in Transfers : \/ ClaimGuard(t) \/ CheckAndTrigger(t) \/ Start(t)
                            \/ AttemptTimesOut(t) \/ Sweep(t) \/ ManagerStep(t)
                            \/ TaskStep(t) \/ OperatorStep(t)
    \/ Restart \/ Mine \/ Drop \/ Relay

Spec == Init /\ [][Next]_vars

(* Rows are fetched in the order they are due, a run and a burn task go on *)
(* to their next step, the chains mine, and who polls for an attestation   *)
(* again and again is answered with it in the end.                         *)
FairSpec ==
    /\ Spec
    /\ WF_vars(Mine)
    /\ \A t \in Transfers : /\ SF_vars(Start(t))
                            /\ WF_vars(ManagerStep(t)) /\ WF_vars(TaskStep(t))
                            /\ SF_vars(ReceiveAttestation(t))
                            /\ SF_vars(RecoverBridgingFailed(t))

-----------------------------------------------------------------------------
(* Properties.                                                             *)

(* Whatever fails or restarts in between, at most one burn of a transfer   *)
(* can ever take effect: the reburn after a revert and the resume from     *)
(* BridgingSubmitting never add a second one (burn_recording_pending,      *)
(* resume_bridging_submitting).                                            *)
NoDoubleBurn ==
    \A t \in Transfers : \A i, j \in Of(t, "burn") :
        txs[i].st \in {"pending", "mined"} /\ txs[j].st \in {"pending", "mined"} => i = j

(* A recorded burn, mint and deposit are this transfer's own, although the *)
(* scans of a resume only match a direction, an amount and a block bound.  *)
LegsAreOwn ==
    \A t \in Transfers :
        /\ agg[t].burn # 0 => txs[agg[t].burn].by = t
        /\ agg[t].mint # 0 => txs[agg[t].mint].burn = agg[t].burn
        /\ agg[t].dep  # 0 => txs[agg[t].dep].by = t

(* While a transfer of the bot has burned and not settled, no trigger can  *)
(* push another one: the guard is up and no trigger's own, or USDC is in   *)
(* flight in the inventory, or its row is live.  That is so until the      *)
(* sweep of one transfer has lowered the guard of another, which takes a   *)
(* crash between the push of a row and its first event                     *)
(* (check_and_trigger_usdc, on_usdc_rebalance, recover_usdc_guard).        *)
UnsettledBurnBlocksTrigger ==
    ~robbed => \A t \in Transfers :
        /\ row[t] # "none"
        /\ agg[t].burn # 0 /\ ~Settled(agg[t], dir[t]) /\ agg[t].st # "Reconciled"
        => \/ guard /\ \A u \in Transfers : row[u] # "claimed"
           \/ ~NothingInFlight
           \/ Live(t) \/ Running(t)

(* A transfer that ended well did move its funds through every leg: its    *)
(* burn is mined and delivered, and the deposit it recorded is mined.      *)
SettledFundsArrived ==
    \A t \in Transfers : Settled(agg[t], dir[t]) =>
        /\ txs[agg[t].burn].st = "mined"
        /\ Delivered(agg[t].burn) # {}
        /\ txs[agg[t].dep].st = "mined"

(* The job row of a transfer comes to an end: done, or given up by apalis. *)
(* Neither the redrives that are not counted (an attestation, a withdrawal *)
(* or a burn still pending) nor the reburns go round for ever.             *)
EveryRowEnds == \A t \in Transfers : Live(t) ~> ~Live(t)

(* A row that holds burned funds is not dropped in between: the transfer   *)
(* settles, or a failure that keeps the guard is recorded, or the row is   *)
(* left dead for the operator to find.                                     *)
BurnedFundsResolved ==
    \A t \in Transfers :
        Live(t) /\ agg[t].burn # 0
        ~> \/ Settled(agg[t], dir[t]) \/ PostBurnFailure(agg[t], dir[t])
           \/ agg[t].st = "Reconciled" \/ row[t] = "dead"

=============================================================================
