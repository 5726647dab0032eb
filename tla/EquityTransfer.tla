---------------------------- MODULE EquityTransfer ----------------------------
(***************************************************************************)
(* Moving the shares of one symbol between Alpaca and the Raindex vault.   *)
(*                                                                         *)
(* A mint asks the issuer for tokens, wraps them and deposits them; a      *)
(* redemption withdraws, unwraps and sends tokens to the issuer.  Each is  *)
(* an aggregate, one job row and a run of CrossVenueEquityTransfer, which  *)
(* a recovery job or an operator may also drive.  All of them spend from   *)
(* one wallet.  In memory the rebalancing service keeps one guard slot per *)
(* symbol, the transfers it tracks, the active mint and redemption of the  *)
(* symbol and the transfers its sweep gave up on.  A mint that fails with  *)
(* its tokens in the wallet hands its slot to recovery; the recovery jobs  *)
(* are started by wallet polls that see a balance, and either resume the   *)
(* active transfer or move the whole balance into the vault.               *)
(*                                                                         *)
(* Every action is one aggregate command, one transaction submission, or   *)
(* the wait for one.  Transfers are of one unit each.                      *)
(***************************************************************************)
EXTENDS EquityAggregates, Integers, Sequences, FiniteSets

CONSTANTS
    Mints,           \* IssuerRequestIds
    Redemptions,     \* RedemptionAggregateIds
    None,            \* no transfer
    RecoveryEnabled, \* wrapped_equity_recovery of the symbol
    MaxFaults,       \* bound on failed calls, lost answers, dropped transactions
    MaxCrashes,      \* bound on crashes of the bot
    MaxAttempts,     \* attempts apalis makes of a row that fails
    MaxTxs,          \* bound on transactions
    SweepTimesOut,   \* whether transfer_timeout may elapse without progress
    MaxOperations    \* bound on uses of the API and the CLI

Transfers  == Mints \cup Redemptions
Recoveries == {"unwrapped", "wrapped"}
Sides      == {"mint", "redemption"}
Jobs       == Transfers \cup Recoveries
Drivers    == Jobs \cup {"operator"}

ASSUME EquityTransferAssumption ==
    /\ Mints \cap Redemptions = {}
    /\ Transfers \cap {"unwrapped", "wrapped", "operator"} = {}
    /\ None \notin Jobs
    /\ IsFiniteSet(Transfers)
    /\ {MaxFaults, MaxCrashes, MaxTxs, MaxOperations} \subseteq Nat
    /\ MaxAttempts \in Nat \ {0}
    /\ {RecoveryEnabled, SweepTimesOut} \subseteq BOOLEAN

VARIABLES
    agg,      \* the mint and redemption aggregates
    row,      \* a job's row: none, ready, failed, done, dead
    attempts, \* failed attempts of that row
    stale,    \* mints whose row carries a generation of an earlier process
    run,      \* what each driver is doing: the transfer, the step, the hash it holds
    rec,      \* the recovery aggregates, and how their guard was claimed
    mem,      \* equity_in_progress, tracking, active transfers, timeout tombstones,
              \*   the inventory's in-flight shares and the sides of the last poll of them
    sweep,    \* the transfer the sweep is giving up on
    seen,     \* the recorded snapshots: wallet balances, pending requests of the issuer
    prov,     \* the issuer's request of a transfer
    txs,      \* the transactions of the wallet, in order of submission
    moved,    \* the tokens that mined transactions of each kind have moved
    faults, crashes, operations

queueVars == <<row, attempts, stale>>
envVars   == <<faults, crashes, operations>>
chain     == <<txs, moved>>
vars == <<agg, queueVars, run, rec, mem, sweep, seen, prov, chain, envVars>>

-----------------------------------------------------------------------------
(* The wallet and its transactions.                                        *)

Kinds == {"issue", "wrap", "deposit", "withdraw", "unwrap", "send"}

(* Tokens in the wallet: unwrapped and wrapped.                            *)
Wallet(k) ==
    IF k = "unwrapped"
    THEN (moved["issue"] + moved["unwrap"]) - (moved["wrap"] + moved["send"])
    ELSE (moved["wrap"] + moved["withdraw"]) - (moved["unwrap"] + moved["deposit"])

Spends(kind, amt) ==
    /\ kind \in {"wrap", "send"} => Wallet("unwrapped") >= amt
    /\ kind \in {"unwrap", "deposit"} => Wallet("wrapped") >= amt

(* Gas estimation fails for a call that would revert in the latest block.  *)
Submit(d, kind, amt) ==
    /\ Spends(kind, amt)
    /\ Len(txs) < MaxTxs
    /\ txs' = Append(txs, [kind |-> kind, by |-> d, amt |-> amt, st |-> "pending"])
    /\ UNCHANGED moved

(* A receipt of whatever status.                                           *)
Included(x) == txs[x].st \in {"mined", "reverted"}

Lands(x) == txs[x].st = "mined"
Lost(x)  == txs[x].st \in {"reverted", "dropped"}

-----------------------------------------------------------------------------
Side(t)  == IF t \in Mints THEN "mint" ELSE "redemption"
Table(t) == IF t \in Mints THEN MintTable ELSE RedemptionTable

Handles(t, e) == agg[t].st \in Table(t)[e].from
Open(t) == agg[t].st \notin Terminal \cup {"Absent"}

Free == [st |-> "free", by |-> None]
Held == [st |-> "held", by |-> None]

(* A claim of another generation than any row's or recovery's.             *)
Unowned == [st |-> "active", by |-> None]

(* fresh: start_mint, start_redemption; resumed: try_deposit_or_recover.   *)
Idle == [on |-> None, pc |-> "idle", tx |-> 0, fresh |-> FALSE, resumed |-> FALSE,
         recheck |-> FALSE]
NoSweep == [t |-> None, pc |-> "idle", stage |-> "Absent"]
NoRecovery == [st |-> "none", shares |-> 0, tx |-> 0, held |-> FALSE]

PCs == {"idle", "go", "requested", "rejected", "recordWrap", "confirmWrap", "deposit",
        "recordDeposit", "confirmDeposit", "persist", "sending",
        "claimed", "orphanWrap", "orphanDeposit", "recordOrphan", "confirmOrphan"}

TypeOK ==
    /\ agg \in [Transfers -> [st : MintStates \cup RedemptionStates, tx : 0..MaxTxs,
                              sent : 0..MaxTxs, accepted : BOOLEAN, received : BOOLEAN]]
    /\ row \in [Jobs -> {"none", "ready", "failed", "done", "dead"}]
    /\ attempts \in [Jobs -> 0..MaxAttempts]
    /\ stale \subseteq Mints
    /\ run \in [Drivers -> [on : Transfers \cup {None}, pc : PCs, tx : 0..MaxTxs,
                            fresh : BOOLEAN, resumed : BOOLEAN, recheck : BOOLEAN]]
    /\ rec \in [Recoveries -> [st : {"none", "Detected", "OrphanWrapSubmitted", "OrphanWrapped",
                                     "OrphanDepositSubmitted", "terminal"},
                               shares : Nat, tx : 0..MaxTxs, held : BOOLEAN]]
    /\ mem \in [slot : [st : {"free", "active", "held"}, by : Jobs \cup {None}],
                tracked : SUBSET Transfers,
                active : [Sides -> Transfers \cup {None}],
                tombs : SUBSET Transfers,
                inflight : [Sides -> Nat],
                polled : SUBSET Sides]
    /\ sweep \in [t : Transfers \cup {None}, pc : {"idle", "clear", "fail"},
                  stage : MintStates \cup RedemptionStates]
    /\ seen \in [Recoveries \cup Sides -> Nat]
    /\ prov \in [Transfers -> {"none", "pending", "completed", "rejected"}]
    /\ txs \in Seq([kind : Kinds, by : Jobs, amt : Nat \ {0},
                    st : {"pending", "mined", "reverted", "dropped"}])
    /\ moved \in [Kinds -> Nat]
    /\ faults \in 0..MaxFaults
    /\ crashes \in 0..MaxCrashes
    /\ operations \in 0..MaxOperations

Forgotten == [slot |-> Free, tracked |-> {},
              active |-> [s \in Sides |-> None], tombs |-> {},
              inflight |-> [s \in Sides |-> 0], polled |-> {}]

Init ==
    /\ agg = [t \in Transfers |-> Unborn]
    /\ row = [j \in Jobs |-> "none"]
    /\ attempts = [j \in Jobs |-> 0]
    /\ stale = {}
    /\ run = [d \in Drivers |-> Idle]
    /\ rec = [k \in Recoveries |-> NoRecovery]
    /\ mem = Forgotten
    /\ sweep = NoSweep
    /\ seen = [k \in Recoveries \cup Sides |-> 0]
    /\ prov = [t \in Transfers |-> "none"]
    /\ txs = <<>>
    /\ moved = [kind \in Kinds |-> 0]
    /\ faults = 0
    /\ crashes = 0
    /\ operations = 0

Fault   == faults < MaxFaults /\ faults' = faults + 1 /\ UNCHANGED <<crashes, operations>>
NoFault == UNCHANGED envVars

(* It happens by itself when `due`, and by a fault otherwise.              *)
FaultUnless(due) == (due /\ NoFault) \/ (~due /\ Fault)

Live(j) == row[j] \in {"ready", "failed"}

-----------------------------------------------------------------------------
(* mint_inventory_update, redemption_inventory_update: shares leave for    *)
(* the other venue, and arrive or are returned.                            *)
StartsInflight == {"MintAccepted", "VaultWithdrawPending"}
EndsInflight   == {"MintAcceptanceFailed", "TokensReceived", "ProviderCompletionRecovered",
                   "Completed", "TransferFailed"}

(* InsufficientInflight: more would end than is in flight.                 *)
NeverShort(m, side, e) == FALSE

Short(m, side, e) == e \in EndsInflight /\ m.inflight[side] = 0

(* on_mint, on_redemption: what the service makes of an event of a         *)
(* transfer its own process drives.  More shares ended than are in flight  *)
(* is an error, which the bridge logs, and nothing after it happens.  A    *)
(* terminal event removes the symbol's slot whoever holds it.              *)
React(m, t, e) ==
    LET side == Side(t)
        n == [m EXCEPT !.tracked = IF e \in Genesis THEN @ \cup {t} ELSE @]
        o == [n EXCEPT !.inflight[side] = IF e \in StartsInflight THEN @ + 1
                                          ELSE IF e \in EndsInflight THEN @ - 1 ELSE @,
                       !.polled = IF e \in StartsInflight THEN @ \ {side} ELSE @]
    IN  IF t \in m.tombs THEN m
        ELSE IF t \notin n.tracked \/ Short(n, side, e) THEN n
        ELSE IF IsTerminalEvent(Table(t), e)
             THEN [o EXCEPT !.tracked = @ \ {t}, !.active[side] = None, !.slot = Free]
             ELSE [o EXCEPT !.active[side] = t]

(* RecoveryGuard dropped: on release the slot is removed, otherwise it     *)
(* goes back to what was claimed; a slot somebody else owns is left alone. *)
Released(m, k) == IF m.slot.by = k THEN [m EXCEPT !.slot = Free] ELSE m
Restored(m, k) ==
    IF m.slot.by = k THEN [m EXCEPT !.slot = IF rec[k].held THEN Held ELSE Free] ELSE m

(* abandon_mint_recovery_guard                                             *)
Abandoned(m, t) ==
    [m EXCEPT !.tracked = @ \ {t}, !.slot = Free,
              !.active["mint"] = IF @ = t THEN None ELSE @]

-----------------------------------------------------------------------------
(* How a driver ends.  m is the memory after the event it recorded last.   *)

(* apalis retries a row that failed until its attempts are spent.          *)
Retries(j) ==
    /\ attempts' = [attempts EXCEPT ![j] = @ + 1]
    /\ row' = [row EXCEPT ![j] = IF attempts[j] + 1 = MaxAttempts THEN "dead" ELSE "failed"]

Finishes(j) == row' = [row EXCEPT ![j] = "done"] /\ UNCHANGED attempts

(* A recovery job whose aggregate reached a terminal state, failure        *)
(* included, succeeds and releases the slot.                               *)
RecoveryEnds(k, m) ==
    /\ rec' = [rec EXCEPT ![k].st = "terminal", ![k].held = FALSE]
    /\ mem' = Released(m, k)
    /\ Finishes(k)

Ends(d, m) ==
    /\ run' = [run EXCEPT ![d] = Idle]
    /\ \/ d \in Transfers /\ Finishes(d) /\ mem' = m /\ UNCHANGED rec
       \/ d \in Recoveries /\ RecoveryEnds(d, m)
       \/ d = "operator" /\ mem' = m /\ UNCHANGED <<row, attempts, rec>>

(* TransferEquityToMarketMaking::perform after a PostReceipt error.  A row *)
(* of an earlier process carries a generation that may or may not be the   *)
(* slot's.                                                                 *)
HandsOver(t, st) ==
    t \in Mints /\ RecoveryEnabled /\ st \in {"TokensReceived", "WrapSubmitted"}

MarkHeld(t, m) ==
    \/ /\ m.slot.st = "active" /\ (m.slot.by = t \/ t \in stale)
       /\ mem' = [m EXCEPT !.slot = Held] /\ Finishes(t)
    \/ /\ m.slot.st = "active" /\ m.slot.by # t
       /\ mem' = m /\ Finishes(t)
    \/ m.slot.st = "held" /\ mem' = m /\ Finishes(t)
    \/ m.slot.st = "free" /\ mem' = m /\ Retries(t)

JobFails(t, m, st) ==
    \/ HandsOver(t, st) /\ MarkHeld(t, m)
    \/ ~HandsOver(t, st) /\ mem' = m /\ Retries(t)

(* The run of d on its transfer returned an error, the aggregate in st.    *)
Fails(d, m, st) ==
    /\ run' = [run EXCEPT ![d] = Idle]
    /\ \/ d \in Transfers /\ JobFails(d, m, st) /\ UNCHANGED rec
       \/ d \in Recoveries /\ RecoveryEnds(d, m)
       \/ /\ d = "operator"
          /\ mem' = IF run[d].recheck THEN Abandoned(m, run[d].on) ELSE m
          /\ UNCHANGED <<row, attempts, rec>>

Errs(d) == Fails(d, mem, agg[run[d].on].st) /\ UNCHANGED agg

(* d records event e, with hash x, and goes on at pc.                      *)
Records(d, e, x, pc) ==
    LET t == run[d].on
    IN  /\ Handles(t, e)
        /\ agg' = [agg EXCEPT ![t] = Evolved(@, Table(t), e, x)]
        /\ mem' = React(mem, t, e)
        /\ run' = [run EXCEPT ![d].pc = pc, ![d].tx = x]
        /\ UNCHANGED <<row, attempts, rec>>

(* d records event e, the last of its run.  A failure is an error of a     *)
(* fresh run all the same: its next command or load is refused.  A resumed *)
(* run loads the failed aggregate and has nothing left to do.              *)
RecordsLast(d, e, x) ==
    LET t == run[d].on
        m == React(mem, t, e)
        refused == run[d].fresh /\ Table(t)[e].to = "Failed"
    IN  /\ Handles(t, e)
        /\ agg' = [agg EXCEPT ![t] = Evolved(@, Table(t), e, x)]
        /\ \/ ~refused /\ Ends(d, m)
           \/ refused /\ Fails(d, m, "Failed")

Goes(d, st) == run[d].on \in Transfers /\ run[d].pc = "go" /\ agg[run[d].on].st = st

At(d, pc) == run[d].on \in Transfers /\ run[d].pc = pc

world == <<prov, chain>>
rest  == <<stale, sweep, seen>>

(* d holds x and goes on at pc; nothing is recorded.                       *)
Holds(d, x, pc) ==
    /\ run' = [run EXCEPT ![d].pc = pc, ![d].tx = x]
    /\ UNCHANGED <<agg, row, attempts, rec, mem>>

-----------------------------------------------------------------------------
(* The transfer queue.                                                     *)

(* Failed rows of a settled transfer, which in_flight_equity_transfer      *)
(* kills; any other live row suppresses a new transfer.                    *)
Zombies == {t \in Transfers : row[t] = "failed" /\ agg[t].st \in Terminal /\ run[t] = Idle}

(* check_and_trigger_equity, when the inventory is out of balance.         *)
Trigger(t) ==
    /\ agg[t].st = "Absent" /\ row[t] = "none"
    /\ mem.slot = Free
    /\ \A s \in Sides : mem.inflight[s] = 0
    /\ \A u \in Transfers : Live(u) => u \in Zombies
    /\ row' = [u \in Jobs |-> IF u = t THEN "ready"
                              ELSE IF u \in Zombies THEN "dead" ELSE row[u]]
    /\ mem' = [mem EXCEPT !.slot = [st |-> "active", by |-> t]]
    /\ UNCHANGED <<agg, attempts, run, rec, world, rest, envVars>>

Start(t) ==
    /\ Live(t) /\ run[t] = Idle
    /\ run' = [run EXCEPT ![t] = [Idle EXCEPT !.on = t, !.pc = "go",
                                              !.fresh = (agg[t].st = "Absent")]]
    /\ UNCHANGED <<agg, row, attempts, rec, mem, world, rest, envVars>>

(* A settled transfer is a no-op; one that was settled under a fresh run   *)
(* refuses its next command.                                               *)
NothingLeft(d) ==
    /\ At(d, "go") /\ agg[run[d].on].st \in Terminal
    /\ \/ ~run[d].fresh /\ Ends(d, mem) /\ UNCHANGED agg
       \/ run[d].fresh /\ Errs(d)
    /\ UNCHANGED <<world, rest, envVars>>

-----------------------------------------------------------------------------
(* start_mint and resume_mint.                                             *)

(* RequestMint: the issuer answers a repeated request with the first one.  *)
RequestMint(d) ==
    /\ Goes(d, "Absent") /\ run[d].on \in Mints
    /\ \/ \E answer \in {"pending", "rejected"} :
             /\ prov[run[d].on] = "none"
             /\ prov' = [prov EXCEPT ![run[d].on] = answer]
             /\ Holds(d, 0, IF answer = "rejected" THEN "rejected" ELSE "requested")
             /\ NoFault
       \/ /\ prov[run[d].on] # "none"
          /\ Holds(d, 0, IF prov[run[d].on] = "rejected" THEN "rejected" ELSE "requested")
          /\ UNCHANGED prov /\ NoFault
       \/ Fault /\ Errs(d) /\ UNCHANGED prov
    /\ UNCHANGED <<chain, rest>>

RecordRequest(d) ==
    /\ \/ At(d, "requested") /\ Records(d, "MintAccepted", 0, "go")
       \/ At(d, "rejected") /\ RecordsLast(d, "MintRejected", 0)
    /\ UNCHANGED <<world, rest, envVars>>

(* Poll: a failed poll fails the mint, whatever the issuer does later; a   *)
(* completed request without its hash or token is an error.                *)
PollMint(d) ==
    /\ Goes(d, "MintAccepted")
    /\ \/ /\ prov[run[d].on] = "completed" /\ NoFault
          /\ Records(d, "TokensReceived", 0, "go")
       \/ /\ FaultUnless(prov[run[d].on] = "rejected")
          /\ RecordsLast(d, "MintAcceptanceFailed", 0)
       \/ prov[run[d].on] = "completed" /\ Fault /\ Errs(d)
    /\ UNCHANGED <<world, rest>>

(* A submission that fails, or whose answer is lost once it is out.        *)
SubmissionFails(d, kind) ==
    \/ ~Spends(kind, 1) /\ NoFault /\ UNCHANGED chain
    \/ Fault /\ UNCHANGED chain
    \/ Fault /\ Submit(run[d].on, kind, 1)

SubmitWrap(d) ==
    /\ Goes(d, "TokensReceived")
    /\ \/ /\ Submit(run[d].on, "wrap", 1)
          /\ Holds(d, Len(txs) + 1, "recordWrap")
          /\ NoFault
       \/ SubmissionFails(d, "wrap") /\ Errs(d)
    /\ UNCHANGED <<prov, rest>>

RecordWrap(d) ==
    /\ At(d, "recordWrap")
    /\ \/ Records(d, "WrapSubmitted", run[d].tx, "confirmWrap")
       \/ ~Handles(run[d].on, "WrapSubmitted") /\ Errs(d)
    /\ UNCHANGED <<world, rest, envVars>>

ResumeWrap(d) ==
    /\ Goes(d, "WrapSubmitted")
    /\ run' = [run EXCEPT ![d].pc = "confirmWrap", ![d].tx = agg[run[d].on].tx,
                          ![d].resumed = TRUE]
    /\ UNCHANGED <<agg, row, attempts, rec, mem, world, rest, envVars>>

ConfirmWrap(d) ==
    /\ At(d, "confirmWrap")
    /\ \/ /\ Lands(run[d].tx) /\ NoFault
          /\ \/ Records(d, "TokensWrapped", run[d].tx, "deposit")
             \/ ~Handles(run[d].on, "TokensWrapped") /\ Errs(d)
       \/ FaultUnless(Lost(run[d].tx)) /\ Errs(d)
    /\ UNCHANGED <<world, rest>>

ResumeWrapped(d) ==
    /\ Goes(d, "TokensWrapped")
    /\ run' = [run EXCEPT ![d].pc = "deposit", ![d].resumed = TRUE]
    /\ UNCHANGED <<agg, row, attempts, rec, mem, world, rest, envVars>>

(* try_deposit_or_recover: a resumed run takes an insufficient balance for *)
(* the proof that the deposit landed earlier.                              *)
SubmitDeposit(d) ==
    /\ At(d, "deposit")
    /\ \/ /\ Submit(run[d].on, "deposit", 1)
          /\ Holds(d, Len(txs) + 1, "recordDeposit")
          /\ NoFault
       \/ /\ ~Spends("deposit", 1) /\ run[d].resumed
          /\ NoFault /\ UNCHANGED chain
          /\ \/ RecordsLast(d, "DepositedIntoRaindex", 0)
             \/ ~Handles(run[d].on, "DepositedIntoRaindex") /\ Errs(d)
       \/ /\ Spends("deposit", 1) \/ ~run[d].resumed
          /\ SubmissionFails(d, "deposit") /\ Errs(d)
       \/ Fault /\ UNCHANGED chain /\ Errs(d)
    /\ UNCHANGED <<prov, rest>>

RecordDeposit(d) ==
    /\ At(d, "recordDeposit")
    /\ \/ Records(d, "VaultDepositSubmitted", run[d].tx, "confirmDeposit")
       \/ ~Handles(run[d].on, "VaultDepositSubmitted") /\ Errs(d)
    /\ UNCHANGED <<world, rest, envVars>>

ResumeDeposit(d) ==
    /\ Goes(d, "VaultDepositSubmitted")
    /\ Holds(d, agg[run[d].on].tx, "confirmDeposit")
    /\ UNCHANGED <<world, rest, envVars>>

ConfirmDeposit(d) ==
    /\ At(d, "confirmDeposit")
    /\ \/ /\ Lands(run[d].tx) /\ NoFault
          /\ \/ RecordsLast(d, "DepositedIntoRaindex", run[d].tx)
             \/ ~Handles(run[d].on, "DepositedIntoRaindex") /\ Errs(d)
       \/ FaultUnless(Lost(run[d].tx)) /\ Errs(d)
    /\ UNCHANGED <<world, rest>>

-----------------------------------------------------------------------------
(* start_redemption and resume_redemption.  The commands call the chain    *)
(* themselves: an event is persisted after the call it reports.            *)

Redeem(d) ==
    /\ Goes(d, "Absent") /\ run[d].on \in Redemptions
    /\ \/ Records(d, "VaultWithdrawPending", 0, "go") /\ NoFault
       \/ Fault /\ Errs(d)
    /\ UNCHANGED <<world, rest>>

(* UnwrapTokens and PrepareSend only record that the next step is due.     *)
Prepare(d) ==
    /\ \/ Goes(d, "WithdrawnFromRaindex") /\ Records(d, "UnwrapPending", 0, "go")
       \/ Goes(d, "TokensUnwrapped") /\ Records(d, "SendPending", 0, "go")
    /\ UNCHANGED <<world, rest, envVars>>

(* SubmitWithdraw and SubmitUnwrap up to the call, and after it.           *)
CallOf(st) == IF st = "VaultWithdrawPending" THEN "withdraw" ELSE "unwrap"

SubmitCall(d) ==
    /\ Goes(d, "VaultWithdrawPending") \/ Goes(d, "UnwrapPending")
    /\ LET kind == CallOf(agg[run[d].on].st)
       IN  \/ /\ Submit(run[d].on, kind, 1)
              /\ Holds(d, Len(txs) + 1, "persist")
              /\ NoFault
           \/ SubmissionFails(d, kind) /\ Errs(d)
    /\ UNCHANGED <<prov, rest>>

PersistCall(d) ==
    /\ At(d, "persist")
    /\ LET e == IF txs[run[d].tx].kind = "withdraw" THEN "VaultWithdrawSubmitted"
                                                    ELSE "UnwrapSubmitted"
       IN  \/ Records(d, e, run[d].tx, "go")
           \/ ~Handles(run[d].on, e) /\ Errs(d)
    /\ UNCHANGED <<world, rest, envVars>>

(* ConfirmWithdraw, ConfirmUnwrap                                          *)
ConfirmCall(d) ==
    /\ Goes(d, "VaultWithdrawSubmitted") \/ Goes(d, "UnwrapSubmitted")
    /\ LET a == agg[run[d].on]
           e == IF a.st = "VaultWithdrawSubmitted" THEN "WithdrawnFromRaindex"
                                                   ELSE "TokensUnwrapped"
       IN  \/ Lands(a.tx) /\ NoFault /\ Records(d, e, a.tx, "go")
           \/ FaultUnless(Lost(a.tx)) /\ Errs(d)
    /\ UNCHANGED <<world, rest>>

(* SendTokens waits for the node, which may fail the command, submits and  *)
(* waits; an error of either records TransferFailed without a hash.        *)
SendTokens(d) ==
    /\ Goes(d, "SendPending")
    /\ \/ /\ Submit(run[d].on, "send", 1)
          /\ Holds(d, Len(txs) + 1, "sending")
          /\ NoFault
       \/ /\ FaultUnless(~Spends("send", 1)) /\ UNCHANGED chain
          /\ RecordsLast(d, "TransferFailed", 0)
       \/ Fault /\ UNCHANGED chain /\ Errs(d)
    /\ UNCHANGED <<prov, rest>>

ConfirmSend(d) ==
    /\ At(d, "sending")
    /\ \/ /\ Lands(run[d].tx) /\ NoFault
          /\ Records(d, "TokensSent", run[d].tx, "go")
       \/ /\ FaultUnless(Lost(run[d].tx))
          /\ agg[run[d].on].st = "SendPending"
          /\ RecordsLast(d, "TransferFailed", 0)
       \/ /\ Lands(run[d].tx) \/ Lost(run[d].tx)
          /\ agg[run[d].on].st # "SendPending"
          /\ NoFault /\ Errs(d)
    /\ UNCHANGED <<world, rest>>

PollDetection(d) ==
    /\ Goes(d, "TokensSent")
    /\ \/ prov[run[d].on] # "none" /\ NoFault /\ Records(d, "Detected", 0, "go")
       \/ Fault /\ RecordsLast(d, "DetectionFailed", 0)
    /\ UNCHANGED <<world, rest>>

(* A request still pending after the poll is an error and stays pending.   *)
PollCompletion(d) ==
    /\ Goes(d, "Pending")
    /\ \/ prov[run[d].on] = "completed" /\ NoFault /\ RecordsLast(d, "Completed", 0)
       \/ /\ FaultUnless(prov[run[d].on] = "rejected")
          /\ RecordsLast(d, "RedemptionRejected", 0)
       \/ prov[run[d].on] = "pending" /\ Fault /\ Errs(d)
    /\ UNCHANGED <<world, rest>>

MintStep(d) ==
    \/ RequestMint(d) \/ RecordRequest(d) \/ PollMint(d)
    \/ SubmitWrap(d) \/ RecordWrap(d) \/ ResumeWrap(d) \/ ConfirmWrap(d)
    \/ ResumeWrapped(d) \/ SubmitDeposit(d) \/ RecordDeposit(d)
    \/ ResumeDeposit(d) \/ ConfirmDeposit(d)

RedemptionStep(d) ==
    \/ Redeem(d) \/ Prepare(d) \/ SubmitCall(d) \/ PersistCall(d) \/ ConfirmCall(d)
    \/ SendTokens(d) \/ ConfirmSend(d) \/ PollDetection(d) \/ PollCompletion(d)

-----------------------------------------------------------------------------
(* The recovery jobs.                                                      *)

(* enqueue_checks_for_snapshot for a balance the view now reports: a fresh *)
(* recovery unless one of its kind has a row.                              *)
Due(k, balances) == RecoveryEnabled /\ balances[k] > 0 /\ ~Live(k)

Enqueued(ks) ==
    /\ row' = [j \in Jobs |-> IF j \in ks THEN "ready" ELSE row[j]]
    /\ attempts' = [j \in Jobs |-> IF j \in ks THEN 0 ELSE attempts[j]]

(* A poll records a wallet balance only when it changed.  The snapshots    *)
(* matter here to recovery alone.                                          *)
PollWallet(k) ==
    /\ RecoveryEnabled /\ Wallet(k) # seen[k]
    /\ seen' = [seen EXCEPT ![k] = Wallet(k)]
    /\ LET ks == {j \in {k} : Due(j, seen')}
       IN  /\ Enqueued(ks)
           /\ rec' = [j \in Recoveries |-> IF j \in ks THEN NoRecovery ELSE rec[j]]
    /\ UNCHANGED <<agg, stale, run, mem, sweep, world, envVars>>

(* poll_inflight_equity and apply_inflight_snapshot: what the issuer still *)
(* has pending of the tracked transfers replaces what is in flight; a side *)
(* of the last poll that is gone is zeroed.                                *)
Pending(s) ==
    Cardinality({t \in mem.tracked : /\ Side(t) = s /\ prov[t] = "pending"
                                     /\ t \in Mints \/ agg[t].sent # 0})

PollInflight ==
    /\ \E s \in Sides : Pending(s) # seen[s] \/ Pending(s) > 0
    /\ seen' = [k \in DOMAIN seen |-> IF k \in Sides THEN Pending(k) ELSE seen[k]]
    /\ mem' = [mem EXCEPT !.inflight = [s \in Sides |-> IF Pending(s) > 0 \/ s \in mem.polled
                                                        THEN Pending(s) ELSE @[s]],
                          !.polled = {s \in Sides : Pending(s) > 0}]
    /\ UNCHANGED <<agg, queueVars, run, rec, sweep, world, envVars>>

(* Claim that takes an active slot as well.                                *)
ClaimsAnySlot(k) ==
    /\ Live(k) /\ run[k] = Idle
    /\ mem' = [mem EXCEPT !.slot = [st |-> "active", by |-> k]]
    /\ rec' = [rec EXCEPT ![k].held = (mem.slot.st = "held")]
    /\ run' = [run EXCEPT ![k].pc = "claimed"]
    /\ UNCHANGED <<agg, row, attempts, world, rest, envVars>>

(* claim_guard_for_recovery_or_orphan; an active slot reschedules the job. *)
Claim(k) ==
    /\ Live(k) /\ run[k] = Idle /\ mem.slot.st # "active"
    /\ mem' = [mem EXCEPT !.slot = [st |-> "active", by |-> k]]
    /\ rec' = [rec EXCEPT ![k].held = (mem.slot.st = "held")]
    /\ run' = [run EXCEPT ![k].pc = "claimed"]
    /\ UNCHANGED <<agg, row, attempts, world, rest, envVars>>

(* decide_dispatch                                                         *)
ActiveTransfers == {mem.active[s] : s \in Sides} \ {None}

(* validate_active_aggregate_quantity                                      *)
Mismatch(k) == Cardinality(ActiveTransfers) = 1 /\ seen[k] # 1

Drops(k) ==
    /\ run' = [run EXCEPT ![k] = Idle]
    /\ mem' = Restored(mem, k)
    /\ rec' = [rec EXCEPT ![k].held = FALSE]

(* Zero balance in the view: only a job that came from a held slot keeps   *)
(* its row.                                                                *)
NoBalanceSkip(k) ==
    /\ run[k].pc = "claimed" /\ seen[k] = 0
    /\ k = "unwrapped" => rec[k].st = "none"
    /\ Drops(k)
    /\ IF rec[k].held THEN UNCHANGED <<row, attempts>> ELSE Finishes(k)
    /\ UNCHANGED <<agg, world, rest, envVars>>

(* A fresh job whose active transfer is of another quantity, and a wrapped *)
(* job that finds its aggregate already detected, fail and are retried.    *)
DetectFails(k) ==
    /\ run[k].pc = "claimed" /\ seen[k] > 0
    /\ \/ rec[k].st = "none" /\ Mismatch(k)
       \/ k = "wrapped" /\ rec[k].st # "none"
    /\ Drops(k)
    /\ Retries(k)
    /\ UNCHANGED <<agg, world, rest, envVars>>

(* resume_from_detected of a balance that is gone or changed, and the      *)
(* refusal to choose between an active mint and an active redemption.      *)
FailRecovery(k) ==
    /\ run[k].pc = "claimed"
    /\ \/ /\ k = "unwrapped" /\ rec[k].st = "Detected"
          /\ seen[k] # rec[k].shares \/ Mismatch(k)
       \/ rec[k].st = "none" /\ seen[k] > 0 /\ Cardinality(ActiveTransfers) = 2
    /\ run' = [run EXCEPT ![k] = Idle]
    /\ RecoveryEnds(k, mem)
    /\ UNCHANGED <<agg, world, rest, envVars>>

(* Detect, and the dispatch to the active transfer or to the orphan path.  *)
Detect(k) ==
    /\ run[k].pc = "claimed" /\ seen[k] > 0 /\ ~Mismatch(k)
    /\ Cardinality(ActiveTransfers) < 2
    /\ \/ rec[k].st = "none"
       \/ k = "unwrapped" /\ rec[k].st = "Detected" /\ rec[k].shares = seen[k]
    /\ rec' = [rec EXCEPT ![k].st = "Detected", ![k].shares = seen[k]]
    /\ \/ \E t \in ActiveTransfers :
             run' = [run EXCEPT ![k].on = t, ![k].pc = "go"]
       \/ /\ ActiveTransfers = {}
          /\ run' = [run EXCEPT ![k].pc = IF k = "unwrapped" THEN "orphanWrap"
                                                             ELSE "orphanDeposit"]
    /\ UNCHANGED <<agg, row, attempts, mem, world, rest, envVars>>

(* A retried unwrapped job enters the orphan path where it stopped.        *)
ResumeOrphan ==
    /\ run["unwrapped"].pc = "claimed"
    /\ \/ /\ rec["unwrapped"].st \in {"OrphanWrapSubmitted", "OrphanDepositSubmitted"}
          /\ run' = [run EXCEPT !["unwrapped"].pc = "confirmOrphan"]
       \/ /\ rec["unwrapped"].st = "OrphanWrapped"
          /\ run' = [run EXCEPT !["unwrapped"].pc = "orphanDeposit"]
    /\ UNCHANGED <<agg, row, attempts, rec, mem, world, rest, envVars>>

OrphanFails(k) ==
    /\ run' = [run EXCEPT ![k] = Idle]
    /\ RecoveryEnds(k, mem)
    /\ UNCHANGED agg

(* SubmitOrphanWrap, SubmitOrphanDeposit: the whole balance seen.  A       *)
(* submission that fails, or whose answer is lost, fails the recovery; the *)
(* unwrapped job retries when the node has not reached the wrap's block.   *)
SubmitOrphan(k) ==
    /\ run[k].pc \in {"orphanWrap", "orphanDeposit"}
    /\ LET kind == IF run[k].pc = "orphanWrap" THEN "wrap" ELSE "deposit"
       IN  \/ /\ Submit(k, kind, rec[k].shares)
              /\ run' = [run EXCEPT ![k].pc = "recordOrphan", ![k].tx = Len(txs) + 1]
              /\ UNCHANGED <<agg, row, attempts, rec, mem>> /\ NoFault
           \/ /\ \/ FaultUnless(~Spends(kind, rec[k].shares)) /\ UNCHANGED chain
                 \/ Fault /\ Submit(k, kind, rec[k].shares)
              /\ OrphanFails(k)
           \/ /\ k = "unwrapped" /\ kind = "deposit"
              /\ Fault /\ UNCHANGED chain
              /\ Drops(k) /\ Retries(k) /\ UNCHANGED agg
    /\ UNCHANGED <<prov, rest>>

RecordOrphan(k) ==
    /\ run[k].pc = "recordOrphan"
    /\ rec' = [rec EXCEPT ![k].tx = run[k].tx,
                          ![k].st = IF txs[run[k].tx].kind = "wrap" THEN "OrphanWrapSubmitted"
                                                                    ELSE "OrphanDepositSubmitted"]
    /\ run' = [run EXCEPT ![k].pc = "confirmOrphan", ![k].tx = 0]
    /\ UNCHANGED <<agg, row, attempts, mem, world, rest, envVars>>

(* ConfirmOrphanWrap, ConfirmOrphanDeposit: the unwrapped job retries what *)
(* it could not confirm unless the transaction is gone, the wrapped job    *)
(* gives up.                                                               *)
ConfirmOrphan(k) ==
    /\ run[k].pc = "confirmOrphan"
    /\ \/ /\ Lands(rec[k].tx) /\ rec[k].st = "OrphanWrapSubmitted" /\ NoFault
          /\ rec' = [rec EXCEPT ![k].st = "OrphanWrapped"]
          /\ run' = [run EXCEPT ![k].pc = "orphanDeposit"]
          /\ UNCHANGED <<agg, row, attempts, mem>>
       \/ /\ Lands(rec[k].tx) /\ rec[k].st = "OrphanDepositSubmitted" /\ NoFault
          /\ OrphanFails(k)
       \/ /\ k = "unwrapped" /\ txs[rec[k].tx].st # "dropped"
          /\ FaultUnless(Lost(rec[k].tx))
          /\ Drops(k) /\ Retries(k) /\ UNCHANGED agg
       \/ /\ k = "wrapped" \/ txs[rec[k].tx].st = "dropped"
          /\ FaultUnless(Lost(rec[k].tx))
          /\ OrphanFails(k)
    /\ UNCHANGED <<world, rest>>

RecoveryStep(k) ==
    \/ Claim(k) \/ NoBalanceSkip(k) \/ DetectFails(k) \/ FailRecovery(k) \/ Detect(k)
    \/ SubmitOrphan(k) \/ RecordOrphan(k) \/ ConfirmOrphan(k)

-----------------------------------------------------------------------------
(* The sweep of expire_stuck_operations: forget the transfer, clear the    *)
(* slot, record the failure.                                               *)

Sweep(t) ==
    /\ SweepTimesOut /\ sweep = NoSweep /\ t \in mem.tracked
    /\ t \in Mints => mem.slot # Held
    /\ mem' = [mem EXCEPT !.tracked = @ \ {t}, !.active[Side(t)] = None, !.tombs = @ \cup {t},
                          !.inflight[Side(t)] = 0]
    /\ sweep' = [t |-> t, pc |-> "clear", stage |-> agg[t].st]
    /\ UNCHANGED <<agg, queueVars, run, rec, seen, world, envVars>>

(* SweepClears that has nothing to clear for a transfer that is settled.   *)
ClearsUnlessSettled ==
    /\ sweep.pc = "clear"
    /\ \/ /\ sweep.stage \notin Terminal
          /\ mem' = [mem EXCEPT !.slot = Free]
          /\ sweep' = [sweep EXCEPT !.pc = "fail"]
       \/ /\ sweep.stage \in Terminal
          /\ sweep' = NoSweep /\ UNCHANGED mem
    /\ UNCHANGED <<agg, queueVars, run, rec, seen, world, envVars>>

SweepClears ==
    /\ sweep.pc = "clear"
    /\ \/ /\ sweep.t \in Mints => mem.slot # Held
          /\ mem' = [mem EXCEPT !.slot = Free]
          /\ sweep' = IF sweep.stage \in Terminal THEN NoSweep
                                                  ELSE [sweep EXCEPT !.pc = "fail"]
       \/ /\ sweep.t \in Mints /\ mem.slot = Held
          /\ sweep' = NoSweep /\ UNCHANGED mem
    /\ UNCHANGED <<agg, queueVars, run, rec, seen, world, envVars>>

SweepFails ==
    /\ sweep.pc = "fail"
    /\ LET t == sweep.t
           e == FailureOf(sweep.stage)
       IN  \/ /\ Handles(t, e)
              /\ agg' = [agg EXCEPT ![t] = Evolved(@, Table(t), e, 0)]
              /\ mem' = React(mem, t, e)
           \/ ~Handles(t, e) /\ UNCHANGED <<agg, mem>>
    /\ sweep' = NoSweep
    /\ UNCHANGED <<queueVars, run, rec, seen, world, envVars>>

-----------------------------------------------------------------------------
(* POST /transfers/resume and /transfers/recheck, one at a time, in the    *)
(* bot; `transfer fail` and `transfer reconcile` in another process.       *)

Operates ==
    operations < MaxOperations /\ operations' = operations + 1 /\ UNCHANGED <<faults, crashes>>

OperatorResumes(t) ==
    /\ Operates /\ run["operator"] = Idle /\ Open(t)
    /\ run' = [run EXCEPT !["operator"] = [Idle EXCEPT !.on = t, !.pc = "go"]]
    /\ UNCHANGED <<agg, row, attempts, rec, mem, world, rest>>

(* The claim that rebuild_*_tracking_for_recovery makes.  A redemption     *)
(* that was not swept is taken to be in flight still.                      *)
Reclaimed(t) ==
    [mem EXCEPT !.tombs = @ \ {t}, !.tracked = @ \cup {t}, !.slot = Unowned,
                !.inflight[Side(t)] = IF t \in Mints \/ t \in mem.tombs THEN 1 ELSE @]

RecheckMint(t) ==
    /\ Operates /\ run["operator"] = Idle
    /\ t \in Mints /\ agg[t].st = "Failed" /\ agg[t].accepted /\ ~agg[t].received
    /\ prov[t] = "completed" /\ mem.active["mint"] \in {None, t}
    /\ agg' = [agg EXCEPT ![t] = Evolved(@, MintTable, "ProviderCompletionRecovered", 0)]
    /\ mem' = React(Reclaimed(t), t, "ProviderCompletionRecovered")
    /\ run' = [run EXCEPT !["operator"] = [Idle EXCEPT !.on = t, !.pc = "go", !.recheck = TRUE]]
    /\ UNCHANGED <<row, attempts, rec, world, rest>>

RecheckRedemption(t) ==
    /\ Operates /\ run["operator"] = Idle
    /\ t \in Redemptions /\ agg[t].st = "Failed" /\ agg[t].sent # 0
    /\ prov[t] = "completed" /\ mem.active["redemption"] \in {None, t}
    /\ agg' = [agg EXCEPT ![t] = Evolved(@, RedemptionTable, "ProviderCompletionRecovered", 0)]
    /\ mem' = React(Reclaimed(t), t, "ProviderCompletionRecovered")
    /\ UNCHANGED <<row, attempts, run, rec, world, rest>>

OperatorCloses(t) ==
    /\ Operates
    /\ \/ /\ Open(t)
          /\ agg' = [agg EXCEPT ![t] = Evolved(@, Table(t), FailureOf(agg[t].st), 0)]
       \/ /\ agg[t].st = "Failed"
          /\ agg' = [agg EXCEPT ![t] = Evolved(@, Table(t), "OperatorReconciled", 0)]
    /\ UNCHANGED <<row, attempts, run, rec, mem, world, rest>>

-----------------------------------------------------------------------------
(* A crash and the start after it: recover_mint_state and                  *)
(* recover_redemption_state mark the slot again, mints first, and the      *)
(* recorded balances enqueue recoveries.  The last of several interrupted  *)
(* transfers of a kind wins.                                               *)

HeldAtStart(t) == RecoveryEnabled /\ agg[t].st \in {"TokensReceived", "WrapSubmitted"}

Last(interrupted) == IF interrupted = {} THEN {None} ELSE interrupted

(* The last recorded poll, overwritten by the interrupted transfers and by *)
(* recover_stuck_redemptions.                                              *)
InflightAtStart(s) ==
    LET accepted == {t \in Mints : agg[t].st = "MintAccepted"}
        stuck == {t \in Redemptions : agg[t].st = "Failed" /\ agg[t].sent # 0}
    IN  CASE s = "mint" /\ accepted # {} -> 1
          [] s = "redemption" /\ stuck # {} -> Cardinality(stuck)
          [] s = "redemption" /\ stuck = {} /\ (\E t \in Redemptions : Open(t)) -> 1
          [] OTHER -> seen[s]

Restart ==
    /\ crashes < MaxCrashes
    /\ crashes' = crashes + 1
    /\ \E m \in Last({t \in Mints : Open(t)}), r \in Last({t \in Redemptions : Open(t)}) :
          mem' = [slot |-> IF r # None THEN Unowned
                           ELSE IF m = None THEN Free
                           ELSE IF HeldAtStart(m) THEN Held ELSE Unowned,
                  tracked |-> {t \in Transfers : Open(t)},
                  active |-> [s \in Sides |-> IF s = "mint" THEN m ELSE r],
                  tombs |-> {},
                  inflight |-> [s \in Sides |-> InflightAtStart(s)],
                  polled |-> {s \in Sides : seen[s] > 0}]
    /\ LET ks == {k \in Recoveries : Due(k, seen)}
       IN  /\ Enqueued(ks)
           /\ rec' = [k \in Recoveries |-> IF k \in ks THEN NoRecovery
                                           ELSE [rec[k] EXCEPT !.held = FALSE]]
    /\ stale' = {t \in Mints : Live(t)}
    /\ run' = [d \in Drivers |-> Idle]
    /\ sweep' = NoSweep
    /\ UNCHANGED <<agg, seen, world, faults, operations>>

-----------------------------------------------------------------------------
(* The chain and the issuer.                                               *)

(* A wallet's transactions are mined in the order of their nonces.         *)
Mine(i) ==
    /\ txs[i].st = "pending"
    /\ \A j \in 1..(i - 1) : txs[j].st # "pending"
    /\ \/ /\ Spends(txs[i].kind, txs[i].amt)
          /\ txs' = [txs EXCEPT ![i].st = "mined"]
          /\ moved' = [moved EXCEPT ![txs[i].kind] = @ + txs[i].amt]
       \/ /\ ~Spends(txs[i].kind, txs[i].amt)
          /\ txs' = [txs EXCEPT ![i].st = "reverted"]
          /\ UNCHANGED moved
    /\ UNCHANGED <<agg, row, attempts, run, rec, mem, prov, rest, envVars>>

Drop(i) ==
    /\ txs[i].st = "pending" /\ Fault
    /\ txs' = [txs EXCEPT ![i].st = "dropped"]
    /\ UNCHANGED <<agg, row, attempts, run, rec, mem, prov, moved, rest>>

(* The issuer settles a mint request by issuing tokens or rejects it.      *)
SettleMint(t) ==
    /\ t \in Mints /\ prov[t] = "pending"
    /\ \/ /\ prov' = [prov EXCEPT ![t] = "completed"]
          /\ Len(txs) < MaxTxs
          /\ txs' = Append(txs, [kind |-> "issue", by |-> t, amt |-> 1, st |-> "mined"])
          /\ moved' = [moved EXCEPT !["issue"] = @ + 1]
       \/ prov' = [prov EXCEPT ![t] = "rejected"] /\ UNCHANGED chain
    /\ UNCHANGED <<agg, row, attempts, run, rec, mem, rest, envVars>>

(* The issuer finds a redemption by the transfer that was mined.           *)
SettleRedemption(t) ==
    /\ t \in Redemptions
    /\ \/ /\ prov[t] = "none"
          /\ \E i \in DOMAIN txs : txs[i].by = t /\ txs[i].kind = "send" /\ txs[i].st = "mined"
          /\ prov' = [prov EXCEPT ![t] = "pending"]
       \/ /\ prov[t] = "pending"
          /\ \E answer \in {"completed", "rejected"} : prov' = [prov EXCEPT ![t] = answer]
    /\ UNCHANGED <<agg, row, attempts, run, rec, mem, chain, rest, envVars>>

Environment ==
    \/ \E i \in DOMAIN txs : Mine(i) \/ Drop(i)
    \/ \E t \in Transfers : SettleMint(t) \/ SettleRedemption(t)

Operator ==
    \E t \in Transfers : OperatorResumes(t) \/ RecheckMint(t) \/ RecheckRedemption(t)
                         \/ OperatorCloses(t)

JobStep(d) == NothingLeft(d) \/ MintStep(d) \/ RedemptionStep(d)

Next ==
    \/ \E t \in Transfers : Trigger(t) \/ Start(t) \/ Sweep(t)
    \/ \E d \in Drivers : JobStep(d)
    \/ \E k \in Recoveries : PollWallet(k) \/ RecoveryStep(k)
    \/ PollInflight \/ ResumeOrphan \/ SweepClears \/ SweepFails
    \/ Operator \/ Environment \/ Restart

Spec == Init /\ [][Next]_vars

(* The workers of the bot go on, and so does its sweep; the wallet's       *)
(* transactions are mined.  Nothing is asked of the issuer.                *)
Fairness ==
    /\ \A t \in Transfers : WF_vars(Start(t)) /\ WF_vars(JobStep(t)) /\ WF_vars(Sweep(t))
    /\ \A k \in Recoveries : WF_vars(RecoveryStep(k) \/ JobStep(k))
    /\ WF_vars(ResumeOrphan) /\ WF_vars(SweepClears) /\ WF_vars(SweepFails)
    /\ WF_vars(\E i \in DOMAIN txs : Mine(i))

FairSpec == Spec /\ Fairness

-----------------------------------------------------------------------------
(* A run that may still spend: not one that retries a settled transfer.    *)
Spending(d) == run[d].pc # "idle" /\ ~(At(d, "go") /\ agg[run[d].on].st \in Terminal)

(* One job at a time spends from the symbol's wallet: a transfer's run     *)
(* holds the slot, a failed mint hands it over, and the recovery jobs must *)
(* claim it.  The row of a transfer that failed is run again when the slot *)
(* is free or claimed anew, and must find nothing to do.  Only until a     *)
(* restart, which holds the slot for a recovery job and requeues the       *)
(* interrupted mint's own row beside it.                                   *)
OneSpender == crashes = 0 => Cardinality({d \in Jobs : Spending(d)}) <= 1

Deposited == {t \in Mints : agg[t].st = "DepositedIntoRaindex"}

(* Every mint recorded as deposited is backed by tokens that reached the   *)
(* vault: try_deposit_or_recover closes a mint for want of a balance only  *)
(* when a deposit really landed.                                           *)
DepositsBacked == moved["deposit"] >= Cardinality(Deposited)

(* The slot of a transfer that used up its attempts before its first event *)
(* was recorded: the service never tracked it.                             *)
Leaked == \E t \in Transfers : mem.slot.by = t /\ row[t] = "dead" /\ agg[t].st = "Absent"

(* The symbol's slot is given back, so that the symbol can be rebalanced   *)
(* again: by the transfer's end, or, when that was never recorded or came  *)
(* too late for the reactor, by the sweep (expire_stuck_operations).  The  *)
(* one slot that neither frees is that of a request that failed on every   *)
(* attempt, which stays claimed until a restart.                           *)
SlotReleased == (mem.slot.st = "active") ~> (mem.slot.st # "active" \/ Leaked)

=============================================================================
