---------------------------- MODULE FillAccounting ----------------------------
(***************************************************************************)
(* Exactly-once accounting of onchain fills (ADR 0005 and ADR 0010).       *)
(*                                                                         *)
(* A fill is accounted by writing two event-sourced aggregates that share  *)
(* no transaction: OnChainTrade (was the fill witnessed, was it marked     *)
(* acknowledged?) and the Position of the fill's symbol (the events that   *)
(* moved the net position, a single-slot duplicate guard and the set of    *)
(* applied but unsettled fills).  The sequence is                          *)
(*                                                                         *)
(*    witness -> enrich -> look up -> acknowledge -> mark -> settle        *)
(*                                                                         *)
(* and is run by the bot's accounting worker, off a durable job row, and   *)
(* by the process-tx command, a separate process that no in-process lock   *)
(* reaches.  Every store command below is one atomic step: the store       *)
(* commits a command's events against the sequence number it loaded, so a  *)
(* command either applies to the current state or fails without effect     *)
(* (BotError, CliError).  Positions of different symbols share nothing, so *)
(* Fills are the fills of one symbol.                                      *)
(***************************************************************************)
EXTENDS Naturals

CONSTANTS
    Fills,        \* fills of one symbol, identified by (tx_hash, log_index)
    NoFill,
    Hedgeable,    \* the fills that parse into a trade of one of our orders
    LegacyFill,   \* a fill applied but left unmarked by the code before
                  \* ADR 0010, or NoFill
    Jobs,         \* AccountForDexTrade rows; two rows may carry one fill
    NoJob,
    FillOf,       \* FillOf[j]: the fill that row j carries
    Bot,          \* the bot's accounting worker, concurrency(1)
    Clis,         \* concurrent process-tx invocations
    Exclusive,    \* whether the documented precondition of process-tx is met:
                  \* nobody else is processing the same fill
    Retries,      \* retry budget of a row (3 in the code)
    MaxFaults,    \* bound on crashes and failed commands
    MaxCliRuns    \* bound on process-tx invocations

Procs == {Bot} \cup Clis

ASSUME FillAccountingAssumption ==
    /\ NoFill \notin Fills
    /\ NoJob \notin Jobs
    /\ Hedgeable \subseteq Fills
    /\ LegacyFill \in Hedgeable \cup {NoFill}
    /\ FillOf \in [Jobs -> Fills]
    /\ Bot \notin Clis
    /\ Exclusive \in BOOLEAN
    /\ Retries \in Nat
    /\ MaxFaults \in Nat
    /\ MaxCliRuns \in Nat

VARIABLES
    trade,        \* OnChainTrade of each fill: absent, witnessed or acknowledged
    enriched,     \* fills whose OnChainTrade carries its enrichment
    applied,      \* OnChainOrderFilled events the Position's log holds per fill
    slot,         \* Position.last_acknowledged_trade_id
    pendingAck,   \* Position.pending_acknowledged_trade_ids
    row,          \* status of each job row
    attempts,     \* failed attempts charged to each job row
    up,           \* whether the bot process is running
    job,          \* the row the worker holds
    pc,           \* program counter of each process
    work,         \* the fill each process is working on
    faults,
    cliRuns

tradeVars    == <<trade, enriched>>
positionVars == <<applied, slot, pendingAck>>
jobVars      == <<row, attempts, up, job>>
boundVars    == <<faults, cliRuns>>

vars == <<trade, enriched, applied, slot, pendingAck, row, attempts, up, job,
          pc, work, faults, cliRuns>>

TradeStates == {"absent", "witnessed", "acknowledged"}
RowStates   == {"none", "Pending", "Running", "Done", "Failed"}
Steps == {"idle", "load", "witness", "reload", "enrich", "lookup",
          "acknowledge", "place", "mark", "settle", "hedge"}

TypeOK ==
    /\ trade \in [Fills -> TradeStates]
    /\ enriched \subseteq Fills
    /\ applied \in [Fills -> Nat]
    /\ slot \in Fills \cup {NoFill}
    /\ pendingAck \subseteq Fills
    /\ row \in [Jobs -> RowStates]
    /\ attempts \in [Jobs -> 0..Retries]
    /\ up \in BOOLEAN
    /\ job \in Jobs \cup {NoJob}
    /\ pc \in [Procs -> Steps]
    /\ work \in [Procs -> Fills \cup {NoFill}]
    /\ faults \in 0..MaxFaults
    /\ cliRuns \in 0..MaxCliRuns

(* A restart may find the one fill that the previous release applied but   *)
(* did not mark: in the event log and in the slot, never in the set.       *)
Init ==
    /\ trade = [f \in Fills |-> IF f = LegacyFill THEN "witnessed" ELSE "absent"]
    /\ enriched = {}
    /\ applied = [f \in Fills |-> IF f = LegacyFill THEN 1 ELSE 0]
    /\ slot = LegacyFill
    /\ pendingAck = {}
    /\ row = [j \in Jobs |-> "none"]
    /\ attempts = [j \in Jobs |-> 0]
    /\ up = TRUE
    /\ job = NoJob
    /\ pc = [p \in Procs |-> "idle"]
    /\ work = [p \in Procs |-> NoFill]
    /\ faults = 0
    /\ cliRuns = 0

-----------------------------------------------------------------------------
(* Commands of the two aggregates.                                         *)

SlotOnlyDuplicate(f) == slot = f

(* The Position's dual guard: the slot or the set already knows the fill.  *)
Duplicate(f) == slot = f \/ f \in pendingAck

(* AcknowledgeOnChainFill moves the position and records the fill in both  *)
(* guards in one event batch; a duplicate is an idempotent success.        *)
AcknowledgeOnChainFill(f) ==
    IF Duplicate(f)
    THEN UNCHANGED positionVars
    ELSE /\ applied' = [applied EXCEPT ![f] = @ + 1]
         /\ slot' = f
         /\ pendingAck' = pendingAck \cup {f}

SettleNothing(f) == UNCHANGED positionVars

SettleOnChainFill(f) ==
    /\ pendingAck' = pendingAck \ {f}
    /\ UNCHANGED <<applied, slot>>

TradeAlreadyWitnessed(f) == trade[f] # "absent"

(* The durable lookup: does the Position's event log hold this fill?       *)
PositionFillAlreadyRecorded(f) == applied[f] > 0

-----------------------------------------------------------------------------
(* Control flow of a process.                                              *)

Goto(p, step) == pc' = [pc EXCEPT ![p] = step]

(* The precondition that SPEC.md puts on process-tx and that concurrency(1)*)
(* and the per-symbol lock give inside the bot.                            *)
ExclusiveProcessing(p, f) == \A q \in Procs \ {p} : work[q] # f

MayAlwaysProcess(p, f) == TRUE

MayProcess(p, f) == Exclusive => ExclusiveProcessing(p, f)

(* The dedupe before ADR 0005: a witnessed fill counted as processed.      *)
AfterLoadWitnessedIsDone(f) ==
    CASE trade[f] \in {"acknowledged", "witnessed"} -> "settle"
      [] trade[f] = "absent"                        -> "witness"

(* account_for_onchain_fill: the first read decides between finishing a    *)
(* missed settle, resuming a half-done accounting and starting one.        *)
AfterLoad(f) ==
    CASE trade[f] = "acknowledged" -> "settle"
      [] trade[f] = "witnessed"    -> "enrich"
      [] trade[f] = "absent"       -> "witness"

Load(p) ==
    /\ pc[p] = "load"
    /\ Goto(p, AfterLoad(work[p]))
    /\ UNCHANGED <<tradeVars, positionVars, jobVars, work, boundVars>>

(* A process that lost the race to witness the fill reloads it.            *)
Witness(p) ==
    /\ pc[p] = "witness"
    /\ IF trade[work[p]] = "absent"
       THEN /\ trade' = [trade EXCEPT ![work[p]] = "witnessed"]
            /\ Goto(p, "enrich")
       ELSE /\ UNCHANGED trade
            /\ Goto(p, "reload")
    /\ UNCHANGED <<enriched, positionVars, jobVars, work, boundVars>>

(* A reload that still finds nothing is an error: no disjunct, BotError.   *)
Reload(p) ==
    /\ pc[p] = "reload"
    /\ trade[work[p]] # "absent"
    /\ Goto(p, AfterLoad(work[p]))
    /\ UNCHANGED <<tradeVars, positionVars, jobVars, work, boundVars>>

(* Enrichment is best effort: missing gas or price data, or a failed       *)
(* command, is logged and the accounting goes on.                          *)
Enrich(p) ==
    /\ pc[p] = "enrich"
    /\ enriched' \in {enriched, enriched \cup {work[p]}}
    /\ Goto(p, "lookup")
    /\ UNCHANGED <<trade, positionVars, jobVars, work, boundVars>>

(* The bot marks and settles before it looks at hedging; process-tx does   *)
(* so after it has placed the hedge.                                       *)
AfterAccounted(p) == IF p = Bot THEN "mark" ELSE "place"

Lookup(p) ==
    /\ pc[p] = "lookup"
    /\ Goto(p, IF PositionFillAlreadyRecorded(work[p])
               THEN AfterAccounted(p) ELSE "acknowledge")
    /\ UNCHANGED <<tradeVars, positionVars, jobVars, work, boundVars>>

Acknowledge(p) ==
    /\ pc[p] = "acknowledge"
    /\ AcknowledgeOnChainFill(work[p])
    /\ Goto(p, AfterAccounted(p))
    /\ UNCHANGED <<tradeVars, jobVars, work, boundVars>>

(* process-tx reconciles the pending order and places a hedge here; its    *)
(* effects on the order are the subject of HedgePlacement.                 *)
CliPlaceHedge(p) ==
    /\ pc[p] = "place"
    /\ Goto(p, "mark")
    /\ UNCHANGED <<tradeVars, positionVars, jobVars, work, boundVars>>

(* Leaving the set before the marker is durable.                           *)
MarkAfterPrune(p) ==
    /\ pc[p] = "mark"
    /\ SettleOnChainFill(work[p])
    /\ Goto(p, "settle")
    /\ UNCHANGED <<tradeVars, jobVars, work, boundVars>>

(* AlreadyAcknowledged is an idempotent success; NotFilled cannot happen.  *)
MarkAcknowledged(p) ==
    /\ pc[p] = "mark"
    /\ trade[work[p]] # "absent"
    /\ trade' = [trade EXCEPT ![work[p]] = "acknowledged"]
    /\ Goto(p, "settle")
    /\ UNCHANGED <<enriched, positionVars, jobVars, work, boundVars>>

(* The last accounting command; an invocation of process-tx ends with it.  *)
Settle(p) ==
    /\ pc[p] = "settle"
    /\ SettleOnChainFill(work[p])
    /\ IF p = Bot
       THEN Goto(p, "hedge") /\ UNCHANGED work
       ELSE Goto(p, "idle") /\ work' = [work EXCEPT ![p] = NoFill]
    /\ UNCHANGED <<tradeVars, jobVars, boundVars>>

(* The bot goes on to the pending order and the hedge (HedgePlacement),    *)
(* whose failure sends the row through BotError, and the row is Done.      *)
BotPlaceHedge ==
    /\ pc[Bot] = "hedge"
    /\ Goto(Bot, "idle")
    /\ work' = [work EXCEPT ![Bot] = NoFill]
    /\ row' = [row EXCEPT ![job] = "Done"]
    /\ job' = NoJob
    /\ UNCHANGED <<tradeVars, positionVars, attempts, up, boundVars>>

-----------------------------------------------------------------------------
(* The durable job row and the worker that drives it.                      *)

(* The backfill enqueues a row; a re-scan enqueues another for the fill.   *)
Deliver(j) ==
    /\ row[j] = "none"
    /\ row' = [row EXCEPT ![j] = "Pending"]
    /\ UNCHANGED <<tradeVars, positionVars, attempts, up, job, pc, work, boundVars>>

BotStart(j) ==
    /\ up
    /\ pc[Bot] = "idle"
    /\ row[j] = "Pending"
    /\ FillOf[j] \in Hedgeable
    /\ MayProcess(Bot, FillOf[j])
    /\ row' = [row EXCEPT ![j] = "Running"]
    /\ job' = j
    /\ work' = [work EXCEPT ![Bot] = FillOf[j]]
    /\ Goto(Bot, "load")
    /\ UNCHANGED <<tradeVars, positionVars, attempts, up, boundVars>>

(* An event that is no trade of ours, or that cannot be priced, is recorded*)
(* as skipped and the row is Done.                                         *)
BotSkip(j) ==
    /\ up
    /\ pc[Bot] = "idle"
    /\ row[j] = "Pending"
    /\ FillOf[j] \notin Hedgeable
    /\ row' = [row EXCEPT ![j] = "Done"]
    /\ UNCHANGED <<tradeVars, positionVars, attempts, up, job, pc, work, boundVars>>

RetryPastTheBudget == attempts[job] <= Retries

RetryLeft == attempts[job] < Retries

(* A command failed: the retry layer runs the row again from the start, or,*)
(* with the budget spent, the row is Failed and the whole bot stops.       *)
BotError ==
    /\ pc[Bot] # "idle"
    /\ faults < MaxFaults
    /\ faults' = faults + 1
    /\ IF RetryLeft
       THEN /\ attempts' = [attempts EXCEPT ![job] = @ + 1]
            /\ Goto(Bot, "load")
            /\ UNCHANGED <<row, up, job, work>>
       ELSE /\ row' = [row EXCEPT ![job] = "Failed"]
            /\ up' = FALSE
            /\ job' = NoJob
            /\ Goto(Bot, "idle")
            /\ work' = [work EXCEPT ![Bot] = NoFill]
            /\ UNCHANGED attempts
    /\ UNCHANGED <<tradeVars, positionVars, cliRuns>>

(* A crash leaves the row Running, owned by nobody.                        *)
BotCrash ==
    /\ up
    /\ faults < MaxFaults
    /\ faults' = faults + 1
    /\ up' = FALSE
    /\ job' = NoJob
    /\ Goto(Bot, "idle")
    /\ work' = [work EXCEPT ![Bot] = NoFill]
    /\ UNCHANGED <<tradeVars, positionVars, row, attempts, cliRuns>>

RequeueNothing == row

(* requeue_orphaned: before any worker runs, in-flight rows are reset.     *)
(* Failed rows stay latched for the operator.                              *)
RequeueOrphaned == [j \in Jobs |-> IF row[j] = "Running" THEN "Pending" ELSE row[j]]

BotRestart ==
    /\ ~up
    /\ up' = TRUE
    /\ row' = RequeueOrphaned
    /\ UNCHANGED <<tradeVars, positionVars, attempts, job, pc, work, boundVars>>

-----------------------------------------------------------------------------
(* process-tx.                                                             *)

CliStart(c, f) ==
    /\ pc[c] = "idle"
    /\ cliRuns < MaxCliRuns
    /\ f \in Hedgeable
    /\ MayProcess(c, f)
    /\ cliRuns' = cliRuns + 1
    /\ work' = [work EXCEPT ![c] = f]
    /\ Goto(c, "load")
    /\ UNCHANGED <<tradeVars, positionVars, jobVars, faults>>

(* The command fails or is killed: the invocation is gone, nothing retries.*)
CliError(c) ==
    /\ pc[c] # "idle"
    /\ faults < MaxFaults
    /\ faults' = faults + 1
    /\ work' = [work EXCEPT ![c] = NoFill]
    /\ Goto(c, "idle")
    /\ UNCHANGED <<tradeVars, positionVars, jobVars, cliRuns>>

-----------------------------------------------------------------------------
Step(p) ==
    \/ Load(p)
    \/ Witness(p)
    \/ Reload(p)
    \/ Enrich(p)
    \/ Lookup(p)
    \/ Acknowledge(p)
    \/ CliPlaceHedge(p)
    \/ MarkAcknowledged(p)
    \/ Settle(p)

Next ==
    \/ \E p \in Procs : Step(p)
    \/ \E j \in Jobs : Deliver(j) \/ BotStart(j) \/ BotSkip(j)
    \/ BotPlaceHedge
    \/ BotError
    \/ BotCrash
    \/ BotRestart
    \/ \E c \in Clis : CliError(c) \/ \E f \in Fills : CliStart(c, f)

Spec == Init /\ [][Next]_vars

(* apalis polls its queue, the worker runs what it took, systemd restarts  *)
(* the bot, an invocation of process-tx runs to its end.  Crashes, errors, *)
(* deliveries and operator actions are under no obligation.                *)
Fairness ==
    /\ \A p \in Procs : WF_vars(Step(p))
    /\ \A j \in Jobs : WF_vars(BotStart(j)) /\ WF_vars(BotSkip(j))
    /\ WF_vars(BotPlaceHedge)
    /\ WF_vars(BotRestart)

FairSpec == Spec /\ Fairness

-----------------------------------------------------------------------------
(* Properties.                                                             *)

(* Under the documented precondition, the two aggregates together keep a   *)
(* ledger that counts each fill once and closes it only when counted.      *)
Ledger == INSTANCE FillLedger WITH
    CountedAtStart <- {LegacyFill},
    count          <- applied,
    closed         <- {f \in Fills : trade[f] = "acknowledged"}

(* The accounting of the code implements the ledger.                       *)
ImplementsLedger == Ledger!Spec

(* A fill moves the net position at most once, however often it is         *)
(* delivered and wherever the bot or process-tx stopped half way           *)
(* (account_for_onchain_fill).                                             *)
ExactlyOnce == \A f \in Fills : applied[f] <= 1

(* The acknowledgement marker never runs ahead of the position: a marked   *)
(* fill, which every later delivery skips, has been counted.               *)
MarkedIsCounted == \A f \in Fills : trade[f] = "acknowledged" => applied[f] > 0

(* Even when the precondition of process-tx is not met, the dual guard     *)
(* leaves only one window: a fill is applied again only after it was       *)
(* marked and settled and a newer fill took the slot.                      *)
RecountOnlyAfterSettle ==
    [][\A f \in Fills :
          applied[f] > 0 /\ applied'[f] > applied[f] =>
              /\ trade[f] = "acknowledged"
              /\ f \notin pendingAck
              /\ slot # f]_vars

(* "Bounded: empty at rest, one entry per in-flight job" (position.rs): a  *)
(* member of the set is being worked on, or its row is still to be driven, *)
(* or the row failed loudly, or process-tx left it behind.                 *)
SetBoundedByJobs ==
    \A f \in pendingAck :
        \/ \E j \in Jobs : FillOf[j] = f /\ row[j] \in {"Pending", "Running", "Failed"}
        \/ cliRuns > 0

(* No delivered fill is lost: its row ends Failed, where the operator sees *)
(* it, or the fill is counted, marked and out of the set.                  *)
DeliveredIsAccounted ==
    \A j \in Jobs :
        row[j] = "Pending" /\ FillOf[j] \in Hedgeable ~>
            \/ row[j] = "Failed"
            \/ /\ applied[FillOf[j]] > 0
               /\ trade[FillOf[j]] = "acknowledged"
               /\ FillOf[j] \notin pendingAck

=============================================================================
