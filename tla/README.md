# Verification of st0x.liquidity in TLA+

st0x.liquidity is a market-making bot. It watches its own orders being filled
onchain, keeps a net position per equity symbol, hedges it at a broker, and
rebalances equity and cash between the chain and the broker. Its state is a set
of event-sourced aggregates in SQLite, driven by durable job queues (apalis) and
a few in-process locks; the chain, the broker, the token issuer and the bridge
are outside services. There is no transaction across two aggregates, nor across
an aggregate and a service: what keeps the parts consistent is the order of the
steps, idempotent commands, and recoveries at startup and in periodic scans.
That is what this project models.

## Inventory

| part | state | operations | what is hard | what makes it correct |
|---|---|---|---|---|
| fill detection (`conductor/monitor/order_fills.rs`, `onchain/backfill.rs`) | checkpoint, one `BackfillRange` row | poll the cutoff, enqueue a range, fetch batches, push rows, save the checkpoint | lagging RPC backends, crash between push and save, orphaned rows | no block passed without its fills; one range at a time; every fill ingested |
| fill accounting (`account_for_onchain_fill`, `OnChainTrade`, `Position`) | trade marker, event log, slot, pending-acknowledgement set | witness, enrich, acknowledge, mark, settle | four commands on two aggregates; retries; the CLI as a second process | each fill counted once and never lost |
| hedging (`PlaceHedge`, inline path, `CheckPositions`) | position claim and anchor, `OffchainOrder`, submission lock | claim, record intent, call the broker, commit, route, recover | lost answers, retries, three placers, sessions | never two live orders; no execution lost or booked twice; claims released |
| order life cycle (`PollOrderStatus`, `ReconcileOrderFill`, `HandleOrderRejection`) | three queues | poll, record partial fills, confirm, fail, finalize | stale readings, two-step ends, races with the scan | the local verdict is the broker's |
| position scan (`position_check.rs`) | none of its own | finalize, cancel extended-hours orders, recover, catch up, enqueue | runs beside every worker | claims released |
| USDC transfers (`usdc_rebalance.rs`, `rebalancing/usdc/`, `crates/bridge`) | aggregate, job row, detached burn task, guard, tracking, USDC in flight | convert, withdraw, burn, attest, mint, deposit, resume, sweep; the CLI's start, resume, fail, clear and reconcile | crash after an external effect, scans that match amounts and not transfers, a task that outlives its run, guards rebuilt on restart | one burn per transfer; each leg its own; burned funds block the trigger until they are resolved |
| equity transfers (`tokenized_equity_mint.rs`, `equity_redemption.rs`, `rebalancing/equity/`) | two aggregates, job rows, one slot per symbol, tracking, active transfers, tombstones | request, poll, wrap, deposit; withdraw, unwrap, send, detect, complete; resume, recheck, fail, reconcile | a wallet that all drivers share, lost answers, the hand-over to recovery | one job spends at a time; what is recorded as deposited is in the vault; the slot comes free |
| rebalancing trigger (`rebalancing/trigger/`) | guards and slots, tracking | check, enqueue, react to events, sweep, recover at startup | reads guard, inventory and queue one after the other | no second transfer beside an unsettled one |
| inventory (`inventory/`) | view, snapshots, watermarks | poll, apply events, gate snapshots and imbalance checks | a poll that is ahead of the events, or behind them | in-flight shares come to an end; the balance at the broker is the broker's between orders |
| equity recovery (`wrapped_equity_recovery/`, `unwrapped_equity_recovery/`) | recovery sagas | detect stranded tokens, resume | racing the saga that owns them | nothing recovered twice |
| job queues (`conductor/job.rs`), startup (`conductor.rs`) | rows | push, run, retry, requeue | Running rows of a dead process | rows are driven to an end |
| services (`crates/execution`, `crates/bridge`, `crates/evm`, `crates/tokenization`, `crates/raindex`, `crates/wrapper`) | external | | duplicated, delayed, lost calls | idempotency keys |
| read side (`api.rs`, `dashboard/`, `performance/`, `telemetry/`, `alerts/`), configuration | projections | | none for trading | |

`PROJECT.json` lists each part with its status and each hazard at its line.

## Modules

- `FillIngestion`: from the chain to the accounting queue. Actions follow
  `poll_once` (cutoff, guard, enqueue) and `BackfillRange::perform` (start, fetch
  a batch, push its rows, save the checkpoint, finish), with `RangeError` for a
  failed attempt, `Crash` and `Restart`. `Nodes` are the RPC backends behind the
  balancer; `ConsistentReads` says whether the log query and the tip check of one
  fetch see one backend at one moment.
- `FillIngestionProofs`: the theorems about `FillIngestion`.
- `FillAccounting`: one symbol's fills through `account_for_onchain_fill`. One
  program counter per process (the bot's worker and any number of `process-tx`
  invocations); one action per store command or read. `Duplicate` is the
  Position's dual guard (slot and set), `PositionFillAlreadyRecorded` the lookup
  in its event log. `Exclusive` is the precondition that SPEC.md puts on
  `process-tx`; `LegacyFill` is the fill an older release applied without marking.
- `FillLedger`: what fill accounting promises. A fill is counted once, and closed
  only after it was counted. `FillAccounting` implements it.
- `FillAccountingProofs`: the theorems about `FillAccounting`.
- `HedgePlacement`: one symbol's position, its offchain orders, the broker, the
  submission lock, the placers (accounting worker, `PlaceHedge` worker,
  `CheckPositions` scan) and the poll, reconcile and rejection workers. Every
  action is one command or one broker call, so each `await` of the code is a point
  where others run or the bot stops.
- `HedgePlacementProofs`: its types and verdicts, with or without retried rows.
- `OneHedgeProofs`: that there is one hedge at a time, and what follows from it.
- `UsdcRebalance`: the aggregate of a USDC transfer as tables: the states each
  command is handled in, the state its event leads to, and what the guard, the
  startup recovery and the CLI read off it.
- `UsdcTransfer`: the transfers themselves in both directions. It composes the
  aggregate with the manager (`CrossVenueCashTransfer`), the job rows with their
  redrives, the detached burn submission, the trigger with guard, tracking and
  in-flight USDC, the sweep, the startup recovery, the CLI, and two chains.
- `UsdcTransferProofs`: the types, the burns and the arrival of `UsdcTransfer`.
- `UsdcGuardProofs`: that one transfer is active at a time: the guard keeps the
  trigger shut, and the legs a transfer adopts are its own.
- `EquityAggregates`: the mint and the redemption aggregate as tables keyed by
  event.
- `EquityTransfer`: one symbol's mints and redemptions. It composes the
  aggregates with the manager (`CrossVenueEquityTransfer`), the job rows, the
  slot, tracking and in-flight shares of the rebalancing service, both recovery
  jobs, the sweep, the API and CLI commands, the startup recovery, the wallet and
  the issuer.
- `EquityTransferProofs`: the theorems about `EquityTransfer`.
- `InventoryMirror`: the view's balance of one symbol at the broker. It composes
  the hedge order's life as the Position records it, the broker, the reactor of
  the rebalancing service, the poller with the `InventorySnapshot` aggregate, the
  recovery of a failed snapshot and the hydration at startup.
- `InventoryMirrorProofs`: the theorems about `InventoryMirror`.
- `MC*`: constants for TLC.

A definition whose comment names nothing and that stands directly before the
definition it varies (`SlotOnlyDuplicate`, `OwnIdAsKey`, ...) is a mutation: the
form a plausible mistake would give the next definition. `PROJECT.json` pairs each
with the property that catches it.

### How `HedgePlacement` reads the code

- `placer[p].step` is the position in the placement: `claim`
  (`PlaceOffChainOrder` under the lock), `recover` (the claim was taken), `intent`
  (`Place`), `broker`, `commit` (`MarkAccepted` or `MarkPlacementFailed`), `route`
  (`route_placement_outcome`, `dispatch_post_place_state`). The scan adds
  `cancel`, `catchup` and `enqueue`; the accounting worker `reconcile`, `clear`
  and `ready`.
- The scan's steps `recover` and `catchup` are also the startup sequence
  (`up = "boot"`), which runs before any worker.
- A load that is followed by a command is one step with it where the loaded fact
  cannot change in between (terminal orders never do); where it can, the read and
  the command are separate steps (`ReconcileExisting`/`ClearAbsent`,
  `PollStart`/`PollDispatch`).
- `CancelOrder` reads the broker, asks it to cancel and commits in one step: the
  request itself changes nothing until the broker acts on it (`BrokerCancel`).
- The broker keeps the keys of all orders it recorded, as its mock in
  `alpaca_broker_api/mock_api.rs` does, and answers a known key with the order it has
  (`Receive`). A request may arrive after its caller saw an error (`wire`).
- Orders are identified by a few ids. `Mint` may take an id again once nothing
  refers to it any more, which stands for a new UUID.
- A preflight that skips the placement and a failing store command look the same
  from outside: `PlacerError`.
- `RetryHedges` says whether a `PlaceHedge` row is run again after a failed
  attempt, as the queue does. It is off in the run about sessions and partial
  fills, only for its size: `ClaimReleased` also holds with retried rows, orders
  of one share, three sessions and one fault (420 thousand states), and
  `VerdictIsTheBrokers` is proved for both values.
- `stray` is a history variable. It is set when a `PlaceHedge` row that is run
  again claims the position under an id that the books or the broker know already
  and that is not the anchor (`Spent`), and when such a row drives its order
  without the submission lock, which is what `PlaceHedge` does outside the session.
  Both are what the code does. The properties about the one hedge hold until then;
  what happens after is under "Met and not kept as runs".

### How `UsdcTransfer` reads the code

- `run[t]` is where the manager stands in `resume_alpaca_to_base` or
  `resume_base_to_alpaca`; a first run and a resumed one are the same loop over
  the aggregate's state, as in the code. One driver at a time runs a transfer:
  the job row, or the CLI.
- `task[t]` is the task that `submit_and_record_burn` spawns. It submits the burn
  and records its hash even when the run that started it was cancelled by the
  attempt timeout (`AttemptTimesOut`).
- A transaction is pending, mined, reverted or dropped; its block is its place in
  the order of mining. `MinedAfter` is the log scan of a resume: a direction, an
  amount and a block bound. All transfers move the same amount, the case in which
  the scan cannot tell them apart.
- `React` is `on_usdc_rebalance`, in one step with the event it reacts to; events
  of the CLI's process are not seen (`Send` and `NoCommand`).
- The trigger is two steps: `ClaimGuard` takes the guard (the row is `claimed`),
  `CheckAndTrigger` reads the inventory and the queues and pushes the row or gives
  the guard back. Everything else may run in between. The two reads are one step:
  a transfer would have to go from its first event to a dead row between two
  consecutive local reads for the difference to matter.
- `Restart` is the crash and the whole startup: requeued rows, the guard and the
  tracking rebuilt from the aggregates, stranded transfers rearmed. A crash may
  come anywhere, also between the push of a row and its first event.
- `robbed` is a history variable: the sweep gave up one transfer, and with its
  claim lowered the guard and cleared the USDC in flight of another
  (`expire_stuck_usdc_rebalances` does not ask whose they are). Without a crash it
  stays false; see "Met and not kept as runs" for how it comes about.
- Left out: fees and amount checks, the adoption of a withdrawal whose amount
  differs, Alpaca's answer `Complete` without a hash, errors for want of
  available balance. Clearing a pending burn and spawning the task that submits
  the next one are one step (`SpawnBurn`): the clear is the task's first command,
  and only the timeout of an attempt that has just begun could part them.

### How `EquityTransfer` reads the code

- `run[d]` is what a driver does: a transfer job, a recovery job or the operator
  through the API. Each may run `resume_mint` or `resume_redemption` on a
  transfer, beside the others; the guards that should keep them apart are the
  slot (`mem.slot`), the rows and the shares in flight, each modelled where the
  code reads it.
- `run[d].fresh` tells `start_mint` and `start_redemption` from a resume. A fresh
  run that records the failure of its transfer returns an error all the same, so
  its row is run again; a resumed run swallows it and the row is done
  (`RecordsLast`). The row that is run again finds a settled transfer and does
  nothing, possibly beside a recovery job that has the slot by then: `Spending`
  leaves that run out.
- A command that calls the chain is two steps, the call and the event (`Submit*`
  and `Record*` or `Persist*`); waiting for a receipt is a third.
- `mem.slot.by` stands for the owner and generation of the slot. A row of an
  earlier process (`stale`) may carry the slot's generation by chance, for the
  counter starts again at every start of the bot.
- `React` is `on_mint` and `on_redemption`. When more shares would end than are
  in flight the inventory returns an error, which is logged, and the rest of the
  reaction does not happen (`Short`).
- `PollInflight` is the poll of the issuer's pending requests with what the view
  makes of it. `PollWallet` is a balance snapshot; it starts the recovery jobs.
- `Sweep`, `SweepClears` and `SweepFails` are the three steps of
  `expire_stuck_mints` and `expire_stuck_redemptions`.
- Left to choice: whether the inventory is out of balance (a trigger may fire
  whenever nothing stands in its way). Left out: the suppression of snapshots
  after a timeout, failing stores, available balances and vault balances (always
  sufficient), transfers started from the CLI, the freeze and pending-order
  gates. A transfer moves one unit.

### How `InventoryMirror` reads the code

- A store commits an event and then calls the reactor, so an event and its
  reaction are two steps (`Place` and `ReactPlaced`, `RecordSnapshot` and
  `ReactSnapshot`) with anything in between. The placer waits for the reaction to
  `OffChainOrderPlaced` before it calls the broker; the end of an order is
  committed by another task, whose reaction may come after the next order's
  `OffChainOrderPlaced`. One end at a time waits for its reaction.
- `gate` is the symbol's membership in `pending_offchain_order_symbols`. `late`
  stands for the comparison of `fetched_at` with
  `last_offchain_fill_applied_at`: with one poller the only reading it can be
  about is the one under way.
- The guards are not airtight, and `strays` is the history of what gets past
  them: a reaction that was overtaken, a reading taken inside an order that ended
  without a fill, a fill for a balance the view did not have, a failed update or
  snapshot, a restart. `MirrorExact` holds until one happens; each is needed (see
  "Met and not kept as runs").
- Left out: transfers in flight (the `has_inflight` and `last_rebalancing`
  guards), the cash leg except that it may fail, orders of more than one share
  and partial fills (the Position books an order's fills at its end), symbols that
  are not configured.

## Runs

| run | shows | size |
|---|---|---|
| `fills_exclusive` | `ExactlyOnce`, `SetBoundedByJobs`, `ImplementsLedger`, `DeliveredIsAccounted` under the precondition of `process-tx` | 2 rows of one fill, 1 of another, a legacy fill, 1 CLI run, 2 faults |
| `fills_overlap` | `TypeOK`, `MarkedIsCounted`, `RecountOnlyAfterSettle` without it | 2 trades and a foreign event, 2 CLI runs, 2 faults |
| `ingestion_consistent` | `NothingSkipped`, `OneRangeInFlight`, `EveryFillIngested` | 5 blocks in batches of 2, 2 backends, 2 log filters, 2 faults |
| `hedge_retries` | `NoDoubleHedge`, `ExecutedIsTracked`, `CreditedOnce` with retried rows and cancellations, until a row strays | 2 orders of one share, 2 fills, 1 fault anywhere |
| `hedge_sessions` | `VerdictIsTheBrokers`, `TypeOK`, `ClaimReleased` across sessions, partial fills and cancellations | an order of 2 shares at a time, unpriced fills, 3 sessions, 2 faults |
| `usdc_faults` | `LegsAreOwn`, `SettledFundsArrived` | 2 transfers of either direction, 2 faults, 1 crash |
| `usdc_timeouts` | `UnsettledBurnBlocksTrigger` with the sweep, the attestation deadline and crashes anywhere, until the sweep of one transfer has lowered the guard of another | 2 transfers of either direction, rows that die at their first failure, 2 faults, 2 crashes |
| `usdc_operations` | `NoDoubleBurn`, `EveryRowEnds`, `BurnedFundsResolved` with everything at once | 1 transfer, sweep, deadline, relayer, every CLI command, 1 fault, 1 crash |
| `equity_handover` | `OneSpender` with both recovery jobs, until a restart, also when the row of a failed transfer is run again beside them; `TypeOK` after one | a mint and a redemption, 1 fault or 1 crash (both while there is only the mint) |
| `equity_operations` | `DepositsBacked` | a mint and a redemption, 1 fault, 1 crash, 1 use of the API or CLI |
| `equity_sweep` | `SlotReleased`, except for the slot of a request that failed on every attempt (`Leaked`) | a mint and a redemption, as many faults as attempts, the sweep at any time |
| `inventory_mirror` | `GateFollowsOrder`, `MirrorExact`, `GateReleased` | 3 orders of either side, 1 share at first, 1 fault, 1 crash |

### Met and not kept as runs

Each of these was shown by TLC on an instance of the modules here (the constants
are given where they matter) and is worth a look by whoever changes that code.

Fills: without the precondition (`Exclusive = FALSE`) a `process-tx` that
overlaps the bot on one fill counts it twice, for the lookup and the acknowledge
are two steps and the set is pruned in between. With `ConsistentReads = FALSE`
the tip check of a range does not vouch for the backend that answered its logs,
and a fill can be skipped.

Hedging, all from the retry of a `PlaceHedge` row whose order already ended: the
case that `stray` names, and each of the three properties fails on the instance of
`hedge_retries` without that premise. With two fills the row claims the position
with its filled order and the execution is booked again (`CreditedOnce`). When the
order was cancelled its claim is released as a cancellation, which clears the
anchor of another attempt: two orders are then live (`NoDoubleHedge`), or an
execution belongs to no claim (`ExecutedIsTracked`, also with two-share orders).
`conductor.rs` 3382-3386 says that the anchor exists to prevent that double hedge.
The closed-session path re-drives its order without the submission lock, beside a
placer that has it. Also: an adopted order keeps the requested direction; an order
the broker ended without a fill is adopted by every later attempt.

USDC: the trigger pushes the job row of a transfer, and the worker records the
first event when it runs the row. A crash in between leaves a row and no event.
Startup requeues the row, but `recover_usdc_guard` (`trigger/mod.rs` 3926)
rebuilds the guard from the aggregates alone, finds none and leaves it down; no
later event of the transfer raises it. When its row then dies before the
withdrawal, the trigger finds no guard, nothing in flight and no live row, and
starts a second transfer. The sweep times out the first one and clears the guard
and the USDC in flight, which are the second one's by now
(`expire_stuck_usdc_rebalances`). The second burns, its row dies, and nothing
blocks the trigger until that transfer times out itself or the bot restarts
(`UnsettledBurnBlocksTrigger` on the instance of `usdc_timeouts` without the
premise `~robbed`). ADR 0003
(`adrs/0003-durable-usdc-rebalance-guard-on-restart.md` 86-88) says that "stuck
post-burn funds must never silently unguard" and that "All new USDC rebalancing is
blocked while one aggregate is unsettled". The attempt to prove the property met
this; one crash, one fault and two attempts per row are too few to reach it.

A resume from `Bridged` scans the logs for a deposit it may already have
sent (`send_or_adopt_alpaca_deposit`), and a send that is still in the mempool is
in no log: it is sent a second time, and both are mined when the wallet holds the
USDC of another transfer (two transfers, one fault, one crash, `MaxTxs = 10`).
`rebalancing/usdc/manager.rs` 2784-2788 says that the scan adopts the existing
send, "exactly the burn invariant"; but no hash of a send is recorded before its
receipt is awaited. The second send may take the withdrawal of the next transfer
from Alpaca. When the sweep forgets a transfer that is latched
in `BridgingSubmitting`, the trigger is free and a later scan may adopt the other
transfer's burn (`LegsAreOwn` with `SweepTimesOut`); when it forgets one that never
burned, it clears the guard of another. A resume from the CLI is unseen by the
service. A crash after Alpaca accepted a withdrawal asks for a second one.
With a relayer, mints are not mined in the order of the wallet's nonces. The mint
of a second transfer may then be delivered while the first one's repeated deposit
is still pending, that send is mined above the second's bound, and a resume of the
second adopts it as its own (`LegsAreOwn` on the instance of `usdc_faults` with
`Relayed = TRUE`, `MaxCrashes = 2`, `MaxAttempts = 1`, `MaxTxs = 11`). The
funds arrive all the same (`SettledWithoutSweep`). The proof of `LegsAreOwn` met
this.

Equity: the row of a transfer that failed in a fresh run is retried although its
failure is on record (`start_mint`, `start_redemption`), beside the recovery job
that claimed the freed slot; it finds nothing to do. Two jobs may drive one transfer after a restart, when the requeued row of
an interrupted mint and the recovery job for its balance both run (`OneSpender`
without its premise and with `MaxCrashes = 1`), although the comment on `load_transfer_jobs`
(`conductor.rs` 1950) speaks of a sole owner; the same with the operator and with
the sweep. A mint that failed after its tokens arrived keeps the slot only until
the recovery job has had one failing run: the recovery ends, the slot is
released, and a new transfer of the symbol can be triggered while the first is
still open (`trigger/equity.rs` 160-186 says that new transfer jobs cannot
start). A redemption whose send was broadcast and whose answer was lost is
recorded as failed without a hash, and `recover_redemption` then refuses to look
it up. A request that fails on every attempt leaves the slot claimed and
untracked until a restart, for the sweep knows tracked transfers only (the
exception `Leaked` in `SlotReleased`, which fails without it). When the
issuer's poll is ahead of the event that ends a transfer, the event is refused and
the slot waits for the sweep. With the sweep, the operator and an unfinished
sweep step all at once, `DepositsBacked` fails in a trace that needs the sweep to
stand still between clearing the slot and recording the failure for as long as a
redemption takes. Without the sweep it takes two uses of the API, a failed poll and
a crash (`SweepTimesOut = FALSE`, `MaxOperations = 2`, `MaxFaults = 2`, `MaxTxs = 8`,
in 29 states): a mint whose poll failed is rechecked while a redemption runs
(`RecheckMint` asks only that no other mint is active) and wraps its token; a crash
makes the redemption repeat an unwrap that was already mined, which takes the
mint's token; the mint is resumed, finds too small a balance, and
`try_deposit_or_recover` takes that for a deposit that landed earlier.

Inventory: a reading that the view refused behind the gate is still recorded by
the snapshot aggregate, so the next equal poll is no event (`snapshot.rs` 281) and
the view stays wrong until the broker's balance changes. The comment at
`trigger/mod.rs` 2097 says that "any local bookkeeping miss self-heals within
~60s", and `view.rs` 1870 counts on a "post-clear healing emission"; with a poller
that goes on for ever, `MaxOrders = 1` and no fault, the first reading can be
refused and the balance stays unknown. The same record is hydrated at a restart
although it was taken inside an open order, whose fill is then added to it again.
The reactions to the end of one order and to the start of the next run in
different tasks: in the wrong order they leave the gate open for the life of the
second order. A reading taken while a sell's shares were held is applied after
the order failed, and stays. A buy that fills before the first snapshot makes a
balance of the fill alone. From reading only: `equity_snapshot_would_apply` says
that the onchain venue has no second writer, but `OnChainOrderFilled` moves its
balance too, without a gate and against snapshots that are stamped when they are
recorded.

SPEC.md also says that `process-tx` refuses a fill that is merely witnessed; the
code resumes it.

### Bounds

Two rows of one fill, a second fill to displace the slot and a legacy fill are
the cases that the guards of the accounting distinguish. Two faults let a
recovery be interrupted once. Two batches per range are enough for a later batch
to fail; two backends for one to lag. In hedging one fault is enough to lose an
answer, a row, a command or the process at any step, and two order ids
let a new attempt run while the old one is still at the broker. Two fills and
cancellations let a row be run again after its order ended and another took over. Two-share orders
are the smallest that fill in part.

Two USDC transfers are the fewest in which a scan can find a leg of another one;
`MaxTxs` leaves room for every leg of both and for repeated ones. Two attempts
per row let a retry follow a failure and a row die. In `usdc_timeouts` one attempt
pays for a second fault and a second crash: a transfer can then be given up,
another start, and a restart meet both. A mint and a redemption are
the fewest equity transfers that compete for the wallet, in both directions of
wrapping. Five transactions are one full transfer of each kind, six and seven leave
room for repeated calls; `TroubleBound` keeps the run with the recovery jobs
within reach. `equity_sweep` has as many faults as a row has attempts, so that a
request can fail on each; `SecondFaultBound` keeps the second to behaviours in which
only one transfer has begun. One use of the API or CLI is one command; an operator who resumes stays for
the whole run he started. Three hedge orders are enough for one order's reaction
to be overtaken and another to follow; one share at first lets a sell succeed
once and then find too little.

### Fairness

The bot's tasks go on (tokio tasks and apalis workers poll), systemd restarts a
bot that stopped, a backend catches up with the chain, and the broker ends the
orders it accepted and does not withhold the price of a fill for ever (strong
fairness of a poll that gets an answer it can act on). Nothing is assumed about faults, fills, operators or
sessions. In `UsdcTransfer` the rows are fetched in the order they are due (so a
row that is ready again and again is started: strong fairness of `Start`), runs
and burn tasks go on, the chains mine, and who polls for an attestation again and
again is answered in the end. In `EquityTransfer` the jobs go on, the sweep comes
round and the wallet's transactions are mined; nothing is asked of the issuer,
for the sweep is the answer to an issuer that is silent. In `InventoryMirror` the
reactors run, the broker ends its orders and the bot sees it; the poller need not
run. `CurrentCutoff` in `FillIngestion` is strongly fair: a monitor that
polls for ever is, now and then, answered with the block its backend stands at.

## Proofs

`FillAccountingProofs` proves, for any sets of fills, rows and processes and any
budgets:

- `TypeCorrect`: `Spec => []TypeOK`;
- `ExclusiveExactlyOnce`: under the precondition, `ExactlyOnce`;
- `MarkedCounted`: `MarkedIsCounted`, also without the precondition;
- `RecountWindow`: `RecountOnlyAfterSettle`, also without the precondition;
- `LedgerRefinement`: under the precondition, `FillAccounting` implements
  `FillLedger`;
- `SetIsBounded`: `SetBoundedByJobs`.

They rest on one inductive invariant, `IInv`. None of the properties is inductive
by itself: that a fill is marked only after it was counted needs to know where
each process stands (`Progress`: past the acknowledge step the fill is counted);
that a re-count needs a settled fill needs to know that a counted fill which is
not in the set and not in the slot was marked (`Tracked`); and exactly-once
needs to know that a process about to acknowledge, having found nothing in the
event log, is still right, which holds because nobody else works on its fill
(`Alone`). The bound of the set needs that the row in hand is the one of the
fill in hand, and that the bot ends a row only with its fill out of the set
(`Rowed`). The assumptions on the constants are
`FillAccountingAssumption`.

`FillIngestionProofs` proves, for any chain, fills, filters, backends, batch size
and budgets:

- `TypeCorrect`: `Spec => []TypeOK`;
- `RangesDoNotStack`: `OneRangeInFlight`;
- `CheckpointIsHonest`: `NothingSkipped`, when `ConsistentReads` holds.

`OneRangeInFlight` becomes inductive with `Flight`: between the overlap guard and
the enqueue nothing else starts a range, and a working worker holds a running
row. `NothingSkipped` needs `Ingested`: every block below a queued range was
ingested when the range was made, every block below the running batch by now, and
what the batch has found is enqueued or still to be pushed. `BatchIsComplete` is
the place where the hypothesis is used: the tip check vouches for the logs only
if both were answered by the same backend at the same moment. The assumption is
that of `FillIngestion`.

`HedgePlacementProofs` proves, for any orders, sessions, limits and faults, with
or without retried rows:

- `TypeCorrect`: `Spec => []TypeOK`;
- `VerdictsAgree`: `VerdictIsTheBrokers`.

A verdict is decided on a reading which a worker, a row or a placer carries through
several steps, so the invariant says what each of them may still believe:
`PollHonest`, `RowsHonest`, `WorkerSound`, `PlacerSound`. `OrderKnown` and
`BrokerSound` relate an order to the broker's record of it. The frame `Evolves`
says what no step does: take anything back from an order that somebody refers to.
Each action is shown to evolve, and each part of the invariant to survive that.

`OneHedgeProofs` proves, for the same constants:

- `HedgesSerialized`: `OneHedge` as long as no row has strayed;
- `NeverTwoHedges`: `NoDoubleHedge`;
- `ExecutionsAreTracked`: `ExecutedIsTracked`;
- `BookedOnce`: `CreditedOnce`.

The exposure is hedged under one key (`CurrentKey`): the anchor, or else the order
with the claim. `KeySound` says that nothing is live, on the wire unseen, or
executed and not booked under any other. `DriverSound` says what a placer may
rely on between two commands: it has the lock, so nobody else claims, and the key
it read is the current one although the sweeps may have given its claim back
meanwhile. `Orderly` is what the steps of the others must respect for that. There
is no hypothesis on the rows: they are run again after they claimed, crashed or
failed, as the queue does, and most of those runs are harmless, for the id is the
anchor or new to the books and to the broker. The three properties themselves say
`~stray`, and the proof shows that a behaviour can leave `OneHedge` by the two steps
that set it and by no other (`StrayStays`).

`UsdcTransferProofs` proves, for any transfers, directions, faults, crashes,
timeouts and operators:

- `TypeCorrect`: `Spec => []TypeOK`;
- `BurnedAtMostOnce`: `NoDoubleBurn`;
- `SettledArrived`: `SettledFundsArrived` wherever `LegsAreOwn` holds.

`NoDoubleBurn` becomes inductive with `BurnLife`: what aggregate, run and task know
of the burn at every step between the intent and the recorded hash, and that at
most one burn can still take effect; `Sent` adds that what a run waits for was
sent. `SettledFundsArrived` needs `Vouched`: each hash the aggregate holds is one
that the chains confirmed, and the chains take nothing back (`ChainKept`). That
the adopted mint is the one of the transfer's own burn is `LegsAreOwn`. With the
sweep or the CLI it may fail, so it is a hypothesis there; without them
`UsdcGuardProofs` discharges it.

`UsdcGuardProofs` proves, for any transfers, directions, faults, crashes and
timeouts:

- `BurnBlocksTrigger`: `UnsettledBurnBlocksTrigger`, when the CLI is not used;
- `LegsOwn`: `LegsAreOwn`, without the sweep, the CLI and a relayer;
- `SettledWithoutSweep`: `SettledFundsArrived` without the sweep and the CLI, with
  or without a relayer.

The guard is one bit that all transfers share, a trigger takes it before it looks at
anything else, and a crash between a push and the first event leaves it down. So
the invariant that both results rest on, `Watched`, does not say that the guard is
up for a transfer, but that something stops a trigger from pushing. A transfer is
`Active` while it has touched its source and is not closed (`Sourced`), or has a row
that can be run. At most one transfer is active, and a sourced one has the guard up
with no trigger holding it (`Unclaimed`), or USDC in flight (`Watch`). `Known` adds
what states, rows, tracking and the sweep's timed-out set know of the burn; `Same`
and `Stepped` say what a step leaves of the other transfers and does to its own.
The sweep keeps this or robs another transfer (`SweepWatched`), so for
`BurnBlocksTrigger` the invariant is `robbed \/ Watched`. The hypothesis is needed:
a run of the CLI is unseen by the service.

`LegsAreOwn` has the invariant `LegInv`, which needs more than `Watched`. A
resume scans the logs by direction, amount and block, so it must be known that no
leg of another transfer lies above its bound.
`Spent` says that a transfer which is not active has no burn to come and none that
is undelivered; `Ahead` that what the others sent was sent, and what they burned
was mined, before everything of the active one; `NonceOrder` that the wallet's
transactions on a chain are mined in order; `Scanned` what follows for the bounds
of the burn and the mint scan, and `OwnLegs` what is on record. TLC checked these
parts first, on `usdc_faults` and on a relayed instance with two crashes (2.9
million states). The hypotheses: the sweep frees the trigger while the burn of the
transfer it forgot may still be mined, the CLI's transfers are unseen, and both
then break the property. A relayer breaks the order of the nonces, which only the
deposit leg depends on: hence `SettledWithoutSweep` allows one.

`InventoryMirrorProofs` proves, for any holding and any number of orders, faults
and crashes:

- `TypeCorrect`: `Spec => []TypeOK`;
- `GateFollows`: `GateFollowsOrder`;
- `MirrorIsExact`: `MirrorExact`.

`MirrorExact` only speaks of the time between orders. Its inductive form says at
every moment by how much the balance differs from the broker's (`Mirrored`, with
`Owed`: what the order has moved and the view has not), that a reading which the
guards would let through is the broker's balance (`Readings`), and where the gate
stands while a reaction is outstanding (`Gate`). The assumption is
`BoundsAssumption`.

`EquityTransferProofs` proves, for any mints, redemptions, faults, crashes and
attempts:

- `TypeCorrect`: `Spec => []TypeOK`, with the sweep, the operator and restarts;
- `SpendersTakeTurns`: `OneSpender` without sweep and operator, as in its run;
- `DepositsLanded`: `DepositsBacked`, and that every mint recorded as deposited has
  a mined deposit of its own, without the recovery jobs and the operator, with the
  sweep and restarts.

The types are not inductive by themselves, for an event is looked up in the table
of its transfer's kind, a retry needs attempts that are left, and a balance is a
difference. The invariant therefore ties states, steps and sweeps to the kind of
their transfer (`AggInv`, `RunInv`, `SweepInv`), working jobs to rows that can be
run, orphan recoveries to the shares they found (`RecInv`), tracking to requested
transfers (`MemInv`), and has the wallet never below zero (`ChainInv`).
`OneSpender` needs `Owned`: the slot is that of the job which is engaged, that is,
works or may be run again and still find something to do. Both hypotheses are needed: the sweep and the operator free or claim the
slot beside a running job (see "Met and not kept as runs").

`DepositsBacked` is about a guess: a resumed run that finds too few wrapped tokens
records the deposit as done. The invariant `DepositInv` shows the guess right
whatever was sent twice before. It does not need the slot, which sweep and
restart free early: a new transfer waits for every row that can still be run, so
there is one such row (`Alone`). The wallet's nonces put everything older before
the wrap the mint goes on with, and everything after it is an issue or a deposit
of the mint itself (`Wrap`); once the wrap is mined its token is in the wallet or
in a mined deposit of that mint. `Told` says which of the hashes on record are that
wrap and that deposit. TLC checked `DepositInv` with the sweep, 3 faults and a crash
(10 million states). The operator must not act (see "Met and not kept as runs").
The recovery jobs move whole balances and drive transfers whose rows are done, so
that there is no single row to argue from; with them `DepositsBacked` is only
checked, on the instance of `equity_handover` with `MaxTxs = 6`, and holds there.

Besides the bounds, `EquityTransferAssumption` says that a transfer is a mint or a
redemption and neither a recovery job nor the operator, and that the transfers are
finitely many.

Only model-checked:

- the liveness properties, which are out of the prover's reach;
- what the runs add to the hypotheses above: `DepositsBacked` with one use of the
  API or CLI (`equity_operations`).

## Not modelled

Reorgs (the code has no reversal path), the pairing of inventory settlement logs
inside a batch and the logs that a batch drops while the checkpoint passes them
(removed, without metadata, or without a partner; `onchain/backfill.rs` 683-728: a
fill of `FillIngestion` is a log that yields a trade), prices and fractional share arithmetic, buying-power budgets over
several symbols, `UpdateThreshold` and `ManuallyAdjustPosition`, the trading
commands of the CLI other than the accounting half of `process-tx`, a cancel
request for an order the broker does not know, imbalance thresholds and transfer
amounts, onchain and cash balances of the inventory, the suppression of snapshots
after a timeout, nonce handling and
resubmission in `crates/evm`, the read side, configuration.

## Plan

1. `DepositsBacked` with the recovery jobs, for any bounds.
2. Pure algorithms against reference definitions: settlement pairing, batch
   ranges, imbalance and capped transfer amounts.
3. Nonce handling and resubmission in `crates/evm`; the CLI's trading commands
   beside the placers.
