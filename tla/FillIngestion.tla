---------------------------- MODULE FillIngestion ----------------------------
(***************************************************************************)
(* From the chain to the accounting queue: the order-fill monitor polls    *)
(* the cutoff block, enqueues one BackfillRange job at a time, and the     *)
(* backfill worker fetches the range's logs batch by batch from a load-    *)
(* balanced RPC endpoint, pushes an accounting job per fill and only then  *)
(* advances the persisted checkpoint.  Once the checkpoint has passed a    *)
(* block no scan ever looks at it again, so a fill missed there is lost.   *)
(*                                                                         *)
(* Blocks have fixed contents: reorgs are outside the code (it has no      *)
(* reversal path and says so) and outside this model.                      *)
(***************************************************************************)
EXTENDS Integers

CONSTANTS
    Fills,
    BlockOf,          \* BlockOf[f]: the block that carries fill f
    Kinds,            \* the log filters of one batch, each fetched on its own
    KindOf,           \* KindOf[f]: the filter that finds f
    MaxBlock,         \* bound: the last block ever mined
    DeploymentBlock,
    BatchSize,        \* BACKFILL_BATCH_SIZE, 1000 in the code
    Nodes,            \* backends behind the RPC load balancer
    ConsistentReads,  \* whether the log query and the tip check of one fetch
                      \* see one backend at one moment
    Rows,             \* identities of live BackfillRange rows
    NoRow,
    Retries,          \* retry budget of a row (3 in the code)
    MaxFaults         \* bound on crashes and failed jobs

NoBlock == -1
Blocks == 0..MaxBlock

ASSUME FillIngestionAssumption ==
    /\ MaxBlock \in Nat
    /\ DeploymentBlock \in Blocks
    /\ BlockOf \in [Fills -> Blocks]
    /\ KindOf \in [Fills -> Kinds]
    /\ BatchSize \in Nat \ {0}
    /\ ConsistentReads \in BOOLEAN
    /\ NoRow \notin Rows
    /\ Retries \in Nat
    /\ MaxFaults \in Nat

VARIABLES
    nodeTip,      \* how far each backend has indexed the chain
    checkpoint,   \* backfill_checkpoints.last_processed_block, or NoBlock
    enqueued,     \* fills with a durable accounting row
    rows,         \* the non-terminal BackfillRange rows
    up,           \* whether the bot process is running
    monitor,      \* the poll in progress: [step, cutoff]
    worker,       \* the range in progress: [step, row, next, logs]
    faults

vars == <<nodeTip, checkpoint, enqueued, rows, up, monitor, worker, faults>>

(* A terminal row (Done or Failed) is forgotten: has_in_flight ignores it  *)
(* and nothing re-drives it.                                               *)
Absent == [status |-> "absent", from |-> 0, to |-> 0, attempts |-> 0]

IdleMonitor == [step |-> "idle", cutoff |-> NoBlock]
IdleWorker  == [step |-> "idle", row |-> NoRow, next |-> 0, logs |-> {}]

RowType ==
    [status : {"absent", "Pending", "Running"}, from : Int, to : Int,
     attempts : 0..Retries]

TypeOK ==
    /\ nodeTip \in [Nodes -> Blocks]
    /\ checkpoint \in Blocks \cup {NoBlock}
    /\ enqueued \subseteq Fills
    /\ rows \in [Rows -> RowType]
    /\ up \in BOOLEAN
    /\ monitor \in [step : {"idle", "guard", "enqueue"}, cutoff : Blocks \cup {NoBlock}]
    /\ worker \in [step : {"idle", "fetch", "push", "save", "done"},
                   row : Rows \cup {NoRow}, next : Int, logs : SUBSET Fills]
    /\ faults \in 0..MaxFaults

Init ==
    /\ nodeTip = [n \in Nodes |-> 0]
    /\ checkpoint = NoBlock
    /\ enqueued = {}
    /\ rows = [r \in Rows |-> Absent]
    /\ up = TRUE
    /\ monitor = IdleMonitor
    /\ worker = IdleWorker
    /\ faults = 0

(* External: a backend indexes the next block.                             *)
NodeSync(n) ==
    /\ nodeTip[n] < MaxBlock
    /\ nodeTip' = [nodeTip EXCEPT ![n] = @ + 1]
    /\ UNCHANGED <<checkpoint, enqueued, rows, up, monitor, worker, faults>>

-----------------------------------------------------------------------------
(* The monitor: OrderFillMonitor::poll_once.                               *)

(* The cutoff tag is read from some backend, up front; the backend answers *)
(* null or a block that it has, wherever its own tag stands.               *)
PollCutoff(n) ==
    /\ up
    /\ monitor.step = "idle"
    /\ \E cutoff \in (0..nodeTip[n]) \cup {NoBlock} :
          monitor' = [step |-> "guard", cutoff |-> cutoff]
    /\ UNCHANGED <<nodeTip, checkpoint, enqueued, rows, up, worker, faults>>

InFlight(r) == rows[r].status # "absent"

PendingOnly == \E r \in Rows : rows[r].status = "Pending"

HasInFlight == \E r \in Rows : InFlight(r)

(* The overlap guard, then null cutoffs, end the tick.                     *)
PollGuard ==
    /\ up
    /\ monitor.step = "guard"
    /\ monitor' = IF HasInFlight \/ monitor.cutoff = NoBlock
                  THEN IdleMonitor
                  ELSE [monitor EXCEPT !.step = "enqueue"]
    /\ UNCHANGED <<nodeTip, checkpoint, enqueued, rows, up, worker, faults>>

StartAfterTheNextBlock ==
    IF checkpoint = NoBlock THEN DeploymentBlock + 1 ELSE checkpoint + 2

(* The first block not yet covered, never below the deployment block.      *)
BackfillStart ==
    IF checkpoint = NoBlock \/ checkpoint + 1 < DeploymentBlock
    THEN DeploymentBlock
    ELSE checkpoint + 1

(* The checkpoint is read again after the guard; a cutoff behind it (a     *)
(* lagging backend) or behind the deployment block enqueues nothing.       *)
PollEnqueue ==
    /\ up
    /\ monitor.step = "enqueue"
    /\ IF BackfillStart <= monitor.cutoff
       THEN \E r \in Rows :
               /\ ~InFlight(r)
               /\ rows' = [rows EXCEPT ![r] =
                     [status |-> "Pending", from |-> BackfillStart,
                      to |-> monitor.cutoff, attempts |-> 0]]
       ELSE UNCHANGED rows
    /\ monitor' = IdleMonitor
    /\ UNCHANGED <<nodeTip, checkpoint, enqueued, up, worker, faults>>

-----------------------------------------------------------------------------
(* The backfill worker: BackfillRange::perform.                            *)

Range == rows[worker.row]

(* A range always holds a block: the monitor checked it.                   *)
StartRange(r) ==
    /\ up
    /\ worker.step = "idle"
    /\ rows[r].status = "Pending"
    /\ rows' = [rows EXCEPT ![r].status = "Running"]
    /\ worker' = [step |-> "fetch", row |-> r, next |-> rows[r].from, logs |-> {}]
    /\ UNCHANGED <<nodeTip, checkpoint, enqueued, up, monitor, faults>>

BatchEnd ==
    IF worker.next + BatchSize - 1 < Range.to
    THEN worker.next + BatchSize - 1
    ELSE Range.to

NoTipCheck(logNode, tipNode) == TRUE

(* fetch_logs_with_tip_check: the logs come from one backend, the tip that *)
(* vouches for them from another, unless the reads are consistent.         *)
TipCheck(logNode, tipNode) ==
    /\ ConsistentReads => tipNode = logNode
    /\ nodeTip[tipNode] >= BatchEnd

(* What one backend answers for one filter over the batch: the fills of    *)
(* the blocks it has indexed.                                              *)
LogsFrom(n, k) ==
    {f \in Fills : /\ KindOf[f] = k
                   /\ BlockOf[f] \in worker.next..BatchEnd
                   /\ BlockOf[f] <= nodeTip[n]}

(* The filters of a batch are fetched together, each retried until its tip *)
(* check passes; the batch then moves on to pushing.  A fill is a log that *)
(* yields a trade: removed logs, logs without metadata and deposits or     *)
(* withdrawals without a partner are dropped, and the checkpoint passes    *)
(* them.                                                                   *)
FetchBatch ==
    /\ up
    /\ worker.step = "fetch"
    /\ \E logNode, tipNode \in [Kinds -> Nodes] :
          /\ \A k \in Kinds : TipCheck(logNode[k], tipNode[k])
          /\ worker' = [worker EXCEPT
                !.step = "push",
                !.logs = UNION {LogsFrom(logNode[k], k) : k \in Kinds}]
    /\ UNCHANGED <<nodeTip, checkpoint, enqueued, rows, up, monitor, faults>>

(* One accounting row per fill, in block order.                            *)
PushJob(f) ==
    /\ up
    /\ worker.step = "push"
    /\ f \in worker.logs
    /\ \A g \in worker.logs : BlockOf[f] <= BlockOf[g]
    /\ enqueued' = enqueued \cup {f}
    /\ worker' = [worker EXCEPT !.logs = @ \ {f}]
    /\ UNCHANGED <<nodeTip, checkpoint, rows, up, monitor, faults>>

SaveAfterFirstBatch == "save"

AfterBatch == IF BatchEnd < Range.to THEN "fetch" ELSE "save"

NextBatch ==
    /\ up
    /\ worker.step = "push"
    /\ worker.logs = {}
    /\ worker' = [worker EXCEPT !.step = AfterBatch, !.next = BatchEnd + 1]
    /\ UNCHANGED <<nodeTip, checkpoint, enqueued, rows, up, monitor, faults>>

(* The upsert keeps the larger block.                                      *)
SaveCheckpoint ==
    /\ up
    /\ worker.step = "save"
    /\ checkpoint' = IF checkpoint < Range.to THEN Range.to ELSE checkpoint
    /\ worker' = [worker EXCEPT !.step = "done"]
    /\ UNCHANGED <<nodeTip, enqueued, rows, up, monitor, faults>>

(* The row becomes Done only after perform returned.                       *)
FinishRange ==
    /\ up
    /\ worker.step = "done"
    /\ rows' = [rows EXCEPT ![worker.row] = Absent]
    /\ worker' = IdleWorker
    /\ UNCHANGED <<nodeTip, checkpoint, enqueued, up, monitor, faults>>

RetryPastTheBudget == Range.attempts <= Retries

RetryLeft == Range.attempts < Retries

(* A fetch that ran out of its own retries, or a failed write: the job is  *)
(* retried from its first block, or ends Failed and stops the bot.         *)
RangeError ==
    /\ up
    /\ worker.step # "idle"
    /\ faults < MaxFaults
    /\ faults' = faults + 1
    /\ IF RetryLeft
       THEN /\ rows' = [rows EXCEPT ![worker.row].attempts = @ + 1]
            /\ worker' = [step |-> "fetch", row |-> worker.row,
                          next |-> Range.from, logs |-> {}]
            /\ UNCHANGED <<up, monitor>>
       ELSE /\ rows' = [rows EXCEPT ![worker.row] = Absent]
            /\ worker' = IdleWorker
            /\ up' = FALSE
            /\ monitor' = IdleMonitor
    /\ UNCHANGED <<nodeTip, checkpoint, enqueued>>

-----------------------------------------------------------------------------
Crash ==
    /\ up
    /\ faults < MaxFaults
    /\ faults' = faults + 1
    /\ up' = FALSE
    /\ monitor' = IdleMonitor
    /\ worker' = IdleWorker
    /\ UNCHANGED <<nodeTip, checkpoint, enqueued, rows>>

LeaveOrphans == rows

(* requeue_backfill_orphans: the range that the dead process was running   *)
(* is Pending again before any worker starts.                              *)
RequeueBackfillOrphans ==
    [r \in Rows |-> IF rows[r].status = "Running"
                    THEN [rows[r] EXCEPT !.status = "Pending"]
                    ELSE rows[r]]

Restart ==
    /\ ~up
    /\ up' = TRUE
    /\ rows' = RequeueBackfillOrphans
    /\ UNCHANGED <<nodeTip, checkpoint, enqueued, monitor, worker, faults>>

-----------------------------------------------------------------------------
Monitor == (\E n \in Nodes : PollCutoff(n)) \/ PollGuard \/ PollEnqueue

Worker ==
    \/ \E r \in Rows : StartRange(r)
    \/ FetchBatch
    \/ \E f \in Fills : PushJob(f)
    \/ NextBatch
    \/ SaveCheckpoint
    \/ FinishRange

Next ==
    \/ \E n \in Nodes : NodeSync(n)
    \/ Monitor
    \/ Worker
    \/ RangeError
    \/ Crash
    \/ Restart

Spec == Init /\ [][Next]_vars

(* Backends catch up, the monitor ticks and, polling for ever, is answered *)
(* with the block its backend really stands at, the worker runs, systemd   *)
(* restarts the bot.                                                       *)
CurrentCutoff ==
    \E n \in Nodes :
        PollCutoff(n) /\ monitor'.cutoff = nodeTip[n] /\ nodeTip[n] = MaxBlock

Fairness ==
    /\ \A n \in Nodes : WF_vars(NodeSync(n))
    /\ WF_vars(Monitor)
    /\ SF_vars(CurrentCutoff)
    /\ WF_vars(Worker)
    /\ WF_vars(Restart)

FairSpec == Spec /\ Fairness

-----------------------------------------------------------------------------
(* Properties.                                                             *)

(* "A failed range is retried and never silently skipped" (order_fills.rs):*)
(* every fill at or below the checkpoint has its accounting row.           *)
NothingSkipped ==
    \A f \in Fills :
        BlockOf[f] >= DeploymentBlock /\ BlockOf[f] <= checkpoint => f \in enqueued

(* The overlap guard keeps ranges from stacking, across crashes and        *)
(* retries (poll_once, has_in_flight, requeue_backfill_orphans).           *)
OneRangeInFlight == \A r, s \in Rows : InFlight(r) /\ InFlight(s) => r = s

(* Every fill since deployment reaches the accounting queue: no crash or   *)
(* failed range leaves ingestion wedged behind a row nobody runs.          *)
EveryFillIngested ==
    \A f \in Fills : BlockOf[f] >= DeploymentBlock => <>(f \in enqueued)

=============================================================================
