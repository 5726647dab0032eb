------------------------- MODULE FillIngestionProofs -------------------------
(***************************************************************************)
(* Proofs about FillIngestion for any chain, any set of fills, log filters *)
(* and backends, any batch size and any bounds.                            *)
(*                                                                         *)
(* That ranges do not stack rests on the overlap guard and on the monitor  *)
(* being the only one that enqueues: between the guard and the enqueue     *)
(* nothing is in flight (Flight).  That nothing is skipped rests on what   *)
(* each position in a range vouches for: every block below the range was   *)
(* ingested when the range was made, every block below the running batch   *)
(* by now, and what the batch found is enqueued or still to be pushed      *)
(* (Ingested).                                                             *)
(***************************************************************************)
EXTENDS FillIngestion, TLAPS

(* A row in flight spans blocks of the chain; a working worker holds a     *)
(* running one; a monitor past its guard has seen none.                    *)
Flight ==
    /\ \A r \in Rows : InFlight(r) => /\ rows[r].from \in Blocks /\ rows[r].to \in Blocks
                                      /\ rows[r].from <= rows[r].to
    /\ worker.step # "idle" => worker.row \in Rows /\ rows[worker.row].status = "Running"
    /\ ~up => worker.step = "idle"
    /\ monitor.step = "enqueue" => /\ \A r \in Rows : ~InFlight(r)
                                   /\ monitor.cutoff \in Blocks
    /\ OneRangeInFlight

(* Every fill since deployment up to block b has its accounting row.       *)
Covered(b) ==
    \A f \in Fills : BlockOf[f] >= DeploymentBlock /\ BlockOf[f] <= b => f \in enqueued

(* What the checkpoint, a range and the running batch vouch for.           *)
Ingested ==
    /\ Covered(checkpoint)
    /\ \A r \in Rows : InFlight(r) => Covered(rows[r].from - 1)
    /\ worker.step \in {"fetch", "push"} =>
          worker.next <= Range.to /\ Covered(worker.next - 1)
    /\ worker.step = "push" =>
          \A f \in Fills : BlockOf[f] \in worker.next..BatchEnd =>
              f \in enqueued \/ f \in worker.logs
    /\ worker.step \in {"save", "done"} => Covered(Range.to)

FlightInv == TypeOK /\ Flight

-----------------------------------------------------------------------------
(* Ingestion starts with no range and no poll under way.                   *)
LEMMA InitFlight == Init => FlightInv
  <1> SUFFICES ASSUME Init PROVE FlightInv
    OBVIOUS
  <1> USE FillIngestionAssumption DEF Init, Absent, IdleMonitor, IdleWorker
  <1>1. up \in BOOLEAN
    BY Zenon
  <1>2. rows \in [Rows -> RowType]
    BY DEF RowType
  <1>3. TypeOK
    BY <1>1, <1>2 DEF TypeOK, Blocks, NoBlock
  <1>4. Flight
    BY DEF Flight, InFlight, OneRangeInFlight
  <1> QED BY <1>3, <1>4 DEF FlightInv

(* No step of a backend, the monitor, the worker or a restart stacks       *)
(* ranges or takes a running row from its worker.                          *)
LEMMA NextFlight == FlightInv /\ [Next]_vars => FlightInv'
  <1> SUFFICES ASSUME FlightInv, [Next]_vars PROVE FlightInv'
    OBVIOUS
  <1> USE FillIngestionAssumption
      DEF FlightInv, TypeOK, Flight, OneRangeInFlight, InFlight, RowType, Blocks, NoBlock,
          Absent, IdleMonitor, IdleWorker, Range
  <1>1. ASSUME NEW n \in Nodes, NodeSync(n) PROVE FlightInv'
    BY <1>1 DEF NodeSync
  <1>2. ASSUME NEW n \in Nodes, PollCutoff(n) PROVE FlightInv'
    BY <1>2 DEF PollCutoff
  <1>3. CASE PollGuard
    BY <1>3 DEF PollGuard, HasInFlight
  <1>4. CASE PollEnqueue
    BY <1>4 DEF PollEnqueue, BackfillStart
  <1>5. ASSUME NEW r \in Rows, StartRange(r) PROVE FlightInv'
    BY <1>5 DEF StartRange
  <1>6. CASE FetchBatch
    <2>1. PICK logNode \in [Kinds -> Nodes] :
            worker' = [worker EXCEPT !.step = "push",
                                     !.logs = UNION {LogsFrom(logNode[k], k) : k \in Kinds}]
      BY <1>6 DEF FetchBatch
    <2>2. UNION {LogsFrom(logNode[k], k) : k \in Kinds} \subseteq Fills
      BY DEF LogsFrom
    <2> QED BY <1>6, <2>1, <2>2 DEF FetchBatch
  <1>7. ASSUME NEW f \in Fills, PushJob(f) PROVE FlightInv'
    BY <1>7 DEF PushJob
  <1>8. CASE NextBatch
    <2>1. BatchEnd \in Int /\ AfterBatch \in {"fetch", "save"}
      BY <1>8 DEF NextBatch, AfterBatch, BatchEnd
    <2>2. ASSUME NEW s \in {"fetch", "save"}, NEW n \in Int,
                 worker' = [worker EXCEPT !.step = s, !.next = n]
          PROVE  FlightInv'
      <3>1. /\ up /\ worker.step = "push"
            /\ UNCHANGED <<nodeTip, checkpoint, enqueued, rows, up, monitor, faults>>
        BY <1>8 DEF NextBatch
      <3> QED BY <2>2, <3>1
    <2>3. worker' = [worker EXCEPT !.step = AfterBatch, !.next = BatchEnd + 1]
      BY <1>8 DEF NextBatch
    <2>4. BatchEnd + 1 \in Int
      BY <2>1
    <2> HIDE DEF FlightInv
    <2> QED BY <2>1, <2>2, <2>3, <2>4
  <1>9. CASE SaveCheckpoint
    BY <1>9 DEF SaveCheckpoint
  <1>10. CASE FinishRange
    BY <1>10 DEF FinishRange
  <1>11. CASE RangeError
    <2>1. CASE RetryLeft
      BY <1>11, <2>1 DEF RangeError, RetryLeft
    <2>2. CASE ~RetryLeft
      <3>1. (up \in BOOLEAN)'
        BY <1>11, <2>2, Zenon DEF RangeError
      <3>2. rows' \in [Rows -> RowType] /\ \A r \in Rows : rows'[r] \in {rows[r], Absent}
        BY <1>11, <2>2 DEF RangeError
      <3>3. /\ worker' = IdleWorker /\ monitor' = IdleMonitor /\ faults' \in 0..MaxFaults
            /\ UNCHANGED <<nodeTip, checkpoint, enqueued>>
        BY <1>11, <2>2 DEF RangeError
      <3> QED BY <3>1, <3>2, <3>3
    <2> QED BY <2>1, <2>2
  <1>12. CASE Crash
    <2>1. (up \in BOOLEAN)'
      BY <1>12, Zenon DEF Crash
    <2> QED BY <1>12, <2>1 DEF Crash
  <1>13. CASE Restart
    <2>1. (up \in BOOLEAN)'
      BY <1>13, Zenon DEF Restart
    <2>2. \A r \in Rows : rows'[r] = IF rows[r].status = "Running"
                                     THEN [rows[r] EXCEPT !.status = "Pending"] ELSE rows[r]
      BY <1>13 DEF Restart, RequeueBackfillOrphans
    <2>3. rows' \in [Rows -> RowType]
      BY <1>13 DEF Restart, RequeueBackfillOrphans
    <2>4. worker.step = "idle"
      BY <1>13 DEF Restart
    <2> QED BY <1>13, <2>1, <2>2, <2>3, <2>4 DEF Restart
  <1>14. CASE UNCHANGED vars
    BY <1>14 DEF vars
  <1> QED
    BY <1>1, <1>2, <1>3, <1>4, <1>5, <1>6, <1>7, <1>8, <1>9, <1>10, <1>11, <1>12, <1>13, <1>14
       DEF Next, Monitor, Worker

(* The three facts about ranges that hold for ever.                        *)
THEOREM FlightInvariance == Spec => []FlightInv
  BY InitFlight, NextFlight, PTL DEF Spec

(* Blocks, rows, cutoffs and the worker's position keep their types.       *)
THEOREM TypeCorrect == Spec => []TypeOK
  <1>1. FlightInv => TypeOK
    BY DEF FlightInv
  <1> QED BY <1>1, FlightInvariance, PTL

(* poll_once never stacks two ranges, whatever crashes, retries and        *)
(* restarts happen between its guard and the end of the range.             *)
THEOREM RangesDoNotStack == Spec => []OneRangeInFlight
  <1>1. FlightInv => OneRangeInFlight
    BY DEF FlightInv, Flight
  <1> QED BY <1>1, FlightInvariance, PTL

-----------------------------------------------------------------------------
(* Nothing is vouched for before the first poll.                           *)
LEMMA InitIngested == Init => Ingested
  BY FillIngestionAssumption
     DEF Init, Ingested, Covered, InFlight, Absent, IdleWorker, Range, Blocks, NoBlock

(* With consistent reads, what a batch fetches is everything its blocks    *)
(* hold: the tip that vouches for a backend's logs is that backend's own.  *)
LEMMA BatchIsComplete ==
    ASSUME FlightInv, ConsistentReads, FetchBatch
    PROVE  /\ \A f \in Fills : BlockOf[f] \in worker.next..BatchEnd => f \in worker'.logs
           /\ worker'.step = "push" /\ worker'.next = worker.next /\ worker'.row = worker.row
  <1> USE FillIngestionAssumption DEF FlightInv, TypeOK
  <1>1. PICK logNode \in [Kinds -> Nodes], tipNode \in [Kinds -> Nodes] :
          /\ \A k \in Kinds : TipCheck(logNode[k], tipNode[k])
          /\ worker' = [worker EXCEPT !.step = "push",
                                      !.logs = UNION {LogsFrom(logNode[k], k) : k \in Kinds}]
    BY DEF FetchBatch
  <1>2. BatchEnd \in Int
    <2>1. worker.row \in Rows
      BY DEF FetchBatch, Flight
    <2> QED BY <2>1 DEF BatchEnd, Range, RowType
  <1>3. ASSUME NEW f \in Fills, BlockOf[f] \in worker.next..BatchEnd
        PROVE  f \in LogsFrom(logNode[KindOf[f]], KindOf[f])
    <2>1. nodeTip[logNode[KindOf[f]]] >= BatchEnd
      BY <1>1 DEF TipCheck
    <2> QED BY <1>2, <1>3, <2>1 DEF LogsFrom, Blocks
  <1>4. worker'.logs = UNION {LogsFrom(logNode[k], k) : k \in Kinds}
    BY <1>1
  <1>5. worker'.step = "push" /\ worker'.next = worker.next /\ worker'.row = worker.row
    BY <1>1
  <1> QED BY <1>3, <1>4, <1>5

(* With consistent reads no step moves the checkpoint, a range or a batch  *)
(* past a fill that has no accounting row.                                 *)
LEMMA NextIngested ==
    ConsistentReads /\ FlightInv /\ Ingested /\ [Next]_vars => Ingested'
  <1> SUFFICES ASSUME ConsistentReads, FlightInv, Ingested, [Next]_vars PROVE Ingested'
    OBVIOUS
  <1> USE FillIngestionAssumption
      DEF FlightInv, TypeOK, Flight, InFlight, RowType, Blocks, NoBlock, Ingested, Covered,
          Absent, IdleMonitor, IdleWorker, Range, BatchEnd
  <1>1. ASSUME NEW n \in Nodes, NodeSync(n) PROVE Ingested'
    BY <1>1 DEF NodeSync
  <1>2. ASSUME NEW n \in Nodes, PollCutoff(n) PROVE Ingested'
    BY <1>2 DEF PollCutoff
  <1>3. CASE PollGuard
    BY <1>3 DEF PollGuard
  <1>4. CASE PollEnqueue
    <2>1. Covered(BackfillStart - 1)
      BY DEF BackfillStart
    <2>2. BackfillStart \in Int
      BY DEF BackfillStart
    <2>3. worker.step = "idle"
      BY <1>4 DEF PollEnqueue
    <2>4. \A r \in Rows : InFlight(r)' => rows'[r].from = BackfillStart
      BY <1>4 DEF PollEnqueue
    <2> QED BY <1>4, <2>1, <2>2, <2>3, <2>4 DEF PollEnqueue
  <1>5. ASSUME NEW r \in Rows, StartRange(r) PROVE Ingested'
    BY <1>5 DEF StartRange
  <1>6. CASE FetchBatch
    <2>1. /\ \A f \in Fills : BlockOf[f] \in worker.next..BatchEnd => f \in worker'.logs
          /\ worker'.step = "push" /\ worker'.next = worker.next /\ worker'.row = worker.row
      BY <1>6, BatchIsComplete
    <2>2. /\ worker.step = "fetch"
          /\ UNCHANGED <<checkpoint, enqueued, rows>>
      BY <1>6 DEF FetchBatch
    <2> QED BY <2>1, <2>2
  <1>7. ASSUME NEW f \in Fills, PushJob(f) PROVE Ingested'
    BY <1>7 DEF PushJob
  <1>8. CASE NextBatch
    <2>1. /\ worker.step = "push" /\ worker.logs = {}
          /\ UNCHANGED <<checkpoint, enqueued, rows>>
      BY <1>8 DEF NextBatch
    <2>2. /\ worker'.step = AfterBatch /\ worker'.next = BatchEnd + 1
          /\ worker'.row = worker.row
      BY <1>8 DEF NextBatch
    <2>3. BatchEnd \in Int /\ BatchEnd <= Range.to /\ Covered(BatchEnd)
      BY <2>1
    <2>4. CASE BatchEnd < Range.to
      BY <2>1, <2>2, <2>3, <2>4 DEF AfterBatch
    <2>5. CASE BatchEnd = Range.to
      BY <2>1, <2>2, <2>3, <2>5 DEF AfterBatch
    <2> QED BY <2>1, <2>3, <2>4, <2>5
  <1>9. CASE SaveCheckpoint
    BY <1>9 DEF SaveCheckpoint
  <1>10. CASE FinishRange
    BY <1>10 DEF FinishRange
  <1>11. CASE RangeError
    <2>1. CASE RetryLeft
      BY <1>11, <2>1 DEF RangeError, RetryLeft
    <2>2. CASE ~RetryLeft
      BY <1>11, <2>2 DEF RangeError
    <2> QED BY <2>1, <2>2
  <1>12. CASE Crash
    BY <1>12 DEF Crash
  <1>13. CASE Restart
    <2>1. \A r \in Rows : rows'[r].from = rows[r].from
                          /\ (rows'[r].status # "absent" => rows[r].status # "absent")
      BY <1>13 DEF Restart, RequeueBackfillOrphans
    <2>2. worker.step = "idle" /\ UNCHANGED <<checkpoint, enqueued, worker>>
      BY <1>13 DEF Restart
    <2> QED BY <2>1, <2>2
  <1>14. CASE UNCHANGED vars
    BY <1>14 DEF vars
  <1> QED
    BY <1>1, <1>2, <1>3, <1>4, <1>5, <1>6, <1>7, <1>8, <1>9, <1>10, <1>11, <1>12, <1>13, <1>14
       DEF Next, Monitor, Worker

(* "A failed range is retried and never silently skipped": over consistent *)
(* reads the checkpoint never passes a fill that has no accounting row.    *)
THEOREM CheckpointIsHonest == ConsistentReads /\ Spec => []NothingSkipped
  <1>1. CASE ConsistentReads
    <2>1. Ingested => NothingSkipped
      BY DEF Ingested, Covered, NothingSkipped
    <2>2. FlightInv /\ Ingested /\ [Next]_vars => Ingested'
      BY <1>1, NextIngested
    <2> QED BY <2>1, <2>2, InitIngested, FlightInvariance, PTL DEF Spec
  <1>2. CASE ~ConsistentReads
    BY <1>2, PTL
  <1> QED BY <1>1, <1>2

=============================================================================
