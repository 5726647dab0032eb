------------------------- MODULE FillAccountingProofs -------------------------
(***************************************************************************)
(* Proofs about FillAccounting for any set of fills, rows and process-tx   *)
(* invocations and any bounds.                                             *)
(*                                                                         *)
(* ExactlyOnce is not inductive.  What makes it so is what each guard      *)
(* stands for: a counted fill is in the set until its marker is durable    *)
(* (Tracked), every program counter past the acknowledgement has seen the  *)
(* count (Progress), and, under the precondition of process-tx, a process  *)
(* about to acknowledge is alone with an uncounted fill (Alone).           *)
(***************************************************************************)
EXTENDS FillAccounting, TLAPS

(* A process off the clock holds nothing; a working one holds a fill.      *)
Holding ==
    /\ \A p \in Procs : pc[p] = "idle" <=> work[p] = NoFill
    /\ pc[Bot] # "idle" => job \in Jobs

(* A counted fill stays in the set until it is marked; only the fill that  *)
(* the previous release left behind is outside it.                         *)
Tracked ==
    /\ \A f \in pendingAck : applied[f] > 0
    /\ \A f \in Fills : trade[f] = "acknowledged" => applied[f] > 0
    /\ \A f \in Fills :
          applied[f] > 0 /\ f \notin pendingAck =>
              trade[f] = "acknowledged" \/ f = LegacyFill
    /\ \A f \in Fills : f \in {LegacyFill, slot} => applied[f] > 0

(* What each program counter knows of the fill in hand.                    *)
Progress ==
    \A p \in Procs :
        /\ pc[p] \in {"place", "mark"} => applied[work[p]] > 0
        /\ pc[p] = "settle" => trade[work[p]] = "acknowledged"
        /\ pc[p] = "acknowledge" => work[p] # LegacyFill

(* The precondition of process-tx at work.                                 *)
Alone ==
    Exclusive =>
        /\ \A p, q \in Procs : p # q /\ work[p] = work[q] => work[p] = NoFill
        /\ \A p \in Procs : pc[p] = "acknowledge" => applied[work[p]] = 0
        /\ ExactlyOnce

IInv == TypeOK /\ Holding /\ Tracked /\ Progress /\ Alone

(* What ties the set to the rows.  The row in hand is Running and carries  *)
(* the fill in hand; before any process-tx, the bot reaches the end of a   *)
(* row only with its fill out of the set.                                  *)
Rowed ==
    /\ \A p \in Procs : work[p] \in Hedgeable \cup {NoFill}
    /\ pendingAck \subseteq Hedgeable
    /\ ~up => pc[Bot] = "idle"
    /\ pc[Bot] # "idle" => row[job] = "Running" /\ FillOf[job] = work[Bot]
    /\ cliRuns = 0 => /\ \A c \in Clis : pc[c] = "idle"
                      /\ pc[Bot] = "hedge" => work[Bot] \notin pendingAck
    /\ SetBoundedByJobs

-----------------------------------------------------------------------------
(* The initial states satisfy the invariant, the fill that the previous    *)
(* release applied but did not mark included.                              *)
LEMMA InitIInv == Init => IInv
  <1> SUFFICES ASSUME Init PROVE IInv
    OBVIOUS
  <1> USE FillAccountingAssumption DEF Init, Procs
  <1>1. up \in BOOLEAN
    BY Zenon
  <1>2. TypeOK
    <2>1. trade \in [Fills -> TradeStates] /\ applied \in [Fills -> Nat]
      BY DEF TradeStates
    <2>2. attempts \in [Jobs -> 0..Retries]
      OBVIOUS
    <2>3. row \in [Jobs -> RowStates] /\ pc \in [Procs -> Steps]
      BY DEF RowStates, Steps
    <2> QED BY <1>1, <2>1, <2>2, <2>3 DEF TypeOK
  <1>3. Holding
    BY DEF Holding
  <1>4. Tracked
    BY DEF Tracked
  <1>5. Progress
    BY DEF Progress
  <1>6. Alone
    <2>1. ExactlyOnce
      <3>1. applied \in [Fills -> 0..1]
        OBVIOUS
      <3> HIDE DEF Init
      <3> QED BY <3>1 DEF ExactlyOnce
    <2>2. /\ \A p, q \in Procs : work[p] = NoFill
          /\ \A p \in Procs : pc[p] = "idle"
      OBVIOUS
    <2> QED BY <2>1, <2>2 DEF Alone
  <1> QED BY <1>2, <1>3, <1>4, <1>5, <1>6 DEF IInv

(* Every step of a process, of the job queue and of the command line keeps *)
(* the invariant.                                                          *)
LEMMA NextIInv == IInv /\ [Next]_vars => IInv'
  <1> SUFFICES ASSUME IInv, [Next]_vars PROVE IInv'
    OBVIOUS
  <1> USE FillAccountingAssumption
      DEF IInv, TypeOK, Holding, tradeVars, positionVars, jobVars, boundVars,
          Goto, Procs, TradeStates, RowStates, Steps
  <1>1. ASSUME NEW p \in Procs, Load(p) PROVE IInv'
    <2> USE <1>1 DEF Load, AfterLoad
    <2>1. TypeOK' /\ Holding'
      OBVIOUS
    <2>2. Tracked'
      BY DEF Tracked, Progress
    <2>3. Progress'
      BY DEF Progress, Tracked
    <2>4. Alone'
      BY DEF Alone, ExactlyOnce, Tracked
    <2> QED BY <2>1, <2>2, <2>3, <2>4
  <1>2. ASSUME NEW p \in Procs, Witness(p) PROVE IInv'
    <2> USE <1>2 DEF Witness
    <2>1. TypeOK' /\ Holding'
      OBVIOUS
    <2>2. Tracked'
      BY DEF Tracked, Progress
    <2>3. Progress'
      BY DEF Progress, Tracked
    <2>4. Alone'
      BY DEF Alone, ExactlyOnce, Tracked
    <2> QED BY <2>1, <2>2, <2>3, <2>4
  <1>3. ASSUME NEW p \in Procs, Reload(p) PROVE IInv'
    <2> USE <1>3 DEF Reload, AfterLoad
    <2>1. TypeOK' /\ Holding'
      OBVIOUS
    <2>2. Tracked'
      BY DEF Tracked, Progress
    <2>3. Progress'
      BY DEF Progress, Tracked
    <2>4. Alone'
      BY DEF Alone, ExactlyOnce, Tracked
    <2> QED BY <2>1, <2>2, <2>3, <2>4
  <1>4. ASSUME NEW p \in Procs, Enrich(p) PROVE IInv'
    <2> USE <1>4 DEF Enrich
    <2>1. TypeOK' /\ Holding'
      OBVIOUS
    <2>2. Tracked'
      BY DEF Tracked, Progress
    <2>3. Progress'
      BY DEF Progress, Tracked
    <2>4. Alone'
      BY DEF Alone, ExactlyOnce, Tracked
    <2> QED BY <2>1, <2>2, <2>3, <2>4
  <1>5. ASSUME NEW p \in Procs, Lookup(p) PROVE IInv'
    <2> USE <1>5 DEF Lookup, AfterAccounted, PositionFillAlreadyRecorded
    <2>1. TypeOK' /\ Holding'
      OBVIOUS
    <2>2. Tracked'
      BY DEF Tracked, Progress
    <2>3. Progress'
      BY DEF Progress, Tracked
    <2>4. Alone'
      BY DEF Alone, ExactlyOnce, Tracked
    <2> QED BY <2>1, <2>2, <2>3, <2>4
  <1>6. ASSUME NEW p \in Procs, Acknowledge(p) PROVE IInv'
    <2> USE <1>6 DEF Acknowledge, AcknowledgeOnChainFill, Duplicate, AfterAccounted
    <2>1. TypeOK' /\ Holding'
      OBVIOUS
    <2>2. Tracked'
      BY DEF Tracked, Progress
    <2>3. Progress'
      BY DEF Progress, Tracked
    <2>4. Alone'
      BY DEF Alone, ExactlyOnce, Tracked
    <2> QED BY <2>1, <2>2, <2>3, <2>4
  <1>7. ASSUME NEW p \in Procs, CliPlaceHedge(p) PROVE IInv'
    <2> USE <1>7 DEF CliPlaceHedge
    <2>1. TypeOK' /\ Holding'
      OBVIOUS
    <2>2. Tracked'
      BY DEF Tracked, Progress
    <2>3. Progress'
      BY DEF Progress, Tracked
    <2>4. Alone'
      BY DEF Alone, ExactlyOnce, Tracked
    <2> QED BY <2>1, <2>2, <2>3, <2>4
  <1>8. ASSUME NEW p \in Procs, MarkAcknowledged(p) PROVE IInv'
    <2> USE <1>8 DEF MarkAcknowledged
    <2>1. TypeOK' /\ Holding'
      OBVIOUS
    <2>2. Tracked'
      BY DEF Tracked, Progress
    <2>3. Progress'
      BY DEF Progress, Tracked
    <2>4. Alone'
      BY DEF Alone, ExactlyOnce, Tracked
    <2> QED BY <2>1, <2>2, <2>3, <2>4
  <1>9. ASSUME NEW p \in Procs, Settle(p) PROVE IInv'
    <2> USE <1>9 DEF Settle, SettleOnChainFill
    <2>1. TypeOK' /\ Holding'
      OBVIOUS
    <2>2. Tracked'
      BY DEF Tracked, Progress
    <2>3. Progress'
      BY DEF Progress, Tracked
    <2>4. Alone'
      BY DEF Alone, ExactlyOnce, Tracked
    <2> QED BY <2>1, <2>2, <2>3, <2>4
  <1>10. ASSUME NEW j \in Jobs, Deliver(j) PROVE IInv'
    <2> USE <1>10 DEF Deliver
    <2>1. TypeOK' /\ Holding'
      OBVIOUS
    <2>2. Tracked'
      BY DEF Tracked, Progress
    <2>3. Progress'
      BY DEF Progress, Tracked
    <2>4. Alone'
      BY DEF Alone, ExactlyOnce, Tracked
    <2> QED BY <2>1, <2>2, <2>3, <2>4
  <1>11. ASSUME NEW j \in Jobs, BotStart(j) PROVE IInv'
    <2> USE <1>11 DEF BotStart, MayProcess, ExclusiveProcessing
    <2>1. TypeOK' /\ Holding'
      OBVIOUS
    <2>2. Tracked'
      BY DEF Tracked, Progress
    <2>3. Progress'
      BY DEF Progress, Tracked
    <2>4. Alone'
      BY DEF Alone, ExactlyOnce, Tracked
    <2> QED BY <2>1, <2>2, <2>3, <2>4
  <1>12. ASSUME NEW j \in Jobs, BotSkip(j) PROVE IInv'
    <2> USE <1>12 DEF BotSkip
    <2>1. TypeOK' /\ Holding'
      OBVIOUS
    <2>2. Tracked'
      BY DEF Tracked, Progress
    <2>3. Progress'
      BY DEF Progress, Tracked
    <2>4. Alone'
      BY DEF Alone, ExactlyOnce, Tracked
    <2> QED BY <2>1, <2>2, <2>3, <2>4
  <1>13. ASSUME BotError PROVE IInv'
    <2> USE <1>13 DEF BotError, RetryLeft
    <2>0. up' \in BOOLEAN
      BY Zenon
    <2>1. TypeOK' /\ Holding'
      BY <2>0
    <2>2. Tracked'
      BY DEF Tracked, Progress
    <2>3. Progress'
      BY DEF Progress, Tracked
    <2>4. Alone'
      BY DEF Alone, ExactlyOnce, Tracked
    <2> QED BY <2>1, <2>2, <2>3, <2>4
  <1>14. ASSUME BotCrash PROVE IInv'
    <2> USE <1>14 DEF BotCrash
    <2>0. up' \in BOOLEAN
      BY Zenon
    <2>1. TypeOK' /\ Holding'
      BY <2>0
    <2>2. Tracked'
      BY DEF Tracked, Progress
    <2>3. Progress'
      BY DEF Progress, Tracked
    <2>4. Alone'
      BY DEF Alone, ExactlyOnce, Tracked
    <2> QED BY <2>1, <2>2, <2>3, <2>4
  <1>15. ASSUME BotRestart PROVE IInv'
    <2> USE <1>15 DEF BotRestart, RequeueOrphaned
    <2>1. TypeOK' /\ Holding'
      OBVIOUS
    <2>2. Tracked'
      BY DEF Tracked, Progress
    <2>3. Progress'
      BY DEF Progress, Tracked
    <2>4. Alone'
      BY DEF Alone, ExactlyOnce, Tracked
    <2> QED BY <2>1, <2>2, <2>3, <2>4
  <1>16. ASSUME NEW c \in Clis, CliError(c) PROVE IInv'
    <2> USE <1>16 DEF CliError
    <2>1. TypeOK' /\ Holding'
      OBVIOUS
    <2>2. Tracked'
      BY DEF Tracked, Progress
    <2>3. Progress'
      BY DEF Progress, Tracked
    <2>4. Alone'
      BY DEF Alone, ExactlyOnce, Tracked
    <2> QED BY <2>1, <2>2, <2>3, <2>4
  <1>17. ASSUME NEW c \in Clis, NEW f \in Fills, CliStart(c, f) PROVE IInv'
    <2> USE <1>17 DEF CliStart, MayProcess, ExclusiveProcessing
    <2>1. TypeOK' /\ Holding'
      OBVIOUS
    <2>2. Tracked'
      BY DEF Tracked, Progress
    <2>3. Progress'
      BY DEF Progress, Tracked
    <2>4. Alone'
      BY DEF Alone, ExactlyOnce, Tracked
    <2> QED BY <2>1, <2>2, <2>3, <2>4
  <1>18. ASSUME BotPlaceHedge PROVE IInv'
    <2> USE <1>18 DEF BotPlaceHedge
    <2>1. TypeOK' /\ Holding'
      OBVIOUS
    <2>2. Tracked'
      BY DEF Tracked, Progress
    <2>3. Progress'
      BY DEF Progress, Tracked
    <2>4. Alone'
      BY DEF Alone, ExactlyOnce, Tracked
    <2> QED BY <2>1, <2>2, <2>3, <2>4
  <1>19. CASE UNCHANGED vars
    BY <1>19 DEF vars, Tracked, Progress, Alone, ExactlyOnce
  <1> QED
    BY <1>1, <1>2, <1>3, <1>4, <1>5, <1>6, <1>7, <1>8, <1>9,
       <1>10, <1>11, <1>12, <1>13, <1>14, <1>15, <1>16, <1>17, <1>18, <1>19 DEF Next, Step

(* Type correctness and the strengthening hold in every reachable state.   *)
THEOREM Invariance == Spec => []IInv
  BY InitIInv, NextIInv, PTL DEF Spec

(* Every variable of fill accounting keeps its type.                       *)
THEOREM TypeCorrect == Spec => []TypeOK
  BY Invariance, PTL DEF IInv

(* Under the precondition of process-tx no fill is counted twice, for any  *)
(* number of fills, deliveries, crashes, retries and invocations.          *)
THEOREM ExclusiveExactlyOnce == Exclusive /\ Spec => []ExactlyOnce
  <1>1. Exclusive /\ IInv => ExactlyOnce
    BY DEF IInv, Alone
  <1>2. Spec => []IInv
    BY Invariance
  <1> QED
    <2>1. CASE Exclusive
      <3>1. IInv => ExactlyOnce
        BY <1>1, <2>1
      <3> QED BY <3>1, <1>2, PTL
    <2>2. CASE ~Exclusive
      BY <2>2
    <2> QED BY <2>1, <2>2

(* A marked fill is a counted fill, precondition or not: no delivery that  *)
(* is skipped as processed is a lost fill.                                 *)
THEOREM MarkedCounted == Spec => []MarkedIsCounted
  <1>1. IInv => MarkedIsCounted
    BY DEF IInv, Tracked, MarkedIsCounted
  <1> QED BY <1>1, Invariance, PTL

(* Precondition or not, the dual guard of the Position admits a second     *)
(* count only of a fill that was marked, settled and displaced from the    *)
(* slot: the one window that the precondition has to close.                *)
THEOREM RecountWindow == Spec => RecountOnlyAfterSettle
  <1> DEFINE Window ==
        \A f \in Fills :
          applied[f] > 0 /\ applied'[f] > applied[f] =>
              /\ trade[f] = "acknowledged"
              /\ f \notin pendingAck
              /\ slot # f
  <1>1. IInv /\ [Next]_vars => [Window]_vars
    <2> SUFFICES ASSUME IInv, Next PROVE Window
      BY DEF vars
    <2>1. ASSUME NEW p \in Procs, Acknowledge(p) PROVE Window
      BY <2>1, FillAccountingAssumption
         DEF Acknowledge, AcknowledgeOnChainFill, Duplicate, positionVars,
             IInv, TypeOK, Holding, Tracked, Progress
    <2>2. CASE UNCHANGED applied
      BY <2>2 DEF IInv, TypeOK
    <2>3. (\E p \in Procs : Acknowledge(p)) \/ UNCHANGED applied
      BY DEF Next, Step, Load, Witness, Reload, Enrich, Lookup, CliPlaceHedge,
             MarkAcknowledged, Settle, SettleOnChainFill, Deliver, BotStart,
             BotSkip, BotPlaceHedge, BotError, RetryLeft, BotCrash, BotRestart, CliError, CliStart,
             positionVars
    <2> QED BY <2>1, <2>2, <2>3
  <1>2. Spec => [][Window]_vars
    BY <1>1, Invariance, PTL DEF Spec
  <1> QED BY <1>2 DEF RecountOnlyAfterSettle

(* Under the precondition of process-tx, fill accounting implements the    *)
(* ledger: counting is the acknowledgement of an uncounted fill, closing   *)
(* is the marker of a counted one, every other step is a stutter.          *)
THEOREM LedgerRefinement == Exclusive /\ Spec => ImplementsLedger
  <1>1. Init => Ledger!Init
    BY FillAccountingAssumption DEF Init, Ledger!Init
  <1>2. Exclusive /\ IInv /\ [Next]_vars => [Ledger!Next]_(Ledger!ledgerVars)
    <2> SUFFICES ASSUME Exclusive, IInv, Next
                 PROVE  Ledger!Next \/ UNCHANGED Ledger!ledgerVars
      BY DEF vars, Ledger!ledgerVars
    <2> USE FillAccountingAssumption DEF IInv, TypeOK, Holding, tradeVars, positionVars
    <2>1. ASSUME NEW p \in Procs, Acknowledge(p), ~Duplicate(work[p])
          PROVE  Ledger!Count(work[p])
      BY <2>1 DEF Acknowledge, AcknowledgeOnChainFill, Alone, Ledger!Count
    <2>2. ASSUME NEW p \in Procs, MarkAcknowledged(p), trade[work[p]] # "acknowledged"
          PROVE  Ledger!Close(work[p])
      BY <2>2 DEF MarkAcknowledged, Progress, Alone, ExactlyOnce, Ledger!Close
    <2>3. ASSUME NEW p \in Procs, Witness(p)
          PROVE  UNCHANGED Ledger!ledgerVars
      BY <2>3 DEF Witness, TradeStates, Ledger!ledgerVars
    <2>4. /\ \A p \in Procs : Acknowledge(p) /\ Duplicate(work[p])
                => UNCHANGED <<trade, applied>>
          /\ \A p \in Procs : MarkAcknowledged(p) /\ trade[work[p]] = "acknowledged"
                => UNCHANGED <<trade, applied>>
      BY DEF Acknowledge, AcknowledgeOnChainFill, MarkAcknowledged
    <2>5. \/ \E p \in Procs : Witness(p) \/ Acknowledge(p) \/ MarkAcknowledged(p)
          \/ UNCHANGED <<trade, applied>>
      BY DEF Next, Step, Load, Reload, Enrich, Lookup, CliPlaceHedge,
             Settle, SettleOnChainFill, Deliver, BotStart,
             BotSkip, BotPlaceHedge, BotError, RetryLeft, BotCrash, BotRestart, CliError, CliStart
    <2>6. ASSUME NEW p \in Procs, Acknowledge(p) \/ MarkAcknowledged(p)
          PROVE  work[p] \in Fills
      BY <2>6 DEF Acknowledge, MarkAcknowledged
    <2>7. CASE UNCHANGED <<trade, applied>>
      BY <2>7 DEF Ledger!ledgerVars
    <2>8. CASE ~UNCHANGED <<trade, applied>>
      <3>1. PICK p \in Procs : Witness(p) \/ Acknowledge(p) \/ MarkAcknowledged(p)
        BY <2>5, <2>8
      <3>2. CASE Witness(p)
        BY <3>2, <2>3
      <3>3. CASE Acknowledge(p)
        BY <3>3, <2>1, <2>4, <2>6, <2>8 DEF Ledger!Next
      <3>4. CASE MarkAcknowledged(p)
        <4>1. trade[work[p]] # "acknowledged"
          BY <3>4, <2>4, <2>8
        <4>2. Ledger!Close(work[p])
          BY <3>4, <4>1, <2>2
        <4>3. work[p] \in Fills
          BY <3>4, <2>6
        <4> HIDE DEF IInv, TypeOK, Holding
        <4> QED BY <4>2, <4>3 DEF Ledger!Next, Ledger!Close
      <3> QED BY <3>1, <3>2, <3>3, <3>4
    <2> QED BY <2>7, <2>8
  <1> QED
    <2>1. CASE Exclusive
      <3>1. IInv /\ [Next]_vars => [Ledger!Next]_(Ledger!ledgerVars)
        BY <1>2, <2>1
      <3> QED BY <3>1, <1>1, Invariance, PTL DEF Spec, ImplementsLedger, Ledger!Spec
    <2>2. CASE ~Exclusive
      BY <2>2
    <2> QED BY <2>1, <2>2

-----------------------------------------------------------------------------
(* Nothing is in the set before the first delivery.                        *)
LEMMA InitRowed == Init => Rowed
  BY FillAccountingAssumption DEF Init, Rowed, SetBoundedByJobs, Procs

(* A row leaves the driven states only with its fill out of the set.       *)
LEMMA NextRowed == IInv /\ Rowed /\ [Next]_vars => Rowed'
  <1> SUFFICES ASSUME IInv, Rowed, [Next]_vars PROVE Rowed'
    OBVIOUS
  <1> USE FillAccountingAssumption
      DEF IInv, TypeOK, Holding, Rowed, SetBoundedByJobs, tradeVars, positionVars, jobVars,
          boundVars, Goto, Procs, RowStates, Steps
  <1>1. ASSUME NEW p \in Procs, Load(p) PROVE Rowed'
    BY <1>1 DEF Load, AfterLoad, TradeStates
  <1>2. ASSUME NEW p \in Procs, Witness(p) PROVE Rowed'
    BY <1>2 DEF Witness
  <1>3. ASSUME NEW p \in Procs, Reload(p) PROVE Rowed'
    BY <1>3 DEF Reload, AfterLoad, TradeStates
  <1>4. ASSUME NEW p \in Procs, Enrich(p) PROVE Rowed'
    BY <1>4 DEF Enrich
  <1>5. ASSUME NEW p \in Procs, Lookup(p) PROVE Rowed'
    BY <1>5 DEF Lookup, AfterAccounted
  <1>6. ASSUME NEW p \in Procs, Acknowledge(p) PROVE Rowed'
    BY <1>6 DEF Acknowledge, AcknowledgeOnChainFill, AfterAccounted
  <1>7. ASSUME NEW p \in Procs, CliPlaceHedge(p) PROVE Rowed'
    BY <1>7 DEF CliPlaceHedge
  <1>8. ASSUME NEW p \in Procs, MarkAcknowledged(p) PROVE Rowed'
    BY <1>8 DEF MarkAcknowledged
  <1>9. ASSUME NEW p \in Procs, Settle(p) PROVE Rowed'
    BY <1>9 DEF Settle, SettleOnChainFill
  <1>10. ASSUME NEW j \in Jobs, Deliver(j) PROVE Rowed'
    BY <1>10 DEF Deliver
  <1>11. ASSUME NEW j \in Jobs, BotStart(j) PROVE Rowed'
    BY <1>11 DEF BotStart
  <1>12. ASSUME NEW j \in Jobs, BotSkip(j) PROVE Rowed'
    BY <1>12 DEF BotSkip
  <1>13. ASSUME BotError PROVE Rowed'
    BY <1>13 DEF BotError, RetryLeft
  <1>14. ASSUME BotCrash PROVE Rowed'
    BY <1>14 DEF BotCrash
  <1>15. ASSUME BotRestart PROVE Rowed'
    BY <1>15 DEF BotRestart, RequeueOrphaned
  <1>16. ASSUME NEW c \in Clis, CliError(c) PROVE Rowed'
    BY <1>16 DEF CliError
  <1>17. ASSUME NEW c \in Clis, NEW f \in Fills, CliStart(c, f) PROVE Rowed'
    BY <1>17 DEF CliStart
  <1>18. ASSUME BotPlaceHedge PROVE Rowed'
    BY <1>18 DEF BotPlaceHedge
  <1>19. CASE UNCHANGED vars
    BY <1>19 DEF vars
  <1> HIDE DEF IInv, Rowed
  <1> QED
    BY <1>1, <1>2, <1>3, <1>4, <1>5, <1>6, <1>7, <1>8, <1>9,
       <1>10, <1>11, <1>12, <1>13, <1>14, <1>15, <1>16, <1>17, <1>18, <1>19 DEF Next, Step

(* "Bounded: empty at rest, one entry per in-flight job": without          *)
(* process-tx, a fill in the Position's set has a row that is still to be  *)
(* driven or that failed loudly.                                           *)
THEOREM SetIsBounded == Spec => []SetBoundedByJobs
  <1>1. Rowed => SetBoundedByJobs
    BY DEF Rowed
  <1> QED BY <1>1, InitRowed, NextRowed, Invariance, PTL DEF Spec

=============================================================================
