--------------------------- MODULE UsdcGuardProofs ---------------------------
(***************************************************************************)
(* One transfer at a time, for any set of transfers and any bounds, with   *)
(* the deadline, faults, attempt timeouts and crashes.                     *)
(*                                                                         *)
(* Watched is the invariant that both results rest on.  The guard is one  *)
(* bit that the events of every transfer, the trigger and the sweep write, *)
(* a trigger claims it before it looks at the inventory and at the queues, *)
(* and a crash between the push of a row and its first event leaves it     *)
(* down for that row.  So the invariant does not say that the guard is up  *)
(* for a transfer, but that something stops a trigger from pushing: the    *)
(* guard, the USDC in flight, or the row.  A transfer is active while its  *)
(* row is live or while it holds funds of its source venue, and at most    *)
(* one transfer is active.                                                 *)
(*                                                                         *)
(* First, no trigger starts a transfer next to one that has burned and not *)
(* settled, with the sweep and with every crash, until the sweep of one    *)
(* transfer has lowered the guard of another (robbed).  One hypothesis: no *)
(* operator acts (a transfer that the CLI drives is not seen by the        *)
(* service).                                                               *)
(*                                                                         *)
(* Then, that every leg on record is the transfer's own.  The scans of a   *)
(* resume know a direction, an amount and a block, so nothing of another   *)
(* transfer may be mined behind the bound: at most one transfer is active  *)
(* (Watched), what the others burned is delivered (Spent), and what they   *)
(* sent comes first (Ahead).  Here the sweep must expire nothing: it       *)
(* lowers the guard of a transfer whose burn may still be mined.           *)
(***************************************************************************)
EXTENDS UsdcTransferProofs

(* The transfer released the guard for good: it settled, was reconciled or *)
(* failed before its burn.                                                 *)
Closed(t) == agg[t].st # "Absent" /\ ~HoldsGuard(agg[t], dir[t])

(* It has not burned and nothing drives it: it was never started, or its   *)
(* row is gone, the sweep has nothing to expire and startup no row to arm. *)
Adrift(t) ==
    /\ ~Live(t) /\ tracked[t] = "none" /\ agg[t].burn = 0
    /\ ~(dir[t] = A2B /\ agg[t].st \in {"Withdrawing", "WithdrawalComplete"})

(* Which states have a burn on record.                                     *)
BurnOnRecord(t) ==
    /\ PreBurn(t) \/ agg[t].st \in {"BridgingSubmitting", "WithdrawalFailed"} => agg[t].burn = 0
    /\ agg[t].st = "ConversionFailed" /\ dir[t] = A2B => agg[t].burn = 0
    /\ agg[t].st \in {"Bridging", "AwaitingAttestation", "Attested", "Bridged",
                      "DepositInitiated", "DepositConfirmed", "DepositFailed"} =>
          agg[t].burn # 0
    /\ dir[t] = B2A /\ agg[t].st \in {"Converting", "ConversionComplete", "ConversionFailed"} =>
          agg[t].burn # 0

(* What the row, the run, the tracking and the sweep know of t.            *)
Driven(t) ==
    /\ run[t].who = "bot"
    /\ Running(t) => Live(t)
    /\ row[t] \in {"none", "claimed"} => agg[t].st = "Absent"

Tracks(t) ==
    /\ tracked[t] # "none" => HoldsGuard(agg[t], dir[t])
    /\ tracked[t] = "burned" => agg[t].burn # 0
    /\ tracked[t] \in {"conv", "withdraw"} => agg[t].burn = 0
    /\ t \in timedOut => Adrift(t) /\ agg[t].st # "Absent"

Known(t) == BurnOnRecord(t) /\ Driven(t) /\ Tracks(t)

-----------------------------------------------------------------------------
(* What a step of one transfer leaves of the others.                       *)

(* Nothing that the guard depends on changed for u.                        *)
Same(u) ==
    /\ agg'[u].st = agg[u].st /\ agg'[u].burn = agg[u].burn
    /\ row'[u] = row[u] /\ tracked'[u] = tracked[u]
    /\ run'[u].pc = run[u].pc /\ run'[u].who = run[u].who
    /\ u \in timedOut' <=> u \in timedOut

(* Then what is known of u, and whether it is adrift, stays.               *)
LEMMA SameKeeps ==
    ASSUME NEW u \in Transfers, UNCHANGED dir, Same(u)
    PROVE  /\ Known(u) => Known(u)'
           /\ Adrift(u)' <=> Adrift(u)
  <1>1. Live(u)' <=> Live(u)
    BY DEF Same, Live
  <1>2. HoldsGuard(agg[u], dir[u])' <=> HoldsGuard(agg[u], dir[u])
    BY DEF Same, HoldsGuard
  <1>3. (Adrift(u)' <=> Adrift(u)) /\ (Closed(u)' <=> Closed(u))
    BY <1>1, <1>2 DEF Same, Adrift, Closed
  <1>4. BurnOnRecord(u) => BurnOnRecord(u)'
    BY DEF Same, BurnOnRecord, PreBurn
  <1>5. Driven(u) => Driven(u)'
    BY <1>1 DEF Same, Driven, Running
  <1>6. Tracks(u) => Tracks(u)'
    BY <1>2, <1>3 DEF Same, Tracks
  <1> QED BY <1>3, <1>4, <1>5, <1>6 DEF Known

-----------------------------------------------------------------------------
(* The end or the next step of a run of t, as far as the guard depends on. *)
Stepped(t) ==
    /\ \A u \in Transfers : u # t => run'[u] = run[u] /\ row'[u] = row[u]
    /\ run'[t].who = "bot" /\ row'[t] \notin {"none", "claimed"}
    /\ run'[t].pc = "idle" \/ row'[t] = row[t]

(* A run of the bot that ends leaves a row behind.                         *)
LEMMA EndSteps ==
    ASSUME TypeOK, NEW t \in Transfers, Known(t), NEW o, End(t, o)
    PROVE  Stepped(t)
  <1>1. run' = [run EXCEPT ![t] = Idle] /\ run[t].who # "cli"
    BY DEF Known, Driven, End
  <1>2. /\ row' = [row EXCEPT ![t] = row'[t]]
        /\ row'[t] \notin {"none", "claimed"}
    BY <1>1 DEF End, TypeOK
  <1> QED BY <1>1, <1>2 DEF Stepped, TypeOK, Idle

(* One that goes on keeps its row.                                         *)
LEMMA ContinueSteps ==
    ASSUME TypeOK, NEW t \in Transfers, Known(t), Running(t), NEW pc, NEW fresh,
           Continue(t, pc, fresh)
    PROVE  Stepped(t)
  <1>1. run' = [run EXCEPT ![t].pc = pc, ![t].fresh = fresh] /\ UNCHANGED row
    BY DEF Continue, queueVars
  <1>2. run[t].who = "bot" /\ row[t] \notin {"none", "claimed"}
    BY DEF Known, Driven, Live
  <1> QED BY <1>1, <1>2 DEF Stepped, TypeOK

-----------------------------------------------------------------------------
(* The commands of the process that drives a transfer, by what they do to  *)
(* the guard: those before the burn, the burn, those after it, the ones    *)
(* that fail and the ones that may complete.                               *)
Before == {"InitiateConversion", "BeginWithdrawal", "Initiate", "ConfirmWithdrawal",
           "BeginBridging", "RecordPendingBurn", "ClearPendingBurn"}

After == {"ReceiveAttestation", "TimeoutAttestation", "ConfirmBridging", "RecoverBridging",
          "InitiateDeposit", "InitiatePostDepositConversion"}

Finishing == {"ConfirmConversion", "ConfirmDeposit"}

(* There are no others, but for the operator's.                            *)
LEMMA CommandKinds ==
    Commands = Before \cup {"InitiateBridging"} \cup After \cup Finishing \cup Failures
                 \cup {"ReconcileStuckRebalance"}
  BY DEF Commands, HandledIn, Before, After, Finishing, Failures

(* What t claims of the burn when it sends c.                              *)
Claims(t, c, ref) ==
    /\ c = "Initiate" => PreBurn(t)
    /\ c = "InitiateConversion" => dir[t] = A2B
    /\ c = "InitiateBridging" => ref # 0

(* No command of the process is handled once the transfer is closed.       *)
LEMMA HandledIsOpen ==
    ASSUME NEW t \in Transfers, NEW c \in Commands \ {"ReconcileStuckRebalance"}, NEW ref,
           Claims(t, c, ref), Handles(agg[t], c, dir[t]), dir[t] \in {A2B, B2A}, BurnOnRecord(t)
    PROVE  ~Closed(t)
  <1>1. CASE c \in Before
    BY <1>1 DEF Before, Claims, Handles, HandledIn, Closed, HoldsGuard, PreBurn
  <1>2. CASE c \in After
    BY <1>2 DEF After, Handles, HandledIn, Closed, HoldsGuard
  <1>3. CASE c \in Finishing \cup {"InitiateBridging"}
    BY <1>3 DEF Finishing, Handles, HandledIn, Closed, HoldsGuard
  <1>4. CASE c \in Failures
    BY <1>4 DEF Failures, Handles, HandledIn, Closed, HoldsGuard
  <1> QED BY <1>1, <1>2, <1>3, <1>4, CommandKinds

(* What a command leaves on record of the burn.                            *)
LEMMA RecordsBurn ==
    ASSUME NEW t \in Transfers, NEW c \in Commands \ {"ReconcileStuckRebalance"}, NEW ref,
           Claims(t, c, ref), Handles(agg[t], c, dir[t]), dir[t] \in {A2B, B2A}, BurnOnRecord(t),
           UNCHANGED dir, agg'[t].st = EvolvesTo[c],
           agg'[t].burn = IF c = "InitiateBridging" THEN ref ELSE agg[t].burn
    PROVE  BurnOnRecord(t)'
  <1>1. CASE c \in Before
    BY <1>1 DEF Before, Claims, Handles, HandledIn, EvolvesTo, BurnOnRecord, PreBurn, A2B, B2A
  <1>2. CASE c \in After
    BY <1>2 DEF After, Handles, HandledIn, EvolvesTo, BurnOnRecord, PreBurn, A2B, B2A
  <1>3. CASE c \in Finishing
    BY <1>3 DEF Finishing, Handles, HandledIn, EvolvesTo, BurnOnRecord, PreBurn, A2B, B2A
  <1>4. CASE c = "InitiateBridging"
    BY <1>4 DEF Claims, EvolvesTo, BurnOnRecord, PreBurn, A2B, B2A
  <1>5. CASE c \in Failures
    BY <1>5 DEF Failures, Handles, HandledIn, EvolvesTo, BurnOnRecord, PreBurn, A2B, B2A
  <1> QED BY <1>1, <1>2, <1>3, <1>4, <1>5, CommandKinds

(* A command that neither fails nor completes leaves the transfer holding, *)
(* tracked as burned only when it is.                                      *)
LEMMA StageFits ==
    ASSUME NEW t \in Transfers, NEW c \in Commands \ ({"ReconcileStuckRebalance"} \cup Failures),
           NEW ref, Claims(t, c, ref), Handles(agg[t], c, dir[t]), dir[t] \in {A2B, B2A},
           BurnOnRecord(t), Tracks(t), ~Completes(t, c),
           tracked[t] \in {"none", "conv", "withdraw", "burned"},
           UNCHANGED dir, agg'[t].st = EvolvesTo[c],
           agg'[t].burn = IF c = "InitiateBridging" THEN ref ELSE agg[t].burn
    PROVE  /\ HoldsGuard(agg[t], dir[t])'
           /\ Stage(t, c) = "burned" => agg'[t].burn # 0
           /\ Stage(t, c) \in {"conv", "withdraw"} => agg'[t].burn = 0
  <1>1. CASE c \in Before
    BY <1>1 DEF Before, Claims, Handles, HandledIn, EvolvesTo, BurnOnRecord, PreBurn, A2B, B2A,
                HoldsGuard, Stage, Tracks
  <1>2. CASE c \in After
    BY <1>2 DEF After, Handles, HandledIn, EvolvesTo, BurnOnRecord, PreBurn, A2B, B2A,
                HoldsGuard, Stage, Tracks
  <1>3. CASE c \in Finishing
    BY <1>3 DEF Finishing, Handles, HandledIn, EvolvesTo, BurnOnRecord, PreBurn, A2B, B2A,
                HoldsGuard, Stage, Tracks, Completes
  <1>4. CASE c = "InitiateBridging"
    BY <1>4 DEF Claims, EvolvesTo, HoldsGuard, Stage
  <1> QED BY <1>1, <1>2, <1>3, <1>4, CommandKinds

(* One that completes, or fails before the burn, closes the transfer.      *)
LEMMA ClearsClosed ==
    ASSUME NEW t \in Transfers, NEW c \in Commands, Handles(agg[t], c, dir[t]),
           dir[t] \in {A2B, B2A}, BurnOnRecord(t), Tracks(t),
           Completes(t, c) \/ (c \in Failures /\ ~KeepsGuard(t, c)),
           tracked[t] \in {"none", "conv", "withdraw", "burned"},
           UNCHANGED dir, agg'[t].st = EvolvesTo[c],
           c # "InitiateBridging" => agg'[t].burn = agg[t].burn
    PROVE  Closed(t)'
  <1>1. CASE Completes(t, c)
    BY <1>1 DEF Completes, EvolvesTo, Closed, HoldsGuard, A2B, B2A
  <1>2. CASE c \in Failures /\ ~KeepsGuard(t, c)
    BY <1>2 DEF Failures, KeepsGuard, Handles, HandledIn, EvolvesTo, BurnOnRecord, PreBurn, Tracks,
                Closed, HoldsGuard, A2B, B2A
  <1> QED BY <1>1, <1>2

(* One that fails after it, tracked or not, leaves what is tracked holding.*)
LEMMA KeepsFits ==
    ASSUME NEW t \in Transfers, NEW c \in Failures, Handles(agg[t], c, dir[t]),
           dir[t] \in {A2B, B2A}, BurnOnRecord(t), Tracks(t), KeepsGuard(t, c),
           tracked[t] \in {"none", "conv", "withdraw", "burned"}, tracked[t] # "none",
           UNCHANGED dir, agg'[t].st = EvolvesTo[c], agg'[t].burn = agg[t].burn
    PROVE  HoldsGuard(agg[t], dir[t])'
  BY DEF Failures, KeepsGuard, Handles, HandledIn, EvolvesTo, BurnOnRecord, PreBurn, Tracks,
         HoldsGuard, A2B, B2A

-----------------------------------------------------------------------------
(* What the service makes of an event of t: it lowers the guard for a      *)
(* transfer that is closed now, raises it for one that failed after its    *)
(* burn, or follows one that goes on.                                      *)
Cleared(t) ==
    /\ Closed(t)' /\ tracked'[t] = "none"

Raised(t) ==
    /\ guard' /\ UNCHANGED <<tracked, inflight>>
    /\ tracked[t] # "none" => HoldsGuard(agg[t], dir[t])'

Followed(t, c) ==
    /\ HoldsGuard(agg[t], dir[t])' /\ UNCHANGED guard /\ tracked'[t] = Stage(t, c)
    /\ inflight' = IF c = "Initiate" /\ ~SourceStarted(t)
                   THEN [inflight EXCEPT ![dir[t]] = @ + 1] ELSE inflight

(* A run that sends a command does so for an open transfer, and what is    *)
(* known of it stays known.                                                *)
LEMMA SendKnows ==
    ASSUME TypeOK, NEW t \in Transfers, Known(t), UNCHANGED dir, Live(t), Stepped(t),
           NEW c \in Commands \ {"ReconcileStuckRebalance"}, NEW ref \in Nat,
           Fits(t, c, ref), Send(t, c, ref)
    PROVE  /\ Known(t)' /\ \A u \in Transfers : u # t => Same(u)
           /\ ~Closed(t) /\ Claims(t, c, ref) /\ UNCHANGED timedOut
           /\ \/ Cleared(t)
              \/ Raised(t) /\ c \in Failures
              \/ Followed(t, c) /\ c \notin Failures
  <1>a. BurnOnRecord(t) /\ Driven(t) /\ Tracks(t)
    BY DEF Known
  <1>b. ~Adrift(t) /\ t \notin timedOut
    BY <1>a DEF Adrift, Tracks
  <1>c. dir[t] \in {A2B, B2A} /\ tracked[t] \in {"none", "conv", "withdraw", "burned"}
    BY DEF TypeOK
  <1>d. Driven(t)' <=> (row'[t] \in {"none", "claimed"} => agg'[t].st = "Absent")
    BY <1>a DEF Stepped, Driven, Running, Live
  <1>e. Driven(t)'
    BY <1>d DEF Stepped
  <1>1. Claims(t, c, ref)
    <2>1. DOMAIN txs \subseteq Nat \ {0}
      BY DEF TypeOK
    <2> QED BY <2>1 DEF Fits, Claims, Mined
  <1>2. /\ Handles(agg[t], c, dir[t]) /\ React(t, c)
        /\ agg'[t].st = EvolvesTo[c]
        /\ agg'[t].burn = IF c = "InitiateBridging" THEN ref ELSE agg[t].burn
        /\ \A u \in Transfers : u # t => agg'[u] = agg[u]
    <2>1. Evolved(t, c, ref) /\ Handles(agg[t], c, dir[t]) /\ React(t, c)
      BY DEF Send, Evolved
    <2> QED BY <2>1, Evolves
  <1>3. ~Closed(t)
    BY <1>a, <1>c, <1>1, <1>2, HandledIsOpen
  <1>4. BurnOnRecord(t)'
    BY <1>a, <1>c, <1>1, <1>2, RecordsBurn
  <1>5. UNCHANGED timedOut /\ \A u \in Transfers : u # t => tracked'[u] = tracked[u]
    BY <1>a, <1>b, <1>2 DEF React, Driven, TypeOK
  <1>6. \A u \in Transfers : u # t => Same(u)
    BY <1>2, <1>5 DEF Stepped, Same
  <1>7. CASE Completes(t, c) \/ (c \in Failures /\ ~KeepsGuard(t, c))
    <2>1. tracked'[t] = "none"
      BY <1>a, <1>b, <1>2, <1>7 DEF React, Driven, TypeOK
    <2>2. Closed(t)'
      BY <1>a, <1>c, <1>2, <1>7, ClearsClosed
    <2>3. Known(t)'
      BY <1>b, <1>e, <1>4, <1>5, <2>1 DEF Known, Tracks
    <2> QED BY <1>1, <1>3, <1>5, <1>6, <2>1, <2>2, <2>3 DEF Cleared
  <1>8. CASE c \in Failures /\ KeepsGuard(t, c) /\ ~Completes(t, c)
    <2>1. UNCHANGED <<tracked, inflight>> /\ guard'
      BY <1>a, <1>b, <1>2, <1>8 DEF React, Driven
    <2>2. tracked[t] # "none" => HoldsGuard(agg[t], dir[t])'
      BY <1>a, <1>c, <1>2, <1>8, KeepsFits DEF Failures
    <2>3. agg'[t].burn = agg[t].burn
      BY <1>2, <1>8 DEF Failures
    <2>4. Known(t)'
      BY <1>a, <1>b, <1>e, <1>4, <1>5, <2>1, <2>2, <2>3 DEF Known, Tracks
    <2> QED BY <1>1, <1>3, <1>5, <1>6, <1>8, <2>1, <2>2, <2>4 DEF Raised
  <1>9. CASE c \notin Failures /\ ~Completes(t, c)
    <2>1. /\ tracked'[t] = Stage(t, c) /\ UNCHANGED guard
          /\ inflight' = IF c = "Initiate" /\ ~SourceStarted(t)
                         THEN [inflight EXCEPT ![dir[t]] = @ + 1] ELSE inflight
      BY <1>a, <1>b, <1>2, <1>9 DEF React, Driven, TypeOK
    <2>2. /\ HoldsGuard(agg[t], dir[t])'
          /\ Stage(t, c) = "burned" => agg'[t].burn # 0
          /\ Stage(t, c) \in {"conv", "withdraw"} => agg'[t].burn = 0
      BY <1>a, <1>c, <1>1, <1>2, <1>9, StageFits
    <2>3. Known(t)'
      BY <1>b, <1>e, <1>4, <1>5, <2>1, <2>2 DEF Known, Tracks
    <2> QED BY <1>1, <1>3, <1>5, <1>6, <1>9, <2>1, <2>2, <2>3 DEF Followed
  <1> QED BY <1>7, <1>8, <1>9

(* So it is with one that sends none.                                      *)
LEMMA SilenceKnows ==
    ASSUME TypeOK, NEW t \in Transfers, Known(t), UNCHANGED dir, Live(t), Stepped(t), NoCommand
    PROVE  /\ Known(t)' /\ \A u \in Transfers : u # t => Same(u)
           /\ Closed(t)' <=> Closed(t)
  <1>a. BurnOnRecord(t) /\ Driven(t) /\ Tracks(t)
    BY DEF Known
  <1>b. t \notin timedOut
    BY <1>a DEF Adrift, Tracks
  <1>c. Driven(t)'
    BY <1>a DEF Stepped, Driven, Running, Live
  <1>1. \A u \in Transfers : u # t => Same(u)
    BY DEF NoCommand, memoryVars, Stepped, Same
  <1>2. BurnOnRecord(t)' /\ (HoldsGuard(agg[t], dir[t])' <=> HoldsGuard(agg[t], dir[t]))
    BY <1>a DEF NoCommand, BurnOnRecord, PreBurn
  <1>3. Tracks(t)'
    BY <1>a, <1>b, <1>2 DEF NoCommand, memoryVars, Tracks
  <1>4. Closed(t)' <=> Closed(t)
    BY <1>2 DEF NoCommand, Closed
  <1> QED BY <1>c, <1>1, <1>2, <1>3, <1>4 DEF Known

(* Every step of the manager is a step of a run that is under way.         *)
LEMMA ManagerSteps ==
    ASSUME TypeOK, NEW t \in Transfers, Known(t), ManagerStep(t)
    PROVE  Running(t) /\ Stepped(t) /\ UNCHANGED dir
  <1>a. \A pc : At(t, pc) /\ pc # "idle" => Running(t) /\ UNCHANGED dir
    BY DEF At, Running
  <1>b. \A o : End(t, o) => Stepped(t)
    BY EndSteps
  <1>c. Running(t) => \A pc, fresh : Continue(t, pc, fresh) => Stepped(t)
    BY ContinueSteps
  <1>d. \A st : Sees(t, st) => Running(t) /\ UNCHANGED dir
    BY <1>a DEF Sees
  <1>1. CASE \/ BeginConversion(t) \/ PlaceConversion(t) \/ RecordConversion(t)
             \/ ResumeConverting(t) \/ InitiateAlpacaWithdrawal(t)
             \/ RecordAlpacaWithdrawal(t) \/ PollWithdrawal(t)
    <2>1. Running(t) /\ UNCHANGED dir
      BY <1>1, <1>a, <1>d DEF BeginConversion, PlaceConversion, RecordConversion,
         ResumeConverting, InitiateAlpacaWithdrawal, RecordAlpacaWithdrawal, PollWithdrawal
    <2>2. Stepped(t)
      BY <1>1, <1>b, <1>c, <2>1 DEF BeginConversion, PlaceConversion, RecordConversion,
         ResumeConverting, InitiateAlpacaWithdrawal, RecordAlpacaWithdrawal, PollWithdrawal
    <2> QED BY <2>1, <2>2
  <1>2. CASE \/ BeginVaultWithdrawal(t) \/ WithdrawFromVault(t) \/ RecordVaultWithdrawal(t)
             \/ ResumeWithdrawalSubmitting(t) \/ ConfirmVaultWithdrawal(t)
             \/ BeginBurn(t) \/ SpawnBurn(t)
    <2>1. Running(t) /\ UNCHANGED dir
      BY <1>2, <1>a, <1>d DEF BeginVaultWithdrawal, WithdrawFromVault, RecordVaultWithdrawal,
         ResumeWithdrawalSubmitting, ConfirmVaultWithdrawal, BeginBurn, SpawnBurn
    <2>2. Stepped(t)
      BY <1>2, <1>b, <1>c, <2>1 DEF BeginVaultWithdrawal, WithdrawFromVault,
         RecordVaultWithdrawal, ResumeWithdrawalSubmitting, ConfirmVaultWithdrawal, BeginBurn,
         SpawnBurn
    <2> QED BY <2>1, <2>2
  <1>3. CASE ConfirmBurn(t) \/ ResumeBridgingSubmitting(t)
    <2>1. Running(t) /\ UNCHANGED dir
      BY <1>3, <1>a, <1>d DEF ConfirmBurn, ResumeBridgingSubmitting
    <2>2. ASSUME run' = [run EXCEPT ![t].pc = "spawn", ![t].try = 2], UNCHANGED queueVars
          PROVE  Stepped(t)
      <3>1. run[t].who = "bot" /\ row[t] \notin {"none", "claimed"}
        BY <2>1 DEF Known, Driven, Live
      <3> QED BY <2>2, <3>1 DEF Stepped, TypeOK, queueVars
    <2>3. Stepped(t)
      BY <1>3, <1>b, <1>c, <2>1, <2>2 DEF ConfirmBurn, ResumeBridgingSubmitting,
         CheckPendingBurn, ScanForBurn
    <2> QED BY <2>1, <2>3
  <1>4. CASE \/ ReceiveAttestation(t) \/ PollAttestation(t) \/ RecoverBridgingFailed(t)
             \/ BridgingFailedPends(t) \/ ResumeAttested(t) \/ Mint(t) \/ ConfirmMint(t)
    <2>1. Running(t) /\ UNCHANGED dir
      BY <1>4, <1>a, <1>d DEF ReceiveAttestation, PollAttestation, RecoverBridgingFailed,
         BridgingFailedPends, ResumeAttested, Mint, ConfirmMint
    <2>2. Stepped(t)
      BY <1>4, <1>b, <1>c, <2>1 DEF ReceiveAttestation, PollAttestation, RecoverBridgingFailed,
         BridgingFailedPends, ResumeAttested, Mint, ConfirmMint, Minted, MintFailed
    <2> QED BY <2>1, <2>2
  <1>5. CASE \/ SubmitDeposit(t) \/ RecordDeposit(t) \/ ConfirmDeposit(t) \/ SendDeposit(t)
             \/ RecordSend(t) \/ PollDeposit(t) \/ NothingToResume(t)
    <2>1. Running(t) /\ UNCHANGED dir
      BY <1>5, <1>a, <1>d DEF SubmitDeposit, RecordDeposit, ConfirmDeposit, SendDeposit,
         RecordSend, PollDeposit, NothingToResume
    <2>2. Stepped(t)
      BY <1>5, <1>b, <1>c, <2>1 DEF SubmitDeposit, RecordDeposit, ConfirmDeposit, SendDeposit,
         RecordSend, PollDeposit, NothingToResume
    <2> QED BY <2>1, <2>2
  <1> QED BY <1>1, <1>2, <1>3, <1>4, <1>5, ManagerStep(t) DEF ManagerStep

(* The burn task records its hash; when no run waits for it, nothing that  *)
(* the guard depends on changes.                                           *)
LEMMA RecordsAlone ==
    ASSUME TypeOK, NEW t \in Transfers, UNCHANGED <<dir, run, row>>,
           Latest(t, "burn") \in Nat, Send(t, "RecordPendingBurn", Latest(t, "burn"))
    PROVE  UNCHANGED <<guard, inflight, timedOut>> /\ \A u \in Transfers : Same(u)
  <1>1. /\ agg[t].st = "BridgingSubmitting" /\ agg'[t].st = "BridgingSubmitting"
        /\ agg'[t].burn = agg[t].burn
        /\ \A u \in Transfers : u # t => agg'[u] = agg[u]
    <2>1. /\ Evolved(t, "RecordPendingBurn", Latest(t, "burn"))
          /\ Handles(agg[t], "RecordPendingBurn", dir[t])
      BY DEF Send, Evolved
    <2>2. EvolvesTo["RecordPendingBurn"] = "BridgingSubmitting" /\ "RecordPendingBurn" \in Commands
      BY DEF EvolvesTo, Commands, HandledIn
    <2> QED BY <2>1, <2>2, Evolves DEF Handles, HandledIn
  <1>2. /\ UNCHANGED <<guard, inflight, timedOut>>
        /\ \A u \in Transfers : tracked'[u] = tracked[u]
    <2>1. React(t, "RecordPendingBurn") /\ Stage(t, "RecordPendingBurn") = tracked[t]
      BY DEF Send, Stage
    <2>2. ~Completes(t, "RecordPendingBurn") /\ "RecordPendingBurn" \notin Failures
      BY DEF Completes, Failures
    <2> QED BY <2>1, <2>2 DEF React, memoryVars, TypeOK
  <1>3. \A u \in Transfers : Same(u)
    BY <1>1, <1>2 DEF Same
  <1> QED BY <1>2, <1>3

(* The burn task: while the run waits for it, its result is the run's.     *)
TaskEnds(t) == NoCommand /\ run[t].pc = "task" /\ \E o : End(t, o)

TaskContinues(t) == Posted(t) /\ run[t].pc = "task" /\ Continue(t, "confirm", TRUE)

LEMMA TaskSteps ==
    ASSUME Inv, NEW t \in Transfers, TaskStep(t)
    PROVE  /\ UNCHANGED dir
           /\ \/ NoCommand /\ UNCHANGED <<run, row>>
              \/ TaskEnds(t) \/ TaskContinues(t)
              \/ /\ UNCHANGED <<run, row>> /\ Latest(t, "burn") \in Nat
                 /\ Send(t, "RecordPendingBurn", Latest(t, "burn"))
  <1>a. TypeOK /\ UNCHANGED dir
    BY DEF Inv, TaskStep, SubmitBurn, RecordPendingBurn
  <1>1. CASE /\ task[t] = "record" /\ Send(t, "RecordPendingBurn", Latest(t, "burn"))
             /\ IF run[t].pc = "task" THEN Continue(t, "confirm", TRUE)
                ELSE UNCHANGED <<run, queueVars>>
    <2>1. Latest(t, "burn") \in Nat
      <3>1. \E i \in DOMAIN txs : IsLast(t, "burn", i)
        BY <1>1 DEF Inv, BurnLife, OnlyBurn
      <3>2. DOMAIN txs \subseteq Nat
        BY <1>a DEF TypeOK
      <3> QED BY <1>a, <3>1, <3>2, LatestIsLast
    <2>2. "RecordPendingBurn" \in Commands \ {"InitiateBridging", "ConfirmBridging",
              "RecoverBridging", "InitiateDeposit", "ConfirmDeposit", "InitiateConversion",
              "Initiate", "ReconcileStuckRebalance"}
      BY DEF Commands, HandledIn
    <2>3. Posted(t)
      BY <1>1, <2>1, <2>2, PlainFits
    <2> QED BY <1>a, <1>1, <2>1, <2>3 DEF TaskContinues, queueVars
  <1>2. ASSUME NoCommand, NEW o, Deliver(t, o)
        PROVE  TaskEnds(t) \/ (NoCommand /\ UNCHANGED <<run, row>>)
    BY <1>2 DEF Deliver, TaskEnds, queueVars
  <1> QED BY <1>a, <1>1, <1>2 DEF TaskStep, SubmitBurn, RecordPendingBurn, queueVars

-----------------------------------------------------------------------------
(* The queues, the trigger, the sweep and startup.                         *)

(* A row that may be pushed is that of a transfer that recorded nothing,   *)
(* and the rows that the trigger kills are those of closed transfers.      *)
LEMMA TriggerKnows ==
    ASSUME TypeOK, \A u \in Transfers : Known(u), NEW t \in Transfers,
           ClaimGuard(t) \/ CheckAndTrigger(t)
    PROVE  /\ agg[t].st = "Absent"
           /\ \A u \in Transfers : /\ Known(u)'
                                   /\ u # t => Same(u) \/ (Closed(u) /\ Closed(u)')
  <1>a. /\ UNCHANGED <<dir, agg, run, tracked, timedOut>>
        /\ row[t] \in {"none", "claimed"} /\ row'[t] \in {"none", "claimed", "ready"}
        /\ \A u \in Transfers : u # t => row'[u] = row[u] \/ (Zombie(u) /\ row'[u] = "dead")
    BY DEF ClaimGuard, CheckAndTrigger, Unused, TypeOK
  <1>1. ASSUME NEW u \in Transfers, u # t, row'[u] = row[u] PROVE Known(u)' /\ Same(u)
    BY <1>a, <1>1, SameKeeps DEF Same
  <1>2. ASSUME NEW u \in Transfers, u # t, Zombie(u), row'[u] = "dead"
        PROVE  Known(u)' /\ Closed(u) /\ Closed(u)'
    <2>1. Closed(u) /\ Live(u) /\ ~Running(u) /\ row'[u] = "dead"
      BY <1>a, <1>2 DEF Zombie, Closed, Live
    <2>2. Closed(u)' /\ BurnOnRecord(u)' /\ Driven(u)'
      BY <1>a, <2>1 DEF Closed, Known, BurnOnRecord, PreBurn, Driven, Running
    <2>3. Tracks(u)'
      BY <1>a, <2>1 DEF Closed, Known, Tracks, Adrift
    <2> QED BY <2>1, <2>2, <2>3 DEF Known
  <1>3. agg[t].st = "Absent" /\ ~Running(t)
    BY <1>a DEF Known, Driven, Live
  <1>4. Known(t)'
    <2>1. BurnOnRecord(t)' /\ Driven(t)'
      BY <1>a, <1>3 DEF Known, BurnOnRecord, PreBurn, Driven, Running
    <2>2. Tracks(t)'
      BY <1>a, <1>3 DEF Known, Tracks
    <2> QED BY <2>1, <2>2 DEF Known
  <1> QED BY <1>a, <1>1, <1>2, <1>3, <1>4

(* After startup the tracking is that of the failed transfers.             *)
LEMMA RestartKnows ==
    ASSUME TypeOK, \A u \in Transfers : Known(u), Restart
    PROVE  \A u \in Transfers : Known(u)'
  <1>a. /\ UNCHANGED <<dir, agg>> /\ timedOut' = {}
        /\ run' = [u \in Transfers |-> Idle]
        /\ tracked' = [u \in Transfers |-> IF SeedsTracking(agg[u], dir[u]) THEN "burned" ELSE "none"]
        /\ row' = [u \in Transfers |-> IF Rearmed(u) THEN "ready"
                                       ELSE IF row[u] = "claimed" THEN "none" ELSE row[u]]
    BY DEF Restart
  <1> SUFFICES ASSUME NEW u \in Transfers PROVE Known(u)'
    OBVIOUS
  <1>1. BurnOnRecord(u) /\ Driven(u)
    BY DEF Known
  <1>2. BurnOnRecord(u)' /\ Driven(u)'
    BY <1>a, <1>1 DEF BurnOnRecord, PreBurn, Driven, Running, Idle
  <1>3. SeedsTracking(agg[u], dir[u]) => HoldsGuard(agg[u], dir[u]) /\ agg[u].burn # 0
    BY <1>1 DEF BurnOnRecord, SeedsTracking, HoldsGuard
  <1>4. Tracks(u)'
    BY <1>a, <1>3 DEF Tracks
  <1> QED BY <1>2, <1>4 DEF Known

-----------------------------------------------------------------------------
(* At most one transfer is active, and while one is no trigger pushes      *)
(* another.                                                                *)

(* The source venue is touched and the transfer is not closed, nor given   *)
(* up by the sweep.                                                        *)
Sourced(t) ==
    /\ HoldsGuard(agg[t], dir[t]) /\ agg[t].st # "WithdrawalSubmitting"
    /\ ~(dir[t] = A2B /\ agg[t].st \in {"Converting", "ConversionComplete"})
    /\ ~(SweepTimesOut /\ Adrift(t))

Active(t) == Sourced(t) \/ (Live(t) /\ ~Closed(t))

(* No trigger holds the guard.                                             *)
Unclaimed == \A u \in Transfers : row[u] # "claimed"

(* A sourced transfer keeps the trigger from pushing by the guard or by    *)
(* the USDC in flight, the others by their rows.                           *)
Watch(t) ==
    /\ Known(t)
    /\ Sourced(t) => (guard /\ Unclaimed) \/ inflight[dir[t]] > 0
    /\ tracked[t] = "withdraw" => Sourced(t)

(* The inductive invariant, on top of Inv.                                 *)
Watched ==
    /\ SweepTimesOut \/ timedOut = {}
    /\ \A t \in Transfers : Watch(t)
    /\ \A t, u \in Transfers : Active(t) /\ Active(u) => t = u

(* What Same keeps.                                                        *)
LEMMA SameActs ==
    ASSUME NEW u \in Transfers, UNCHANGED dir, Same(u)
    PROVE  /\ Sourced(u)' <=> Sourced(u)
           /\ Active(u)' <=> Active(u)
  <1>1. HoldsGuard(agg[u], dir[u])' <=> HoldsGuard(agg[u], dir[u])
    BY DEF Same, HoldsGuard
  <1>2. Sourced(u)' <=> Sourced(u)
    BY <1>1, SameKeeps DEF Same, Sourced
  <1> QED BY <1>1, <1>2 DEF Active, Same, Closed, Live

(* A step that raises the guard or leaves it alone, and the USDC in flight *)
(* with it.                                                                *)
LEMMA SameWatches ==
    ASSUME Watched, UNCHANGED <<dir, inflight, timedOut>>, guard => guard',
           \A u \in Transfers : Same(u)
    PROVE  Watched' /\ \A u \in Transfers : Active(u)' => Active(u)
  <1>1. Unclaimed => Unclaimed'
    BY DEF Unclaimed, Same
  <1> QED BY <1>1, SameActs, SameKeeps DEF Watched, Watch, Same

(* A command leads an open transfer to its source, or on from it.          *)
LEMMA FollowedWatch ==
    ASSUME TypeOK, NEW t \in Transfers, Watch(t), Live(t), UNCHANGED dir, Unclaimed => Unclaimed',
           NEW c \in Commands \ {"ReconcileStuckRebalance"}, NEW ref \in Nat,
           c \notin Failures, Claims(t, c, ref), Handles(agg[t], c, dir[t]),
           agg'[t].st = EvolvesTo[c], Followed(t, c), Known(t)'
    PROVE  Watch(t)'
  <1>c. ~Adrift(t) /\ (tracked'[t] # "none" => ~Adrift(t)')
    BY DEF Adrift
  <1>a. /\ BurnOnRecord(t) /\ Tracks(t) /\ dir[t] \in {A2B, B2A}
        /\ tracked[t] \in {"none", "conv", "withdraw", "burned"}
        /\ inflight \in [{A2B, B2A} -> Nat]
    BY DEF Watch, Known, TypeOK
  <1>b. HoldsGuard(agg[t], dir[t])' /\ UNCHANGED guard /\ tracked'[t] = Stage(t, c)
    BY DEF Followed
  <1>1. c # "Initiate" /\ Sourced(t)' => Sourced(t)
    <2>1. CASE c \in Before
      BY <1>a, <1>c, <2>1 DEF Before, Sourced, Claims, Handles, HandledIn, EvolvesTo, HoldsGuard, A2B, B2A
    <2>2. CASE c \in After
      BY <1>a, <1>c, <2>2 DEF After, Sourced, Handles, HandledIn, EvolvesTo, HoldsGuard, A2B, B2A
    <2>3. CASE c \in Finishing \cup {"InitiateBridging"}
      BY <1>a, <1>c, <2>3 DEF Finishing, Sourced, Handles, HandledIn, EvolvesTo, HoldsGuard, A2B, B2A
    <2> QED BY <2>1, <2>2, <2>3, CommandKinds
  <1>2. c = "Initiate" => ~SourceStarted(t) \/ Sourced(t)
    BY <1>a DEF Claims, SourceStarted, Tracks, BurnOnRecord, Watch
  <1>3. Sourced(t)' => ((guard /\ Unclaimed) \/ inflight[dir[t]] > 0)'
    BY <1>a, <1>b, <1>1, <1>2 DEF Followed, Watch
  <1>4. tracked'[t] = "withdraw" => Sourced(t)'
    <2>1. CASE c \in {"Initiate", "ConfirmWithdrawal"}
      BY <1>b, <1>c, <2>1 DEF Sourced, EvolvesTo, Stage
    <2>2. CASE c \notin {"Initiate", "ConfirmWithdrawal"} /\ tracked'[t] = "withdraw"
      <3>1. tracked[t] = "withdraw" /\ Sourced(t)
        BY <1>a, <1>b, <2>2 DEF Stage, Watch
      <3>2. agg[t].burn = 0 /\ agg'[t].burn = 0
        BY <1>a, <1>b, <2>2, <3>1 DEF Tracks, Known
      <3>3. CASE c \in Before
        BY <1>a, <1>b, <1>c, <2>2, <3>1, <3>3 DEF Before, Sourced, Handles, HandledIn, EvolvesTo,
           HoldsGuard, A2B, B2A
      <3>4. CASE c \in After
        BY <1>a, <1>b, <1>c, <2>2, <3>1, <3>2, <3>4 DEF After, Sourced, Handles, HandledIn, EvolvesTo,
           A2B, B2A, BurnOnRecord
      <3>5. CASE c \in Finishing \cup {"InitiateBridging"}
        BY <1>a, <1>b, <1>c, <2>2, <3>1, <3>2, <3>5 DEF Finishing, Sourced, Handles, HandledIn, EvolvesTo,
           A2B, B2A, BurnOnRecord, Stage
      <3> QED BY <3>3, <3>4, <3>5, CommandKinds
    <2> QED BY <2>1, <2>2
  <1> QED BY <1>3, <1>4 DEF Watch

(* A step of t alone keeps the watch when t is active, or when it changes  *)
(* nothing that the others depend on.                                      *)
LEMMA OneWatch ==
    ASSUME Watched, NEW t \in Transfers, UNCHANGED <<dir, timedOut>>,
           \A u \in Transfers : u # t => Same(u), Unclaimed => Unclaimed',
           Watch(t)', Active(t)' => Active(t),
           Active(t) \/ UNCHANGED <<guard, inflight>>
    PROVE  Watched' /\ \A u \in Transfers : Active(u)' => Active(u)
  <1>1. ASSUME NEW u \in Transfers, u # t
        PROVE  /\ Sourced(u)' <=> Sourced(u)
               /\ Active(u)' <=> Active(u)
               /\ Known(u)' /\ tracked'[u] = tracked[u]
    BY <1>1, SameActs, SameKeeps DEF Watched, Watch, Same
  <1>2. ASSUME NEW u \in Transfers, u # t PROVE Watch(u)'
    <2>1. Sourced(u) => ~Active(t)
      BY <1>2 DEF Watched, Active
    <2>2. Sourced(u)' => ((guard /\ Unclaimed) \/ inflight[dir[u]] > 0)'
      BY <1>1, <1>2, <2>1 DEF Watched, Watch
    <2> QED BY <1>1, <1>2, <2>2 DEF Watched, Watch
  <1>3. \A u, v \in Transfers : Active(u)' /\ Active(v)' => u = v
    BY <1>1 DEF Watched
  <1> QED BY <1>1, <1>2, <1>3 DEF Watched

(* A step of the run that drives t.                                        *)
LEMMA RunStepWatched ==
    ASSUME TypeOK, Watched, NEW t \in Transfers, UNCHANGED dir, Live(t), Stepped(t), Posted(t)
    PROVE  Watched' /\ \A u \in Transfers : Active(u)' => Active(u)
  <1>a. Known(t) /\ Watch(t)
    BY DEF Watched, Watch
  <1>b. Unclaimed => Unclaimed'
    BY DEF Unclaimed, Stepped
  <1>c. ~Adrift(t) /\ (tracked'[t] # "none" => ~Adrift(t)')
    BY DEF Adrift
  <1>1. CASE NoCommand
    <2>1. /\ Known(t)' /\ \A u \in Transfers : u # t => Same(u)
          /\ Closed(t)' <=> Closed(t)
      BY <1>a, <1>1, SilenceKnows
    <2>2. UNCHANGED <<agg, guard, inflight, tracked, timedOut>>
      BY <1>1 DEF NoCommand, memoryVars
    <2>3. (Sourced(t)' => Sourced(t)) /\ (tracked'[t] # "none" /\ Sourced(t) => Sourced(t)')
      BY <1>c, <2>2 DEF Sourced
    <2>4. Watch(t)'
      BY <1>a, <1>b, <2>1, <2>2, <2>3 DEF Watch
    <2>5. Active(t)' => Active(t)
      BY <2>1, <2>3 DEF Active
    <2> QED BY <1>b, <2>1, <2>2, <2>4, <2>5, OneWatch
  <1>2. ASSUME NEW c \in Commands \ {"ReconcileStuckRebalance"}, NEW ref \in Nat,
               Fits(t, c, ref), Send(t, c, ref)
        PROVE  Watched' /\ \A u \in Transfers : Active(u)' => Active(u)
    <2>1. /\ Known(t)' /\ \A u \in Transfers : u # t => Same(u)
          /\ ~Closed(t) /\ Claims(t, c, ref) /\ UNCHANGED timedOut
          /\ \/ Cleared(t)
             \/ Raised(t) /\ c \in Failures
             \/ Followed(t, c) /\ c \notin Failures
      BY <1>a, <1>2, SendKnows
    <2>2. Active(t)
      BY <2>1 DEF Active
    <2>3. Handles(agg[t], c, dir[t]) /\ agg'[t].st = EvolvesTo[c]
      BY <1>2, Sends
    <2>4. CASE Cleared(t)
      <3>1. ~Sourced(t)' /\ tracked'[t] # "withdraw"
        BY <2>4 DEF Cleared, Closed, Sourced
      <3> QED BY <1>b, <2>1, <2>2, <3>1, OneWatch DEF Watch
    <2>5. CASE Raised(t) /\ c \in Failures
      <3>1. tracked'[t] = "withdraw" => Sourced(t)'
        <4>1. tracked'[t] = "withdraw" => HoldsGuard(agg[t], dir[t])'
          BY <2>5 DEF Raised
        <4> QED BY <1>c, <2>3, <2>5, <4>1 DEF Failures, EvolvesTo, Sourced
      <3>2. Sourced(t)' => Sourced(t)
        <4>1. BurnOnRecord(t) /\ agg'[t].burn = agg[t].burn
          <5>1. Evolved(t, c, ref)
            BY <1>2 DEF Send, Evolved
          <5> QED BY <1>a, <1>2, <2>5, <5>1, Evolves DEF Known, Failures
        <4> QED BY <1>c, <2>3, <2>5, <4>1 DEF Failures, Handles, HandledIn, EvolvesTo, Sourced,
               HoldsGuard, BurnOnRecord, PreBurn
      <3>3. Watch(t)'
        BY <1>a, <1>b, <2>1, <2>5, <3>1, <3>2 DEF Watch, Raised
      <3> QED BY <1>b, <2>1, <2>2, <3>3, OneWatch
    <2>6. CASE Followed(t, c) /\ c \notin Failures
      <3>1. Watch(t)'
        BY <1>a, <1>b, <2>1, <2>3, <2>6, FollowedWatch
      <3> QED BY <1>b, <2>1, <2>2, <3>1, OneWatch
    <2> QED BY <2>1, <2>4, <2>5, <2>6
  <1> QED BY <1>1, <1>2 DEF Posted

(* The manager, the job's timeout and the burn task.                       *)
LEMMA DriverWatched ==
    ASSUME Inv, Watched, NEW t \in Transfers, ManagerStep(t) \/ AttemptTimesOut(t) \/ TaskStep(t)
    PROVE  Watched' /\ \A u \in Transfers : Active(u)' => Active(u)
  <1>a. TypeOK /\ Known(t) /\ (Running(t) => Live(t))
    BY DEF Inv, Watched, Watch, Known, Driven
  <1>1. CASE ManagerStep(t)
    BY <1>a, <1>1, ManagerSteps, ManagerFits, RunStepWatched
  <1>2. CASE AttemptTimesOut(t)
    <2>1. Running(t) /\ UNCHANGED dir /\ NoCommand /\ End(t, "bounded")
      BY <1>2 DEF AttemptTimesOut
    <2>2. Stepped(t) /\ Posted(t)
      BY <1>a, <2>1, EndSteps DEF Posted
    <2> QED BY <1>a, <2>1, <2>2, RunStepWatched
  <1>3. CASE TaskStep(t)
    <2>1. UNCHANGED dir
      BY <1>3, TaskSteps
    <2>2. CASE NoCommand /\ UNCHANGED <<run, row>>
      BY <2>1, <2>2, SameWatches DEF NoCommand, memoryVars, Same
    <2>3. CASE TaskEnds(t)
      BY <1>a, <2>1, <2>3, EndSteps, RunStepWatched DEF TaskEnds, Posted, Running
    <2>4. CASE TaskContinues(t)
      BY <1>a, <2>1, <2>4, ContinueSteps, RunStepWatched DEF TaskContinues, Running
    <2>5. CASE /\ UNCHANGED <<run, row>> /\ Latest(t, "burn") \in Nat
               /\ Send(t, "RecordPendingBurn", Latest(t, "burn"))
      BY <1>a, <2>1, <2>5, RecordsAlone, SameWatches
    <2> QED BY <1>3, <2>2, <2>3, <2>4, <2>5, TaskSteps
  <1> QED BY <1>1, <1>2, <1>3

(* A trigger claims the guard when it is down, so that what is sourced is  *)
(* in flight, and gives it back in the same case.                          *)
LEMMA ClaimWatched ==
    ASSUME TypeOK, Watched, NEW t \in Transfers,
           UNCHANGED <<dir, agg, run, inflight, tracked, timedOut>>,
           ClaimGuard(t) \/ CheckAndTrigger(t), ~guard \/ row[t] = "claimed",
           row'[t] \in {"none", "claimed"}, \A u \in Transfers : u # t => row'[u] = row[u]
    PROVE  Watched' /\ \A u \in Transfers : Active(u)' => Active(u)
  <1>a. agg[t].st = "Absent" /\ \A u \in Transfers : Known(u)'
    BY TriggerKnows DEF Watched, Watch
  <1>1. ASSUME NEW u \in Transfers
        PROVE  (Sourced(u)' <=> Sourced(u)) /\ (Active(u)' => Active(u))
    <2>1. CASE u = t
      BY <1>a, <2>1 DEF Sourced, Active, HoldsGuard, Live
    <2>2. CASE u # t
      BY <2>2, SameActs DEF Same
    <2> QED BY <2>1, <2>2
  <1>2. ASSUME NEW u \in Transfers PROVE Sourced(u) => inflight[dir[u]] > 0
    BY DEF Watched, Watch, Unclaimed
  <1> QED BY <1>a, <1>1, <1>2 DEF Watched, Watch

(* It pushes a row only when no other transfer is active, whatever the     *)
(* guard says.                                                             *)
LEMMA PushWatched ==
    ASSUME TypeOK, Watched, NEW t \in Transfers, CheckAndTrigger(t),
           NothingInFlight, \A u \in Transfers : Live(u) => Zombie(u)
    PROVE  Watched' /\ \A u \in Transfers : Active(u)' => u = t
  <1>a. UNCHANGED <<dir, agg, run, inflight, tracked, timedOut>> /\ row[t] = "claimed"
    BY DEF CheckAndTrigger
  <1>b. \A u \in Transfers : Known(u) /\ Watch(u) /\ dir[u] \in {A2B, B2A}
    BY DEF Watched, Watch, TypeOK
  <1>1. /\ agg[t].st = "Absent"
        /\ \A u \in Transfers : /\ Known(u)'
                                /\ u # t => Same(u) \/ (Closed(u) /\ Closed(u)')
    BY <1>b, TriggerKnows
  <1>2. ASSUME NEW u \in Transfers PROVE ~Active(u) /\ ~Sourced(u)
    <2>1. ~Sourced(u)
      <3>1. inflight[dir[u]] = 0 /\ ~Unclaimed
        BY <1>a, <1>b DEF NothingInFlight, Unclaimed
      <3> QED BY <1>b, <3>1 DEF Watch
    <2>2. Live(u) => Closed(u)
      BY DEF Zombie, Closed
    <2> QED BY <2>1, <2>2 DEF Active
  <1>3. ASSUME NEW u \in Transfers, u # t PROVE ~Active(u)'
    <2>1. CASE Same(u)
      BY <1>a, <1>2, <2>1, SameActs
    <2>2. CASE Closed(u)'
      BY <2>2 DEF Active, Closed, Sourced
    <2> QED BY <1>1, <1>3, <2>1, <2>2
  <1>4. ASSUME NEW u \in Transfers PROVE ~Sourced(u)'
    BY <1>a, <1>1, <1>3 DEF Active, Sourced, HoldsGuard
  <1>5. \A u \in Transfers : Watch(u)'
    BY <1>a, <1>b, <1>1, <1>2, <1>4 DEF Watch
  <1> QED BY <1>a, <1>3, <1>5 DEF Watched

LEMMA TriggerWatched ==
    ASSUME TypeOK, Watched, NEW t \in Transfers, ClaimGuard(t) \/ CheckAndTrigger(t)
    PROVE  /\ Watched'
           /\ \A u \in Transfers : Active(u)' => Active(u) \/ agg[u].st = "Absent"
  <1>a. /\ UNCHANGED <<dir, agg, run, inflight, tracked, timedOut>>
        /\ agg[t].st = "Absent"
    BY TriggerKnows DEF ClaimGuard, CheckAndTrigger, Watched, Watch
  <1>1. CASE ClaimGuard(t)
    BY <1>a, <1>1, ClaimWatched DEF ClaimGuard, TypeOK
  <1>2. CASE CheckAndTrigger(t) /\ guard' = FALSE /\ row' = [row EXCEPT ![t] = "none"]
    BY <1>a, <1>2, ClaimWatched DEF CheckAndTrigger, TypeOK
  <1>3. CASE CheckAndTrigger(t) /\ NothingInFlight /\ \A u \in Transfers : Live(u) => Zombie(u)
    BY <1>a, <1>3, PushWatched
  <1> QED BY <1>1, <1>2, <1>3 DEF CheckAndTrigger

(* Startup arms no transfer that was not active.                           *)
LEMMA RestartWatched ==
    ASSUME TypeOK, Watched, Restart
    PROVE  Watched' /\ \A u \in Transfers : Active(u)' => Active(u)
  <1>a. /\ UNCHANGED <<dir, agg>> /\ timedOut' = {}
        /\ guard' = (\E u \in Transfers : HoldsGuard(agg[u], dir[u]))
        /\ tracked' = [u \in Transfers |-> IF SeedsTracking(agg[u], dir[u]) THEN "burned" ELSE "none"]
        /\ row' = [u \in Transfers |-> IF Rearmed(u) THEN "ready"
                                       ELSE IF row[u] = "claimed" THEN "none" ELSE row[u]]
    BY DEF Restart
  <1>b. \A u \in Transfers : Known(u) /\ Known(u)'
    BY RestartKnows DEF Watched, Watch
  <1>c. Unclaimed'
    BY <1>a DEF Unclaimed
  <1>d. ASSUME NEW u \in Transfers, Adrift(u) PROVE Adrift(u)' /\ ~Rearmed(u)
    <2>1. BurnOnRecord(u) /\ Driven(u)
      BY <1>b DEF Known
    <2>2. ~Rearmed(u) /\ ~SeedsTracking(agg[u], dir[u])
      BY <1>d, <2>1 DEF Adrift, Rearmed, RearmedUnlessLive, RearmedUnlessQueued, SeedsTracking,
                        BurnOnRecord, Driven
    <2> QED BY <1>a, <1>d, <2>2 DEF Adrift, Live
  <1>1. ASSUME NEW u \in Transfers PROVE Sourced(u)' => Sourced(u)
    BY <1>a, <1>d DEF Sourced
  <1>2. ASSUME NEW u \in Transfers, Active(u)' PROVE Active(u)
    <2>1. Rearmed(u) => Sourced(u)
      BY <1>b, <1>d DEF Known, Driven, Rearmed, RearmedUnlessLive, RearmedUnlessQueued, Sourced, HoldsGuard,
                  A2B, B2A
    <2>2. Live(u)' => Live(u) \/ Rearmed(u)
      BY <1>a DEF Live
    <2>3. Closed(u)' <=> Closed(u)
      BY <1>a DEF Closed
    <2> QED BY <1>1, <1>2, <2>1, <2>2, <2>3 DEF Active
  <1>3. ASSUME NEW u \in Transfers PROVE Watch(u)'
    <2>1. Sourced(u)' => guard'
      BY <1>a DEF Sourced
    <2>2. tracked'[u] # "withdraw"
      BY <1>a
    <2> QED BY <1>b, <1>c, <2>1, <2>2 DEF Watch
  <1> QED BY <1>a, <1>2, <1>3 DEF Watched

(* A worker starts a run of a live row.                                    *)
LEMMA StartWatched ==
    ASSUME TypeOK, Watched, NEW t \in Transfers, Start(t)
    PROVE  Watched' /\ \A u \in Transfers : Active(u)' => Active(u)
  <1>1. Known(t) /\ Live(t)
    BY DEF Watched, Watch, Start
  <1>2. Stepped(t)
    BY <1>1 DEF Start, Stepped, queueVars, TypeOK, Live
  <1> QED BY <1>1, <1>2, RunStepWatched DEF Start, Posted, NoCommand

(* Without a timeout the sweep has nothing to do: no tracked transfer is   *)
(* reconciled.                                                             *)
LEMMA NoSweep ==
    ASSUME Watched, ~SweepTimesOut, NEW t \in Transfers, Sweep(t)
    PROVE  FALSE
  <1>1. tracked[t] = "burned" /\ agg[t].st = "Reconciled"
    BY DEF Sweep, SweepPostBurn, SweepPreBurn
  <1>2. HoldsGuard(agg[t], dir[t])
    BY <1>1 DEF Watched, Watch, Known, Tracks
  <1> QED BY <1>1, <1>2 DEF HoldsGuard

(* Nor has the operator.                                                   *)
LEMMA NoOperator ==
    ASSUME Watched, ~OperatorActs, ~ManualStarts, NEW t \in Transfers, OperatorStep(t)
    PROVE  FALSE
  <1>1. run[t].who = "bot"
    BY DEF Watched, Watch, Known, Driven
  <1> QED BY <1>1 DEF OperatorStep, CliTransfer, CliResume, CliAborts, FailUsdcTransfer,
                      ClearPendingBurn, Reconcile, Stuck

(* The steps that remain.                                                  *)
BotStep(t) ==
    \/ ClaimGuard(t) \/ CheckAndTrigger(t) \/ Start(t) \/ AttemptTimesOut(t)
    \/ ManagerStep(t) \/ TaskStep(t)

BotNext ==
    \/ \E t \in Transfers : BotStep(t)
    \/ Restart \/ Mine \/ Drop \/ Relay \/ UNCHANGED vars

(* Every step keeps the watch, and arms only a transfer that is new.       *)
LEMMA BotWatched ==
    ASSUME Inv, Watched, BotNext
    PROVE  /\ Watched'
           /\ \A u \in Transfers : Active(u)' => Active(u) \/ agg[u].st = "Absent"
  <1>a. TypeOK
    BY DEF Inv
  <1>1. ASSUME NEW t \in Transfers, ClaimGuard(t) \/ CheckAndTrigger(t)
        PROVE  /\ Watched'
               /\ \A u \in Transfers : Active(u)' => Active(u) \/ agg[u].st = "Absent"
    BY <1>a, <1>1, TriggerWatched
  <1>2. ASSUME NEW t \in Transfers,
               Start(t) \/ AttemptTimesOut(t) \/ ManagerStep(t) \/ TaskStep(t)
        PROVE  Watched' /\ \A u \in Transfers : Active(u)' => Active(u)
    BY <1>a, <1>2, StartWatched, DriverWatched
  <1>3. CASE Restart
    BY <1>a, <1>3, RestartWatched
  <1>4. CASE Mine \/ Drop \/ Relay \/ UNCHANGED vars
    <2>1. UNCHANGED <<dir, agg, row, run, guard, tracked, inflight, timedOut>>
      BY <1>4 DEF Mine, Drop, Relay, vars, queueVars, memoryVars
    <2> QED BY <2>1, SameWatches DEF Same
  <1> QED BY <1>1, <1>2, <1>3, <1>4 DEF BotNext, BotStep

(* At first no transfer is active.                                         *)
LEMMA InitWatched == Init => Watched
  <1> SUFFICES ASSUME Init PROVE Watched
    OBVIOUS
  <1>1. ASSUME NEW t \in Transfers PROVE ~Active(t) /\ Watch(t)
    <2>1. /\ agg[t] = Unborn /\ row[t] = "none" /\ run[t] = Idle /\ tracked[t] = "none"
          /\ timedOut = {}
      BY DEF Init
    <2>2. ~Sourced(t) /\ ~Live(t)
      BY <2>1 DEF Sourced, HoldsGuard, Live, Unborn
    <2>3. BurnOnRecord(t) /\ Driven(t) /\ Tracks(t)
      BY <2>1 DEF BurnOnRecord, PreBurn, Driven, Running, Tracks, Unborn, Idle
    <2> QED BY <2>1, <2>2, <2>3 DEF Active, Watch, Known
  <1> QED BY <1>1 DEF Watched, Init

-----------------------------------------------------------------------------
(* The trigger next to a burn that has not settled.                        *)

(* The sweep gives a transfer up before its burn.  If that lowers the      *)
(* guard of no other, no other is sourced, and this one is adrift.         *)
LEMMA SweepWatched ==
    ASSUME TypeOK, Watched, NEW t \in Transfers, Sweep(t), ~robbed'
    PROVE  Watched'
  <1>a. UNCHANGED <<dir, agg, run>> /\ ~Live(t) /\ tracked[t] # "none"
    BY DEF Sweep, SweepPostBurn, SweepPreBurn
  <1>b. Known(t) /\ HoldsGuard(agg[t], dir[t]) /\ ~Adrift(t) /\ Watch(t)
    BY <1>a DEF Watched, Watch, Known, Tracks, Adrift
  <1>d. /\ agg[t].st \notin {"Reconciled", "Absent"} /\ ~Running(t)
        /\ row[t] \notin {"none", "claimed"}
    BY <1>a, <1>b DEF HoldsGuard, Known, Driven
  <1>1. CASE UNCHANGED <<tracked, inflight, timedOut, row>> /\ guard'
    BY <1>a, <1>1, SameWatches DEF Same
  <1>2. CASE /\ Enqueue(t) /\ guard' /\ UNCHANGED <<tracked, inflight, timedOut>>
             /\ agg[t].st \in {"Withdrawing", "WithdrawalComplete"}
    <2>1. (\A u \in Transfers : u # t => Same(u)) /\ row'[t] = "ready"
      BY <1>a, <1>2 DEF Enqueue, Same, TypeOK
    <2>2. t \notin timedOut
      BY <1>b DEF Known, Tracks
    <2>3. Known(t)'
      BY <1>a, <1>b, <1>d, <1>2, <2>1, <2>2
         DEF Known, BurnOnRecord, PreBurn, Driven, Running, Tracks
    <2>4. Sourced(t) /\ (Unclaimed => Unclaimed') /\ Sourced(t)'
      BY <1>a, <1>b, <1>2, <2>1 DEF Sourced, Unclaimed, Same, HoldsGuard, Adrift, Live
    <2>5. Watch(t)'
      BY <1>a, <1>b, <1>2, <2>3, <2>4 DEF Watch
    <2> QED BY <1>a, <1>2, <2>1, <2>4, <2>5, OneWatch DEF Active
  <1>3. CASE /\ Forget(t) /\ UNCHANGED queueVars /\ tracked[t] \in {"conv", "withdraw"}
             /\ SweepTimesOut
             /\ ~(agg[t].st \in {"Withdrawing", "WithdrawalComplete"} /\ dir[t] = A2B)
    <2>1. \A u \in Transfers : u # t => Same(u)
      BY <1>a, <1>3 DEF Forget, Same, TypeOK, queueVars
    <2>2. Adrift(t)' /\ tracked'[t] = "none"
      BY <1>a, <1>b, <1>3 DEF Adrift, Known, Tracks, Forget, Live, queueVars, TypeOK
    <2>3. BurnOnRecord(t)' /\ Driven(t)'
      BY <1>a, <1>b, <1>3 DEF Known, BurnOnRecord, PreBurn, Driven, Running, Live, queueVars
    <2>4. Known(t)'
      BY <1>a, <1>d, <2>2, <2>3 DEF Known, Tracks
    <2>5. ~Sourced(t)' /\ ~Active(t)'
      BY <1>3, <2>2 DEF Sourced, Active, Adrift
    <2>6. ASSUME NEW u \in Transfers, u # t
          PROVE  ~Sourced(u)' /\ ~Active(u)' /\ Known(u)' /\ tracked'[u] # "withdraw"
      <3>1. ~Live(u) /\ (HoldsGuard(agg[u], dir[u]) => u \in timedOut)
        BY <1>3, <2>6 DEF Forget, Underway
      <3>2. Watch(u) /\ Known(u)
        BY DEF Watched, Watch
      <3>3. ~Sourced(u) /\ ~Active(u)
        BY <1>3, <3>1, <3>2 DEF Sourced, Active, Known, Tracks
      <3>4. Same(u) /\ tracked'[u] = tracked[u]
        BY <2>1, <2>6 DEF Same
      <3> QED BY <1>a, <3>2, <3>3, <3>4, SameActs, SameKeeps DEF Watch
    <2>7. \A u \in Transfers : Watch(u)' /\ ~Active(u)'
      BY <2>2, <2>4, <2>5, <2>6 DEF Watch
    <2> QED BY <1>3, <2>7 DEF Watched
  <1> QED BY <1>d, <1>1, <1>2, <1>3 DEF Sweep, SweepPostBurn, SweepPreBurn, queueVars

(* The history is kept: no step but the sweep writes it.                   *)
LEMMA RobbedStays == ASSUME Inv, [Next]_vars, robbed PROVE robbed'
  <1>1. ASSUME NEW t \in Transfers, Posted(t) PROVE robbed'
    BY <1>1 DEF Posted, NoCommand, Send, React, memoryVars
  <1>2. ASSUME NEW t \in Transfers, ManagerStep(t) PROVE robbed'
    BY <1>1, <1>2, ManagerFits
  <1>3. ASSUME NEW t \in Transfers, TaskStep(t) PROVE robbed'
    BY <1>1, <1>3, TaskSteps DEF TaskEnds, TaskContinues, NoCommand, memoryVars, Send, React
  <1>4. ASSUME NEW t \in Transfers, OperatorStep(t) PROVE robbed'
    BY <1>4 DEF OperatorStep, CliTransfer, CliResume, CliAborts, FailUsdcTransfer,
                ClearPendingBurn, Reconcile, CliCommand, memoryVars
  <1>5. ASSUME NEW t \in Transfers,
               \/ ClaimGuard(t) \/ CheckAndTrigger(t) \/ Start(t) \/ AttemptTimesOut(t) \/ Sweep(t)
        PROVE  robbed'
    BY <1>5 DEF ClaimGuard, CheckAndTrigger, Start, AttemptTimesOut, Sweep, SweepPostBurn,
                SweepPreBurn, Forget, NoCommand, memoryVars
  <1>6. CASE Restart \/ Mine \/ Drop \/ Relay \/ UNCHANGED vars
    BY <1>6 DEF Restart, Mine, Drop, Relay, vars, memoryVars
  <1> QED BY <1>2, <1>3, <1>4, <1>5, <1>6 DEF Next

(* Every step of the bot and of the chains keeps the watch until then.     *)
LEMMA NextWatched ==
    ~OperatorActs /\ ~ManualStarts /\ Inv /\ (robbed \/ Watched) /\ [Next]_vars
        => (robbed \/ Watched)'
  <1> SUFFICES ASSUME ~OperatorActs, ~ManualStarts, Inv, Watched, ~robbed', [Next]_vars
               PROVE  Watched'
    BY RobbedStays
  <1>1. ASSUME NEW t \in Transfers, Sweep(t) PROVE Watched'
    BY <1>1, SweepWatched DEF Inv
  <1>2. CASE BotNext
    BY <1>2, BotWatched
  <1> QED BY <1>1, <1>2, NoOperator DEF Next, BotNext, BotStep

(* Who has burned and not settled is sourced.                              *)
LEMMA BurnedIsSourced == Inv /\ (robbed \/ Watched) => UnsettledBurnBlocksTrigger
  <1> SUFFICES ASSUME Inv, Watched, NEW t \in Transfers, agg[t].burn # 0,
                      ~Settled(agg[t], dir[t]), agg[t].st # "Reconciled"
               PROVE  \/ guard /\ \A u \in Transfers : row[u] # "claimed"
                      \/ ~NothingInFlight
    BY DEF UnsettledBurnBlocksTrigger
  <1>1. /\ BurnOnRecord(t) /\ agg[t].st \in States /\ dir[t] \in {A2B, B2A}
        /\ inflight \in [{A2B, B2A} -> Nat]
    BY DEF Watched, Watch, Known, Inv, TypeOK
  <1>2. Sourced(t)
    BY <1>1 DEF Sourced, Adrift, BurnOnRecord, PreBurn, HoldsGuard, Settled, States
  <1> QED BY <1>1, <1>2 DEF Watched, Watch, Unclaimed, NothingInFlight

(* While a transfer of the bot has burned and not settled, no trigger can  *)
(* push another one, whatever fails, times out or is swept and wherever a  *)
(* crash falls, until the sweep of one transfer has lowered the guard of   *)
(* another (check_and_trigger_usdc, on_usdc_rebalance, recover_usdc_guard, *)
(* expire_stuck_usdc_rebalances).                                          *)
THEOREM BurnBlocksTrigger ==
    ~OperatorActs /\ ~ManualStarts /\ Spec => []UnsettledBurnBlocksTrigger
  <1>1. CASE ~OperatorActs /\ ~ManualStarts
    <2>1. Init => robbed \/ Watched
      BY InitWatched
    <2>2. Inv /\ (robbed \/ Watched) /\ [Next]_vars => (robbed \/ Watched)'
      BY <1>1, NextWatched
    <2>3. Inv /\ (robbed \/ Watched) => UnsettledBurnBlocksTrigger
      BY BurnedIsSourced
    <2> QED BY <2>1, <2>2, <2>3, Invariance, PTL DEF Spec
  <1>2. CASE ~(~OperatorActs /\ ~ManualStarts)
    BY <1>2
  <1> QED BY <1>1, <1>2

-----------------------------------------------------------------------------
(* What the chains look like to the one transfer that is active.           *)

(* The legs on record are the transfer's own; the deposit only when nobody *)
(* but the wallet delivers mints.                                          *)
OwnLegs(t) ==
    LET a == agg[t]
    IN  /\ a.burn # 0 => a.burn \in Of(t, "burn")
        /\ a.mint # 0 => a.mint \in DOMAIN txs /\ txs[a.mint].burn = a.burn
        /\ a.dep # 0 /\ ~Relayed => a.dep \in DOMAIN txs /\ txs[a.dep].by = t
        /\ dir[t] = A2B /\ a.st \in {"Withdrawing", "WithdrawalComplete"} => txs[a.wtx].by = t

(* A scan bound leaves every burn of another transfer behind, and a mint   *)
(* above it delivers the transfer's own burn.                              *)
Scanned(t) ==
    /\ agg[t].st = "BridgingSubmitting" =>
          \A i \in DOMAIN txs :
              txs[i].kind = "burn" /\ txs[i].st = "mined" /\ txs[i].at > agg[t].from =>
                 txs[i].by = t
    /\ agg[t].st = "Attested" =>
          \A i \in DOMAIN txs :
              txs[i].kind = "mint" /\ txs[i].st = "mined" /\ txs[i].at > agg[t].scan =>
                 txs[i].burn = agg[t].burn

(* A transfer that closed before its burn will never burn; one that has    *)
(* recorded nothing has sent nothing.                                      *)
Barren(t) ==
    /\ agg[t].st # "Reconciled"
    /\ agg[t].st = "Absent" => \A i \in DOMAIN txs : txs[i].by # t
    /\ agg[t].st \in {"WithdrawalFailed", "ConversionFailed", "BridgingFailed"} /\ Closed(t) =>
          task[t] = "none" /\ ~Burned(t)

(* A run mints what its transfer burned.                                   *)
Minting(t) ==
    run[t].pc \in {"mint", "minting"} =>
        agg[t].burn # 0 /\ agg[t].st \in {"Attested", "BridgingFailed"}

(* While t is active, what the others sent was sent before all of its own  *)
(* (but for the mints that anyone may deliver), and what they burned was   *)
(* mined before anything of its own.                                       *)
Ahead(t) ==
    Active(t) => \A i, j \in DOMAIN txs : txs[i].by # t /\ txs[j].by = t =>
                    /\ txs[i].kind # "mint" => i < j
                    /\ txs[i].kind = "burn" /\ txs[i].st = "mined" /\ txs[j].st = "mined" =>
                          txs[i].at < txs[j].at

(* A mint delivers a mined burn of the transfer that it is counted for.    *)
MintsOfBurns ==
    \A i \in DOMAIN txs : txs[i].kind = "mint" =>
        txs[i].burn \in Of(txs[i].by, "burn") /\ txs[txs[i].burn].st = "mined"

(* No block is above the chain head.                                       *)
MinedBelow == \A i \in DOMAIN txs : txs[i].st = "mined" => txs[i].at <= Height

(* The wallet's transactions on one chain are mined in order.              *)
NonceOrder ==
    \A i, j \in DOMAIN txs :
        /\ i < j /\ txs[j].st = "mined"
        /\ txs[i].kind # "alpaca" /\ txs[j].kind # "alpaca"
        /\ ChainOf(txs[i]) = ChainOf(txs[j])
        => /\ txs[i].st # "pending"
           /\ txs[i].st = "mined" => txs[i].at < txs[j].at

(* The inductive invariant, on top of Inv, Vouched and Watched.            *)
Chained == MintsOfBurns /\ MinedBelow /\ (~Relayed => NonceOrder)

Lined(t) == OwnLegs(t) /\ Scanned(t) /\ Barren(t) /\ Ahead(t)

LegInv ==
    /\ ~SweepTimesOut /\ Watched /\ Chained
    /\ \A t \in Transfers : Vouched(t) /\ Lined(t) /\ Minting(t)

(* Who is not active has no burn to come and none that is not delivered.   *)
Spent(u) ==
    /\ task[u] # "submit"
    /\ \A i \in Of(u, "burn") : /\ txs[i].st # "pending"
                                /\ txs[i].st = "mined" => Delivered(i) # {}

LEMMA InactiveSpent ==
    ASSUME Inv, LegInv, NEW u \in Transfers, ~Active(u)
    PROVE  Spent(u)
  <1>a. /\ BurnLife(u) /\ Vouched(u) /\ OwnLegs(u) /\ Barren(u) /\ BurnOnRecord(u)
        /\ agg[u].st \in States /\ dir[u] \in {A2B, B2A}
    BY DEF Inv, LegInv, Lined, Watched, Watch, Known, TypeOK
  <1>1. CASE task[u] = "none" /\ ~Burned(u)
    BY <1>1 DEF Spent, Burned
  <1>2. CASE PreBurn(u)
    BY <1>a, <1>1, <1>2 DEF BurnLife
  <1>3. CASE agg[u].st \in {"WithdrawalFailed", "ConversionFailed", "BridgingFailed"} /\ Closed(u)
    BY <1>a, <1>1, <1>3 DEF Barren
  <1>4. CASE Settled(agg[u], dir[u])
    <2>1. /\ agg[u].burn # 0 /\ Mined(agg[u].burn) /\ agg[u].mint # 0 /\ MinedMint(agg[u].mint)
          /\ agg[u].burn \in Of(u, "burn") /\ txs[agg[u].mint].burn = agg[u].burn
      BY <1>a, <1>4 DEF Settled, Vouched, OwnLegs
    <2>2. agg[u].mint \in Delivered(agg[u].burn)
      BY <2>1 DEF Delivered, MinedMint, Mined
    <2>3. Burned(u) /\ task[u] # "submit"
      BY <1>a, <2>1 DEF Burned, Mined, BurnLife
    <2>4. \A i \in Of(u, "burn") : txs[i].st \in {"pending", "mined"} => i = agg[u].burn
      BY <1>a, <2>1 DEF BurnLife, OneBurn, Mined
    <2>5. txs[agg[u].burn].st = "mined"
      BY <2>1 DEF Mined
    <2> QED BY <2>2, <2>3, <2>4, <2>5 DEF Spent
  <1>5. \/ PreBurn(u) \/ Settled(agg[u], dir[u])
        \/ agg[u].st \in {"WithdrawalFailed", "ConversionFailed", "BridgingFailed"} /\ Closed(u)
    BY <1>a DEF LegInv, Active, Sourced, HoldsGuard, PreBurn, Settled, Closed, Barren, States
  <1> QED BY <1>2, <1>3, <1>4, <1>5

-----------------------------------------------------------------------------
(* The chain head.                                                         *)
Included == {i \in DOMAIN txs : txs[i].st \in {"mined", "reverted"}}

(* It grows by the transactions that are included.                         *)
LEMMA HeightGrows ==
    ASSUME TypeOK, NEW S, Included' = Included \cup S
    PROVE  /\ S \subseteq Included => Height' = Height
           /\ \A i : S = {i} /\ i \notin Included => Height' = Height + 1
  <1>1. IsFiniteSet(Included)
    <2>1. Included \subseteq 1..Len(txs) /\ Len(txs) \in Nat
      BY DEF TypeOK, Included
    <2>2. IsFiniteSet(1..Len(txs))
      BY <2>1, FS_Interval
    <2> QED BY <2>1, <2>2, FS_Subset
  <1>2. Height = Cardinality(Included) /\ Height' = Cardinality(Included')
    BY DEF Height, Included
  <1>3. S \subseteq Included => Included' = Included
    OBVIOUS
  <1>4. \A i : i \notin Included => Cardinality(Included \cup {i}) = Cardinality(Included) + 1
    BY <1>1, FS_AddElement
  <1> QED BY <1>2, <1>3, <1>4

-----------------------------------------------------------------------------
(* What any step of the bot and of the chains does to the transactions, as *)
(* far as the legs depend on.                                              *)
NewlyMined(i) ==
    i \in DOMAIN txs' /\ txs'[i].st = "mined" /\ ~(i \in DOMAIN txs /\ txs[i].st = "mined")

(* A mint is mined once per burn, and without a relayer in its turn.       *)
MinesInTurn(i) ==
    /\ txs'[i].at = Height + 1 /\ Height' = Height + 1
    /\ txs'[i].kind = "mint" => Delivered(txs'[i].burn) = {}
    /\ i \notin DOMAIN txs => txs'[i].kind = "mint"
    /\ ~Relayed => i \in DOMAIN txs /\ NextInLine(i)

(* Only the active transfer sends, and a mint delivers a burn of its own.  *)
SentByActive(i) ==
    /\ agg[txs'[i].by].st # "Absent"
    /\ txs'[i].kind # "mint" => Active(txs'[i].by)
    /\ txs'[i].kind = "mint" =>
          txs'[i].burn \in Of(txs'[i].by, "burn") /\ txs[txs'[i].burn].st = "mined"

ChainMoves ==
    /\ ChainKept /\ Height' >= Height
    /\ \A i \in DOMAIN txs : txs[i].st = "mined" => txs'[i].at = txs[i].at
    /\ \A i \in DOMAIN txs' : NewlyMined(i) => MinesInTurn(i)
    /\ \A i \in DOMAIN txs' \ DOMAIN txs : SentByActive(i)

(* Nothing happens on the chains.                                          *)
LEMMA IdleMoves == ASSUME TypeOK, UNCHANGED txs PROVE ChainMoves
  <1>1. ChainKept /\ Height \in Nat /\ Height' = Height
    BY ChainsIdle, HeightIsNat DEF Height
  <1> QED BY <1>1 DEF ChainMoves, NewlyMined

(* The active transfer sends something.                                    *)
LEMMA BroadcastMoves ==
    ASSUME TypeOK, NEW t \in Transfers, NEW kind \in Kinds, NEW b \in Nat, Broadcast(t, kind, b),
           Active(t), agg[t].st # "Absent",
           kind = "mint" => b \in Of(t, "burn") /\ txs[b].st = "mined"
    PROVE  ChainMoves
  <1> DEFINE x == [kind |-> kind, by |-> t, burn |-> b, st |-> "pending", at |-> 0]
  <1>1. /\ x \in Tx /\ x.by = t /\ x.kind = kind /\ x.st = "pending" /\ x.burn = b
        /\ txs' = Append(txs, x)
    BY DEF Tx, Broadcast
  <1> HIDE DEF x
  <1>2. /\ ChainKept
        /\ DOMAIN txs' = DOMAIN txs \cup {Len(txs) + 1} /\ txs'[Len(txs) + 1] = x
        /\ \A i \in DOMAIN txs : txs'[i] = txs[i] /\ i # Len(txs) + 1
    BY <1>1, Appends
  <1>3. Included' = Included \cup {}
    BY <1>1, <1>2 DEF Included
  <1>4. Height \in Nat /\ Height' = Height
    BY <1>3, HeightGrows, HeightIsNat
  <1>5. \A i \in DOMAIN txs' : ~NewlyMined(i)
    BY <1>1, <1>2 DEF NewlyMined
  <1>6. \A i \in DOMAIN txs' \ DOMAIN txs : SentByActive(i)
    BY <1>1, <1>2 DEF SentByActive
  <1> QED BY <1>2, <1>4, <1>5, <1>6 DEF ChainMoves

(* A pending transaction is settled.                                       *)
LEMMA BecomeMoves ==
    ASSUME TypeOK, NEW i \in DOMAIN txs, NEW st \in {"mined", "reverted", "dropped"},
           txs[i].st = "pending", Become(i, st),
           st = "mined" => NextInLine(i) /\ Succeeds(txs[i])
    PROVE  ChainMoves
  <1>a. ChainKept /\ Height \in Nat
    BY Becomes, HeightIsNat
  <1>b. txs \in [1..Len(txs) -> Tx] /\ DOMAIN txs = 1..Len(txs)
    BY DEF TypeOK
  <1>1. /\ DOMAIN txs' = DOMAIN txs /\ txs'[i].st = st
        /\ txs'[i].kind = txs[i].kind /\ txs'[i].burn = txs[i].burn
        /\ st = "mined" => txs'[i].at = Height + 1
        /\ \A j \in DOMAIN txs : j # i => txs'[j] = txs[j]
    BY <1>b DEF Become, Tx
  <1>2. Included' = Included \cup (IF st = "dropped" THEN {} ELSE {i}) /\ i \notin Included
    BY <1>1 DEF Included
  <1>3. Height' = Height \/ Height' = Height + 1
    BY <1>2, HeightGrows
  <1>4. st = "mined" => Height' = Height + 1
    BY <1>2, HeightGrows
  <1>5. \A j \in DOMAIN txs' : NewlyMined(j) => j = i /\ st = "mined"
    BY <1>1 DEF NewlyMined
  <1>6. st = "mined" => MinesInTurn(i)
    BY <1>1, <1>4 DEF MinesInTurn, Succeeds
  <1> QED BY <1>a, <1>1, <1>3, <1>5, <1>6 DEF ChainMoves

(* Somebody else delivers a burn.                                          *)
LEMMA RelayMoves ==
    ASSUME Inv, LegInv, Relay
    PROVE  ChainMoves
  <1>a. TypeOK /\ Height \in Nat /\ Relayed
    BY HeightIsNat DEF Inv, Relay
  <1>1. PICK b \in DOMAIN txs :
          /\ txs[b].kind = "burn" /\ txs[b].st = "mined" /\ Delivered(b) = {}
          /\ txs' = Append(txs, [kind |-> "mint", by |-> txs[b].by, burn |-> b,
                                 st |-> "mined", at |-> Height + 1])
    BY DEF Relay
  <1>2. txs[b] \in Tx /\ b \in Nat
    BY <1>a DEF TypeOK
  <1> DEFINE x == [kind |-> "mint", by |-> txs[b].by, burn |-> b,
                   st |-> "mined", at |-> Height + 1]
  <1>3. /\ x \in Tx /\ x.by = txs[b].by /\ x.kind = "mint" /\ x.st = "mined" /\ x.burn = b
        /\ x.at = Height + 1 /\ txs' = Append(txs, x)
    BY <1>a, <1>1, <1>2 DEF Tx, Kinds
  <1> HIDE DEF x
  <1>4. /\ ChainKept
        /\ DOMAIN txs' = DOMAIN txs \cup {Len(txs) + 1} /\ txs'[Len(txs) + 1] = x
        /\ \A i \in DOMAIN txs : txs'[i] = txs[i] /\ i # Len(txs) + 1
    BY <1>a, <1>3, Appends
  <1>5. Included' = Included \cup {Len(txs) + 1} /\ Len(txs) + 1 \notin Included
    BY <1>3, <1>4 DEF Included
  <1>6. Height' = Height + 1
    BY <1>a, <1>5, HeightGrows
  <1>7. \A i \in DOMAIN txs' : NewlyMined(i) => MinesInTurn(i)
    BY <1>a, <1>1, <1>3, <1>4, <1>6 DEF NewlyMined, MinesInTurn
  <1>8. txs[b].by \in Transfers /\ agg[txs[b].by].st # "Absent"
    BY <1>1, <1>2 DEF Tx, LegInv, Lined, Barren
  <1>9. \A i \in DOMAIN txs' \ DOMAIN txs : SentByActive(i)
    BY <1>1, <1>3, <1>4, <1>8 DEF SentByActive, Of
  <1> QED BY <1>a, <1>4, <1>6, <1>7, <1>9 DEF ChainMoves

-----------------------------------------------------------------------------
(* Such moves keep the order of the chains.                                *)
LEMMA MovesTyped ==
    ASSUME TypeOK, ChainMoves
    PROVE  /\ DOMAIN txs \subseteq DOMAIN txs' /\ DOMAIN txs' \subseteq Nat \ {0}
           /\ \A i \in DOMAIN txs : txs[i] \in Tx /\ txs[i].at \in Nat /\ txs[i].by \in Transfers
           /\ \A i \in DOMAIN txs' : txs'[i] \in Tx /\ txs'[i].at \in Nat /\ txs'[i].by \in Transfers
           /\ \A i \in DOMAIN txs : /\ txs'[i].by = txs[i].by /\ txs'[i].kind = txs[i].kind
                                    /\ txs'[i].burn = txs[i].burn
           /\ \A i \in DOMAIN txs' \ DOMAIN txs : \A j \in DOMAIN txs' : j <= i
           /\ \A i \in DOMAIN txs : txs[i].st = "mined" =>
                 txs'[i].st = "mined" /\ txs'[i].at = txs[i].at
           /\ \A i \in DOMAIN txs : NewlyMined(i) => txs[i].st = "pending"
           /\ Height \in Nat
  <1>1. /\ ChainKept /\ txs' \in Seq(Tx) /\ txs \in Seq(Tx)
        /\ \A i \in DOMAIN txs : txs[i].st = "mined" => txs'[i].at = txs[i].at
    BY DEF ChainMoves, ChainKept, TypeOK
  <1>2. /\ \A i \in DOMAIN txs : txs[i] \in Tx
        /\ \A i \in DOMAIN txs' : txs'[i] \in Tx
        /\ DOMAIN txs' \subseteq Nat \ {0}
    BY <1>1
  <1>3. \A x \in Tx : x.at \in Nat /\ x.by \in Transfers
    BY DEF Tx
  <1>4. Height \in Nat
    BY HeightIsNat
  <1> QED BY <1>1, <1>2, <1>3, <1>4 DEF ChainKept, NewlyMined

LEMMA MovesKeepMints ==
    ASSUME TypeOK, MintsOfBurns, ChainMoves
    PROVE  MintsOfBurns'
  <1> SUFFICES ASSUME NEW i \in DOMAIN txs', txs'[i].kind = "mint"
               PROVE  txs'[i].burn \in Of(txs[i].by, "burn")' /\ txs'[txs'[i].burn].st = "mined"
    BY DEF MintsOfBurns
  <1>1. txs'[i].burn \in Of(txs'[i].by, "burn") /\ txs[txs'[i].burn].st = "mined"
    <2>1. CASE i \in DOMAIN txs
      BY <2>1, MovesTyped DEF MintsOfBurns
    <2>2. CASE i \notin DOMAIN txs
      BY <2>2 DEF ChainMoves, SentByActive
    <2> QED BY <2>1, <2>2
  <1> QED BY <1>1, MovesTyped DEF Of

LEMMA MovesKeepBelow ==
    ASSUME TypeOK, MinedBelow, ChainMoves
    PROVE  MinedBelow'
  <1> SUFFICES ASSUME NEW i \in DOMAIN txs', txs'[i].st = "mined" PROVE txs'[i].at <= Height'
    BY DEF MinedBelow
  <1>1. CASE NewlyMined(i)
    BY <1>1, MovesTyped DEF ChainMoves, MinesInTurn
  <1>2. CASE ~NewlyMined(i)
    <2>1. /\ i \in DOMAIN txs /\ txs[i].st = "mined" /\ txs'[i].at = txs[i].at
          /\ txs[i].at <= Height /\ Height' >= Height
      BY <1>2 DEF NewlyMined, ChainMoves, MinedBelow
    <2>2. Height' \in Nat
      <3>1. DOMAIN txs' = 1..Len(txs') /\ Len(txs') \in Nat
        BY DEF ChainMoves, ChainKept
      <3>2. IsFiniteSet(1..Len(txs'))
        BY <3>1, FS_Interval
      <3>3. IsFiniteSet({j \in DOMAIN txs' : txs'[j].st \in {"mined", "reverted"}})
        BY <3>1, <3>2, FS_Subset
      <3> QED BY <3>3, FS_CardinalityType DEF Height
    <2> QED BY <2>1, <2>2, MovesTyped
  <1> QED BY <1>1, <1>2

LEMMA MovesKeepNonces ==
    ASSUME TypeOK, MinedBelow, NonceOrder, ~Relayed, ChainMoves, UNCHANGED dir
    PROVE  NonceOrder'
  <1> SUFFICES ASSUME NEW i \in DOMAIN txs', NEW j \in DOMAIN txs',
                      i < j, txs'[j].st = "mined",
                      txs'[i].kind # "alpaca", txs'[j].kind # "alpaca",
                      ChainOf(txs[i])' = ChainOf(txs[j])'
               PROVE  txs'[i].st # "pending" /\ (txs'[i].st = "mined" => txs'[i].at < txs'[j].at)
    BY DEF NonceOrder
  <1>1. /\ i \in DOMAIN txs /\ j \in DOMAIN txs /\ i \in Nat \ {0} /\ j \in Nat
        /\ txs[i].kind # "alpaca" /\ txs[j].kind # "alpaca"
    <2>1. j \in DOMAIN txs
      BY DEF ChainMoves, MinesInTurn, NewlyMined
    <2>2. i \in DOMAIN txs
      BY <2>1, MovesTyped
    <2> QED BY <2>1, <2>2, MovesTyped
  <1>2. ChainOf(txs[i]) = ChainOf(txs[j])
    BY <1>1, MovesTyped DEF ChainOf, Source, Target
  <1>3. CASE NewlyMined(j)
    <2>1. NextInLine(j) /\ txs'[j].at = Height + 1
      BY <1>3 DEF ChainMoves, MinesInTurn
    <2>2. txs[i].st # "pending"
      <3>1. i \in 1..(j - 1)
        BY <1>1
      <3> QED BY <1>1, <1>2, <2>1, <3>1 DEF NextInLine
    <2>3. txs'[i].st \in {"pending", "mined"} => txs[i].st \in {"pending", "mined"}
      BY <1>1 DEF ChainMoves, ChainKept
    <2>4. txs'[i].st # "pending"
      BY <1>1, <2>2, <2>3, MovesTyped
    <2>5. txs'[i].st = "mined" => txs[i].st = "mined" /\ txs'[i].at = txs[i].at /\ txs[i].at <= Height
      BY <1>1, <2>2, <2>3, MovesTyped DEF MinedBelow
    <2> QED BY <1>1, <2>1, <2>4, <2>5, MovesTyped
  <1>4. CASE ~NewlyMined(j)
    <2>1. /\ txs[j].st = "mined" /\ txs'[j].at = txs[j].at
          /\ txs[i].st # "pending" /\ (txs[i].st = "mined" => txs[i].at < txs[j].at)
      BY <1>1, <1>2, <1>4, MovesTyped DEF NewlyMined, NonceOrder
    <2>2. txs'[i].st \in {"pending", "mined"} => txs[i].st \in {"pending", "mined"}
      BY <1>1 DEF ChainMoves, ChainKept
    <2> QED BY <1>1, <2>1, <2>2, MovesTyped
  <1> QED BY <1>3, <1>4

(* All three.                                                              *)
LEMMA MovesKeepChains ==
    ASSUME TypeOK, Chained, ChainMoves, UNCHANGED dir
    PROVE  Chained'
  BY MovesKeepMints, MovesKeepBelow, MovesKeepNonces DEF Chained

(* They keep what a transfer with no command knows of its legs.            *)
LEMMA MovesKeepOwn ==
    ASSUME Inv, NEW u \in Transfers, OwnLegs(u), ChainMoves, UNCHANGED dir, agg'[u] = agg[u]
    PROVE  OwnLegs(u)'
  <1>1. TypeOK /\ (agg[u].st \in {"Withdrawing", "WithdrawalComplete"} => agg[u].wtx \in DOMAIN txs)
    BY DEF Inv, Sent
  <1> QED BY <1>1, MovesTyped DEF OwnLegs, Of

(* No burn of another transfer is mined while u is active.                 *)
LEMMA NoForeignBurn ==
    ASSUME Inv, LegInv, ChainMoves, NEW u \in Transfers, Active(u),
           NEW i \in DOMAIN txs', NewlyMined(i), txs'[i].kind = "burn"
    PROVE  txs'[i].by = u
  <1>1. TypeOK /\ i \in DOMAIN txs
    BY DEF Inv, ChainMoves, MinesInTurn
  <1>2. txs[i].st = "pending" /\ txs[i].by = txs'[i].by /\ i \in Of(txs[i].by, "burn")
    BY <1>1, MovesTyped DEF Of
  <1>3. txs[i].by \in Transfers
    BY <1>1, MovesTyped
  <1>4. Active(txs[i].by)
    BY <1>2, <1>3, InactiveSpent DEF Spent
  <1> QED BY <1>2, <1>3, <1>4 DEF LegInv, Watched

(* A mint that is mined meanwhile delivers the burn of u.                  *)
LEMMA NoForeignMint ==
    ASSUME Inv, LegInv, ChainMoves, NEW u \in Transfers, Active(u), agg[u].burn # 0,
           NEW i \in DOMAIN txs', NewlyMined(i), txs'[i].kind = "mint"
    PROVE  txs'[i].burn = agg[u].burn
  <1>a. TypeOK /\ BurnLife(u) /\ Vouched(u) /\ OwnLegs(u) /\ MintsOfBurns
    BY DEF Inv, LegInv, Lined, Chained
  <1> DEFINE b == txs'[i].burn
             v == txs'[i].by
  <1>1. v \in Transfers /\ b \in Of(v, "burn") /\ txs[b].st = "mined" /\ Delivered(b) = {}
    <2>1. i \in DOMAIN txs => b \in Of(v, "burn") /\ txs[b].st = "mined"
      BY <1>a, MovesTyped DEF MintsOfBurns
    <2>2. i \notin DOMAIN txs => b \in Of(v, "burn") /\ txs[b].st = "mined"
      BY DEF ChainMoves, SentByActive
    <2>3. Delivered(b) = {}
      BY DEF ChainMoves, MinesInTurn
    <2> QED BY <1>a, <2>1, <2>2, <2>3, MovesTyped
  <1> HIDE DEF b, v
  <1>2. Active(v)
    BY <1>1, InactiveSpent DEF Spent
  <1>3. v = u
    BY <1>1, <1>2 DEF LegInv, Watched
  <1>4. b = agg[u].burn
    BY <1>a, <1>1, <1>3 DEF BurnLife, OneBurn, Vouched, OwnLegs, Mined
  <1> QED BY <1>4 DEF b

LEMMA MovesKeepScans ==
    ASSUME Inv, LegInv, ChainMoves, UNCHANGED dir, NEW u \in Transfers, agg'[u] = agg[u]
    PROVE  Scanned(u)'
  <1>a. TypeOK /\ Scanned(u) /\ Vouched(u)
    BY DEF Inv, LegInv, Lined
  <1>1. ASSUME agg[u].st = "BridgingSubmitting", NEW i \in DOMAIN txs', txs'[i].kind = "burn",
               txs'[i].st = "mined", txs'[i].at > agg[u].from
        PROVE  txs'[i].by = u
    <2>1. Active(u)
      BY <1>1 DEF LegInv, Active, Sourced, HoldsGuard
    <2>2. CASE NewlyMined(i)
      BY <1>1, <2>1, <2>2, NoForeignBurn
    <2>3. CASE ~NewlyMined(i)
      BY <1>a, <1>1, <2>3, MovesTyped DEF NewlyMined, Scanned
    <2> QED BY <2>2, <2>3
  <1>2. ASSUME agg[u].st = "Attested", NEW i \in DOMAIN txs', txs'[i].kind = "mint",
               txs'[i].st = "mined", txs'[i].at > agg[u].scan
        PROVE  txs'[i].burn = agg[u].burn
    <2>1. Active(u) /\ agg[u].burn # 0
      BY <1>a, <1>2 DEF LegInv, Active, Sourced, HoldsGuard, Vouched
    <2>2. CASE NewlyMined(i)
      BY <1>2, <2>1, <2>2, NoForeignMint
    <2>3. CASE ~NewlyMined(i)
      BY <1>a, <1>2, <2>3, MovesTyped DEF NewlyMined, Scanned
    <2> QED BY <2>2, <2>3
  <1> QED BY <1>1, <1>2 DEF Scanned

LEMMA MovesKeepBarren ==
    ASSUME Inv, LegInv, ChainMoves, UNCHANGED dir, NEW u \in Transfers, agg'[u] = agg[u],
           task'[u] # "none" => task[u] # "none" \/ agg[u].st = "BridgingSubmitting"
    PROVE  Barren(u)'
  <1>a. TypeOK /\ Barren(u) /\ (Closed(u)' <=> Closed(u))
    BY DEF Inv, LegInv, Lined, Closed
  <1>1. ASSUME agg[u].st = "Absent", NEW i \in DOMAIN txs' PROVE txs'[i].by # u
    BY <1>a, <1>1, MovesTyped DEF Barren, ChainMoves, SentByActive
  <1>2. ASSUME Closed(u), Burned(u)' PROVE Burned(u)
    <2>1. ~Active(u)
      BY <1>2 DEF Closed, Active, Sourced
    <2>2. NoNewBurn(u)
      BY <2>1 DEF NoNewBurn, ChainMoves, SentByActive
    <2> QED BY <1>a, <1>2, <2>2, KeepsBurns DEF ChainMoves
  <1> QED BY <1>a, <1>1, <1>2 DEF Barren

LEMMA MovesKeepAhead ==
    ASSUME Inv, LegInv, ChainMoves, NEW u \in Transfers,
           Active(u)' => Active(u) \/ agg[u].st = "Absent"
    PROVE  Ahead(u)'
  <1>a. TypeOK /\ Barren(u) /\ Ahead(u) /\ MinedBelow
    BY DEF Inv, LegInv, Lined, Chained
  <1> SUFFICES ASSUME Active(u)', NEW i \in DOMAIN txs', NEW j \in DOMAIN txs',
                      txs'[i].by # u, txs'[j].by = u
               PROVE  /\ txs'[i].kind # "mint" => i < j
                      /\ txs'[i].kind = "burn" /\ txs'[i].st = "mined" /\ txs'[j].st = "mined" =>
                            txs'[i].at < txs'[j].at
    BY DEF Ahead
  <1>1. agg[u].st # "Absent"
    BY <1>a, MovesTyped DEF Barren, ChainMoves, SentByActive
  <1>2. Active(u)
    BY <1>1
  <1>3. ASSUME txs'[i].kind # "mint" PROVE i \in DOMAIN txs /\ i < j
    <2>1. i \in DOMAIN txs
      <3>1. i \notin DOMAIN txs => Active(txs'[i].by) /\ txs'[i].by \in Transfers
        BY <1>a, <1>3, MovesTyped DEF ChainMoves, SentByActive
      <3> QED BY <1>2, <3>1 DEF LegInv, Watched
    <2>2. CASE j \in DOMAIN txs
      BY <1>a, <1>2, <1>3, <2>1, <2>2, MovesTyped DEF Ahead
    <2>3. CASE j \notin DOMAIN txs
      BY <1>a, <2>1, <2>3, MovesTyped
    <2> QED BY <2>1, <2>2, <2>3
  <1>4. ASSUME txs'[i].kind = "burn", txs'[i].st = "mined", txs'[j].st = "mined"
        PROVE  txs'[i].at < txs'[j].at
    <2>1. i \in DOMAIN txs /\ ~NewlyMined(i)
      BY <1>2, <1>3, <1>4, NoForeignBurn
    <2>2. /\ txs[i].st = "mined" /\ txs'[i].at = txs[i].at /\ txs[i].at <= Height
          /\ txs[i].at \in Nat /\ Height \in Nat /\ txs[i].by # u /\ txs[i].kind = "burn"
      BY <1>a, <1>4, <2>1, MovesTyped DEF NewlyMined, MinedBelow
    <2>3. CASE NewlyMined(j)
      BY <2>2, <2>3 DEF ChainMoves, MinesInTurn
    <2>4. CASE ~NewlyMined(j)
      <3>1. j \in DOMAIN txs /\ txs[j].st = "mined" /\ txs'[j].at = txs[j].at /\ txs[j].by = u
        BY <1>a, <1>4, <2>4, MovesTyped DEF NewlyMined
      <3> QED BY <1>a, <1>2, <2>1, <2>2, <3>1 DEF Ahead
    <2> QED BY <2>3, <2>4
  <1> QED BY <1>3, <1>4

(* All four.                                                               *)
LEMMA MovesKeepLined ==
    ASSUME Inv, LegInv, ChainMoves, UNCHANGED dir, NEW u \in Transfers, agg'[u] = agg[u],
           task'[u] # "none" => task[u] # "none" \/ agg[u].st = "BridgingSubmitting",
           Active(u)' => Active(u) \/ agg[u].st = "Absent"
    PROVE  Lined(u)'
  <1>1. OwnLegs(u)
    BY DEF LegInv, Lined
  <1> QED BY <1>1, MovesKeepOwn, MovesKeepScans, MovesKeepBarren, MovesKeepAhead DEF Lined

-----------------------------------------------------------------------------
(* What a command of t must carry for its legs to be its own.              *)
Sane(t, c, ref) ==
    /\ c = "InitiateBridging" => ref \in Of(t, "burn")
    /\ c \in {"ConfirmBridging", "RecoverBridging"} =>
          ref \in DOMAIN txs /\ txs[ref].burn = agg[t].burn
    /\ c = "InitiateDeposit" /\ ~Relayed => ref \in DOMAIN txs /\ txs[ref].by = t
    /\ c = "Initiate" /\ dir[t] = A2B => txs[ref].by = t
    /\ c = "BeginBridging" =>
          \A i \in DOMAIN txs :
              txs[i].kind = "burn" /\ txs[i].st = "mined" /\ txs[i].at > ref => txs[i].by = t
    /\ c = "ReceiveAttestation" => ref = Height
    /\ c = "FailBridging" => agg[t].st # "BridgingSubmitting"

(* The bounds that a command leaves.                                       *)
LEMMA EvolvesBounds ==
    ASSUME TypeOK, NEW t \in Transfers, NEW c \in Commands, NEW ref \in Nat, Evolved(t, c, ref)
    PROVE  /\ agg'[t].scan = IF c = "ReceiveAttestation" THEN ref ELSE 0
           /\ agg'[t].from = IF c \in {"BeginWithdrawal", "BeginBridging"} THEN ref
                             ELSE IF c \in {"RecordPendingBurn", "ClearPendingBurn"}
                             THEN agg[t].from ELSE 0
  <1>1. agg \in [Transfers -> AggType] /\ agg[t] \in AggType
    BY DEF TypeOK, AggType
  <1>2. /\ Evolve(agg[t], c, ref).scan = IF c = "ReceiveAttestation" THEN ref ELSE 0
        /\ Evolve(agg[t], c, ref).from = IF c \in {"BeginWithdrawal", "BeginBridging"} THEN ref
                             ELSE IF c \in {"RecordPendingBurn", "ClearPendingBurn"}
                             THEN agg[t].from ELSE 0
    BY <1>1 DEF Evolve, AggType
  <1> QED BY <1>1, <1>2 DEF Evolved

(* The commands that lead to a state that the legs depend on.              *)
LEMMA LegCommands ==
    \A c \in Commands \ {"ReconcileStuckRebalance"} :
        /\ EvolvesTo[c] \notin {"Absent", "Reconciled"}
        /\ EvolvesTo[c] \in {"Withdrawing", "WithdrawalComplete"} =>
              c = "Initiate" \/ (c = "ConfirmWithdrawal" /\ HandledIn[c] = {"Withdrawing"})
        /\ EvolvesTo[c] = "BridgingSubmitting" =>
              \/ c = "BeginBridging"
              \/ c \in {"RecordPendingBurn", "ClearPendingBurn"}
                 /\ HandledIn[c] = {"BridgingSubmitting"}
        /\ EvolvesTo[c] = "Attested" => c = "ReceiveAttestation"
        /\ EvolvesTo[c] = "WithdrawalFailed" => HandledIn[c] = {"Withdrawing"}
        /\ EvolvesTo[c] = "ConversionFailed" => HandledIn[c] = {"Converting"}
        /\ EvolvesTo[c] = "BridgingFailed" =>
              /\ c = "FailBridging"
              /\ HandledIn[c] = {"WithdrawalComplete", "BridgingSubmitting", "Bridging",
                                 "AwaitingAttestation", "Attested"}
        /\ c = "InitiateBridging" => HandledIn[c] = {"WithdrawalComplete", "BridgingSubmitting"}
  BY DEF Commands, EvolvesTo, HandledIn

(* Such a command keeps the legs of t its own.                             *)
LEMMA SaneLined ==
    ASSUME Inv, LegInv, UNCHANGED <<dir, txs>>, NEW t \in Transfers,
           NEW c \in Commands \ {"ReconcileStuckRebalance"}, NEW ref \in Nat,
           Sane(t, c, ref), Send(t, c, ref),
           task'[t] # "none" => task[t] # "none" \/ agg'[t].st = "BridgingSubmitting",
           Active(t)' => Active(t) \/ agg[t].st = "Absent"
    PROVE  Lined(t)' /\ \A u \in Transfers : u # t => agg'[u] = agg[u]
  <1>a. /\ TypeOK /\ OwnLegs(t) /\ Scanned(t) /\ Barren(t) /\ Vouched(t) /\ BurnLife(t)
        /\ BurnOnRecord(t) /\ MintsOfBurns /\ MinedBelow /\ dir[t] \in {A2B, B2A}
    BY DEF Inv, LegInv, Lined, Chained, Watched, Watch, Known, TypeOK
  <1>b. DOMAIN txs \subseteq Nat \ {0} /\ Height \in Nat /\ \A i \in DOMAIN txs : txs[i].at \in Nat
    <2>1. txs \in Seq(Tx) /\ Height \in Nat
      BY <1>a, HeightIsNat DEF TypeOK
    <2>2. DOMAIN txs \subseteq Nat \ {0} /\ \A i \in DOMAIN txs : txs[i] \in Tx
      BY <2>1
    <2> QED BY <2>1, <2>2 DEF Tx
  <1>c. Evolved(t, c, ref) /\ Handles(agg[t], c, dir[t])
    BY DEF Send, Evolved
  <1>d. agg[t].st \in HandledIn[c]
    BY <1>c DEF Handles
  <1>1. /\ \A u \in Transfers : u # t => agg'[u] = agg[u]
        /\ agg'[t].st = EvolvesTo[c]
        /\ agg'[t].wtx = IF c = "Initiate" THEN ref ELSE agg[t].wtx
        /\ agg'[t].burn = IF c = "InitiateBridging" THEN ref ELSE agg[t].burn
        /\ agg'[t].mint = IF c \in {"ConfirmBridging", "RecoverBridging"} THEN ref
                          ELSE agg[t].mint
        /\ agg'[t].dep = IF c = "InitiateDeposit" THEN ref ELSE agg[t].dep
    BY <1>a, <1>c, Evolves
  <1>2. /\ agg'[t].scan = IF c = "ReceiveAttestation" THEN ref ELSE 0
        /\ agg'[t].from = IF c \in {"BeginWithdrawal", "BeginBridging"} THEN ref
                          ELSE IF c \in {"RecordPendingBurn", "ClearPendingBurn"}
                          THEN agg[t].from ELSE 0
    BY <1>a, <1>c, EvolvesBounds
  <1>3. OwnLegs(t)'
    <2>1. agg'[t].burn # 0 => agg'[t].burn \in Of(t, "burn")
      BY <1>a, <1>1 DEF OwnLegs, Sane
    <2>2. agg'[t].mint # 0 => agg'[t].mint \in DOMAIN txs /\ txs[agg'[t].mint].burn = agg'[t].burn
      <3>1. c = "InitiateBridging" => agg[t].mint = 0
        <4>1. c = "InitiateBridging" => agg[t].burn = 0
          BY <1>a, <1>d, LegCommands DEF BurnOnRecord, PreBurn
        <4>2. agg[t].mint # 0 => agg[t].burn \in DOMAIN txs
          BY <1>a DEF OwnLegs, Vouched, MinedMint, Mined, MintsOfBurns, Of
        <4> QED BY <1>b, <4>1, <4>2
      <3> QED BY <1>a, <1>1, <3>1 DEF OwnLegs, Sane
    <2>3. agg'[t].dep # 0 /\ ~Relayed => agg'[t].dep \in DOMAIN txs /\ txs[agg'[t].dep].by = t
      BY <1>a, <1>1 DEF OwnLegs, Sane
    <2>4. dir[t] = A2B /\ agg'[t].st \in {"Withdrawing", "WithdrawalComplete"} =>
             txs[agg'[t].wtx].by = t
      BY <1>a, <1>d, <1>1, LegCommands DEF OwnLegs, Sane
    <2> QED BY <2>1, <2>2, <2>3, <2>4 DEF OwnLegs, Of
  <1>4. Scanned(t)'
    <2>1. ASSUME agg'[t].st = "BridgingSubmitting", NEW i \in DOMAIN txs, txs[i].kind = "burn",
                 txs[i].st = "mined", txs[i].at > agg'[t].from
          PROVE  txs[i].by = t
      <3>0. EvolvesTo[c] = "BridgingSubmitting"
        BY <1>1, <2>1
      <3>1. CASE c = "BeginBridging"
        BY <1>2, <2>1, <3>1 DEF Sane
      <3>2. CASE c \in {"RecordPendingBurn", "ClearPendingBurn"} /\ agg[t].st = "BridgingSubmitting"
        BY <1>a, <1>2, <2>1, <3>2 DEF Scanned
      <3> QED BY <1>d, <3>0, <3>1, <3>2, LegCommands
    <2>2. ASSUME agg'[t].st = "Attested", NEW i \in DOMAIN txs, txs[i].kind = "mint",
                 txs[i].st = "mined", txs[i].at > agg'[t].scan
          PROVE  FALSE
      <3>0. EvolvesTo[c] = "Attested"
        BY <1>1, <2>2
      <3>1. c = "ReceiveAttestation" /\ agg'[t].scan = Height
        BY <1>2, <3>0, LegCommands DEF Sane
      <3> QED BY <1>a, <1>b, <2>2, <3>1 DEF MinedBelow
    <2> QED BY <2>1, <2>2 DEF Scanned
  <1>5. Barren(t)'
    <2>1. agg'[t].st \notin {"Absent", "Reconciled"}
      BY <1>1, LegCommands
    <2>2. ASSUME agg'[t].st \in {"WithdrawalFailed", "ConversionFailed", "BridgingFailed"}, Closed(t)'
          PROVE  PreBurn(t)
      BY <1>a, <1>d, <1>1, <2>2, LegCommands DEF PreBurn, Sane, Closed, HoldsGuard, BurnOnRecord,
                                                 A2B, B2A
    <2>3. PreBurn(t) => task[t] = "none" /\ ~Burned(t)
      BY <1>a DEF BurnLife
    <2>4. Burned(t)' <=> Burned(t)
      BY DEF Burned, Of
    <2> QED BY <2>1, <2>2, <2>3, <2>4 DEF Barren
  <1>6. Ahead(t)'
    BY <1>a, IdleMoves, MovesKeepAhead
  <1> QED BY <1>1, <1>3, <1>4, <1>5, <1>6 DEF Lined

-----------------------------------------------------------------------------
(* The manager: every step of a run moves the chains as above, or sends a  *)
(* command that carries what is the transfer's own.                        *)
SendsOwn(t) ==
    \E c \in Commands \ {"ReconcileStuckRebalance"}, ref \in Nat : Sane(t, c, ref) /\ Send(t, c, ref)

LegStep(t) ==
    \/ UNCHANGED agg /\ ChainMoves
    \/ UNCHANGED txs /\ SendsOwn(t)

LEMMA SaneSends ==
    ASSUME NEW t \in Transfers, NEW c \in Commands \ {"ReconcileStuckRebalance"},
           NEW ref \in Nat, Send(t, c, ref), Sane(t, c, ref)
    PROVE  SendsOwn(t)
  BY DEF SendsOwn

(* A command that claims no leg.                                           *)
LEMMA PlainSane ==
    ASSUME NEW t \in Transfers, NEW ref \in Nat,
           NEW c \in Commands \ {"InitiateBridging", "ConfirmBridging", "RecoverBridging",
                                 "InitiateDeposit", "Initiate", "BeginBridging",
                                 "ReceiveAttestation", "FailBridging", "ReconcileStuckRebalance"},
           Send(t, c, ref)
    PROVE  SendsOwn(t)
  BY DEF SendsOwn, Sane

(* A run that is not at its end drives an active transfer.                 *)
LEMMA RunningActive ==
    ASSUME Inv, LegInv, NEW t \in Transfers, Running(t),
           HoldsGuard(agg[t], dir[t])
    PROVE  Active(t) /\ agg[t].st # "Absent"
  <1>1. Live(t)
    BY DEF LegInv, Watched, Watch, Known, Driven
  <1> QED BY <1>1 DEF Active, Closed, HoldsGuard

(* Commands of the conversion and the withdrawal.                          *)
LEMMA WithdrawalLegs ==
    ASSUME Inv, LegInv, NEW t \in Transfers,
           \/ BeginConversion(t) \/ PlaceConversion(t) \/ RecordConversion(t) \/ ResumeConverting(t)
           \/ InitiateAlpacaWithdrawal(t) \/ RecordAlpacaWithdrawal(t) \/ PollWithdrawal(t)
           \/ BeginVaultWithdrawal(t) \/ WithdrawFromVault(t) \/ RecordVaultWithdrawal(t)
           \/ ResumeWithdrawalSubmitting(t) \/ ConfirmVaultWithdrawal(t)
    PROVE  LegStep(t)
  <1>a. /\ TypeOK /\ Awaited(t) /\ (agg[t].st = "WithdrawalSubmitting" => dir[t] = B2A)
        /\ Height \in Nat /\ DOMAIN txs \subseteq Nat /\ 0 \in Nat
    <2>1. TypeOK
      BY DEF Inv
    <2>2. DOMAIN txs \subseteq Nat
      BY <2>1 DEF TypeOK
    <2> QED BY <2>1, <2>2, HeightIsNat DEF Inv, Sent
  <1>b. {"InitiateConversion", "ConfirmConversion", "FailConversion",
         "InitiatePostDepositConversion", "BeginWithdrawal", "ConfirmWithdrawal",
         "FailWithdrawal"} \subseteq
           Commands \ {"InitiateBridging", "ConfirmBridging", "RecoverBridging",
                       "InitiateDeposit", "Initiate", "BeginBridging",
                       "ReceiveAttestation", "FailBridging", "ReconcileStuckRebalance"}
    BY DEF Commands, HandledIn
  <1>c. NoCommand /\ UNCHANGED txs => LegStep(t)
    BY <1>a, IdleMoves DEF NoCommand, LegStep
  <1>d. UNCHANGED txs /\ SendsOwn(t) => LegStep(t)
    BY DEF LegStep
  <1>e. ASSUME NEW kind \in {"alpaca", "withdraw"}, NoCommand, Broadcast(t, kind, 0), Running(t),
               HoldsGuard(agg[t], dir[t])
        PROVE  LegStep(t)
    <2>1. ChainMoves
      BY <1>a, <1>e, RunningActive, BroadcastMoves DEF Kinds
    <2> QED BY <1>e, <2>1 DEF LegStep, NoCommand
  <1>f. ASSUME NEW w \in Nat, Send(t, "Initiate", w), dir[t] = A2B => txs[w].by = t
        PROVE  SendsOwn(t)
    <2>1. "Initiate" \in Commands \ {"ReconcileStuckRebalance"} /\ Sane(t, "Initiate", w)
      BY <1>f DEF Commands, HandledIn, Sane
    <2> QED BY <1>f, <2>1, SaneSends
  <1>1. CASE \/ BeginConversion(t) \/ PlaceConversion(t) \/ RecordConversion(t)
             \/ ResumeConverting(t) \/ PollWithdrawal(t) \/ BeginVaultWithdrawal(t)
             \/ ConfirmVaultWithdrawal(t)
    BY <1>a, <1>b, <1>c, <1>d, <1>1, PlainSane
       DEF BeginConversion, PlaceConversion, RecordConversion, ResumeConverting, PollWithdrawal,
           BeginVaultWithdrawal, ConfirmVaultWithdrawal, worldVars
  <1>2. CASE InitiateAlpacaWithdrawal(t)
    BY <1>c, <1>e, <1>2 DEF InitiateAlpacaWithdrawal, Sees, At, Running, HoldsGuard
  <1>3. CASE WithdrawFromVault(t)
    <2>1. agg[t].st = "WithdrawalSubmitting"
      BY <1>a, <1>3 DEF WithdrawFromVault, At, Awaited
    <2> QED BY <1>c, <1>e, <1>3, <2>1 DEF WithdrawFromVault, At, Running, HoldsGuard
  <1>4. CASE RecordAlpacaWithdrawal(t)
    <2>1. Latest(t, "alpaca") \in DOMAIN txs /\ txs[Latest(t, "alpaca")].by = t
      BY <1>a, <1>4, LatestIsLast DEF RecordAlpacaWithdrawal, At, Awaited, HasLast, IsLast, Of
    <2> QED BY <1>a, <1>d, <1>f, <1>4, <2>1 DEF RecordAlpacaWithdrawal, worldVars
  <1>5. CASE RecordVaultWithdrawal(t)
    <2>1. Latest(t, "withdraw") \in DOMAIN txs /\ dir[t] # A2B
      BY <1>a, <1>5, LatestIsLast DEF RecordVaultWithdrawal, At, Awaited, HasLast, A2B, B2A
    <2> QED BY <1>a, <1>c, <1>d, <1>f, <1>5, <2>1 DEF RecordVaultWithdrawal, worldVars
  <1>6. CASE ResumeWithdrawalSubmitting(t)
    <2>1. MinedAfter("withdraw", B2A, agg[t].from) \subseteq DOMAIN txs
      BY DEF MinedAfter, Matching
    <2>2. dir[t] # A2B
      BY <1>a, <1>6 DEF ResumeWithdrawalSubmitting, Sees, A2B, B2A
    <2> QED BY <1>a, <1>c, <1>d, <1>f, <1>6, <2>1, <2>2 DEF ResumeWithdrawalSubmitting, worldVars
  <1> QED BY <1>1, <1>2, <1>3, <1>4, <1>5, <1>6

(* Those of the burn: what the scan finds above the bound is its own.      *)
LEMMA BurnLegs ==
    ASSUME Inv, LegInv, NEW t \in Transfers,
           BeginBurn(t) \/ SpawnBurn(t) \/ ConfirmBurn(t) \/ ResumeBridgingSubmitting(t)
    PROVE  LegStep(t)
  <1>a. /\ TypeOK /\ BurnLife(t) /\ OwnLegs(t) /\ Scanned(t) /\ Ahead(t) /\ MinedBelow
        /\ dir[t] \in {A2B, B2A}
        /\ agg[t].st = "WithdrawalComplete" => agg[t].wtx \in DOMAIN txs
        /\ Height \in Nat /\ DOMAIN txs \subseteq Nat \ {0} /\ 0 \in Nat
        /\ \A i \in DOMAIN txs : txs[i].at \in Nat
    <2>1. TypeOK
      BY DEF Inv
    <2>2. DOMAIN txs \subseteq Nat \ {0} /\ \A i \in DOMAIN txs : txs[i] \in Tx
      BY <2>1 DEF TypeOK
    <2>3. \A x \in Tx : x.at \in Nat
      BY DEF Tx
    <2>4. BurnLife(t) /\ (agg[t].st = "WithdrawalComplete" => agg[t].wtx \in DOMAIN txs)
      BY DEF Inv, Sent
    <2>5. OwnLegs(t) /\ Scanned(t) /\ Ahead(t) /\ MinedBelow
      BY DEF LegInv, Lined, Chained
    <2>6. dir[t] \in {A2B, B2A}
      BY <2>1 DEF TypeOK
    <2> QED BY <2>1, <2>2, <2>3, <2>4, <2>5, <2>6, HeightIsNat
  <1>b. NoCommand /\ UNCHANGED txs => LegStep(t)
    BY <1>a, IdleMoves DEF NoCommand, LegStep
  <1>c. UNCHANGED txs /\ SendsOwn(t) => LegStep(t)
    BY DEF LegStep
  <1>d. {"InitiateBridging", "BeginBridging", "FailBridging", "ClearPendingBurn"} \subseteq
           Commands \ {"ReconcileStuckRebalance"}
    BY DEF Commands, HandledIn
  <1>1. CASE BeginBurn(t)
    <2>a. /\ agg[t].st = "WithdrawalComplete" /\ agg[t].wtx \in DOMAIN txs /\ UNCHANGED txs
          /\ Running(t) /\ HoldsGuard(agg[t], dir[t])
      BY <1>a, <1>1 DEF BeginBurn, Sees, At, Running, HoldsGuard, worldVars
    <2>1. ASSUME dir[t] = A2B, SettlementGate(t), Send(t, "BeginBridging", txs[agg[t].wtx].at)
          PROVE  SendsOwn(t)
      <3>1. txs[agg[t].wtx].by = t /\ txs[agg[t].wtx].st = "mined" /\ Active(t)
        BY <1>a, <2>a, <2>1, RunningActive DEF OwnLegs, SettlementGate
      <3>2. ASSUME NEW i \in DOMAIN txs, txs[i].kind = "burn", txs[i].st = "mined",
                   txs[i].at > txs[agg[t].wtx].at
            PROVE  txs[i].by = t
        BY <1>a, <2>a, <3>1, <3>2 DEF Ahead
      <3>3. Sane(t, "BeginBridging", txs[agg[t].wtx].at)
        BY <3>2 DEF Sane
      <3> QED BY <1>a, <1>d, <2>a, <2>1, <3>3, SaneSends
    <2>2. ASSUME Send(t, "BeginBridging", Height) PROVE SendsOwn(t)
      <3>1. Sane(t, "BeginBridging", Height)
        BY <1>a DEF Sane, MinedBelow
      <3> QED BY <1>a, <1>d, <2>2, <3>1, SaneSends
    <2>3. ASSUME Send(t, "FailBridging", 0) PROVE SendsOwn(t)
      <3>1. Sane(t, "FailBridging", 0)
        BY <2>a DEF Sane
      <3> QED BY <1>a, <1>d, <2>3, <3>1, SaneSends
    <2> QED BY <1>b, <1>c, <1>1, <2>a, <2>1, <2>2, <2>3 DEF BeginBurn
  <1>2. CASE SpawnBurn(t)
    <2>1. Sane(t, "ClearPendingBurn", 0)
      BY DEF Sane
    <2> QED BY <1>a, <1>b, <1>c, <1>d, <1>2, <2>1, SaneSends DEF SpawnBurn, worldVars
  <1>3. ASSUME NEW i \in Of(t, "burn"), Send(t, "InitiateBridging", i) PROVE SendsOwn(t)
    <2>1. Sane(t, "InitiateBridging", i) /\ i \in Nat
      BY <1>a, <1>3 DEF Sane, Of
    <2> QED BY <1>d, <1>3, <2>1, SaneSends
  <1>4. agg[t].pending # 0 => agg[t].pending \in Of(t, "burn") /\ Latest(t, "burn") = agg[t].pending
    <2>1. agg[t].pending # 0 => IsLast(t, "burn", agg[t].pending) /\ agg[t].pending \in DOMAIN txs
      BY <1>a DEF BurnLife, OnlyBurn, IsLast, Of
    <2> QED BY <1>a, <2>1, LatestIsLast DEF IsLast
  <1>5. CASE ConfirmBurn(t)
    <2>1. agg[t].pending # 0
      BY <1>a, <1>5 DEF ConfirmBurn, At, BurnLife
    <2> QED BY <1>b, <1>c, <1>3, <1>4, <1>5, <2>1 DEF ConfirmBurn, worldVars
  <1>6. CASE ResumeBridgingSubmitting(t)
    <2>1. agg[t].st = "BridgingSubmitting" /\ UNCHANGED txs
      BY <1>6 DEF ResumeBridgingSubmitting, Sees, worldVars
    <2>2. \A i \in MinedAfter("burn", dir[t], agg[t].from) : i \in Of(t, "burn")
      BY <1>a, <2>1 DEF MinedAfter, Matching, Scanned, Of
    <2>3. CheckPendingBurn(t) => NoCommand \/ SendsOwn(t)
      BY <1>3, <1>4 DEF CheckPendingBurn
    <2>4. ScanForBurn(t) => NoCommand \/ SendsOwn(t)
      BY <1>3, <2>2 DEF ScanForBurn
    <2> QED BY <1>b, <1>c, <1>6, <2>1, <2>3, <2>4 DEF ResumeBridgingSubmitting
  <1> QED BY <1>1, <1>2, <1>5, <1>6

(* Those of the mint: what the scan finds delivers its own burn.           *)
LEMMA MintLegs ==
    ASSUME Inv, LegInv, NEW t \in Transfers,
           \/ ReceiveAttestation(t) \/ PollAttestation(t) \/ RecoverBridgingFailed(t)
           \/ BridgingFailedPends(t) \/ ResumeAttested(t) \/ Mint(t) \/ ConfirmMint(t)
    PROVE  LegStep(t)
  <1>a. /\ TypeOK /\ Minting(t) /\ OwnLegs(t) /\ Vouched(t) /\ Scanned(t)
        /\ Height \in Nat /\ DOMAIN txs \subseteq Nat \ {0} /\ 0 \in Nat
    <2>1. TypeOK
      BY DEF Inv
    <2>2. DOMAIN txs \subseteq Nat \ {0}
      BY <2>1 DEF TypeOK
    <2> QED BY <2>1, <2>2, HeightIsNat DEF LegInv, Lined
  <1>b. NoCommand /\ UNCHANGED txs => LegStep(t)
    BY <1>a, IdleMoves DEF NoCommand, LegStep
  <1>c. UNCHANGED txs /\ SendsOwn(t) => LegStep(t)
    BY DEF LegStep
  <1>d. {"ReceiveAttestation", "TimeoutAttestation", "ConfirmBridging", "RecoverBridging",
         "FailBridging"} \subseteq Commands \ {"ReconcileStuckRebalance"}
    BY DEF Commands, HandledIn
  <1>e. ASSUME Send(t, "FailBridging", 0), agg[t].st # "BridgingSubmitting" PROVE SendsOwn(t)
    <2>1. Sane(t, "FailBridging", 0)
      BY <1>e DEF Sane
    <2> QED BY <1>a, <1>d, <1>e, <2>1, SaneSends
  <1>f. ASSUME NEW c \in {"ConfirmBridging", "RecoverBridging"}, NEW m \in DOMAIN txs,
               txs[m].burn = agg[t].burn, Send(t, c, m)
        PROVE  SendsOwn(t)
    <2>1. Sane(t, c, m) /\ m \in Nat
      BY <1>a, <1>f DEF Sane
    <2> QED BY <1>d, <1>f, <2>1, SaneSends
  <1>1. CASE ReceiveAttestation(t)
    <2>1. Sane(t, "ReceiveAttestation", Height)
      BY DEF Sane
    <2> QED BY <1>a, <1>c, <1>d, <1>1, <2>1, SaneSends DEF ReceiveAttestation, worldVars
  <1>2. CASE PollAttestation(t)
    <2>1. Sane(t, "TimeoutAttestation", 0)
      BY DEF Sane
    <2>2. agg[t].st # "BridgingSubmitting" /\ UNCHANGED txs
      BY <1>2 DEF PollAttestation, worldVars
    <2>3. Send(t, "TimeoutAttestation", 0) => SendsOwn(t)
      BY <1>a, <1>d, <2>1, SaneSends
    <2> QED BY <1>b, <1>c, <1>e, <1>2, <2>2, <2>3 DEF PollAttestation
  <1>3. CASE RecoverBridgingFailed(t) \/ BridgingFailedPends(t)
    BY <1>b, <1>3 DEF RecoverBridgingFailed, BridgingFailedPends, worldVars
  <1>4. CASE ResumeAttested(t)
    <2>1. agg[t].st = "Attested" /\ UNCHANGED txs
      BY <1>4 DEF ResumeAttested, Sees, worldVars
    <2>2. \A m \in MinedAfter("mint", dir[t], agg[t].scan) :
            m \in DOMAIN txs /\ txs[m].burn = agg[t].burn
      BY <1>a, <2>1 DEF MinedAfter, Matching, Scanned
    <2> QED BY <1>b, <1>c, <1>f, <1>4, <2>1, <2>2 DEF ResumeAttested
  <1>5. CASE Mint(t) \/ ConfirmMint(t)
    <2>a. agg[t].burn # 0 /\ agg[t].st \in {"Attested", "BridgingFailed"} /\ Running(t)
      BY <1>a, <1>5 DEF Mint, ConfirmMint, At, Minting, Running
    <2>1. \A m \in Delivered(agg[t].burn) : Minted(t, m) => SendsOwn(t)
      BY <1>f DEF Delivered, Minted
    <2>2. MintFailed(t) => NoCommand \/ SendsOwn(t)
      BY <1>e, <2>a DEF MintFailed
    <2>3. ASSUME NoCommand, Broadcast(t, "mint", agg[t].burn) PROVE LegStep(t)
      <3>1. agg[t].burn \in Of(t, "burn") /\ txs[agg[t].burn].st = "mined" /\ agg[t].burn \in Nat
        BY <1>a, <2>a DEF OwnLegs, Vouched, Mined, Of
      <3>2. Active(t) /\ agg[t].st # "Absent"
        BY <2>a, RunningActive DEF HoldsGuard
      <3>3. ChainMoves
        BY <1>a, <2>3, <3>1, <3>2, BroadcastMoves DEF Kinds
      <3> QED BY <2>3, <3>3 DEF LegStep, NoCommand
    <2>4. CASE Mint(t)
      BY <1>b, <1>c, <2>1, <2>2, <2>3, <2>4 DEF Mint
    <2>5. CASE ConfirmMint(t)
      BY <1>b, <1>c, <2>1, <2>2, <2>5 DEF ConfirmMint, worldVars
    <2> QED BY <1>5, <2>4, <2>5
  <1> QED BY <1>1, <1>2, <1>3, <1>4, <1>5

(* Without a relayer the wallet sends in the order of its nonces, so what  *)
(* the scan finds after the mint is the transfer's own send.               *)
LEMMA OwnSend ==
    ASSUME Inv, LegInv, ~Relayed, NEW t \in Transfers, Active(t), agg[t].st = "Bridged",
           dir[t] = B2A, NEW s \in MinedAfter("send", B2A, txs[agg[t].mint].at)
    PROVE  txs[s].by = t
  <1> DEFINE m == agg[t].mint
  <1>a. TypeOK /\ Vouched(t) /\ OwnLegs(t) /\ Ahead(t) /\ MintsOfBurns /\ NonceOrder
    BY DEF Inv, LegInv, Lined, Chained
  <1>1. s \in DOMAIN txs /\ txs[s].kind = "send" /\ txs[s].st = "mined" /\ txs[s].at > txs[m].at
    BY DEF MinedAfter, Matching
  <1>2. /\ m \in DOMAIN txs /\ txs[m].kind = "mint" /\ txs[m].st = "mined"
        /\ txs[m].burn = agg[t].burn /\ agg[t].burn \in Of(t, "burn")
    BY <1>a DEF Vouched, OwnLegs, MinedMint, Mined
  <1> HIDE DEF m
  <1>3. txs[m].by = t
    BY <1>a, <1>2 DEF MintsOfBurns, Of
  <1>4. ChainOf(txs[m]) = "ethereum" /\ ChainOf(txs[s]) = "ethereum"
    BY <1>1, <1>2, <1>3 DEF ChainOf, Target, A2B, B2A
  <1>5. txs[s].by # t => s < m
    BY <1>a, <1>1, <1>2, <1>3 DEF Ahead
  <1>6. txs[s].by # t => txs[s].at < txs[m].at
    BY <1>a, <1>1, <1>2, <1>4, <1>5 DEF NonceOrder
  <1>7. txs[s].at \in Nat /\ txs[m].at \in Nat
    <2>1. txs[s] \in Tx /\ txs[m] \in Tx
      BY <1>a, <1>1, <1>2 DEF TypeOK
    <2> QED BY <2>1 DEF Tx
  <1> QED BY <1>1, <1>6, <1>7

LEMMA DepositLegs ==
    ASSUME Inv, LegInv, NEW t \in Transfers,
           \/ SubmitDeposit(t) \/ RecordDeposit(t) \/ ConfirmDeposit(t) \/ SendDeposit(t)
           \/ RecordSend(t) \/ PollDeposit(t) \/ NothingToResume(t)
    PROVE  LegStep(t)
  <1>a. TypeOK /\ Awaited(t) /\ DOMAIN txs \subseteq Nat /\ 0 \in Nat
    <2>1. TypeOK
      BY DEF Inv
    <2>2. DOMAIN txs \subseteq Nat
      BY <2>1 DEF TypeOK
    <2> QED BY <2>1, <2>2 DEF Inv, Sent
  <1>b. NoCommand /\ UNCHANGED txs => LegStep(t)
    BY <1>a, IdleMoves DEF NoCommand, LegStep
  <1>c. UNCHANGED txs /\ SendsOwn(t) => LegStep(t)
    BY DEF LegStep
  <1>d. {"ConfirmDeposit", "FailDeposit"} \subseteq
           Commands \ {"InitiateBridging", "ConfirmBridging", "RecoverBridging",
                       "InitiateDeposit", "Initiate", "BeginBridging",
                       "ReceiveAttestation", "FailBridging", "ReconcileStuckRebalance"}
    BY DEF Commands, HandledIn
  <1>e. ASSUME NEW i \in DOMAIN txs, ~Relayed => txs[i].by = t, Send(t, "InitiateDeposit", i)
        PROVE  SendsOwn(t)
    <2>1. Sane(t, "InitiateDeposit", i) /\ "InitiateDeposit" \in Commands \ {"ReconcileStuckRebalance"}
      BY <1>e DEF Sane, Commands, HandledIn
    <2> QED BY <1>a, <1>e, <2>1, SaneSends
  <1>f. ASSUME NEW kind \in {"deposit", "send"}, NoCommand, Broadcast(t, kind, 0), Active(t),
               agg[t].st # "Absent"
        PROVE  LegStep(t)
    <2>1. ChainMoves
      BY <1>a, <1>f, BroadcastMoves DEF Kinds
    <2> QED BY <1>f, <2>1 DEF LegStep, NoCommand
  <1>1. CASE SubmitDeposit(t)
    <2>1. Active(t) /\ agg[t].st # "Absent"
      BY <1>1, RunningActive DEF SubmitDeposit, Sees, At, Running, HoldsGuard
    <2> QED BY <1>b, <1>f, <1>1, <2>1 DEF SubmitDeposit
  <1>2. CASE SendDeposit(t)
    <2>1. Active(t) /\ agg[t].st = "Bridged" /\ dir[t] = B2A
      BY <1>2, RunningActive DEF SendDeposit, Sees, At, Running, HoldsGuard
    <2>2. \A s \in MinedAfter("send", B2A, txs[agg[t].mint].at) :
            s \in DOMAIN txs /\ (~Relayed => txs[s].by = t)
      BY <2>1, OwnSend DEF MinedAfter, Matching
    <2> QED BY <1>b, <1>c, <1>e, <1>f, <1>2, <2>1, <2>2 DEF SendDeposit
  <1>3. CASE RecordDeposit(t)
    <2>1. Latest(t, "deposit") \in DOMAIN txs /\ txs[Latest(t, "deposit")].by = t
      BY <1>a, <1>3, LatestIsLast DEF RecordDeposit, At, Awaited, HasLast, IsLast, Of
    <2> QED BY <1>c, <1>e, <1>3, <2>1 DEF RecordDeposit, worldVars
  <1>4. CASE RecordSend(t)
    <2>1. Latest(t, "send") \in DOMAIN txs /\ txs[Latest(t, "send")].by = t
      BY <1>a, <1>4, LatestIsLast DEF RecordSend, At, Awaited, HasLast, IsLast, Of
    <2> QED BY <1>b, <1>c, <1>e, <1>4, <2>1 DEF RecordSend, worldVars
  <1>5. CASE ConfirmDeposit(t) \/ PollDeposit(t) \/ NothingToResume(t)
    BY <1>a, <1>b, <1>c, <1>d, <1>5, PlainSane
       DEF ConfirmDeposit, PollDeposit, NothingToResume, worldVars
  <1> QED BY <1>1, <1>2, <1>3, <1>4, <1>5

(* Every step of the manager.                                              *)
LEMMA ManagerLegs == ASSUME Inv, LegInv, NEW t \in Transfers, ManagerStep(t) PROVE LegStep(t)
  BY WithdrawalLegs, BurnLegs, MintLegs, DepositLegs DEF ManagerStep

(* The manager starts a task only for a transfer that is about to burn.    *)
LEMMA ManagerTasks ==
    ASSUME TypeOK, NEW t \in Transfers, ManagerStep(t)
    PROVE  \A u \in Transfers :
              task'[u] # "none" => task[u] # "none" \/ agg'[u].st = "BridgingSubmitting"
  <1>1. CASE SpawnBurn(t)
    <2>1. CASE Send(t, "ClearPendingBurn", 0) /\ task' = [task EXCEPT ![t] = "submit"]
      <3>1. agg'[t].st = "BridgingSubmitting"
        <4>1. "ClearPendingBurn" \in Commands /\ EvolvesTo["ClearPendingBurn"] = "BridgingSubmitting"
          BY DEF Commands, HandledIn, EvolvesTo
        <4> QED BY <2>1, <4>1, Sends
      <3> QED BY <2>1, <3>1 DEF TypeOK
    <2>2. CASE UNCHANGED task
      BY <2>2
    <2> QED BY <1>1, <2>1, <2>2 DEF SpawnBurn
  <1>2. CASE UNCHANGED task
    BY <1>2
  <1>3. CASE ~SpawnBurn(t)
    <2>1. UNCHANGED task
      BY <1>3, ManagerStep(t) DEF ManagerStep, BeginConversion, PlaceConversion, RecordConversion,
         ResumeConverting, InitiateAlpacaWithdrawal, RecordAlpacaWithdrawal, PollWithdrawal,
         BeginVaultWithdrawal, WithdrawFromVault, RecordVaultWithdrawal,
         ResumeWithdrawalSubmitting, ConfirmVaultWithdrawal, BeginBurn, ConfirmBurn,
         ResumeBridgingSubmitting, ReceiveAttestation, PollAttestation, RecoverBridgingFailed,
         BridgingFailedPends, ResumeAttested, Mint, ConfirmMint, SubmitDeposit, RecordDeposit,
         ConfirmDeposit, SendDeposit, RecordSend, PollDeposit, NothingToResume
    <2> QED BY <1>2, <2>1
  <1> QED BY <1>1, <1>3

(* A run that comes to mint has burned.                                    *)
LEMMA ManagerMints == ASSUME Inv, LegInv, NEW t \in Transfers, ManagerStep(t) PROVE Minting(t)'
  <1>a. TypeOK /\ Minting(t) /\ Vouched(t)
    BY DEF Inv, LegInv
  <1>b. \A o : End(t, o) => Minting(t)'
    BY <1>a DEF End, Idle, Minting, TypeOK
  <1>c. \A fresh, pc : Continue(t, pc, fresh) => run'[t].pc = pc
    BY <1>a DEF Continue, TypeOK
  <1>d. \A fresh, pc : Continue(t, pc, fresh) /\ pc \notin {"mint", "minting"} => Minting(t)'
    BY <1>c DEF Minting
  <1>1. CASE \/ BeginConversion(t) \/ PlaceConversion(t) \/ RecordConversion(t)
             \/ ResumeConverting(t) \/ InitiateAlpacaWithdrawal(t)
             \/ RecordAlpacaWithdrawal(t) \/ PollWithdrawal(t)
             \/ BeginVaultWithdrawal(t) \/ WithdrawFromVault(t) \/ RecordVaultWithdrawal(t)
             \/ ResumeWithdrawalSubmitting(t) \/ ConfirmVaultWithdrawal(t)
    BY <1>b, <1>d, <1>1 DEF BeginConversion, PlaceConversion, RecordConversion, ResumeConverting,
       InitiateAlpacaWithdrawal, RecordAlpacaWithdrawal, PollWithdrawal, BeginVaultWithdrawal,
       WithdrawFromVault, RecordVaultWithdrawal, ResumeWithdrawalSubmitting, ConfirmVaultWithdrawal
  <1>2. CASE BeginBurn(t) \/ SpawnBurn(t) \/ ConfirmBurn(t) \/ ResumeBridgingSubmitting(t)
    <2>1. run' = [run EXCEPT ![t].pc = "spawn", ![t].try = 2] => Minting(t)'
      BY <1>a DEF Minting, TypeOK
    <2> QED BY <1>b, <1>d, <1>2, <2>1 DEF BeginBurn, SpawnBurn, ConfirmBurn,
            ResumeBridgingSubmitting, CheckPendingBurn, ScanForBurn
  <1>3. CASE ReceiveAttestation(t)
    <2>1. "ReceiveAttestation" \in Commands /\ EvolvesTo["ReceiveAttestation"] = "Attested"
      BY DEF Commands, HandledIn, EvolvesTo
    <2>2. Evolved(t, "ReceiveAttestation", Height) /\ Height \in Nat
      BY <1>a, <1>3, HeightIsNat DEF ReceiveAttestation, Send, Evolved
    <2>3. agg'[t].st = "Attested" /\ agg'[t].burn = agg[t].burn
      BY <1>a, <2>1, <2>2, Evolves
    <2> QED BY <1>a, <1>3, <2>3 DEF ReceiveAttestation, Vouched, Minting
  <1>4. CASE PollAttestation(t) \/ BridgingFailedPends(t)
    BY <1>b, <1>4 DEF PollAttestation, BridgingFailedPends
  <1>5. CASE RecoverBridgingFailed(t)
    BY <1>5 DEF RecoverBridgingFailed, NoCommand, Sees, Minting
  <1>6. CASE ResumeAttested(t)
    <2>1. agg[t].burn # 0 /\ agg[t].st = "Attested"
      BY <1>a, <1>6 DEF ResumeAttested, Sees, Vouched
    <2>2. NoCommand => Minting(t)'
      BY <2>1 DEF NoCommand, Minting
    <2> QED BY <1>b, <1>d, <1>6, <2>2 DEF ResumeAttested
  <1>7. CASE Mint(t) \/ ConfirmMint(t)
    <2>1. agg[t].burn # 0 /\ agg[t].st \in {"Attested", "BridgingFailed"}
      BY <1>a, <1>7 DEF Mint, ConfirmMint, At, Minting
    <2>2. NoCommand => Minting(t)'
      BY <2>1 DEF NoCommand, Minting
    <2>3. \A m : Minted(t, m) => Minting(t)'
      BY <1>d DEF Minted
    <2>4. MintFailed(t) => Minting(t)'
      BY <1>b DEF MintFailed
    <2> QED BY <1>7, <2>2, <2>3, <2>4 DEF Mint, ConfirmMint
  <1>8. CASE \/ SubmitDeposit(t) \/ RecordDeposit(t) \/ ConfirmDeposit(t) \/ SendDeposit(t)
             \/ RecordSend(t) \/ PollDeposit(t) \/ NothingToResume(t)
    BY <1>b, <1>d, <1>8 DEF SubmitDeposit, RecordDeposit, ConfirmDeposit, SendDeposit,
       RecordSend, PollDeposit, NothingToResume
  <1> QED BY <1>1, <1>2, <1>3, <1>4, <1>5, <1>6, <1>7, <1>8, ManagerStep(t) DEF ManagerStep

(* The burn task burns only for the active transfer.                       *)
LEMMA TaskLegs ==
    ASSUME Inv, LegInv, NEW t \in Transfers, TaskStep(t)
    PROVE  /\ LegStep(t) /\ Minting(t)'
           /\ \A u \in Transfers : u # t => run'[u] = run[u]
           /\ \A u \in Transfers : task'[u] # "none" => task[u] # "none"
  <1>a. TypeOK /\ BurnLife(t) /\ Minting(t)
    BY DEF Inv, LegInv
  <1>1. \A u \in Transfers : task'[u] # "none" => task[u] # "none"
    BY <1>a DEF TaskStep, SubmitBurn, RecordPendingBurn, TypeOK
  <1>2. ASSUME NEW o, Deliver(t, o)
        PROVE  run'[t].pc \in {"idle", run[t].pc} /\ \A u \in Transfers : u # t => run'[u] = run[u]
    BY <1>a, <1>2 DEF Deliver, End, Idle, TypeOK
  <1>3. CASE SubmitBurn(t)
    <2>1. NoCommand
      BY <1>3 DEF SubmitBurn
    <2>2. Active(t) /\ agg[t].st # "Absent"
      BY <1>a, <1>3, InactiveSpent DEF SubmitBurn, Spent, BurnLife, PreBurn
    <2>3. ChainMoves
      <3>1. UNCHANGED txs \/ Broadcast(t, "burn", 0)
        BY <1>3 DEF SubmitBurn
      <3> QED BY <1>a, <2>2, <3>1, IdleMoves, BroadcastMoves DEF Kinds
    <2>4. /\ run'[t].pc \in {"idle", run[t].pc}
          /\ \A u \in Transfers : u # t => run'[u] = run[u]
      BY <1>2, <1>3 DEF SubmitBurn
    <2>5. Minting(t)'
      BY <1>a, <2>1, <2>4 DEF Minting, NoCommand
    <2> QED BY <1>1, <2>1, <2>3, <2>4, <2>5 DEF LegStep, NoCommand
  <1>4. CASE RecordPendingBurn(t)
    <2>0. UNCHANGED txs
      BY <1>4 DEF RecordPendingBurn, worldVars
    <2>r. /\ run'[t].pc \in {"idle", "confirm", run[t].pc}
          /\ \A u \in Transfers : u # t => run'[u] = run[u]
      <3>1. Continue(t, "confirm", TRUE) =>
              run'[t].pc = "confirm" /\ \A u \in Transfers : u # t => run'[u] = run[u]
        BY <1>a DEF Continue, TypeOK
      <3>2. Continue(t, "confirm", TRUE) \/ UNCHANGED run \/ \E o : Deliver(t, o)
        BY <1>4 DEF RecordPendingBurn
      <3> QED BY <1>2, <3>1, <3>2
    <2>1. CASE Send(t, "RecordPendingBurn", Latest(t, "burn"))
      <3>1. Latest(t, "burn") \in Nat
        <4>1. \E i \in DOMAIN txs : IsLast(t, "burn", i)
          BY <1>a, <1>4 DEF RecordPendingBurn, BurnLife, OnlyBurn
        <4>2. DOMAIN txs \subseteq Nat
          BY <1>a DEF TypeOK
        <4> QED BY <1>a, <4>1, <4>2, LatestIsLast
      <3>2. SendsOwn(t)
        BY <2>1, <3>1, PlainSane DEF Commands, HandledIn
      <3>3. agg[t].st = "BridgingSubmitting"
        BY <2>1 DEF Send, Handles, HandledIn
      <3>4. Minting(t)'
        BY <1>a, <2>r, <3>3 DEF Minting
      <3> QED BY <1>1, <2>0, <2>r, <3>2, <3>4 DEF LegStep
    <2>2. CASE NoCommand
      <3>1. ChainMoves
        BY <1>a, <2>0, IdleMoves
      <3>2. Minting(t)'
        BY <1>a, <2>r, <2>2 DEF Minting, NoCommand
      <3> QED BY <1>1, <2>r, <2>2, <3>1, <3>2 DEF LegStep, NoCommand
    <2> QED BY <1>4, <2>1, <2>2 DEF RecordPendingBurn
  <1> QED BY <1>3, <1>4, TaskStep(t) DEF TaskStep

-----------------------------------------------------------------------------
(* A step of t keeps the legs in line.                                     *)
LEMMA LegStepKeeps ==
    ASSUME Inv, LegInv, NEW t \in Transfers, LegStep(t), UNCHANGED dir, Watched',
           \A u \in Transfers : Vouched(u)',
           \A u \in Transfers : Active(u)' => Active(u) \/ agg[u].st = "Absent",
           \A u \in Transfers :
              task'[u] # "none" => task[u] # "none" \/ agg'[u].st = "BridgingSubmitting",
           Minting(t)', \A u \in Transfers : u # t => run'[u].pc = run[u].pc
    PROVE  LegInv'
  <1>a. TypeOK /\ Chained
    BY DEF Inv, LegInv
  <1>1. CASE UNCHANGED agg /\ ChainMoves
    <2>1. Chained' /\ \A u \in Transfers : Lined(u)'
      BY <1>a, <1>1, MovesKeepChains, MovesKeepLined
    <2>2. \A u \in Transfers : Minting(u)'
      BY <1>1 DEF LegInv, Minting
    <2> QED BY <2>1, <2>2 DEF LegInv
  <1>2. CASE UNCHANGED txs /\ SendsOwn(t)
    <2>1. ChainMoves
      BY <1>a, <1>2, IdleMoves
    <2>2. Lined(t)' /\ \A u \in Transfers : u # t => agg'[u] = agg[u]
      BY <1>2, SaneLined DEF SendsOwn
    <2>3. Chained' /\ \A u \in Transfers : Lined(u)'
      BY <1>a, <2>1, <2>2, MovesKeepChains, MovesKeepLined
    <2>4. \A u \in Transfers : Minting(u)'
      BY <2>2 DEF LegInv, Minting
    <2> QED BY <2>3, <2>4 DEF LegInv
  <1> QED BY <1>1, <1>2 DEF LegStep

(* So does one in which no transfer sends anything.                        *)
LEMMA ChainStepKeeps ==
    ASSUME Inv, LegInv, ChainMoves, UNCHANGED <<dir, agg>>, Watched',
           \A u \in Transfers : Vouched(u)',
           \A u \in Transfers : Active(u)' => Active(u) \/ agg[u].st = "Absent",
           \A u \in Transfers : /\ task'[u] \in {task[u], "none"}
                                /\ run'[u].pc \in {run[u].pc, "idle", "go"}
    PROVE  LegInv'
  <1>a. TypeOK /\ Chained
    BY DEF Inv, LegInv
  <1>1. Chained' /\ \A u \in Transfers : Lined(u)'
    BY <1>a, MovesKeepChains, MovesKeepLined
  <1>2. \A u \in Transfers : Minting(u)'
    BY DEF LegInv, Minting
  <1> QED BY <1>1, <1>2 DEF LegInv

(* Every step of the bot and of the chains.                                *)
LEMMA BotLegs ==
    ASSUME Inv, LegInv, BotNext, \A u \in Transfers : Vouched(u)'
    PROVE  LegInv'
  <1>a. /\ TypeOK /\ Watched /\ Watched'
        /\ \A u \in Transfers : Active(u)' => Active(u) \/ agg[u].st = "Absent"
    BY BotWatched DEF Inv, LegInv
  <1>1. ASSUME NEW t \in Transfers, ManagerStep(t) PROVE LegInv'
    <2>1. UNCHANGED dir /\ \A u \in Transfers : u # t => run'[u] = run[u]
      BY <1>a, <1>1, ManagerSteps DEF Watched, Watch, Stepped
    <2> QED BY <1>a, <1>1, <2>1, ManagerLegs, ManagerTasks, ManagerMints, LegStepKeeps
  <1>2. ASSUME NEW t \in Transfers, TaskStep(t) PROVE LegInv'
    <2>1. UNCHANGED dir
      BY <1>2 DEF TaskStep, SubmitBurn, RecordPendingBurn
    <2> QED BY <1>a, <1>2, <2>1, TaskLegs, LegStepKeeps
  <1>3. ASSUME NEW t \in Transfers,
               ClaimGuard(t) \/ CheckAndTrigger(t) \/ Start(t) \/ AttemptTimesOut(t)
        PROVE  LegInv'
    <2>1. UNCHANGED <<dir, agg, txs, task>>
      BY <1>3 DEF ClaimGuard, CheckAndTrigger, Start, AttemptTimesOut, worldVars, NoCommand
    <2>2. \A u \in Transfers : run'[u].pc \in {run[u].pc, "idle", "go"}
      <3>1. run \in [Transfers -> RunType]
        BY <1>a DEF TypeOK, RunType
      <3>2. CASE ClaimGuard(t) \/ CheckAndTrigger(t)
        BY <3>2 DEF ClaimGuard, CheckAndTrigger
      <3>3. CASE Start(t)
        BY <3>1, <3>3 DEF Start
      <3>4. CASE AttemptTimesOut(t)
        <4>1. run' = [run EXCEPT ![t] = Idle]
          BY <3>4 DEF AttemptTimesOut, End
        <4> QED BY <3>1, <4>1 DEF Idle
      <3> QED BY <1>3, <3>2, <3>3, <3>4
    <2> QED BY <1>a, <2>1, <2>2, IdleMoves, ChainStepKeeps
  <1>4. CASE Restart
    <2>1. /\ UNCHANGED <<dir, agg, txs>>
          /\ \A u \in Transfers : task'[u] = "none" /\ run'[u].pc = "idle"
      BY <1>4 DEF Restart, worldVars, Idle
    <2> QED BY <1>a, <2>1, IdleMoves, ChainStepKeeps
  <1>5. CASE Mine \/ Drop \/ Relay \/ UNCHANGED vars
    <2>1. UNCHANGED <<dir, agg, task, run>>
      BY <1>5 DEF Mine, Drop, Relay, vars
    <2>2. ChainMoves
      <3>1. CASE Mine \/ Drop
        <4>1. PICK i \in DOMAIN txs, st \in {"mined", "reverted", "dropped"} :
                /\ txs[i].st = "pending" /\ Become(i, st)
                /\ st = "mined" => NextInLine(i) /\ Succeeds(txs[i])
          BY <3>1 DEF Mine, Drop, NextInLine
        <4> QED BY <1>a, <4>1, BecomeMoves
      <3>2. CASE Relay
        BY <3>2, RelayMoves
      <3>3. CASE UNCHANGED vars
        BY <1>a, <3>3, IdleMoves DEF vars, worldVars
      <3> QED BY <1>5, <3>1, <3>2, <3>3
    <2> QED BY <1>a, <2>1, <2>2, ChainStepKeeps
  <1> QED BY <1>1, <1>2, <1>3, <1>4, <1>5 DEF BotNext, BotStep

(* At first nothing was sent.                                              *)
LEMMA InitLegs == ~SweepTimesOut /\ Init => LegInv
  <1> SUFFICES ASSUME ~SweepTimesOut, Init PROVE LegInv
    OBVIOUS
  <1>1. txs = <<>> /\ DOMAIN txs = {}
    BY DEF Init
  <1>2. Chained
    BY <1>1 DEF Chained, MintsOfBurns, MinedBelow, NonceOrder
  <1>3. ASSUME NEW t \in Transfers PROVE Vouched(t) /\ Lined(t) /\ Minting(t)
    <2>1. agg[t] = Unborn /\ run[t] = Idle
      BY DEF Init
    <2>2. Vouched(t) /\ Minting(t)
      BY <2>1 DEF Vouched, Minting, Unborn, Idle
    <2> QED BY <1>1, <2>1, <2>2 DEF Lined, OwnLegs, Scanned, Barren, Ahead, Unborn
  <1> QED BY <1>2, <1>3, InitWatched DEF LegInv

LEMMA NextLegs ==
    ~SweepTimesOut /\ ~OperatorActs /\ ~ManualStarts /\ Inv /\ LegInv /\ [Next]_vars => LegInv'
  <1> SUFFICES ASSUME ~SweepTimesOut, ~OperatorActs, ~ManualStarts, Inv, LegInv, [Next]_vars
               PROVE  LegInv'
    OBVIOUS
  <1>1. BotNext
    BY NoSweep, NoOperator DEF Next, BotNext, BotStep, LegInv
  <1>2. \A u \in Transfers : Vouched(u)'
    BY NextVouched DEF LegInv
  <1> QED BY <1>1, <1>2, BotLegs

(* A recorded burn, mint and deposit are the transfer's own, although the  *)
(* scans of a resume only match a direction, an amount and a block bound   *)
(* (resume_bridging_submitting, resume_attested, the send scan of the      *)
(* resumed deposit): whatever fails or crashes, as long as the sweep       *)
(* expires nothing, no operator acts and only the wallet delivers mints.   *)
THEOREM LegsOwn ==
    ~SweepTimesOut /\ ~OperatorActs /\ ~ManualStarts /\ ~Relayed /\ Spec => []LegsAreOwn
  <1>1. CASE ~SweepTimesOut /\ ~OperatorActs /\ ~ManualStarts /\ ~Relayed
    <2>1. Init => LegInv
      BY <1>1, InitLegs
    <2>2. Inv /\ LegInv /\ [Next]_vars => LegInv'
      BY <1>1, NextLegs
    <2>3. LegInv => LegsAreOwn
      BY <1>1 DEF LegInv, Lined, OwnLegs, Of, LegsAreOwn
    <2> QED BY <2>1, <2>2, <2>3, Invariance, PTL DEF Spec
  <1>2. CASE ~(~SweepTimesOut /\ ~OperatorActs /\ ~ManualStarts /\ ~Relayed)
    BY <1>2
  <1> QED BY <1>1, <1>2

(* A transfer that settled moved its funds through every leg, also when    *)
(* somebody else delivers its mint: the burn is mined and delivered, and   *)
(* the deposit on record is mined.                                         *)
THEOREM SettledWithoutSweep ==
    ~SweepTimesOut /\ ~OperatorActs /\ ~ManualStarts /\ Spec => []SettledFundsArrived
  <1>1. CASE ~SweepTimesOut /\ ~OperatorActs /\ ~ManualStarts
    <2>1. Init => LegInv
      BY <1>1, InitLegs
    <2>2. Inv /\ LegInv /\ [Next]_vars => LegInv'
      BY <1>1, NextLegs
    <2>3. LegInv => SettledFundsArrived
      <3> SUFFICES ASSUME LegInv, NEW t \in Transfers, Settled(agg[t], dir[t])
                   PROVE  /\ txs[agg[t].burn].st = "mined" /\ Delivered(agg[t].burn) # {}
                          /\ txs[agg[t].dep].st = "mined"
        BY DEF SettledFundsArrived
      <3>1. /\ agg[t].burn # 0 /\ Mined(agg[t].burn) /\ agg[t].mint # 0
            /\ MinedMint(agg[t].mint) /\ Mined(agg[t].dep)
        BY DEF Settled, Vouched, LegInv
      <3>2. agg[t].mint \in Delivered(agg[t].burn)
        BY <3>1 DEF LegInv, Lined, OwnLegs, Delivered, MinedMint, Mined
      <3> QED BY <3>1, <3>2 DEF Mined
    <2> QED BY <2>1, <2>2, <2>3, Invariance, PTL DEF Spec
  <1>2. CASE ~(~SweepTimesOut /\ ~OperatorActs /\ ~ManualStarts)
    BY <1>2
  <1> QED BY <1>1, <1>2

=============================================================================
