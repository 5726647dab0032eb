---------------------------- MODULE UsdcRebalance ----------------------------
(***************************************************************************)
(* The UsdcRebalance aggregate: its states, which command each state       *)
(* handles, the state the resulting event evolves to, and what the guard,  *)
(* the startup recovery and the operator commands read off it.             *)
(*                                                                         *)
(* Commands are named after the variants of UsdcRebalanceCommand.  A       *)
(* reference is the index of a transaction (0 is None) or a block height:  *)
(*   from     block bounding the scan for a withdrawal or burn on resume   *)
(*   pending  pending_burn_tx     burn  burn_tx_hash                       *)
(*   scan     mint_scan_from_block  mint  mint_tx_hash                     *)
(*   wtx      withdrawal_ref        dep   deposit_ref                      *)
(* Amounts, reasons and timestamps are left out.                           *)
(***************************************************************************)
EXTENDS Naturals

A2B == "AlpacaToBase"
B2A == "BaseToAlpaca"

States == {"Absent", "Converting", "ConversionComplete", "ConversionFailed",
           "WithdrawalSubmitting", "Withdrawing", "WithdrawalComplete", "WithdrawalFailed",
           "BridgingSubmitting", "Bridging", "AwaitingAttestation", "Attested",
           "Bridged", "BridgingFailed", "DepositInitiated", "DepositConfirmed",
           "DepositFailed", "Reconciled"}

Unborn == [st |-> "Absent", from |-> 0, pending |-> 0, burn |-> 0, scan |-> 0,
           mint |-> 0, wtx |-> 0, dep |-> 0]

(* The states a command is handled in; every other state rejects it.       *)
HandledIn ==
    [InitiateConversion            |-> {"Absent"},
     ConfirmConversion             |-> {"Converting"},
     FailConversion                |-> {"Converting"},
     InitiatePostDepositConversion |-> {"DepositConfirmed"},
     BeginWithdrawal               |-> {"Absent"},
     Initiate                      |-> {"ConversionComplete", "WithdrawalSubmitting"},
     ConfirmWithdrawal             |-> {"Withdrawing"},
     FailWithdrawal                |-> {"Withdrawing"},
     BeginBridging                 |-> {"WithdrawalComplete"},
     RecordPendingBurn             |-> {"BridgingSubmitting"},
     ClearPendingBurn              |-> {"BridgingSubmitting"},
     InitiateBridging              |-> {"WithdrawalComplete", "BridgingSubmitting"},
     ReceiveAttestation            |-> {"Bridging", "AwaitingAttestation"},
     TimeoutAttestation            |-> {"Bridging"},
     ConfirmBridging               |-> {"Attested"},
     FailBridging                  |-> {"WithdrawalComplete", "BridgingSubmitting", "Bridging",
                                        "AwaitingAttestation", "Attested"},
     RecoverBridging               |-> {"BridgingFailed"},
     InitiateDeposit               |-> {"Bridged"},
     ConfirmDeposit                |-> {"DepositInitiated"},
     FailDeposit                   |-> {"DepositInitiated"},
     ReconcileStuckRebalance       |-> {"DepositFailed", "BridgingFailed", "ConversionFailed"}]

EvolvesTo ==
    [InitiateConversion            |-> "Converting",
     ConfirmConversion             |-> "ConversionComplete",
     FailConversion                |-> "ConversionFailed",
     InitiatePostDepositConversion |-> "Converting",
     BeginWithdrawal               |-> "WithdrawalSubmitting",
     Initiate                      |-> "Withdrawing",
     ConfirmWithdrawal             |-> "WithdrawalComplete",
     FailWithdrawal                |-> "WithdrawalFailed",
     BeginBridging                 |-> "BridgingSubmitting",
     RecordPendingBurn             |-> "BridgingSubmitting",
     ClearPendingBurn              |-> "BridgingSubmitting",
     InitiateBridging              |-> "Bridging",
     ReceiveAttestation            |-> "Attested",
     TimeoutAttestation            |-> "AwaitingAttestation",
     ConfirmBridging               |-> "Bridged",
     FailBridging                  |-> "BridgingFailed",
     RecoverBridging               |-> "Bridged",
     InitiateDeposit               |-> "DepositInitiated",
     ConfirmDeposit                |-> "DepositConfirmed",
     FailDeposit                   |-> "DepositFailed",
     ReconcileStuckRebalance       |-> "Reconciled"]

Commands == DOMAIN HandledIn

PostBurnFailure(a, d) ==
    \/ a.st = "DepositFailed"
    \/ a.st = "BridgingFailed" /\ a.burn # 0
    \/ a.st = "ConversionFailed" /\ d = B2A

FailBridgingHandled(a) == ~(a.st = "BridgingSubmitting" /\ a.pending # 0)

Handles(a, c, d) ==
    /\ a.st \in HandledIn[c]
    /\ c = "FailBridging" => FailBridgingHandled(a)
    /\ c = "InitiatePostDepositConversion" => d = B2A
    /\ c = "RecoverBridging" => a.burn # 0
    /\ c = "ReconcileStuckRebalance" => PostBurnFailure(a, d)

(* The scan bounds and the pending burn live only in the states that use    *)
(* them; the references of a leg are kept for the properties to compare.    *)
Evolve(a, c, ref) ==
    [a EXCEPT !.st      = EvolvesTo[c],
              !.from    = IF c \in {"BeginWithdrawal", "BeginBridging"} THEN ref
                          ELSE IF c \in {"RecordPendingBurn", "ClearPendingBurn"} THEN @ ELSE 0,
              !.pending = IF c = "RecordPendingBurn" THEN ref ELSE 0,
              !.burn    = IF c = "InitiateBridging" THEN ref ELSE @,
              !.scan    = IF c = "ReceiveAttestation" THEN ref ELSE 0,
              !.mint    = IF c \in {"ConfirmBridging", "RecoverBridging"} THEN ref ELSE @,
              !.wtx     = IF c = "Initiate" THEN ref ELSE @,
              !.dep     = IF c = "InitiateDeposit" THEN ref ELSE @]

(* holds_rebalance_guard *)
HoldsGuard(a, d) ==
    \/ a.st \in {"Converting", "Withdrawing", "WithdrawalComplete", "WithdrawalSubmitting",
                 "BridgingSubmitting", "Bridging", "AwaitingAttestation", "Attested",
                 "Bridged", "DepositInitiated", "DepositFailed"}
    \/ a.st = "ConversionComplete" /\ d = A2B
    \/ a.st = "BridgingFailed" /\ a.burn # 0
    \/ a.st \in {"DepositConfirmed", "ConversionFailed"} /\ d = B2A

(* The transfer has run its course: terminal success of either direction.  *)
Settled(a, d) ==
    \/ a.st = "DepositConfirmed" /\ d = A2B
    \/ a.st = "ConversionComplete" /\ d = B2A

(* Startup recovery: which transfers get a tracking seed, and which a job  *)
(* row when they have none that is live, or none at all.                   *)
SeedsTracking(a, d) ==
    \/ a.st = "DepositFailed"
    \/ a.st = "ConversionFailed" /\ d = B2A
    \/ a.st = "BridgingFailed" /\ d = A2B /\ a.burn # 0

RearmedUnlessLive(a, d) ==
    \/ a.st = "BridgingFailed" /\ d = B2A /\ a.burn # 0
    \/ a.st \in {"Withdrawing", "WithdrawalComplete"} /\ d = A2B

RearmedUnlessQueued(a, d) ==
    \/ a.st \in {"Bridging", "AwaitingAttestation", "Attested", "BridgingSubmitting"}
    \/ a.st = "WithdrawalSubmitting" /\ d = B2A

=============================================================================
