--------------------------- MODULE EquityAggregates ---------------------------
(***************************************************************************)
(* The TokenizedEquityMint and EquityRedemption aggregates: the states an  *)
(* event may be emitted in and the state it evolves to.                    *)
(*                                                                         *)
(* One command may answer with different events, so the tables are keyed   *)
(* by event.  RequestMint emits MintRequested and its outcome together;    *)
(* MintRequested alone is never a persisted state.  A record keeps         *)
(*   tx        the transaction hash the current state carries (0: none)    *)
(*   sent      redemption_tx (0: None)                                     *)
(*   accepted  whether MintAccepted is among the events                    *)
(*   received  whether the events ever said that tokens were received      *)
(* Quantities are one unit; prices, fees and timestamps are left out.      *)
(***************************************************************************)
EXTENDS Naturals

MintStates == {"Absent", "MintAccepted", "TokensReceived", "WrapSubmitted",
               "TokensWrapped", "VaultDepositSubmitted", "DepositedIntoRaindex",
               "Failed", "Reconciled"}

BeforeSend == {"VaultWithdrawPending", "VaultWithdrawSubmitted", "WithdrawnFromRaindex",
               "UnwrapPending", "UnwrapSubmitted", "TokensUnwrapped", "SendPending"}

RedemptionStates == BeforeSend \cup {"Absent", "TokensSent", "Pending", "Completed",
                                     "Failed", "Reconciled"}

Terminal == {"DepositedIntoRaindex", "Completed", "Failed", "Reconciled"}

Unborn == [st |-> "Absent", tx |-> 0, sent |-> 0, accepted |-> FALSE, received |-> FALSE]

(* The states each event of a mint may be emitted in, and where it leads.  *)
MintTable ==
    [MintAccepted          |-> [from |-> {"Absent"}, to |-> "MintAccepted"],
     MintRejected          |-> [from |-> {"Absent"}, to |-> "Failed"],
     MintAcceptanceFailed  |-> [from |-> {"MintAccepted"}, to |-> "Failed"],
     TokensReceived        |-> [from |-> {"MintAccepted"}, to |-> "TokensReceived"],
     WrapSubmitted         |-> [from |-> {"TokensReceived"}, to |-> "WrapSubmitted"],
     TokensWrapped         |-> [from |-> {"TokensReceived", "WrapSubmitted"},
                                to |-> "TokensWrapped"],
     WrappingFailed        |-> [from |-> {"TokensReceived", "WrapSubmitted"}, to |-> "Failed"],
     VaultDepositSubmitted |-> [from |-> {"TokensWrapped"}, to |-> "VaultDepositSubmitted"],
     DepositedIntoRaindex  |-> [from |-> {"TokensWrapped", "VaultDepositSubmitted"},
                                to |-> "DepositedIntoRaindex"],
     RaindexDepositFailed  |-> [from |-> {"TokensWrapped", "VaultDepositSubmitted"},
                                to |-> "Failed"],
     ProviderCompletionRecovered |-> [from |-> {"Failed"}, to |-> "TokensReceived"],
     OperatorReconciled    |-> [from |-> {"Failed"}, to |-> "Reconciled"]]

RedemptionTable ==
    [VaultWithdrawPending   |-> [from |-> {"Absent"}, to |-> "VaultWithdrawPending"],
     VaultWithdrawSubmitted |-> [from |-> {"VaultWithdrawPending"},
                                 to |-> "VaultWithdrawSubmitted"],
     WithdrawnFromRaindex   |-> [from |-> {"VaultWithdrawSubmitted"},
                                 to |-> "WithdrawnFromRaindex"],
     UnwrapPending          |-> [from |-> {"WithdrawnFromRaindex"}, to |-> "UnwrapPending"],
     UnwrapSubmitted        |-> [from |-> {"UnwrapPending"}, to |-> "UnwrapSubmitted"],
     TokensUnwrapped        |-> [from |-> {"UnwrapSubmitted"}, to |-> "TokensUnwrapped"],
     SendPending            |-> [from |-> {"TokensUnwrapped"}, to |-> "SendPending"],
     TokensSent             |-> [from |-> {"SendPending"}, to |-> "TokensSent"],
     TransferFailed         |-> [from |-> BeforeSend, to |-> "Failed"],
     Detected               |-> [from |-> {"TokensSent"}, to |-> "Pending"],
     DetectionFailed        |-> [from |-> {"TokensSent"}, to |-> "Failed"],
     Completed              |-> [from |-> {"Pending"}, to |-> "Completed"],
     RedemptionRejected     |-> [from |-> {"Pending"}, to |-> "Failed"],
     ProviderCompletionRecovered |-> [from |-> {"Failed"}, to |-> "Completed"],
     OperatorReconciled     |-> [from |-> {"Failed"}, to |-> "Reconciled"]]

(* Aggregate a after event e of its table, x the hash the event carries.   *)
Evolved(a, table, e, x) ==
    [a EXCEPT !.st = table[e].to,
              !.tx = x,
              !.sent = IF e = "TokensSent" THEN x ELSE @,
              !.accepted = @ \/ e = "MintAccepted",
              !.received = @ \/ table[e].to = "TokensReceived"]

(* The failure the sweep and `transfer fail` record for a state.           *)
FailureOf(st) ==
    CASE st = "MintAccepted" -> "MintAcceptanceFailed"
      [] st \in {"TokensReceived", "WrapSubmitted"} -> "WrappingFailed"
      [] st \in {"TokensWrapped", "VaultDepositSubmitted"} -> "RaindexDepositFailed"
      [] st \in BeforeSend -> "TransferFailed"
      [] st = "TokensSent" -> "DetectionFailed"
      [] st = "Pending" -> "RedemptionRejected"

Genesis == {"MintAccepted", "MintRejected", "VaultWithdrawPending"}

(* is_terminal_mint_event, is_terminal_redemption_event: a recovered mint  *)
(* goes on, a recovered redemption is complete.                            *)
IsTerminalEvent(table, e) == table[e].to \in Terminal

=============================================================================
