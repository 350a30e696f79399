-------------------------- MODULE TestnetLifecycle --------------------------
(***************************************************************************)
(* The rules of the testnet order lifecycle: the execution states of a     *)
(* local order row, the transition validator shared by every writer, the   *)
(* repair validator of the operator's explicit marks, and the tables that  *)
(* translate what the exchange says into execution states and into the     *)
(* local status column.  Everything here is a pure operator; the processes *)
(* that apply the rules are in TestnetOrders.                              *)
(***************************************************************************)

(* No state yet: Option::None of `previous' in the validator, and the      *)
(* "no value" of the status and payload columns.                           *)
Null == "NULL"

TestnetExecutionState ==
    {"INTENT_CREATED", "RISK_APPROVED", "ORDER_PREPARED",
     "ORDER_SUBMIT_REQUESTED", "EXCHANGE_ACKED", "NEW", "PARTIALLY_FILLED",
     "FILLED", "CANCEL_REQUESTED", "CANCELLED", "REJECTED", "EXPIRED",
     "RECONCILIATION_REQUIRED", "UNKNOWN_EXCHANGE_STATE", "FAILED"}

is_terminal(s) == s \in {"FILLED", "CANCELLED", "REJECTED", "EXPIRED", "FAILED"}

(* The states that ask for a reconciliation; the validator reports them as *)
(* requires_reconciliation.                                                *)
requires_reconciliation(s) ==
    s \in {"RECONCILIATION_REQUIRED", "UNKNOWN_EXCHANGE_STATE"}

ExchangeOrderState ==
    {"NEW", "PARTIALLY_FILLED", "FILLED", "CANCELED", "PENDING_CANCEL",
     "REJECTED", "EXPIRED"}

(* An execution report may also carry EXPIRED_IN_MATCH, or a status the    *)
(* parser does not know.                                                   *)
ExchangeExecutionStatus ==
    ExchangeOrderState \cup {"EXPIRED_IN_MATCH", "UNKNOWN"}

TransitionSource ==
    {"API_SUBMIT", "EXCHANGE_ACK", "API_CANCEL", "EXCHANGE_CANCEL_ACK",
     "PRIVATE_STREAM", "REST_RECONCILIATION",
     "OPERATOR_MARK_RECONCILIATION_REQUIRED"}

-----------------------------------------------------------------------------
(* The validator.  allowed_next(p) is the set of states its match accepts  *)
(* after p; UNKNOWN_EXCHANGE_STATE is accepted before the match, after     *)
(* every state, terminal ones included.                                    *)
Ends == {"RECONCILIATION_REQUIRED", "FAILED"}

allowed_next(p) ==
    IF is_terminal(p) THEN {} ELSE
    CASE p = Null ->
            {"INTENT_CREATED", "RISK_APPROVED", "ORDER_PREPARED",
             "ORDER_SUBMIT_REQUESTED"} \cup Ends
      [] p = "INTENT_CREATED" ->
            {"RISK_APPROVED", "ORDER_PREPARED", "ORDER_SUBMIT_REQUESTED",
             "REJECTED"} \cup Ends
      [] p = "RISK_APPROVED" ->
            {"ORDER_PREPARED", "ORDER_SUBMIT_REQUESTED", "REJECTED"} \cup Ends
      [] p = "ORDER_PREPARED" ->
            {"ORDER_SUBMIT_REQUESTED", "REJECTED"} \cup Ends
      [] p = "ORDER_SUBMIT_REQUESTED" ->
            {"EXCHANGE_ACKED", "NEW", "PARTIALLY_FILLED", "FILLED",
             "REJECTED", "EXPIRED", "CANCEL_REQUESTED"} \cup Ends
      [] p = "EXCHANGE_ACKED" ->
            {"NEW", "PARTIALLY_FILLED", "FILLED", "CANCEL_REQUESTED",
             "CANCELLED", "REJECTED", "EXPIRED"} \cup Ends
      [] p = "NEW" ->
            {"PARTIALLY_FILLED", "FILLED", "CANCEL_REQUESTED", "CANCELLED",
             "REJECTED", "EXPIRED"} \cup Ends
      [] p = "PARTIALLY_FILLED" ->
            {"PARTIALLY_FILLED", "FILLED", "CANCEL_REQUESTED", "CANCELLED",
             "EXPIRED"} \cup Ends
      [] p = "CANCEL_REQUESTED" ->
            {"CANCELLED", "FILLED", "PARTIALLY_FILLED"} \cup Ends
      [] p = "RECONCILIATION_REQUIRED" ->
            {"EXCHANGE_ACKED", "NEW", "PARTIALLY_FILLED", "FILLED",
             "CANCEL_REQUESTED", "CANCELLED", "REJECTED", "EXPIRED"} \cup Ends
      [] OTHER -> Ends  \* UNKNOWN_EXCHANGE_STATE

validate_testnet_transition(p, n) ==
    n = "UNKNOWN_EXCHANGE_STATE" \/ n \in allowed_next(p)

-----------------------------------------------------------------------------
(* What the exchange says, as an execution state. *)

(* parse_order_state fails on a word it does not know.  The client takes   *)
(* such an acknowledgement for NEW and such an answer to a cancel for      *)
(* CANCELED, and keeps the word itself in the payload.                     *)
into_exchange_ack(w) == IF w = "UNKNOWN" THEN "NEW" ELSE w

into_exchange_cancel_ack(w) == IF w = "UNKNOWN" THEN "CANCELED" ELSE w

map_exchange_ack(x) ==
    CASE x = "NEW" -> "EXCHANGE_ACKED"
      [] x \in {"CANCELED", "PENDING_CANCEL"} -> "RECONCILIATION_REQUIRED"
      [] OTHER -> x

map_private_execution_report(x) ==
    CASE x = "CANCELED" -> "CANCELLED"
      [] x = "PENDING_CANCEL" -> "CANCEL_REQUESTED"
      [] x = "EXPIRED_IN_MATCH" -> "EXPIRED"
      [] x = "UNKNOWN" -> "UNKNOWN_EXCHANGE_STATE"
      [] OTHER -> x

(* Variant: a cancellation under way is taken for a cancelled order. *)
map_rest_reconciliation_status_hasty(x) ==
    IF x \in {"CANCELED", "PENDING_CANCEL"} THEN "CANCELLED" ELSE x

map_rest_reconciliation_status(x) ==
    CASE x = "CANCELED" -> "CANCELLED"
      [] x = "PENDING_CANCEL" -> "CANCEL_REQUESTED"
      [] OTHER -> x

map_cancel_ack(x) ==
    CASE x = "CANCELED" -> "CANCELLED"
      [] x = "PENDING_CANCEL" -> "CANCEL_REQUESTED"
      [] x \in {"NEW", "REJECTED"} -> "RECONCILIATION_REQUIRED"
      [] OTHER -> x

(* What the exchange says, as the text of the status column.  The private  *)
(* stream and GET write the exchange's own word instead, so one row may    *)
(* hold CANCELED and another CANCELLED.                                    *)
local_testnet_status(x) ==
    CASE x = "CANCELED" -> "CANCELLED"
      [] x = "PENDING_CANCEL" -> Null
      [] OTHER -> x

(* unwrap_or(ack.status.as_str()) of the two acknowledgement handlers. *)
ack_local_status(x) == IF x = "PENDING_CANCEL" THEN x ELSE local_testnet_status(x)

LocalStatus ==
    {"SUBMIT_REQUESTED", "ACKED", "CANCELLED", "FAILED"}
        \cup ExchangeExecutionStatus

normalize_local_status(s) ==
    CASE s \in {"ACKED", "NEW"} -> "NEW"
      [] s \in {"CANCELED", "CANCELLED"} -> "CANCELLED"
      [] s \in {"PARTIALLY_FILLED", "FILLED", "REJECTED", "EXPIRED"} -> s
      [] OTHER -> Null

-----------------------------------------------------------------------------
(* The operator's repair actions.  Each explicit mark has one target state *)
(* and one status text (Null: the column keeps its value).                 *)
MarkAction ==
    {"MARK_RECONCILIATION_REQUIRED", "MARK_ACKED", "MARK_CANCELLED",
     "MARK_REJECTED", "MARK_FAILED"}

RepairAction == MarkAction \cup {"MANUAL_RECHECK", "SAFE_CANCEL_REQUEST"}

(* Variant: the exchange's spelling of a cancelled order. *)
repair_target_spelt(a) ==
    CASE a = "MARK_RECONCILIATION_REQUIRED" -> "RECONCILIATION_REQUIRED"
      [] a = "MARK_ACKED" -> "EXCHANGE_ACKED"
      [] a = "MARK_CANCELLED" -> "CANCELED"
      [] a = "MARK_REJECTED" -> "REJECTED"
      [] a = "MARK_FAILED" -> "FAILED"
      [] a = "SAFE_CANCEL_REQUEST" -> "CANCEL_REQUESTED"

repair_target(a) ==
    CASE a = "MARK_RECONCILIATION_REQUIRED" -> "RECONCILIATION_REQUIRED"
      [] a = "MARK_ACKED" -> "EXCHANGE_ACKED"
      [] a = "MARK_CANCELLED" -> "CANCELLED"
      [] a = "MARK_REJECTED" -> "REJECTED"
      [] a = "MARK_FAILED" -> "FAILED"
      [] a = "SAFE_CANCEL_REQUEST" -> "CANCEL_REQUESTED"

repair_status(a) ==
    CASE a = "MARK_ACKED" -> "ACKED"
      [] a = "MARK_CANCELLED" -> "CANCELLED"
      [] a = "MARK_REJECTED" -> "REJECTED"
      [] a = "MARK_FAILED" -> "FAILED"
      [] OTHER -> Null

repair_source(a) ==
    CASE a = "MARK_RECONCILIATION_REQUIRED" -> "OPERATOR_MARK_RECONCILIATION_REQUIRED"
      [] a = "SAFE_CANCEL_REQUEST" -> "API_CANCEL"
      [] OTHER -> "REST_RECONCILIATION"

(* The handlers only ever pass an action with its own target, so the       *)
(* validator's tests of `next' against the action cannot fail; what is     *)
(* left depends on the previous state.                                     *)
validate_testnet_repair_transition(a, p) ==
    /\ p # "FILLED"
    /\ a = "MARK_RECONCILIATION_REQUIRED" => ~is_terminal(p) \/ p = "FAILED"
    /\ a = "MARK_ACKED" =>
          p \in {"ORDER_SUBMIT_REQUESTED", "NEW", "RECONCILIATION_REQUIRED",
                 "UNKNOWN_EXCHANGE_STATE", "FAILED"}
=============================================================================
