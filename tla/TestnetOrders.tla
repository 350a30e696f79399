---------------------------- MODULE TestnetOrders ----------------------------
(***************************************************************************)
(* The testnet order lifecycle as a concurrent system.  One row of the     *)
(* table exchange_testnet_orders is read and written by                    *)
(*   - the submit handlers of the API,                                     *)
(*   - its cancel, GET and repair handlers,                                *)
(*   - the private-stream worker, a process of its own,                    *)
(*   - reconciliation runs,                                                *)
(* and every one of them reads the row, awaits the exchange or another     *)
(* query, checks the transition against the row IT READ, and then writes   *)
(* the row without comparing it again.  Each action below is what runs     *)
(* between two such await points.  The exchange is external: it places,    *)
(* fills, cancels and expires orders and reports what it does on a stream  *)
(* that delivers in order while it is connected and loses everything else. *)
(***************************************************************************)
EXTENDS TestnetLifecycle, Naturals, Sequences, FiniteSets

CONSTANTS
    Orders,     \* client order ids; one for each correlation id
    Submits,    \* submit requests; two of them may carry one correlation id
    Requests,   \* cancel, GET and repair requests
    Ops,        \* the kinds of request that are made
    Placements, \* the states in which the exchange may acknowledge an order
    Switchings, \* what operators do to the kill switch
    Runs,       \* reconciliation runs
    Limit,      \* the most orders one run lists
    MaxWire     \* bound: the exchange is quiet while so many reports wait

Op == {"CANCEL", "GET"} \cup RepairAction

ASSUME InputsAssumption ==
    /\ Ops \subseteq Op
    /\ Placements \subseteq ExchangeOrderState
    /\ Switchings \subseteq BOOLEAN
ASSUME BoundsAssumption == MaxWire \in Nat /\ Limit \in Nat
ASSUME OrdersAssumption == IsFiniteSet(Orders) /\ Null \notin Orders

VARIABLES
    kill_switch,    \* system_state.kill_switch_enabled
    row,            \* exchange_testnet_orders, by client_order_id
    last,           \* the latest lifecycle event of each order
    exch,           \* the exchange's own state of each order
    wire,           \* execution reports sent and not yet taken
    stream,         \* the private-stream worker
    sub,            \* the submit handlers
    req,            \* the cancel, GET and repair handlers
    run,            \* the reconciliation runs
    summary,        \* what each run has counted
    placed,         \* history: how often each order was placed
    marked,         \* history: orders an operator explicitly marked
    guessed,        \* history: orders whose cancel was answered with an unknown word
    inflight        \* history: submits admitted when the kill switch went on

db    == <<row, last>>
recon == <<run, summary>>
hist  == <<placed, marked, guessed, inflight>>
vars  == <<kill_switch, row, last, exch, wire, stream, sub, req, run, summary,
           placed, marked, guessed, inflight>>

Absent == [status |-> Null, state |-> Null, ack |-> Null, payload |-> Null]
Row == [status  : LocalStatus \cup {Null},
        state   : TestnetExecutionState \cup {Null},
        ack     : ExchangeOrderState \cup {Null, "UNKNOWN"},
        payload : ExchangeExecutionStatus \cup {Null, "FORCE"}]
exists(o) == row[o].state # Null

NoEvent == [prev |-> Null, next |-> Null, source |-> Null]
Event == [prev   : TestnetExecutionState \cup {Null},
          next   : TestnetExecutionState \cup {Null},
          source : TransitionSource \cup {Null}]

Report == [order : Orders, status : ExchangeExecutionStatus]
NoReport == [order |-> Null, status |-> Null]
Reply == ExchangeOrderState \cup {Null, "ERR", "MISSING", "UNKNOWN"}

NoRequest(pc) == [pc |-> pc, op |-> Null, order |-> Null, force |-> FALSE,
                  snap |-> Absent, reply |-> Null]

NoneChecked(n) ==
    [listed |-> n, checked |-> 0, matched |-> 0, mismatched |-> 0, unknown |-> 0]

Init ==
    /\ kill_switch = FALSE
    /\ row = [o \in Orders |-> Absent]
    /\ last = [o \in Orders |-> NoEvent]
    /\ exch = [o \in Orders |-> Null]
    /\ wire = <<>>
    /\ stream = [pc |-> "down", report |-> NoReport, snap |-> Absent]
    /\ sub = [s \in Submits |-> [pc |-> "idle", order |-> Null, reply |-> Null]]
    /\ req = [r \in Requests |-> NoRequest("idle")]
    /\ run = [k \in Runs |->
                [pc |-> "idle", todo |-> {}, order |-> Null, reply |-> Null,
                 snap |-> [o \in Orders |-> Absent]]]
    /\ summary = [k \in Runs |-> NoneChecked(0)]
    /\ placed = [o \in Orders |-> 0]
    /\ marked = {}
    /\ guessed = {}
    /\ inflight = {}

-----------------------------------------------------------------------------
(* The one write every handler ends in: a transaction that appends a       *)
(* lifecycle event and overwrites the row, whatever the row now holds.     *)
coalesce(new, old) == IF new = Null THEN old ELSE new

(* Variant: the update survives when the event is lost (no transaction). *)
append_lifecycle_event_and_update_order_split(o, prev, next, source, status, payload, ack) ==
    /\ row' = [row EXCEPT ![o] =
                 [status  |-> coalesce(status, row[o].status),
                  state   |-> next,
                  ack     |-> coalesce(ack, row[o].ack),
                  payload |-> coalesce(payload, row[o].payload)]]
    /\ \/ last' = [last EXCEPT ![o] = [prev |-> prev, next |-> next, source |-> source]]
       \/ UNCHANGED last

append_lifecycle_event_and_update_order(o, prev, next, source, status, payload, ack) ==
    /\ row' = [row EXCEPT ![o] =
                 [status  |-> coalesce(status, row[o].status),
                  state   |-> next,
                  ack     |-> coalesce(ack, row[o].ack),
                  payload |-> coalesce(payload, row[o].payload)]]
    /\ last' = [last EXCEPT ![o] = [prev |-> prev, next |-> next, source |-> source]]

(* A transition from the row a caller read: refused when the validator     *)
(* refuses it, and otherwise written.                                      *)
(* Variant: the validator is not asked. *)
append_testnet_lifecycle_transition_unchecked(o, snap, next, source, status, payload, ack) ==
    append_lifecycle_event_and_update_order(
        o, snap.state, next, source, status, payload, ack)

append_testnet_lifecycle_transition(o, snap, next, source, status, payload, ack) ==
    IF validate_testnet_transition(snap.state, next)
    THEN append_lifecycle_event_and_update_order(
            o, snap.state, next, source, status, payload, ack)
    ELSE UNCHANGED db

(* The stream and reconciliation write RECONCILIATION_REQUIRED instead of  *)
(* a transition the validator refuses.                                     *)
(* Variants: the validator is not asked; what it refuses is dropped. *)
append_or_flag_unchecked(o, snap, next, source, status, payload) ==
    append_lifecycle_event_and_update_order(
        o, snap.state, next, source, status, payload, Null)

append_or_flag_dropping(o, snap, next, source, status, payload) ==
    append_testnet_lifecycle_transition(
        o, snap, next, source, status, payload, Null)

append_or_flag(o, snap, next, source, status, payload) ==
    append_lifecycle_event_and_update_order(
        o, snap.state,
        IF validate_testnet_transition(snap.state, next)
        THEN next ELSE "RECONCILIATION_REQUIRED",
        source, status, payload, Null)

-----------------------------------------------------------------------------
(* The exchange (external). *)

exchange_final(x) == x \in {"FILLED", "CANCELED", "REJECTED", "EXPIRED"}

exchange_moves(x) ==
    CASE x = "NEW" -> {"PARTIALLY_FILLED", "FILLED", "EXPIRED"}
      [] x = "PARTIALLY_FILLED" -> {"PARTIALLY_FILLED", "FILLED", "EXPIRED"}
      [] x = "PENDING_CANCEL" -> {"CANCELED", "FILLED"}
      [] OTHER -> {}

exchange_cancels(x) ==
    IF x \in {"NEW", "PARTIALLY_FILLED"} THEN {"CANCELED", "PENDING_CANCEL"} ELSE {}

reports_of(x) == IF x = "EXPIRED" THEN {"EXPIRED", "EXPIRED_IN_MATCH"} ELSE {x}

(* The answers to a call that finds an order in state x: its state, a word *)
(* the parser does not know, or an error.                                  *)
answers_of(x) == IF x = Null THEN {"ERR"} ELSE {x, "UNKNOWN", "ERR"}

(* A report of o's new state, lost unless the stream is connected. *)
report(o, x) ==
    \E w \in reports_of(x) :
        wire' = IF stream.pc = "down" THEN wire
                ELSE Append(wire, [order |-> o, status |-> w])

ExchangeMoves(o) ==
    /\ Len(wire) < MaxWire
    /\ \E x \in exchange_moves(exch[o]) :
          /\ exch' = [exch EXCEPT ![o] = x]
          /\ report(o, x)
    /\ UNCHANGED <<kill_switch, db, stream, sub, req, recon, hist>>

(* A report whose status the parser does not know. *)
ExchangeReportsUnknown(o) ==
    /\ Len(wire) < MaxWire
    /\ exch[o] # Null
    /\ stream.pc # "down"
    /\ wire' = Append(wire, [order |-> o, status |-> "UNKNOWN"])
    /\ UNCHANGED <<kill_switch, db, exch, stream, sub, req, recon, hist>>

-----------------------------------------------------------------------------
(* The operator's kill switch. *)

set_kill_switch_state(on) ==
    /\ kill_switch' = on
    /\ inflight' = IF on
                   THEN {s \in Submits :
                           sub[s].pc \in {"admitted", "inserted", "requested"}}
                   ELSE {}
    /\ UNCHANGED <<db, exch, wire, stream, sub, req, recon, placed, marked, guessed>>

-----------------------------------------------------------------------------
(* The submit handlers. *)

sub_goes(s, pc, o, reply) ==
    sub' = [sub EXCEPT ![s] = [pc |-> pc, order |-> o, reply |-> reply]]

sub_ends(s) == sub_goes(s, "done", Null, Null)

(* Confirmation, kill switch, approved risk decision and a well-formed     *)
(* order: the request is admitted, or answered without a trace in the row. *)
(* Variant: the kill switch is not read. *)
SubmitAdmitted_unguarded(s, o) ==
    /\ sub[s].pc = "idle"
    /\ sub_goes(s, "admitted", o, Null)
    /\ UNCHANGED <<kill_switch, db, exch, wire, stream, req, recon, hist>>

SubmitAdmitted(s, o) ==
    /\ sub[s].pc = "idle"
    /\ ~kill_switch
    /\ sub_goes(s, "admitted", o, Null)
    /\ UNCHANGED <<kill_switch, db, exch, wire, stream, req, recon, hist>>

SubmitRefused(s) ==
    /\ sub[s].pc = "idle"
    /\ sub_ends(s)
    /\ UNCHANGED <<kill_switch, db, exch, wire, stream, req, recon, hist>>

(* INSERT of the row; client_order_id is unique, and a second insert ends  *)
(* the request before it calls the exchange.                               *)
Inserted == [status |-> "SUBMIT_REQUESTED", state |-> "ORDER_SUBMIT_REQUESTED",
             ack |-> Null, payload |-> Null]

(* Variant: the insert is an upsert, and every request goes on. *)
SubmitInsert_upsert(s) ==
    /\ sub[s].pc = "admitted"
    /\ sub_goes(s, "inserted", sub[s].order, Null)
    /\ row' = [row EXCEPT ![sub[s].order] = Inserted]
    /\ UNCHANGED <<kill_switch, last, exch, wire, stream, req, recon, hist>>

SubmitInsert(s) ==
    /\ sub[s].pc = "admitted"
    /\ LET o == sub[s].order IN
       IF exists(o)
       THEN /\ sub_ends(s)
            /\ UNCHANGED row
       ELSE /\ sub_goes(s, "inserted", o, Null)
            /\ row' = [row EXCEPT ![o] = Inserted]
    /\ UNCHANGED <<kill_switch, last, exch, wire, stream, req, recon, hist>>

(* The first lifecycle event; its failure is ignored. *)
SubmitRecord(s) ==
    /\ sub[s].pc = "inserted"
    /\ \/ append_lifecycle_event_and_update_order(
             sub[s].order, Null, "ORDER_SUBMIT_REQUESTED", "API_SUBMIT",
             "SUBMIT_REQUESTED", Null, Null)
       \/ UNCHANGED db
    /\ sub_goes(s, "requested", sub[s].order, Null)
    /\ UNCHANGED <<kill_switch, exch, wire, stream, req, recon, hist>>

(* The call: the exchange places the order and answers, places it and the  *)
(* answer is lost, or the call fails before anything is placed.            *)
SubmitCall(s) ==
    /\ sub[s].pc = "requested"
    /\ LET o == sub[s].order IN
       \/ \E x \in Placements : \E reply \in answers_of(x) :
             /\ exch' = [exch EXCEPT ![o] = x]
             /\ report(o, x)
             /\ placed' = [placed EXCEPT ![o] = @ + 1]
             /\ sub_goes(s, "replied", o, reply)
       \/ /\ sub_goes(s, "replied", o, "ERR")
          /\ UNCHANGED <<exch, wire, placed>>
    /\ UNCHANGED <<kill_switch, db, stream, req, recon, marked, guessed, inflight>>

(* The acknowledgement is checked against the row as it was inserted.      *)
SubmitReply(s) ==
    /\ sub[s].pc = "replied"
    /\ LET o == sub[s].order
           w == sub[s].reply
           x == into_exchange_ack(w)
       IN IF w = "ERR" THEN UNCHANGED db
          ELSE append_testnet_lifecycle_transition(
                  o, Inserted,
                  map_exchange_ack(x), "EXCHANGE_ACK", ack_local_status(x), Null, w)
    /\ sub_ends(s)
    /\ UNCHANGED <<kill_switch, exch, wire, stream, req, recon, hist>>

(* The API process stops, the client hangs up, or a query fails. *)
SubmitAborted(s) ==
    /\ sub[s].pc \notin {"idle", "done"}
    /\ sub_ends(s)
    /\ UNCHANGED <<kill_switch, db, exch, wire, stream, req, recon, hist>>
-----------------------------------------------------------------------------
(* The cancel, GET and repair handlers. *)

req_goes(r, pc, snap, reply) ==
    req' = [req EXCEPT ![r] =
              [pc |-> pc, op |-> req[r].op, order |-> req[r].order,
               force |-> req[r].force, snap |-> snap, reply |-> reply]]

req_ends(r) == req' = [req EXCEPT ![r] = NoRequest("done")]

(* A well-formed, authorised request reads the row; 404 without one.       *)
(* Only MARK_CANCELLED depends on the force flag.                          *)
RequestRead(r, op, o, force) ==
    /\ req[r].pc = "idle"
    /\ IF exists(o)
       THEN req' = [req EXCEPT ![r] =
                      [pc |-> "read", op |-> op, order |-> o, force |-> force,
                       snap |-> row[o], reply |-> Null]]
       ELSE req_ends(r)
    /\ UNCHANGED <<kill_switch, db, exch, wire, stream, sub, recon, hist>>

(* CANCEL_REQUESTED, if the validator accepts it and the write succeeds;   *)
(* the exchange is called either way.                                      *)
CancelMark(r) ==
    /\ req[r].pc = "read" /\ req[r].op = "CANCEL"
    /\ LET o == req[r].order IN
       \/ /\ append_testnet_lifecycle_transition(
                o, req[r].snap, "CANCEL_REQUESTED", "API_CANCEL", Null, Null, Null)
          /\ req_goes(r, "marked",
                IF validate_testnet_transition(req[r].snap.state, "CANCEL_REQUESTED")
                THEN row'[o] ELSE req[r].snap, Null)
       \/ /\ UNCHANGED db
          /\ req_goes(r, "marked", req[r].snap, Null)
    /\ UNCHANGED <<kill_switch, exch, wire, stream, sub, recon, hist>>

(* SAFE_CANCEL_REQUEST asks the repair validator, and stops if it refuses. *)
SafeCancelMark(r) ==
    /\ req[r].pc = "read" /\ req[r].op = "SAFE_CANCEL_REQUEST"
    /\ LET o == req[r].order
           p == req[r].snap.state
       IN IF validate_testnet_repair_transition("SAFE_CANCEL_REQUEST", p)
          THEN /\ append_lifecycle_event_and_update_order(
                     o, p, repair_target("SAFE_CANCEL_REQUEST"),
                     repair_source("SAFE_CANCEL_REQUEST"), Null, "FORCE", Null)
               /\ req_goes(r, "marked", row'[o], Null)
          ELSE /\ UNCHANGED db
               /\ req_ends(r)
    /\ UNCHANGED <<kill_switch, exch, wire, stream, sub, recon, hist>>

(* The cancel call: it takes effect and is answered, takes effect and the  *)
(* answer is lost, or changes nothing and is refused or told the state.    *)
CancelCall(r) ==
    /\ req[r].pc = "marked" /\ req[r].op \in {"CANCEL", "SAFE_CANCEL_REQUEST"}
    /\ LET o == req[r].order IN
       \/ \E x \in exchange_cancels(exch[o]) : \E reply \in answers_of(x) :
             /\ exch' = [exch EXCEPT ![o] = x]
             /\ report(o, x)
             /\ req_goes(r, "replied", req[r].snap, reply)
       \/ \E reply \in answers_of(exch[o]) :
             /\ req_goes(r, "replied", req[r].snap, reply)
             /\ UNCHANGED <<exch, wire>>
    /\ UNCHANGED <<kill_switch, db, stream, sub, recon, hist>>

CancelReply(r) ==
    /\ req[r].pc = "replied" /\ req[r].op \in {"CANCEL", "SAFE_CANCEL_REQUEST"}
    /\ LET w == req[r].reply
           x == into_exchange_cancel_ack(w)
       IN /\ IF w = "ERR" THEN UNCHANGED db
             ELSE append_testnet_lifecycle_transition(
                     req[r].order, req[r].snap, map_cancel_ack(x),
                     "EXCHANGE_CANCEL_ACK", ack_local_status(x), w, Null)
          /\ guessed' = IF w = "UNKNOWN" THEN guessed \cup {req[r].order} ELSE guessed
    /\ req_ends(r)
    /\ UNCHANGED <<kill_switch, exch, wire, stream, sub, recon, placed, marked, inflight>>

(* GET and MANUAL_RECHECK ask the exchange for the order's status; here a  *)
(* word the parser does not know is an error (into_exchange_status).       *)
StatusCall(r) ==
    /\ req[r].pc = "read" /\ req[r].op \in {"GET", "MANUAL_RECHECK"}
    /\ \E reply \in {"ERR", exch[req[r].order]} \ {Null} :
          req_goes(r, "replied", req[r].snap, reply)
    /\ UNCHANGED <<kill_switch, db, exch, wire, stream, sub, recon, hist>>

StatusReply(r) ==
    /\ req[r].pc = "replied" /\ req[r].op \in {"GET", "MANUAL_RECHECK"}
    /\ LET x == req[r].reply IN
       IF x = "ERR" THEN UNCHANGED db
       ELSE append_testnet_lifecycle_transition(
               req[r].order, req[r].snap, map_rest_reconciliation_status(x),
               "REST_RECONCILIATION",
               IF req[r].op = "GET" THEN x ELSE local_testnet_status(x), x, Null)
    /\ req_ends(r)
    /\ UNCHANGED <<kill_switch, exch, wire, stream, sub, recon, hist>>

order_has_cancelled_exchange_evidence(s) ==
    \/ s.status = "CANCELLED"
    \/ s.payload = "CANCELED"
    \/ s.ack = "CANCELED"

(* An explicit mark: no call to the exchange, only the repair validator.   *)
RepairMark(r) ==
    /\ req[r].pc = "read" /\ req[r].op \in MarkAction
    /\ LET o  == req[r].order
           op == req[r].op
           p  == req[r].snap.state
       IN IF /\ op = "MARK_CANCELLED" =>
                   req[r].force \/ order_has_cancelled_exchange_evidence(req[r].snap)
             /\ validate_testnet_repair_transition(op, p)
          THEN /\ append_lifecycle_event_and_update_order(
                     o, p, repair_target(op), repair_source(op), repair_status(op),
                     IF op = "MARK_RECONCILIATION_REQUIRED" THEN Null ELSE "FORCE", Null)
               /\ marked' = IF is_terminal(repair_target(op))
                            THEN marked \cup {o} ELSE marked
          ELSE UNCHANGED <<db, marked>>
    /\ req_ends(r)
    /\ UNCHANGED <<kill_switch, exch, wire, stream, sub, recon, placed, guessed, inflight>>

RequestAborted(r) ==
    /\ req[r].pc \notin {"idle", "done"}
    /\ req_ends(r)
    /\ UNCHANGED <<kill_switch, db, exch, wire, stream, sub, recon, hist>>

-----------------------------------------------------------------------------
(* The private-stream worker: it handles one report at a time. *)

StreamConnect ==
    /\ stream.pc = "down"
    /\ stream' = [stream EXCEPT !.pc = "up"]
    /\ UNCHANGED <<kill_switch, db, exch, wire, sub, req, recon, hist>>

(* The socket closes or fails, the stream goes stale, a keepalive fails, a *)
(* query fails while a report is handled, or the process stops.            *)
StreamLost ==
    /\ stream.pc # "down"
    /\ stream' = [pc |-> "down", report |-> NoReport, snap |-> Absent]
    /\ wire' = <<>>
    /\ UNCHANGED <<kill_switch, db, exch, sub, req, recon, hist>>

(* A report of an order without a row is dropped. *)
StreamTake ==
    /\ stream.pc = "up" /\ wire # <<>>
    /\ wire' = Tail(wire)
    /\ LET o == Head(wire).order IN
       stream' = IF exists(o)
                 THEN [pc |-> "handling", report |-> Head(wire), snap |-> row[o]]
                 ELSE stream
    /\ UNCHANGED <<kill_switch, db, exch, sub, req, recon, hist>>

StreamApply ==
    /\ stream.pc = "handling"
    /\ LET x == stream.report.status IN
       append_or_flag(stream.report.order, stream.snap,
                      map_private_execution_report(x), "PRIVATE_STREAM", x, x)
    /\ stream' = [pc |-> "up", report |-> NoReport, snap |-> Absent]
    /\ UNCHANGED <<kill_switch, exch, wire, sub, req, recon, hist>>

-----------------------------------------------------------------------------
(* Reconciliation runs. *)

DefaultFilter == {"ACKED", "NEW", "PARTIALLY_FILLED"}

(* What a run makes of one order: Null, or the kind of mismatch. *)
evaluate_order_reconciliation(s, x) ==
    LET local == normalize_local_status(s.status)
        other == normalize_local_status(local_testnet_status(x))
    IN CASE local_testnet_status(x) = Null -> "UNKNOWN_EXCHANGE_STATE"
         [] local_testnet_status(x) # Null /\ s.status = "SUBMIT_REQUESTED"
              /\ s.ack # Null -> "ACK_WITHOUT_STATUS"
         [] OTHER -> IF local = "CANCELLED" /\ other # "CANCELLED"
                     THEN "CANCEL_NOT_CONFIRMED"
                     ELSE IF local = other THEN Null ELSE "STATUS_MISMATCH"

run_goes(k, pc, todo, o, reply, snap) ==
    run' = [run EXCEPT ![k] = [pc |-> pc, todo |-> todo, order |-> o,
                               reply |-> reply, snap |-> snap]]

(* All orders are read at once, by status (an empty filter takes all).     *)
RunList(k, filter) ==
    /\ run[k].pc = "idle"
    /\ LET listed == {o \in Orders : exists(o) /\ (filter = {} \/ row[o].status \in filter)}
       IN \E T \in SUBSET listed :
            /\ Cardinality(T) = IF Cardinality(listed) <= Limit
                                THEN Cardinality(listed) ELSE Limit
            /\ run_goes(k, "listed", T, Null, Null, row)
            /\ summary' = [summary EXCEPT ![k] = NoneChecked(Cardinality(T))]
    /\ UNCHANGED <<kill_switch, db, exch, wire, stream, sub, req, hist>>

RunCall(k) ==
    /\ run[k].pc = "listed"
    /\ \E o \in run[k].todo :
       \E reply \in {"ERR", IF exch[o] = Null THEN "MISSING" ELSE exch[o]} :
          run_goes(k, "replied", run[k].todo, o, reply, run[k].snap)
    /\ UNCHANGED <<kill_switch, db, exch, wire, stream, sub, req, summary, hist>>

(* One order counted: kind is Null for a match. *)
(* Variant: an order the exchange does not know is not counted as checked. *)
counted_found(c, kind) ==
    [listed |-> c.listed,
     checked |-> c.checked + (IF kind = "EXCHANGE_ORDER_MISSING" THEN 0 ELSE 1),
     matched |-> c.matched + (IF kind = Null THEN 1 ELSE 0),
     mismatched |-> c.mismatched + (IF kind = Null THEN 0 ELSE 1),
     unknown |-> c.unknown + (IF kind \in {"EXCHANGE_ORDER_MISSING", "UNKNOWN_EXCHANGE_STATE"}
                              THEN 1 ELSE 0)]

counted(c, kind) ==
    [listed |-> c.listed,
     checked |-> c.checked + 1,
     matched |-> c.matched + (IF kind = Null THEN 1 ELSE 0),
     mismatched |-> c.mismatched + (IF kind = Null THEN 0 ELSE 1),
     unknown |-> c.unknown + (IF kind \in {"EXCHANGE_ORDER_MISSING", "UNKNOWN_EXCHANGE_STATE"}
                              THEN 1 ELSE 0)]

(* The loop goes on with the next order. *)
order_done(k, kind) ==
    /\ run_goes(k, "listed", run[k].todo \ {run[k].order}, Null, Null,
                [run[k].snap EXCEPT ![run[k].order] = Absent])
    /\ summary' = [summary EXCEPT ![k] = counted(summary[k], kind)]

(* The answer for one order: written through the validator, or flagged; an *)
(* order the exchange does not know is only counted; any other error ends  *)
(* the run as FAILED.                                                      *)
RunReply(k) ==
    /\ run[k].pc = "replied"
    /\ LET o == run[k].order
           x == run[k].reply
           s == run[k].snap[o]
       IN \/ /\ x \in ExchangeOrderState
             /\ append_or_flag(o, s, map_rest_reconciliation_status(x),
                   "REST_RECONCILIATION",
                   coalesce(local_testnet_status(x), s.status), x)
             /\ order_done(k, evaluate_order_reconciliation(s, x))
          \/ /\ x = "MISSING"
             /\ UNCHANGED db
             /\ order_done(k, "EXCHANGE_ORDER_MISSING")
          \/ /\ x = "ERR"
             /\ UNCHANGED <<db, summary>>
             /\ run_goes(k, "failed", run[k].todo, Null, Null, run[k].snap)
    /\ UNCHANGED <<kill_switch, exch, wire, stream, sub, req, hist>>

RunComplete(k) ==
    /\ run[k].pc = "listed" /\ run[k].todo = {}
    /\ run_goes(k, "completed", {}, Null, Null, run[k].snap)
    /\ UNCHANGED <<kill_switch, db, exch, wire, stream, sub, req, summary, hist>>

(* A query fails or the process stops: the run's record stays RUNNING. *)
RunAborted(k) ==
    /\ run[k].pc \in {"listed", "replied"}
    /\ run_goes(k, "abandoned", run[k].todo, Null, Null, run[k].snap)
    /\ UNCHANGED <<kill_switch, db, exch, wire, stream, sub, req, summary, hist>>

-----------------------------------------------------------------------------
Submit(s) ==
    \/ \E o \in Orders : SubmitAdmitted(s, o)
    \/ SubmitRefused(s)
    \/ SubmitInsert(s)
    \/ SubmitRecord(s)
    \/ SubmitCall(s)
    \/ SubmitReply(s)
    \/ SubmitAborted(s)

Request(r) ==
    \/ \E op \in Ops, o \in Orders : RequestRead(r, op, o, FALSE)
    \/ \E o \in Orders : "MARK_CANCELLED" \in Ops /\ RequestRead(r, "MARK_CANCELLED", o, TRUE)
    \/ CancelMark(r)
    \/ SafeCancelMark(r)
    \/ CancelCall(r)
    \/ CancelReply(r)
    \/ StatusCall(r)
    \/ StatusReply(r)
    \/ RepairMark(r)
    \/ RequestAborted(r)

Stream ==
    \/ StreamConnect
    \/ StreamLost
    \/ StreamTake
    \/ StreamApply

Reconcile(k) ==
    \/ \E filter \in {DefaultFilter, {}} : RunList(k, filter)
    \/ RunCall(k)
    \/ RunReply(k)
    \/ RunComplete(k)
    \/ RunAborted(k)

Next ==
    \/ \E s \in Submits : Submit(s)
    \/ \E r \in Requests : Request(r)
    \/ \E k \in Runs : Reconcile(k)
    \/ Stream
    \/ \E o \in Orders : ExchangeMoves(o) \/ ExchangeReportsUnknown(o)
    \/ \E on \in Switchings : set_kill_switch_state(on)

Spec == Init /\ [][Next]_vars
-----------------------------------------------------------------------------
(* Properties. *)

DbTypeOK == row \in [Orders -> Row] /\ last \in [Orders -> Event]

ExchangeTypeOK ==
    /\ exch \in [Orders -> ExchangeOrderState \cup {Null}]
    /\ wire \in Seq(Report)

StreamTypeOK ==
    /\ stream \in [pc : {"down", "up", "handling"},
                   report : Report \cup {NoReport}, snap : Row]
    /\ stream.pc = "handling" => stream.report \in Report

SubTypeOK ==
    /\ sub \in [Submits -> [pc : {"idle", "admitted", "inserted", "requested",
                                  "replied", "done"},
                            order : Orders \cup {Null}, reply : Reply]]
    /\ \A s \in Submits :
          /\ sub[s].pc \notin {"idle", "done"} => sub[s].order \in Orders
          /\ sub[s].pc = "replied" =>
                sub[s].reply \in ExchangeOrderState \cup {"ERR", "UNKNOWN"}

(* Only an answer to a cancel may be a word the parser does not know. *)
Unparsed(op) == IF op \in {"CANCEL", "SAFE_CANCEL_REQUEST"} THEN {"UNKNOWN"} ELSE {}

ReqTypeOK ==
    /\ req \in [Requests -> [pc : {"idle", "read", "marked", "replied", "done"},
                             op : Op \cup {Null}, order : Orders \cup {Null},
                             force : BOOLEAN, snap : Row, reply : Reply]]
    /\ \A r \in Requests :
          /\ req[r].pc \notin {"idle", "done"} => req[r].order \in Orders /\ req[r].op \in Op
          /\ req[r].pc = "replied" =>
                req[r].reply \in ExchangeOrderState \cup {"ERR"} \cup Unparsed(req[r].op)

RunTypeOK ==
    /\ run \in [Runs -> [pc : {"idle", "listed", "replied", "completed", "failed",
                               "abandoned"},
                         todo : SUBSET Orders, order : Orders \cup {Null},
                         reply : Reply, snap : [Orders -> Row]]]
    /\ summary \in [Runs -> [listed : Nat, checked : Nat, matched : Nat,
                             mismatched : Nat, unknown : Nat]]
    /\ \A k \in Runs : run[k].pc = "replied" => run[k].order \in run[k].todo

HistoryTypeOK ==
    /\ kill_switch \in BOOLEAN
    /\ placed \in [Orders -> Nat]
    /\ marked \subseteq Orders
    /\ guessed \subseteq Orders
    /\ inflight \subseteq Submits

(* Every variable has its type; a handler past its first step has an order *)
(* and, once the exchange answered, an answer.                             *)
TypeOK ==
    /\ DbTypeOK
    /\ ExchangeTypeOK
    /\ StreamTypeOK
    /\ SubTypeOK
    /\ ReqTypeOK
    /\ RunTypeOK
    /\ HistoryTypeOK

(* The words for an order that is over, as the exchange says them.  Proven *)
(* is what holds of a word the exchange sent, Truthful of a word in a row. *)
OverWords ==
    {"FILLED", "CANCELED", "CANCELLED", "REJECTED", "EXPIRED", "EXPIRED_IN_MATCH"}

exchange_word(w) ==
    IF w = "CANCELLED" THEN "CANCELED"
    ELSE IF w = "EXPIRED_IN_MATCH" THEN "EXPIRED" ELSE w

Proven(o, w) == w \in OverWords => exch[o] = exchange_word(w)

Truthful(o, w) ==
    \/ Proven(o, w)
    \/ w # "FILLED" /\ o \in marked
    \/ w \in {"CANCELED", "CANCELLED"} /\ o \in guessed

(* However many requests carry one correlation id, and however they        *)
(* interleave, the exchange is asked to place the order at most once, and  *)
(* only when its row is already persisted (the unique client_order_id of   *)
(* insert_exchange_testnet_order, submit_exchange_testnet_order_request).  *)
PlacedOnce ==
    \A o \in Orders : placed[o] <= 1 /\ (exch[o] # Null => exists(o))

(* A row that says an order is over is right about it, whichever stale     *)
(* acknowledgement, report or status was written last.  FILLED always      *)
(* means a filled order.  A rejected or expired order, in execution_state  *)
(* or in the status column, may be something else on the exchange only     *)
(* where an operator declared it over by an explicit mark; a cancelled one *)
(* also where its cancel was answered with a status the parser does not    *)
(* know, which into_exchange_cancel_ack takes for CANCELED (every writer   *)
(* goes through the four map_* tables).                                    *)
TerminalIsTrue ==
    \A o \in Orders : Truthful(o, row[o].state) /\ Truthful(o, row[o].status)

(* The latest lifecycle event tells the row's state: the event and the     *)
(* update are one transaction, and no writer changes execution_state       *)
(* without an event.                                                       *)
EventMatchesRow ==
    \A o \in Orders : last[o] # NoEvent => exists(o) /\ row[o].state = last[o].next

(* The counters of a run add up at every point of its loop, so a COMPLETED *)
(* run has checked every order it listed (reconcile_testnet_orders).       *)
SummaryAdds ==
    \A k \in Runs :
        /\ summary[k].checked = summary[k].matched + summary[k].mismatched
        /\ summary[k].unknown <= summary[k].mismatched
        /\ summary[k].checked + Cardinality(run[k].todo) = summary[k].listed
        /\ run[k].pc = "completed" => summary[k].checked = summary[k].listed

(* A writer whose view of the row is current moves a terminal order only   *)
(* to a state that asks for reconciliation; an operator's repair may       *)
(* reopen every terminal state but FILLED.                                 *)
FreshWritesKeepTerminal ==
    [][\A o \in Orders :
         /\ is_terminal(row[o].state) /\ row'[o].state # row[o].state
         /\ last'[o].prev = row[o].state
         => \/ requires_reconciliation(row'[o].state)
            \/ /\ row[o].state # "FILLED"
               /\ \E r \in Requests : /\ req'[r] # req[r]
                                      /\ req[r].op \in RepairAction \ {"MANUAL_RECHECK"}]_vars

(* While the kill switch is on, only submissions that had passed their     *)
(* check before it went on still reach the exchange                        *)
(* (ensure_testnet_submission_allowed reads it once, before the insert).   *)
KillSwitchDrains ==
    [][\A o \in Orders : kill_switch /\ placed'[o] # placed[o] =>
          \E s \in inflight : sub[s].order = o /\ sub[s].pc = "requested"]_vars

-----------------------------------------------------------------------------
(* The inductive strengthening of PlacedOnce, EventMatchesRow and          *)
(* TerminalIsTrue, proved in TestnetOrders_proof.                          *)

(* Only the request that inserted a row calls the exchange for it, and     *)
(* when it does nothing has been placed.                                   *)
OneCaller ==
    \A s \in Submits :
        /\ sub[s].pc \in {"inserted", "requested", "replied"} => exists(sub[s].order)
        /\ sub[s].pc \in {"inserted", "requested"} =>
              /\ placed[sub[s].order] = 0
              /\ exch[sub[s].order] = Null
              /\ \A t \in Submits \ {s} :
                    sub[t].pc \in {"inserted", "requested"} =>
                        sub[t].order # sub[s].order

NothingPlacedWithoutRow ==
    \A o \in Orders : ~exists(o) => placed[o] = 0 /\ exch[o] = Null

(* What the exchange has said of an order that is over is still so when it *)
(* is acted on, however long it was held.                                  *)
WireEvidence ==
    \A i \in 1 .. Len(wire) : Proven(wire[i].order, wire[i].status)

StreamEvidence ==
    stream.pc = "handling" =>
        /\ exists(stream.report.order)
        /\ Proven(stream.report.order, stream.report.status)

SubEvidence ==
    \A s \in Submits : sub[s].pc = "replied" => Proven(sub[s].order, sub[s].reply)

ReqEvidence ==
    \A r \in Requests :
        /\ req[r].pc \notin {"idle", "done"} => exists(req[r].order)
        /\ req[r].pc = "replied" => Proven(req[r].order, req[r].reply)

RunEvidence ==
    \A k \in Runs :
        /\ \A o \in run[k].todo :
              exists(o) /\ Truthful(o, run[k].snap[o].status)
        /\ run[k].pc = "replied" => Proven(run[k].order, run[k].reply)

IInv ==
    /\ TypeOK
    /\ PlacedOnce
    /\ EventMatchesRow
    /\ TerminalIsTrue
    /\ OneCaller
    /\ NothingPlacedWithoutRow
    /\ WireEvidence
    /\ StreamEvidence
    /\ SubEvidence
    /\ ReqEvidence
    /\ RunEvidence

(* While the kill switch is on, a submission on its way to the exchange    *)
(* was admitted before it went on (behind KillSwitchDrains).               *)
DrainEvidence ==
    kill_switch =>
        \A s \in Submits :
            sub[s].pc \in {"admitted", "inserted", "requested"} => s \in inflight

-----------------------------------------------------------------------------
(* Liveness.  The worker's loop keeps polling: a connected stream takes    *)
(* and applies the next report.  Nothing is assumed of operators, of the   *)
(* exchange or of the other handlers.                                      *)

LiveSpec == Spec /\ WF_vars(StreamTake) /\ WF_vars(StreamApply)

agrees(o) == exchange_word(row[o].state) = exch[o]

final_report_waits(o) ==
    /\ exchange_final(exch[o])
    /\ \E i \in 1 .. Len(wire) :
          /\ wire[i].order = o
          /\ wire[i].status \in reports_of(exch[o])

(* The report of an order's end is not lost on a connected stream: the row *)
(* comes to agree with the exchange, or asks for reconciliation, or the    *)
(* stream goes down first (handle_message flags what the validator         *)
(* refuses instead of dropping it).                                        *)
FinalReportsApplied ==
    \A o \in Orders :
        final_report_waits(o) ~>
            \/ agrees(o)
            \/ requires_reconciliation(row[o].state)
            \/ stream.pc = "down"

-----------------------------------------------------------------------------
(* What the documentation says, and the code does not keep. *)

(* docs/ARCHITECTURE.md:460, FILLED, CANCELLED, REJECTED and EXPIRED are   *)
(* terminal: a row in one of them is never made live again (the states     *)
(* that ask for reconciliation are let pass).                              *)
TerminalNeverReactivated ==
    [][\A o \in Orders :
         row[o].state \in {"FILLED", "CANCELLED", "REJECTED", "EXPIRED"} =>
            row'[o].state = row[o].state \/ requires_reconciliation(row'[o].state)]_vars

=============================================================================
