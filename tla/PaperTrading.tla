---------------------------- MODULE PaperTrading ----------------------------
(***************************************************************************)
(* The paper side of the API: the pipeline of one strategy pass            *)
(* (signal -> risk decision -> order -> accounting), the direct order and  *)
(* risk-evaluation handlers, the manual close and the mark to market, over *)
(* the tables they share.                                                  *)
(*                                                                         *)
(* A worker is one request.  It runs statement by statement: every await   *)
(* on the database is a step, a transaction is one step, and another       *)
(* worker may step in between.  A request can break off after any          *)
(* statement (process killed, connection lost, error returned): Break.     *)
(*                                                                         *)
(* Money is exact: a position keeps its cost (entry_price * quantity), so  *)
(* the weighted average of the code is an addition; a fill has quantity 1. *)
(* Fees and slippage are zero, as in both callers.  Time is reduced to the *)
(* comparisons the rules make: a signal is fresh or too old, the cooldown  *)
(* runs or has passed, the losses are all of the current day.  A pass that *)
(* is stopped before the signal (strategy disabled, timeframe, feed) or    *)
(* that finds no signal writes nothing modelled here and is no step.       *)
(***************************************************************************)
EXTENDS RiskEngine, FiniteSets, FiniteSetsExt, Sequences

CONSTANTS
    Workers, Signals, Symbols, Decisions, Orders, Positions, UserKeys,
    Prices,          \* prices of candles, orders and ticks
    SymbolOf,        \* SymbolOf[s]: the symbol of a signal
    Notional,        \* Notional[s]: suggested_notional of a signal
    Config,          \* the risk configuration
    InitialEquity,   \* DEFAULT_PAPER_ACCOUNT_INITIAL_EQUITY
    NoId,            \* an absent id
    MaxRequests      \* bound on the requests of a behaviour

ASSUME PaperAssumption ==
    /\ Prices \subseteq Nat \ {0}
    /\ IsFiniteSet(Positions) /\ IsFiniteSet(Orders)
    /\ SymbolOf \in [Signals -> Symbols]
    /\ Notional \in [Signals -> Nat]
    /\ InitialEquity \in Nat /\ MaxRequests \in Nat
    /\ ValidRiskConfig(Config)
    /\ NoId \notin Workers \cup Signals \cup Symbols \cup Decisions
    /\ NoId \notin Orders \cup Positions

VARIABLES
    kill,        \* system_state.kill_switch_enabled
    signals,     \* signals: not persisted, fresh or too old
    decisions,   \* risk_decisions.decision
    warned,      \* the approvals whose rationale shows the daily loss rule warning
    orders,      \* orders
    fills,       \* paper_fills.position_id by order
    positions,   \* paper_positions
    account,     \* the default row of paper_accounts
    journal,     \* paper_trade_journal, the pnl columns, newest group first
    pc, job,     \* where each worker is and what it was asked for
    acc, rows,   \* the account and the positions it has read or computed
    overlap,     \* two requests have been in progress at once (history)
    begun        \* how many requests have begun (history)

dbVars  == <<kill, signals, decisions, warned, orders, fills,
             positions, account, journal>>
vars == <<kill, signals, decisions, warned, orders, fills, positions,
          account, journal, pc, job, acc, rows, overlap, begun>>

-----------------------------------------------------------------------------
(* Rows.                                                                   *)

OrderStates == {"none", "PAPER_FILLED", "EXPIRED"}
Kinds == {"none", "pipeline", "evaluate", "order", "close", "mark"}
PCs == {"idle", "risk", "approved", "warned", "rejected", "create", "ensure",
        "account", "position", "upsert", "fill", "save", "journal", "commit",
        "mark"}

\* sells: the position a sell order closed, NoId for an order that is booked
\* as a buy (a direct order is, whatever side it names).
OrderOf(state, decision, key, sells) ==
    [state |-> state, decision |-> decision, key |-> key, sells |-> sells]

NoOrder == OrderOf("none", NoId, <<"none", NoId>>, NoId)

Row(status, symbol, quantity, cost, mark, realized) ==
    [status |-> status, symbol |-> symbol, quantity |-> quantity,
     cost |-> cost, mark_price |-> mark, realized_pnl |-> realized]

Absent == Row("absent", NoId, 0, 0, 0, 0)
NoRows == [p \in Positions |-> Absent]

Account(made, realized, unrealized) ==
    [made |-> made, realized_pnl |-> realized, unrealized_pnl |-> unrealized,
     current_equity |-> InitialEquity + realized + unrealized]

\* create_default_paper_account_if_missing.
DefaultAccount == Account(FALSE, 0, 0)

Job(kind, signal, symbol, decision, order, position, price) ==
    [kind |-> kind, signal |-> signal, symbol |-> symbol,
     decision |-> decision, order |-> order, position |-> position,
     price |-> price]

NoJob == Job("none", NoId, NoId, NoId, NoId, NoId, 0)

\* The keys a caller of create_order may send, any string: one of its own, or
\* the one a pass or a close derives from an id that exists.
CallerKeys ==
    {<<"user", k>> : k \in UserKeys}
    \cup {<<"pass", d>> : d \in {e \in Decisions : decisions[e] # "none"}}
    \cup {<<"close", p>> : p \in {q \in Positions : positions[q].status # "absent"}}

KeyUsed(key) == \E o \in Orders : orders[o].key = key
FreeOrders == {o \in Orders : orders[o].state = "none"}
FreeDecisions == {d \in Decisions : decisions[d] = "none"}

\* An id no row has and no request holds: Uuid::new_v4.
FreshPositions ==
    {p \in Positions : /\ positions[p].status = "absent"
                       /\ \A w \in Workers : rows[w][p].status = "absent"}

Open(p) == positions[p].status = "open"

-----------------------------------------------------------------------------
(* crates/accounting.                                                      *)

\* compute_unrealized_pnl: mark_price 0 is None.
Unrealized(row) ==
    IF row.mark_price = 0 THEN 0
    ELSE row.mark_price * row.quantity - row.cost

\* open_position_from_buy without an existing position.
OpenedRow(symbol, price) == Row("open", symbol, 1, price, 0, 0)

\* open_position_from_buy onto the position that was read.
IncreasedRow(row, price) ==
    Row("open", row.symbol, row.quantity + 1, row.cost + price,
        row.mark_price, row.realized_pnl)

\* compute_realized_pnl_for_close: the whole quantity at the exit price.
ClosePnl(row, price) == price * row.quantity - row.cost

\* Mutant: the close writes the status in the other case.
ClosedRowUpperCase(row, price) ==
    Row("CLOSED", row.symbol, 0, 0, price,
        row.realized_pnl + ClosePnl(row, price))

\* Mutant: the close forgets to realize the pnl on the position.
ClosedRowUnrealized(row, price) ==
    Row("closed", row.symbol, 0, 0, price, row.realized_pnl)

\* close_position for the full quantity: entry_price * 0 is no cost.
ClosedRow(row, price) ==
    Row("closed", row.symbol, 0, 0, price,
        row.realized_pnl + ClosePnl(row, price))

\* mark_positions_to_market, one position.
MarkedRow(row, price) ==
    Row(row.status, row.symbol, row.quantity, row.cost, price,
        row.realized_pnl)

-----------------------------------------------------------------------------
(* load_risk_state_snapshot.                                               *)

\* Mutant: the sum takes the winning rows.
LossesOfWinners(group) == {i \in DOMAIN group : group[i] > 0}

Losses(group) == {i \in DOMAIN group : group[i] < 0}

\* SUM(pnl) over the rows with pnl < 0, as a positive number.
GroupLoss(group) == SumFunction([k \in Losses(group) |-> -group[k]])
JournalLoss == SumFunction([i \in DOMAIN journal |-> GroupLoss(journal[i])])

AllLosses(i) == Cardinality(Losses(journal[i])) = Len(journal[i])
RowsBefore(i) == MapThenSumSet(LAMBDA k : Len(journal[k]), 1..(i - 1))

\* The leading run of negative rows.  The rows of one group have one
\* created_at and ORDER BY leaves their order open, so a group that holds
\* another row may end the run after any number of its losses.
ConsecutiveLosses ==
    LET ends == {i \in DOMAIN journal : ~AllLosses(i)}
    IN  IF ends = {} THEN {RowsBefore(Len(journal) + 1)}
        ELSE RowsBefore(Min(ends)) ..
             (RowsBefore(Min(ends)) + Cardinality(Losses(journal[Min(ends)])))

\* (loss / equity) * 100, None without an account or without equity.
LossPct ==
    {[loss |-> JournalLoss, equity |-> account.current_equity] :
        x \in {y \in {0} : account.made /\ account.current_equity > 0}}

\* The count asks for status 'OPEN'; the rows have 'open'.
OpenPositionsCount ==
    Cardinality({p \in Positions : positions[p].status = "OPEN"})

\* MAX(filled_at): None before the first filled order.  since is the time
\* that has passed, which is not modelled further.
SinceLastTrade(since) ==
    {x \in {since} : \E o \in Orders : orders[o].state = "PAPER_FILLED"}

\* What a query may give: a failure is no error but None (.ok().flatten()).
Asked(option) == {option, {}}

\* The snapshots load_risk_state_snapshot may return, whichever of its queries
\* fail.  A failed read of the recent pnls is an empty list; a failed read of
\* the equity leaves both percentages out.
Snapshots ==
    [kill_switch_enabled : {kill},
     open_positions_count : Asked({OpenPositionsCount}),
     daily_loss_pct : Asked(LossPct),
     weekly_loss_pct : Asked(LossPct),
     consecutive_losses : ConsecutiveLosses \cup {0},
     market_data_age : Asked({0}) \cup Asked({Config.stale_feed_threshold + 1}),
     since_last_trade : Asked(SinceLastTrade(0))
                        \cup Asked(SinceLastTrade(Config.cooldown_seconds))]

\* RiskCheckContext of a persisted signal.
Context(s) ==
    [signal_age |-> IF signals[s] = "old" THEN Config.max_signal_age + 1 ELSE 0,
     suggested_notional |-> Notional[s]]

-----------------------------------------------------------------------------
Init ==
    /\ kill = FALSE
    /\ signals = [s \in Signals |-> "none"]
    /\ decisions = [d \in Decisions |-> "none"]
    /\ warned = {}
    /\ orders = [o \in Orders |-> NoOrder]
    /\ fills = [o \in Orders |-> NoId]
    /\ positions = NoRows
    /\ account = DefaultAccount
    /\ journal = <<>>
    /\ pc = [w \in Workers |-> "idle"]
    /\ job = [w \in Workers |-> NoJob]
    /\ acc = [w \in Workers |-> DefaultAccount]
    /\ rows = [w \in Workers |-> NoRows]
    /\ overlap = FALSE
    /\ begun = 0

Goto(w, label) == pc' = [pc EXCEPT ![w] = label]

\* The request ends, with an answer or with an error.
Done(w) ==
    /\ Goto(w, "idle")
    /\ job' = [job EXCEPT ![w] = NoJob]
    /\ acc' = [acc EXCEPT ![w] = DefaultAccount]
    /\ rows' = [rows EXCEPT ![w] = NoRows]

Start(w, label, request) ==
    /\ pc[w] = "idle"
    /\ begun < MaxRequests
    /\ begun' = begun + 1
    /\ Goto(w, label)
    /\ job' = [job EXCEPT ![w] = request]
    /\ overlap' = (overlap \/ \E v \in Workers \ {w} : pc[v] # "idle")
    /\ UNCHANGED <<acc, rows>>

-----------------------------------------------------------------------------
(* The pipeline up to the order.                                           *)

\* run_paper_pipeline until insert_signal_deduped: a signal that is already
\* persisted is reused.
RunPipeline(w) ==
    \E s \in Signals :
        /\ Start(w, "risk",
                 Job("pipeline", s, SymbolOf[s], NoId, NoId, NoId, 0))
        /\ signals' = [signals EXCEPT ![s] =
                        IF signals[s] = "none" THEN "fresh" ELSE signals[s]]
        /\ UNCHANGED <<kill, decisions, warned, orders, fills,
                       positions, account, journal>>

\* evaluate_risk: a decision for a caller's signal, and no order.
EvaluateRisk(w) ==
    \E s \in Signals :
        /\ Start(w, "risk",
                 Job("evaluate", s, SymbolOf[s], NoId, NoId, NoId, 0))
        /\ UNCHANGED dbVars

\* Where the evaluation of a snapshot leads: an approval keeps whether the
\* daily loss rule warned.
Verdict(context, snapshot) ==
    IF Decision(context, snapshot, Config) # "APPROVED" THEN "rejected"
    ELSE IF DailyLossWarns(snapshot) THEN "warned" ELSE "approved"

\* load_risk_state_snapshot, get_risk_config and evaluate.
LoadRiskState(w) ==
    /\ pc[w] = "risk"
    /\ \E label \in {Verdict(Context(job[w].signal), snapshot) :
                       snapshot \in Snapshots} : Goto(w, label)
    /\ UNCHANGED <<dbVars, job, acc, rows, overlap, begun>>

\* insert_risk_evaluation of an approval, with a new id and with the results
\* of the rules in its rationale.
InsertApproval(w) ==
    /\ pc[w] \in {"approved", "warned"}
    /\ \E d \in FreeDecisions :
          /\ decisions' = [decisions EXCEPT ![d] = "APPROVED"]
          /\ warned' = IF pc[w] = "warned" THEN warned \cup {d} ELSE warned
          /\ IF job[w].kind = "pipeline"
             THEN /\ Goto(w, "create")
                  /\ job' = [job EXCEPT ![w] =
                               Job("pipeline", job[w].signal, job[w].symbol,
                                   d, NoId, NoId, 0)]
                  /\ UNCHANGED <<acc, rows>>
             ELSE Done(w)
    /\ UNCHANGED <<kill, signals, orders, fills, positions,
                   account, journal, overlap,
                   begun>>

InsertRejection(w) ==
    /\ pc[w] = "rejected"
    /\ \E d \in FreeDecisions :
          decisions' = [decisions EXCEPT ![d] = "REJECTED"]
    /\ Done(w)
    /\ UNCHANGED <<kill, signals, warned, orders, fills, positions,
                   account, journal, overlap,
                   begun>>

\* Mutant: the decision of the order is not looked at.
PlaceOrderUndecided(o, d, key, state) ==
    /\ decisions[d] # "none"
    /\ ~KeyUsed(key)
    /\ orders' = [orders EXCEPT ![o] = OrderOf(state, d, key, NoId)]
    /\ UNCHANGED <<kill, signals, decisions, warned, fills, positions, account,
                   journal>>

\* create_paper_order, one transaction: the order is inserted and filled.
PlaceOrder(o, d, key, state) ==
    /\ decisions[d] = "APPROVED"
    /\ ~KeyUsed(key)
    /\ orders' = [orders EXCEPT ![o] = OrderOf(state, d, key, NoId)]
    /\ UNCHANGED <<kill, signals, decisions, warned, fills, positions, account,
                   journal>>

\* The pipeline's order: its key holds the new decision's id.
CreatePipelineOrder(w) ==
    /\ pc[w] = "create"
    /\ \E o \in FreeOrders, price \in Prices :
          /\ PlaceOrder(o, job[w].decision, <<"pass", job[w].decision>>,
                        "PAPER_FILLED")
          /\ job' = [job EXCEPT ![w] =
                       Job("pipeline", job[w].signal, job[w].symbol,
                           job[w].decision, o, NoId, price)]
    /\ Goto(w, "ensure")
    /\ UNCHANGED <<acc, rows, overlap,
                   begun>>

\* get_order_by_idempotency_key and DuplicateIdempotencyKey: reuse.
ReusePipelineOrder(w) ==
    /\ pc[w] = "create"
    /\ KeyUsed(<<"pass", job[w].decision>>)
    /\ Done(w)
    /\ UNCHANGED <<dbVars, overlap, begun>>

\* create_order: the caller names the decision, the key, the symbol and the
\* price; an order that has expired is not booked.
CreateDirectOrder(w) ==
    \E o \in FreeOrders, d \in Decisions, s \in Symbols, price \in Prices :
        /\ Start(w, "ensure", Job("order", NoId, s, d, o, NoId, price))
        /\ \E key \in CallerKeys : PlaceOrder(o, d, key, "PAPER_FILLED")

ExpireDirectOrder(w) ==
    /\ pc[w] = "idle"
    /\ begun < MaxRequests
    /\ begun' = begun + 1
    /\ \E o \in FreeOrders, d \in Decisions : \E key \in CallerKeys :
          PlaceOrder(o, d, key, "EXPIRED")
    /\ UNCHANGED <<pc, job, acc, rows, overlap>>

-----------------------------------------------------------------------------
(* ensure_default_paper_account and persist_paper_fill_accounting.         *)

\* get_default_paper_account.  The mark handler writes no account back when
\* it finds one.
ReadAccount(w) ==
    /\ pc[w] = "ensure"
    /\ acc' = [acc EXCEPT ![w] = account]
    /\ Goto(w, IF job[w].kind = "mark" /\ account.made
               THEN "position" ELSE "account")
    /\ UNCHANGED <<dbVars, job, rows, overlap, begun>>

\* insert_paper_account of what was read: a missing account gets a new id,
\* and a second one with the same name breaks the unique name.
WriteBackAccount(w) ==
    /\ pc[w] = "account"
    /\ \/ /\ acc[w].made \/ ~account.made
          /\ account' = Account(TRUE, acc[w].realized_pnl,
                                acc[w].unrealized_pnl)
          /\ acc' = [acc EXCEPT ![w] = Account(TRUE, acc[w].realized_pnl,
                                               acc[w].unrealized_pnl)]
          /\ Goto(w, "position")
          /\ UNCHANGED <<job, rows>>
       \/ /\ ~acc[w].made /\ account.made
          /\ Done(w)
          /\ UNCHANGED account
    /\ UNCHANGED <<kill, signals, decisions, warned, orders, fills,
                   positions, journal, overlap,
                   begun>>

\* get_open_paper_position and apply_paper_order_fill: the row and the
\* account to be written are computed from what was read here.
ApplyFill(w, p, row) ==
    /\ rows' = [rows EXCEPT ![w] = [NoRows EXCEPT ![p] = row]]
    /\ acc' = [acc EXCEPT ![w] = Account(TRUE, acc[w].realized_pnl,
                                         Unrealized(row))]
    /\ job' = [job EXCEPT ![w] =
                 Job(job[w].kind, job[w].signal, job[w].symbol,
                     job[w].decision, job[w].order, p, job[w].price)]
    /\ Goto(w, "upsert")
    /\ UNCHANGED <<dbVars, overlap, begun>>

ReadPosition(w) ==
    /\ pc[w] = "position"
    /\ job[w].kind \in {"pipeline", "order"}
    /\ LET found == {p \in Positions :
                       Open(p) /\ positions[p].symbol = job[w].symbol}
       IN  \/ \E p \in found :
                ApplyFill(w, p, IncreasedRow(positions[p], job[w].price))
           \/ /\ found = {}
              /\ \E p \in FreshPositions :
                    ApplyFill(w, p, OpenedRow(job[w].symbol, job[w].price))

\* Mutant: no unique index on the open positions.
SymbolNeverTaken(p, row) == FALSE

\* The partial unique index on open positions refuses row p.
SymbolTaken(p, row) ==
    \E q \in Positions \ {p} : Open(q) /\ positions[q].symbol = row.symbol

\* upsert_paper_position: the row that was computed replaces the stored one,
\* whatever the stored one has become.
UpsertPosition(w, p) ==
    /\ rows[w][p].status # "absent"
    /\ ~SymbolTaken(p, rows[w][p])
    /\ positions' = [positions EXCEPT ![p] = rows[w][p]]
    /\ UNCHANGED <<kill, signals, decisions, warned, orders, fills,
                   account, journal, job, acc, overlap,
                   begun>>

UpsertFilled(w) ==
    /\ pc[w] = "upsert"
    /\ UpsertPosition(w, job[w].position)
    /\ Goto(w, "fill")
    /\ UNCHANGED rows

\* The index refused the row: the request ends with an error.
RefuseUpsert(w) ==
    /\ pc[w] \in {"upsert", "mark"}
    /\ \E p \in Positions : /\ rows[w][p].status # "absent"
                            /\ SymbolTaken(p, rows[w][p])
    /\ Done(w)
    /\ UNCHANGED <<dbVars, overlap, begun>>

\* insert_paper_fill.
InsertFill(w) ==
    /\ pc[w] = "fill"
    /\ fills' = [fills EXCEPT ![job[w].order] = job[w].position]
    /\ Goto(w, "save")
    /\ UNCHANGED <<kill, signals, decisions, warned, orders,
                   positions, account, journal, job, acc, rows, overlap,
                   begun>>

\* insert_paper_account of the computed account.
SaveAccount(w) ==
    /\ pc[w] = "save"
    /\ account' = acc[w]
    /\ Goto(w, "journal")
    /\ UNCHANGED <<kill, signals, decisions, warned, orders, fills,
                   positions, journal, job, acc, rows, overlap,
                   begun>>

\* The journal rows of the fill (the position's realized pnl and the
\* equity; the third has no pnl) and the equity snapshot.  They are one step:
\* an open position has realized nothing, so no row of the group is a loss
\* and a request that breaks off among them leaves the same run of losses.
InsertJournal(w) ==
    /\ pc[w] = "journal"
    /\ journal' = <<<<rows[w][job[w].position].realized_pnl,
                      acc[w].current_equity>>>> \o journal
    /\ Done(w)
    /\ UNCHANGED <<kill, signals, decisions, warned, orders, fills,
                   positions, account, overlap,
                   begun>>

-----------------------------------------------------------------------------
(* close_paper_position.                                                   *)

\* A request the checks on mode and confirmation let through.
RequestClose(w) ==
    \E p \in Positions :
        /\ Start(w, "ensure", Job("close", NoId, NoId, NoId, NoId, p, 0))
        /\ UNCHANGED dbVars

\* get_paper_position, then the mark price, stale only if the caller allows.
ReadForClose(w) ==
    /\ pc[w] = "position"
    /\ job[w].kind = "close"
    /\ LET p == job[w].position IN
       \/ /\ Open(p)
          /\ \E price \in Prices :
                job' = [job EXCEPT ![w] =
                          Job("close", NoId, NoId, NoId, NoId, p, price)]
          /\ rows' = [rows EXCEPT ![w] = [NoRows EXCEPT ![p] = positions[p]]]
          /\ Goto(w, "commit")
          /\ UNCHANGED acc
       \/ Done(w)   \* not found, closed before, or no usable price
    /\ UNCHANGED <<dbVars, overlap, begun>>

\* close_paper_position_transactional: a decision, a sell order with the key
\* of the position, the position, the account, the fill and the journal in
\* one transaction, computed from what was read before it.
CommitClose(w) ==
    /\ pc[w] = "commit"
    /\ LET p == job[w].position
           row == rows[w][p]
           pnl == ClosePnl(row, job[w].price)
           updated == Account(TRUE, acc[w].realized_pnl + pnl, 0)
       IN  \E d \in FreeDecisions, o \in FreeOrders :
             /\ ~KeyUsed(<<"close", p>>)
             /\ decisions' = [decisions EXCEPT ![d] = "APPROVED"]
             /\ orders' = [orders EXCEPT ![o] =
                             OrderOf("PAPER_FILLED", d, <<"close", p>>, p)]
             /\ positions' = [positions EXCEPT ![p] =
                                ClosedRow(row, job[w].price)]
             /\ account' = updated
             /\ fills' = [fills EXCEPT ![o] = p]
             /\ journal' = <<<<pnl, pnl, updated.current_equity>>>>
                           \o journal
    /\ Done(w)
    /\ UNCHANGED <<kill, signals, warned, overlap,
                   begun>>

\* The unique key refuses a second sell order: the transaction rolls back.
RefuseClose(w) ==
    /\ pc[w] = "commit"
    /\ KeyUsed(<<"close", job[w].position>>)
    /\ Done(w)
    /\ UNCHANGED <<dbVars, overlap, begun>>

-----------------------------------------------------------------------------
(* The mark-to-market handler.                                             *)

RequestMark(w) ==
    /\ Start(w, "ensure", Job("mark", NoId, NoId, NoId, NoId, NoId, 0))
    /\ UNCHANGED dbVars

\* list_open_paper_positions, the prices and mark_positions_to_market; a
\* symbol without tick and candle is marked without a price (0).
MarkPositions(w) ==
    /\ pc[w] = "position"
    /\ job[w].kind = "mark"
    /\ \E mark \in [Symbols -> Prices \cup {0}] :
          LET marked == [p \in Positions |->
                           IF Open(p) THEN MarkedRow(positions[p],
                                                mark[positions[p].symbol])
                           ELSE Absent]
          IN  /\ rows' = [rows EXCEPT ![w] = marked]
              /\ acc' = [acc EXCEPT ![w] =
                           Account(TRUE, acc[w].realized_pnl,
                                   SumFunction([p \in Positions |->
                                                  Unrealized(marked[p])]))]
    /\ Goto(w, "mark")
    /\ UNCHANGED <<dbVars, job, overlap, begun>>

UpsertMarked(w) ==
    /\ pc[w] = "mark"
    /\ \E p \in Positions :
          /\ UpsertPosition(w, p)
          /\ rows' = [rows EXCEPT ![w] = [rows[w] EXCEPT ![p] = Absent]]
    /\ UNCHANGED pc

\* insert_paper_account with the marked equity, and the equity snapshot.
SaveMarkedAccount(w) ==
    /\ pc[w] = "mark"
    /\ rows[w] = NoRows
    /\ account' = acc[w]
    /\ Done(w)
    /\ UNCHANGED <<kill, signals, decisions, warned, orders, fills,
                   positions, journal, overlap,
                   begun>>

-----------------------------------------------------------------------------
(* The environment.                                                        *)

Break(w) ==
    /\ pc[w] # "idle"
    /\ Done(w)
    /\ UNCHANGED <<dbVars, overlap, begun>>

SetKillSwitch ==
    /\ kill' = ~kill
    /\ UNCHANGED <<signals, decisions, warned, orders, fills,
                   positions, account, journal, pc, job, acc, rows, overlap,
                   begun>>

SignalAges ==
    /\ \E s \in Signals : /\ signals[s] = "fresh"
                           /\ signals' = [signals EXCEPT ![s] = "old"]
    /\ UNCHANGED <<kill, decisions, warned, orders, fills, positions, account,
                   journal, pc, job, acc, rows, overlap,
                   begun>>

Next ==
    \/ \E w \in Workers :
          \/ RunPipeline(w) \/ EvaluateRisk(w) \/ LoadRiskState(w)
          \/ InsertApproval(w) \/ InsertRejection(w)
          \/ CreatePipelineOrder(w) \/ ReusePipelineOrder(w)
          \/ CreateDirectOrder(w) \/ ExpireDirectOrder(w)
          \/ ReadAccount(w) \/ WriteBackAccount(w) \/ ReadPosition(w)
          \/ UpsertFilled(w) \/ RefuseUpsert(w) \/ InsertFill(w)
          \/ SaveAccount(w) \/ InsertJournal(w)
          \/ RequestClose(w) \/ ReadForClose(w) \/ CommitClose(w)
          \/ RefuseClose(w)
          \/ RequestMark(w) \/ MarkPositions(w) \/ UpsertMarked(w)
          \/ SaveMarkedAccount(w)
          \/ Break(w)
    \/ SetKillSwitch
    \/ SignalAges

Spec == Init /\ [][Next]_vars

-----------------------------------------------------------------------------
(* Properties.                                                             *)

PositionRow ==
    [status : {"absent", "open", "closed"}, symbol : Symbols \cup {NoId},
     quantity : Nat, cost : Nat, mark_price : Prices \cup {0},
     realized_pnl : Int]

\* The unrealized pnl and the equity are sums over the positions (see
\* MoneyEvidence).
AccountRow(a) == a.made \in BOOLEAN /\ a.realized_pnl \in Int

Keys == ({"none", "pass", "user", "close"}
           \X (Decisions \cup UserKeys \cup Positions \cup {NoId}))

OrderRow ==
    [state : OrderStates, decision : Decisions \cup {NoId}, key : Keys,
     sells : Positions \cup {NoId}]

JobRow ==
    [kind : Kinds, signal : Signals \cup {NoId}, symbol : Symbols \cup {NoId},
     decision : Decisions \cup {NoId}, order : Orders \cup {NoId},
     position : Positions \cup {NoId}, price : Prices \cup {0}]

\* Every table row and every request's working copy has its type.
TypeOK ==
    /\ kill \in BOOLEAN /\ overlap \in BOOLEAN /\ begun \in 0..MaxRequests
    /\ signals \in [Signals -> {"none", "fresh", "old"}]
    /\ decisions \in [Decisions -> {"none", "APPROVED", "REJECTED"}]
    /\ warned \subseteq Decisions
    /\ orders \in [Orders -> OrderRow]
    /\ fills \in [Orders -> Positions \cup {NoId}]
    /\ positions \in [Positions -> PositionRow]
    /\ AccountRow(account)
    /\ pc \in [Workers -> PCs]
    /\ job \in [Workers -> JobRow]
    /\ \A w \in Workers : AccountRow(acc[w])
    /\ rows \in [Workers -> [Positions -> PositionRow]]

\* However fills, closes and marks race for a symbol, it never has two open
\* positions: the late upsert is refused.
OneOpenPosition ==
    \A p, q \in Positions :
        Open(p) /\ Open(q) /\ positions[p].symbol = positions[q].symbol
            => p = q

\* What the positions have realized.
Realized == SumFunction([p \in Positions |-> positions[p].realized_pnl])

BuyFills(p) == {o \in Orders : fills[o] = p /\ orders[o].sells = NoId}

\* The books agree.  While requests do not overlap, and wherever one of them
\* breaks off between its statements, the account has realized exactly what
\* the positions have realized, and no booked fill is missing from its
\* position: an open position holds at least the quantity of its fills (a
\* request that breaks off between the two writes leaves it more).
BooksAgree ==
    ~overlap =>
       /\ account.realized_pnl = Realized
       /\ \A p \in Positions :
             Open(p) => positions[p].quantity >= Cardinality(BuyFills(p))

\* The losses of the closed positions.
LossOf(row) == IF row.realized_pnl < 0 THEN -row.realized_pnl ELSE 0
ClosedLoss == SumFunction([p \in Positions |-> LossOf(positions[p])])

\* The account has equity, and its closed positions have not lost the daily
\* limit.
BelowLimit ==
    /\ account.current_equity > 0
    /\ ~LossReaches([loss |-> ClosedLoss, equity |-> account.current_equity],
                    Config.max_daily_loss_pct)

\* No approval is recorded without a word on an account whose closed positions
\* have lost the daily limit: every close reaches the journal the risk
\* snapshot sums.  A snapshot whose loss, account or equity query failed, or
\* that found no equity, lets the pass through, but then the rationale of the
\* persisted decision shows that the daily loss rule only warned.
LossLimitHolds ==
    [][\A w \in Workers, d \in Decisions :
          /\ ~overlap
          /\ pc[w] \in {"approved", "warned"}
          /\ decisions[d] = "none" /\ decisions'[d] = "APPROVED"
          => d \in warned' \/ BelowLimit]_vars

\* The orders that sold position p.
Sales(p) == {o \in Orders : orders[o].sells = p}

Trail == INSTANCE PaperTrail WITH
            verdict <- decisions,
            trade <- [o \in Orders |-> orders[o].state],
            basis <- [o \in Orders |-> orders[o].decision],
            booked <- fills,
            sale <- [p \in Positions |-> Sales(p)]

\* The tables are an audit trail: every order rests on an approved decision,
\* every fill is booked once, every position is sold at most once, and none
\* of these rows is revised, in every interleaving and after every break.
TrailKept == Trail!TSpec

-----------------------------------------------------------------------------
(* The inductive invariant behind BooksAgree and LossLimitHolds.           *)

\* The account and the journal hold whole numbers.
MoneyEvidence ==
    /\ account.unrealized_pnl \in Int
    /\ \A w \in Workers : acc[w].unrealized_pnl \in Int
    /\ journal \in Seq(Seq(Int))

\* A request that is alone has copies that are up to date; a row it is to
\* write back keeps what its position has realized and holds the fills booked
\* so far, and between the row and its fill one more.  What it has approved
\* without a warning is below the limit until the decision is written.
Copying == {"account", "position", "upsert", "fill", "save", "journal", "commit", "mark"}
Filling == {"upsert", "fill", "save", "journal", "mark"}

Holds(row, p) ==
    /\ row.realized_pnl = positions[p].realized_pnl
    /\ row.quantity >= Cardinality(BuyFills(p))

Current(w) ==
    LET p == job[w].position IN
    /\ pc[w] = "approved" => BelowLimit
    /\ pc[w] \in Copying => acc[w].realized_pnl = account.realized_pnl
    /\ pc[w] \in Filling => acc[w].made
    /\ pc[w] \in {"upsert", "mark"} =>
          \A q \in Positions : rows[w][q].status # "absent" => Holds(rows[w][q], q)
    /\ pc[w] = "upsert" => rows[w][p].quantity > Cardinality(BuyFills(p))
    /\ pc[w] = "fill" => /\ positions[p].status # "absent"
                         /\ positions[p].quantity > Cardinality(BuyFills(p))
    /\ pc[w] = "commit" => rows[w][p] = positions[p]

AloneEvidence ==
    /\ \A v, w \in Workers : pc[v] # "idle" /\ pc[w] # "idle" => v = w
    /\ \A w \in Workers : Current(w)

\* A position without a row has neither pnl nor fills.  What the positions
\* have lost is in the journal, and an account without a row has lost nothing.
BookEvidence ==
    /\ \A p \in Positions : positions[p].status = "absent" =>
          positions[p].realized_pnl = 0 /\ BuyFills(p) = {}
    /\ \A p \in Positions :
          Open(p) => positions[p].quantity >= Cardinality(BuyFills(p))
    /\ account.realized_pnl = Realized
    /\ ClosedLoss <= JournalLoss
    /\ account.made \/ ClosedLoss = 0

LedgerInv ==
    /\ MoneyEvidence
    /\ ~overlap => AloneEvidence /\ BookEvidence

=============================================================================
