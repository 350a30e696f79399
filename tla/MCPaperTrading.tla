--------------------------- MODULE MCPaperTrading ---------------------------
EXTENDS PaperTrading, TLC

CONSTANTS btc

MCSymbolOf == [s \in Signals |-> btc]
MCNotional == [s \in Signals |-> 1]
MCConfig ==
    [max_open_positions |-> 1, max_daily_loss_pct |-> 1000,
     max_weekly_loss_pct |-> 2000, max_position_notional |-> 1,
     max_consecutive_losses |-> 2, cooldown_seconds |-> 60,
     max_signal_age |-> 5, stale_feed_threshold |-> 10]

Symmetry == Permutations(Workers) \cup Permutations(Decisions)
            \cup Permutations(Orders) \cup Permutations(Positions)
=============================================================================
