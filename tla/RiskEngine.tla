----------------------------- MODULE RiskEngine -----------------------------
(***************************************************************************)
(* The risk rules of crates/risk-engine.  A rule reads the context of one  *)
(* signal, a snapshot of the persisted state and the risk configuration;   *)
(* evaluate() rejects when some rule rejects and names every reason.       *)
(*                                                                         *)
(* An Option of the code is a set with at most one element, so a rule that *)
(* only warns when its input is missing quantifies over the empty set.     *)
(* A loss percentage (loss / equity * 100) is kept as the pair of its      *)
(* terms and compared without dividing.                                    *)
(***************************************************************************)
EXTENDS Integers

\* RiskRejectionReason.
RejectionReasons ==
    {"KillSwitchActive", "MaxOpenPositionsExceeded", "MaxDailyLossExceeded",
     "MaxWeeklyLossExceeded", "MaxConsecutiveLossesExceeded",
     "CooldownActive", "SignalTooOld", "PositionNotionalExceeded",
     "DataStale"}

\* The longest cooldown, in seconds, and the largest loss limits.
Day == 86400
MaxDailyLoss == 2000
MaxWeeklyLoss == 5000

\* validate_risk_config.  A percentage is in hundredths: 1 is 0.01 %.
ValidRiskConfig(config) ==
    /\ config.max_open_positions \in 1..50
    /\ config.max_daily_loss_pct \in 1..MaxDailyLoss
    /\ config.max_weekly_loss_pct \in 1..MaxWeeklyLoss
    /\ config.max_weekly_loss_pct >= config.max_daily_loss_pct
    /\ config.max_position_notional > 0
    /\ config.max_consecutive_losses \in 1..20
    /\ config.cooldown_seconds \in 0..Day
    /\ config.max_signal_age \in 1..300
    /\ config.stale_feed_threshold \in 1..3600

\* A hundred percent.
Whole == 10000

\* loss_pct >= limit for loss_pct = loss / equity * 100, equity > 0.
LossReaches(pct, limit) == pct.loss * Whole >= limit * pct.equity

\* The daily loss rule warns, and does not reject, without a percentage.
DailyLossWarns(snapshot) == snapshot.daily_loss_pct = {}

\* The rule whose rejection carries reason r rejects.  The daily rule
\* reports the weekly reason and the weekly rule the daily one.
Rejects(r, context, snapshot, config) ==
    \/ /\ r = "KillSwitchActive"
       /\ snapshot.kill_switch_enabled
    \/ /\ r = "MaxOpenPositionsExceeded"
       /\ \E count \in snapshot.open_positions_count :
             count >= config.max_open_positions
    \/ /\ r = "MaxWeeklyLossExceeded"
       /\ \E pct \in snapshot.daily_loss_pct :
             LossReaches(pct, config.max_daily_loss_pct)
    \/ /\ r = "MaxDailyLossExceeded"
       /\ \E pct \in snapshot.weekly_loss_pct :
             LossReaches(pct, config.max_weekly_loss_pct)
    \/ /\ r = "MaxConsecutiveLossesExceeded"
       /\ snapshot.consecutive_losses >= config.max_consecutive_losses
    \/ /\ r = "CooldownActive"
       /\ \E since \in snapshot.since_last_trade :
             since < config.cooldown_seconds
    \/ /\ r = "SignalTooOld"
       /\ context.signal_age > config.max_signal_age
    \/ /\ r = "PositionNotionalExceeded"
       /\ context.suggested_notional > config.max_position_notional
    \/ /\ r = "DataStale"
       /\ \E age \in snapshot.market_data_age :
             age > config.stale_feed_threshold

\* RiskEvaluator::evaluate, the reasons of every rejecting rule.
Reasons(context, snapshot, config) ==
    {r \in RejectionReasons : Rejects(r, context, snapshot, config)}

\* RiskEvaluator::evaluate, the decision.
Decision(context, snapshot, config) ==
    IF Reasons(context, snapshot, config) = {} THEN "APPROVED" ELSE "REJECTED"
=============================================================================
