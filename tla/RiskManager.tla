----------------------------- MODULE RiskManager -----------------------------
(***************************************************************************)
(* domain/risk/manager.py: the circuit breaker of one session.  Its state  *)
(* is the record `risk'; can_open reads it and record replaces it.         *)
(***************************************************************************)
EXTENDS Settlement

CONSTANTS
    DayStartBalance,       \* day_start_balance
    MaxDailyLossPct,       \* max_daily_loss_pct, in percent
    MaxConsecutiveLosses,  \* max_consecutive_losses
    None                   \* Python's None

\* Settings (config/settings.py) validates nothing beyond the types: a zero
\* or negative limit is a value the program accepts.
ASSUME RiskConstants ==
    /\ DayStartBalance \in Int
    /\ MaxDailyLossPct \in Int
    /\ MaxConsecutiveLosses \in Int
    /\ None \notin {"MAX_DAILY_LOSS", "MAX_CONSECUTIVE_LOSSES", "INSUFFICIENT_BALANCE"}

VARIABLE risk

HaltReasons == {"MAX_DAILY_LOSS", "MAX_CONSECUTIVE_LOSSES"}

Risk == [state: {"ACTIVE", "HALTED"}, haltReason: HaltReasons \cup {None},
         dailyPnl: Int, consecutiveLosses: Nat]

NewRisk == [state |-> "ACTIVE", haltReason |-> None,
            dailyPnl |-> 0, consecutiveLosses |-> 0]

daily_loss_limit == -(MaxDailyLossPct * DayStartBalance)

\* Mutant: a tie ends the streak.
TieResets(r, outcome) ==
    IF outcome = "LOSS" THEN r.consecutiveLosses + 1 ELSE 0

\* Mutant: a win takes one loss off the streak instead of ending it.
WinDecrements(r, outcome) ==
    CASE outcome = "WIN"  -> r.consecutiveLosses - 1
      [] outcome = "LOSS" -> r.consecutiveLosses + 1
      [] outcome = "TIE"  -> r.consecutiveLosses

\* The streak after a trade: a TIE leaves it unchanged.
Streak(r, outcome) ==
    CASE outcome = "WIN"  -> 0
      [] outcome = "LOSS" -> r.consecutiveLosses + 1
      [] outcome = "TIE"  -> r.consecutiveLosses

\* Mutant: the two limits in the other order.
StreakFirst(pnl, streak) ==
    IF streak >= MaxConsecutiveLosses THEN "MAX_CONSECUTIVE_LOSSES"
    ELSE IF pnl <= daily_loss_limit THEN "MAX_DAILY_LOSS"
    ELSE None

\* The limit an active manager finds breached, the daily one first.
Breach(pnl, streak) ==
    IF pnl <= daily_loss_limit THEN "MAX_DAILY_LOSS"
    ELSE IF streak >= MaxConsecutiveLosses THEN "MAX_CONSECUTIVE_LOSSES"
    ELSE None

IsHalted(r) == r.state = "HALTED"

\* record(trade): the totals always move; only an ACTIVE manager halts.
record(r, trade) ==
    LET pnl    == r.dailyPnl + trade.pnl
        streak == Streak(r, trade.outcome)
        reason == Breach(pnl, streak)
    IN IF IsHalted(r) THEN [r EXCEPT !.dailyPnl = pnl, !.consecutiveLosses = streak]
       ELSE [state |-> IF reason = None THEN "ACTIVE" ELSE "HALTED",
             haltReason |-> reason, dailyPnl |-> pnl, consecutiveLosses |-> streak]

\* Mutant: the halt is not consulted.
IgnoresHalt(r, stake, currentBalance) ==
    IF Hundredths(stake) > currentBalance THEN "INSUFFICIENT_BALANCE" ELSE None

\* Why can_open refuses, or None when it allows: the second half of the pair
\* it returns (the first is `Denial(...) = None').
Denial(r, stake, currentBalance) ==
    IF IsHalted(r) THEN r.haltReason
    ELSE IF Hundredths(stake) > currentBalance THEN "INSUFFICIENT_BALANCE"
    ELSE None

can_open(r, stake, currentBalance) == Denial(r, stake, currentBalance) = None
=============================================================================
