----------------------------- MODULE RiskHistory -----------------------------
(***************************************************************************)
(* A RiskManager on its own, given any sequence of settled trades, also    *)
(* after it has halted.  `recorded' is the history of the calls; it is     *)
(* what the manager's counters are compared with.                          *)
(***************************************************************************)
EXTENDS RiskManager, FiniteSets, Functions, Sequences

CONSTANTS
    Stakes,     \* the stakes of the trades it is given
    WinPct,     \* their payout, in percent
    MaxTrades   \* bound: trades recorded in one behaviour

ASSUME HistoryConstants == Stakes \subseteq Int /\ WinPct \in Int

VARIABLE recorded

vars == <<risk, recorded>>

Trades == {[outcome |-> o, pnl |-> pnl_for(o, s, WinPct)] : o \in Outcomes, s \in Stakes}

Init == risk = NewRisk /\ recorded = << >>

RecordTrade(trade) ==
    /\ Len(recorded) < MaxTrades
    /\ risk' = record(risk, trade)
    /\ recorded' = Append(recorded, trade)

Next == \E trade \in Trades : RecordTrade(trade)

Spec == Init /\ [][Next]_vars

-----------------------------------------------------------------------------
PnlAfter(n) == SumFunction([i \in 1..n |-> recorded[i].pnl])

\* The losses that no later trade up to the n-th has cancelled by winning.
StreakAfter(n) ==
    Cardinality({i \in 1..n : /\ recorded[i].outcome = "LOSS"
                              /\ \A j \in i..n : recorded[j].outcome # "WIN"})

DailyBreached(n)  == PnlAfter(n) <= -(MaxDailyLossPct * DayStartBalance)
StreakBreached(n) == StreakAfter(n) >= MaxConsecutiveLosses

\* The running totals are those of the whole history: a halt does not stop
\* the counting, a tie neither extends nor ends a losing streak, a win ends it.
TotalsMatchHistory ==
    /\ risk.dailyPnl = PnlAfter(Len(recorded))
    /\ risk.consecutiveLosses = StreakAfter(Len(recorded))

\* The manager is halted exactly when some trade of the day breached a limit,
\* however the totals moved since, and its reason is the one of the first such
\* trade, the daily loss taking precedence.
HaltedAtFirstBreach ==
    LET breaches == {n \in 1..Len(recorded) : DailyBreached(n) \/ StreakBreached(n)}
        first    == CHOOSE n \in breaches : \A m \in breaches : n <= m
    IN IF breaches = {} THEN risk.state = "ACTIVE" /\ risk.haltReason = None
       ELSE /\ risk.state = "HALTED"
            /\ risk.haltReason = IF DailyBreached(first) THEN "MAX_DAILY_LOSS"
                                 ELSE "MAX_CONSECUTIVE_LOSSES"
=============================================================================
