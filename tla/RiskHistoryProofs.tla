-------------------------- MODULE RiskHistoryProofs --------------------------
(***************************************************************************)
(* Theorems about RiskHistory for any stakes, payout rate and limits, and  *)
(* a day of any number of trades.                                          *)
(***************************************************************************)
EXTENDS RiskHistory, Sums

(* The totals of any history q, of which TotalsMatchHistory takes the one  *)
(* recorded so far.                                                        *)

PnlOf(q, n) == SumFunction([i \in 1..n |-> q[i].pnl])

StreakSet(q, n) == {i \in 1..n : /\ q[i].outcome = "LOSS"
                                 /\ \A j \in i..n : q[j].outcome # "WIN"}

StreakOf(q, n) == Cardinality(StreakSet(q, n))

\* The outcome and the P&L of the trades the manager is given.
LEMMA TradeType == \A t \in Trades : t.outcome \in Outcomes /\ t.pnl \in Int
<1> SUFFICES ASSUME NEW o \in Outcomes, NEW s \in Stakes PROVE pnl_for(o, s, WinPct) \in Int
  BY DEF Trades
<1>1. s \in Int /\ s * WinPct \in Int /\ Hundredths(s) \in Int
  BY HistoryConstants DEF Hundredths
<1> QED BY <1>1 DEF pnl_for, Outcomes

\* The totals after a trade follow from those before it.
LEMMA FirstPnl == ASSUME NEW q PROVE PnlOf(q, 0) = 0
<1> DEFINE pnls == [i \in 1..0 |-> q[i].pnl]
<1>1. DOMAIN pnls = {}
  OBVIOUS
<1>2. PnlOf(q, 0) = SumFunctionOnSet(pnls, DOMAIN pnls)
  BY DEF PnlOf, SumFunction
<1> HIDE DEF pnls
<1> QED BY <1>1, <1>2, SumEmpty

\* The day's P&L after one trade more,
LEMMA NextPnl ==
    ASSUME NEW q \in Seq(Trades), NEW n \in Nat, n < Len(q)
    PROVE  PnlOf(q, n) \in Int /\ PnlOf(q, n + 1) = PnlOf(q, n) + q[n + 1].pnl
<1> DEFINE pnls  == [i \in 1..n |-> q[i].pnl]
           pnls2 == [i \in 1..(n + 1) |-> q[i].pnl]
           D     == 1..n
<1>1. \A i \in 1..(n + 1) : q[i].pnl \in Int
  BY TradeType
<1>2. /\ 1..(n + 1) = D \cup {n + 1} /\ n + 1 \notin D /\ IsFiniteSet(D)
      /\ DOMAIN pnls = D /\ DOMAIN pnls2 = D \cup {n + 1}
  <2>1. IsFiniteSet(D)
    BY FS_Interval
  <2> QED BY <2>1
<1>3. /\ \A i \in D : pnls2[i] = pnls[i] /\ pnls[i] \in Int
      /\ pnls2[n + 1] = q[n + 1].pnl /\ pnls2[n + 1] \in Int
  BY <1>1
<1>4. PnlOf(q, n) = SumFunctionOnSet(pnls, DOMAIN pnls)
      /\ PnlOf(q, n + 1) = SumFunctionOnSet(pnls2, DOMAIN pnls2)
  BY DEF PnlOf, SumFunction
<1> HIDE DEF pnls, pnls2, D
<1>5. SumFunctionOnSet(pnls2, D \cup {n + 1}) = pnls2[n + 1] + SumFunctionOnSet(pnls2, D)
  <2>1. \A i \in D : pnls2[i] \in Int
    BY <1>3
  <2> QED BY <1>2, <1>3, <2>1, SumAdd
<1>6. SumFunctionOnSet(pnls2, D) = SumFunctionOnSet(pnls, D)
         /\ SumFunctionOnSet(pnls, D) \in Int
  BY <1>2, <1>3, SumCongruence, SumType
<1> QED BY <1>2, <1>3, <1>4, <1>5, <1>6

\* the losing streak after one trade more,
LEMMA NextStreak ==
    ASSUME NEW q \in Seq(Trades), NEW n \in Nat, n < Len(q)
    PROVE  LET o == q[n + 1].outcome
           IN /\ StreakOf(q, n) \in Nat
              /\ StreakOf(q, n + 1) = CASE o = "WIN"  -> 0
                                        [] o = "LOSS" -> StreakOf(q, n) + 1
                                        [] o = "TIE"  -> StreakOf(q, n)
<1> DEFINE o == q[n + 1].outcome
<1>1. o \in Outcomes
  BY TradeType
<1>2. IsFiniteSet(StreakSet(q, n)) /\ n + 1 \notin StreakSet(q, n)
  <2>1. IsFiniteSet(1..n)
    BY FS_Interval
  <2>2. StreakSet(q, n) \subseteq 1..n
    BY DEF StreakSet
  <2>3. n + 1 \notin 1..n
    OBVIOUS
  <2> QED BY <2>1, <2>2, <2>3, FS_Subset
<1>3. StreakOf(q, n) = Cardinality(StreakSet(q, n)) /\ StreakOf(q, n) \in Nat
  BY <1>2, FS_CardinalityType DEF StreakOf
<1>4. StreakOf(q, n + 1) = Cardinality(StreakSet(q, n + 1))
  BY DEF StreakOf
<1>5. ASSUME o = "WIN" PROVE StreakOf(q, n + 1) = 0
  <2>1. StreakSet(q, n + 1) = {}
    BY <1>5 DEF StreakSet
  <2> QED BY <1>4, <2>1, FS_EmptySet
<1>6. ASSUME o = "LOSS" PROVE StreakOf(q, n + 1) = StreakOf(q, n) + 1
  <2>1. StreakSet(q, n + 1) = StreakSet(q, n) \cup {n + 1}
    BY <1>6 DEF StreakSet
  <2> QED BY <1>2, <1>3, <1>4, <2>1, FS_AddElement
<1>7. ASSUME o = "TIE" PROVE StreakOf(q, n + 1) = StreakOf(q, n)
  <2>1. StreakSet(q, n + 1) = StreakSet(q, n)
    BY <1>7 DEF StreakSet
  <2> QED BY <1>3, <1>4, <2>1
<1> HIDE DEF o
<1>8. StreakOf(q, n + 1) = CASE o = "WIN"  -> 0
                             [] o = "LOSS" -> StreakOf(q, n) + 1
                             [] o = "TIE"  -> StreakOf(q, n)
  BY <1>1, <1>5, <1>6, <1>7 DEF Outcomes
<1> QED BY <1>3, <1>8 DEF o

\* and the streak before the first.
LEMMA FirstStreak == ASSUME NEW q PROVE StreakOf(q, 0) = 0
<1>1. {i \in 1..0 : /\ q[i].outcome = "LOSS"
                    /\ \A j \in i..0 : q[j].outcome # "WIN"} = {}
  OBVIOUS
<1> QED BY <1>1, FS_EmptySet DEF StreakOf, StreakSet

\* Later trades change no earlier total.
LEMMA EarlierTotals ==
    ASSUME NEW q \in Seq(Trades), NEW trade \in Trades, NEW n \in 0..Len(q)
    PROVE  /\ PnlOf(Append(q, trade), n) = PnlOf(q, n)
           /\ StreakOf(Append(q, trade), n) = StreakOf(q, n)
<1> DEFINE r == Append(q, trade)
<1>1. \A i \in 1..n : r[i] = q[i]
  OBVIOUS
<1> HIDE DEF r
<1>2. [i \in 1..n |-> r[i].pnl] = [i \in 1..n |-> q[i].pnl]
  BY <1>1
<1>3. \A i \in 1..n : \A j \in i..n : j \in 1..n
  OBVIOUS
<1>4. StreakSet(r, n) = StreakSet(q, n)
  BY <1>1, <1>3 DEF StreakSet
<1>5. PnlOf(r, n) = PnlOf(q, n)
  BY <1>2 DEF PnlOf
<1> QED BY <1>4, <1>5 DEF StreakOf, r

-----------------------------------------------------------------------------
(* The manager. *)

Breached(q, n) ==
    \/ PnlOf(q, n) <= -(MaxDailyLossPct * DayStartBalance)
    \/ StreakOf(q, n) >= MaxConsecutiveLosses

Breaches(q) == {n \in 1..Len(q) : Breached(q, n)}

\* HaltedAtFirstBreach, which says more: that some breach is the first.
HaltInv ==
    IF Breaches(recorded) = {} THEN risk.state = "ACTIVE" /\ risk.haltReason = None
    ELSE /\ risk.state = "HALTED"
         /\ \E f \in Breaches(recorded) :
              /\ \A m \in Breaches(recorded) : f <= m
              /\ risk.haltReason = IF DailyBreached(f) THEN "MAX_DAILY_LOSS"
                                   ELSE "MAX_CONSECUTIVE_LOSSES"

HistoryInv ==
    /\ recorded \in Seq(Trades)
    /\ risk \in Risk
    /\ TotalsMatchHistory
    /\ HaltInv

\* The model's totals are those of the history that are reasoned about here.
LEMMA TotalsOf ==
    /\ \A n : PnlAfter(n) = PnlOf(recorded, n) /\ StreakAfter(n) = StreakOf(recorded, n)
    /\ \A n : DailyBreached(n) \/ StreakBreached(n) <=> Breached(recorded, n)
BY DEF PnlAfter, PnlOf, StreakAfter, StreakOf, StreakSet,
       DailyBreached, StreakBreached, Breached

\* One call of record keeps the totals those of the history.
LEMMA RecordKeepsTotals ==
    ASSUME HistoryInv, NEW trade \in Trades, RecordTrade(trade)
    PROVE  /\ recorded' \in Seq(Trades) /\ risk' \in Risk
           /\ Len(recorded') = Len(recorded) + 1
           /\ risk'.dailyPnl = PnlOf(recorded', Len(recorded'))
           /\ risk'.consecutiveLosses = StreakOf(recorded', Len(recorded'))
<1> DEFINE n == Len(recorded)
           pnl == risk.dailyPnl + trade.pnl
           streak == Streak(risk, trade.outcome)
<1>1. recorded \in Seq(Trades) /\ recorded' = Append(recorded, trade)
  BY DEF HistoryInv, RecordTrade
<1>2. /\ recorded' \in Seq(Trades) /\ Len(recorded') = n + 1 /\ n \in Nat
      /\ recorded'[n + 1] = trade
  BY <1>1
<1>3. PnlOf(recorded', n) = risk.dailyPnl /\ StreakOf(recorded', n) = risk.consecutiveLosses
  <2>1. risk.dailyPnl = PnlOf(recorded, n) /\ risk.consecutiveLosses = StreakOf(recorded, n)
    BY TotalsOf DEF HistoryInv, TotalsMatchHistory
  <2>2. n \in 0..Len(recorded)
    BY <1>2
  <2> QED BY <1>1, <2>1, <2>2, EarlierTotals
<1> HIDE DEF n
<1>4. PnlOf(recorded', n + 1) = pnl
  BY <1>2, <1>3, NextPnl
<1>5. StreakOf(recorded', n + 1) = streak
  <2> DEFINE o == trade.outcome
             k == risk.consecutiveLosses
  <2>1. StreakOf(recorded', n + 1) = CASE o = "WIN"  -> 0
                                       [] o = "LOSS" -> k + 1
                                       [] o = "TIE"  -> k
    <3>1. n < Len(recorded')
      BY <1>2
    <3> QED BY <1>2, <1>3, <3>1, NextStreak
  <2> QED BY <2>1 DEF Streak
<1>6. pnl \in Int /\ streak \in Nat
  <2>1. risk.dailyPnl \in Int /\ risk.consecutiveLosses \in Nat
    BY DEF HistoryInv, Risk
  <2>2. trade.pnl \in Int /\ trade.outcome \in Outcomes
    BY TradeType
  <2> QED BY <2>1, <2>2 DEF Streak, Outcomes
<1> HIDE DEF pnl, streak
<1>7. risk' \in Risk /\ risk'.dailyPnl = pnl /\ risk'.consecutiveLosses = streak
  <2>1. CASE IsHalted(risk)
    <3>1. risk' = [risk EXCEPT !.dailyPnl = pnl, !.consecutiveLosses = streak]
      BY <2>1 DEF RecordTrade, record, pnl, streak
    <3> QED BY <1>6, <3>1 DEF HistoryInv, Risk
  <2>2. CASE ~IsHalted(risk)
    <3> DEFINE reason == Breach(pnl, streak)
    <3>1. risk' = [state |-> IF reason = None THEN "ACTIVE" ELSE "HALTED",
                   haltReason |-> reason, dailyPnl |-> pnl, consecutiveLosses |-> streak]
      BY <2>2 DEF RecordTrade, record, pnl, streak
    <3>2. reason \in HaltReasons \cup {None}
      BY DEF Breach, HaltReasons
    <3> HIDE DEF reason
    <3> QED BY <1>6, <3>1, <3>2 DEF Risk
  <2> QED BY <2>1, <2>2
<1> QED BY <1>2, <1>4, <1>5, <1>7 DEF n

\* record keeps the counters at the totals of the history and the halt at its first breach.
LEMMA RecordKeepsHistory ==
    ASSUME HistoryInv, NEW trade \in Trades, RecordTrade(trade)
    PROVE  HistoryInv'
<1>1. PICK n : n = Len(recorded) + 1
  OBVIOUS
<1>2. /\ recorded' \in Seq(Trades) /\ risk' \in Risk /\ Len(recorded') = n
      /\ risk'.dailyPnl = PnlOf(recorded', n)
      /\ risk'.consecutiveLosses = StreakOf(recorded', n)
  BY <1>1, RecordKeepsTotals
<1>3. /\ recorded \in Seq(Trades) /\ recorded' = Append(recorded, trade)
      /\ Len(recorded) = n - 1 /\ n - 1 \in Nat /\ n \in Nat
  BY <1>1 DEF HistoryInv, RecordTrade
<1>4. \A m \in 1..n - 1 : Breached(recorded', m) <=> Breached(recorded, m)
  <2> SUFFICES ASSUME NEW m \in 1..n - 1
               PROVE  Breached(recorded', m) <=> Breached(recorded, m)
    OBVIOUS
  <2>1. m \in 0..Len(recorded)
    BY <1>3
  <2>2. PnlOf(recorded', m) = PnlOf(recorded, m) /\ StreakOf(recorded', m) = StreakOf(recorded, m)
    BY <1>3, <2>1, EarlierTotals
  <2> QED BY <2>2 DEF Breached
<1>5. Breaches(recorded') = Breaches(recorded) \cup {m \in {n} : Breached(recorded', n)}
  BY <1>2, <1>3, <1>4 DEF Breaches
<1>6. \A f \in Breaches(recorded) : DailyBreached(f)' <=> DailyBreached(f)
  <2> SUFFICES ASSUME NEW f \in Breaches(recorded)
               PROVE  PnlAfter(f)' = PnlAfter(f)
    BY DEF DailyBreached
  <2>1. f \in 0..Len(recorded)
    BY <1>3 DEF Breaches
  <2>2. PnlOf(recorded', f) = PnlOf(recorded, f)
    BY <1>3, <2>1, EarlierTotals
  <2> QED BY <2>2 DEF PnlAfter, PnlOf
<1>7. TotalsMatchHistory'
  BY <1>2 DEF TotalsMatchHistory, PnlAfter, PnlOf, StreakAfter, StreakOf, StreakSet
<1>8. CASE Breaches(recorded) # {}
  <2>1. risk.state = "HALTED" /\ risk'.state = risk.state /\ risk'.haltReason = risk.haltReason
    <3>1. risk.state = "HALTED" /\ risk \in Risk
      BY <1>8 DEF HistoryInv, HaltInv
    <3> QED BY <3>1 DEF RecordTrade, record, IsHalted, Risk
  <2>2. PICK f \in Breaches(recorded) :
           /\ \A m \in Breaches(recorded) : f <= m
           /\ risk.haltReason = IF DailyBreached(f) THEN "MAX_DAILY_LOSS"
                                ELSE "MAX_CONSECUTIVE_LOSSES"
    BY <1>8 DEF HistoryInv, HaltInv
  <2>3. f <= n
    BY <1>3 DEF Breaches
  <2>4. /\ f \in Breaches(recorded')
        /\ \A m \in Breaches(recorded') : f <= m
        /\ risk'.haltReason = IF DailyBreached(f)' THEN "MAX_DAILY_LOSS"
                              ELSE "MAX_CONSECUTIVE_LOSSES"
    BY <1>5, <1>6, <2>1, <2>2, <2>3
  <2>5. HaltInv'
    BY <2>1, <2>4 DEF HaltInv
  <2> QED BY <1>2, <1>7, <2>5 DEF HistoryInv
<1>9. CASE Breaches(recorded) = {}
  <2> DEFINE pnl    == PnlOf(recorded', n)
             streak == StreakOf(recorded', n)
             reason == Breach(pnl, streak)
  <2>1. risk.state = "ACTIVE" /\ risk.haltReason = None
    BY <1>9 DEF HistoryInv, HaltInv
  <2>2. risk'.state = (IF reason = None THEN "ACTIVE" ELSE "HALTED") /\ risk'.haltReason = reason
    <3> DEFINE p == risk.dailyPnl + trade.pnl
               k == Streak(risk, trade.outcome)
               r == Breach(p, k)
    <3>1. risk' = [state |-> IF r = None THEN "ACTIVE" ELSE "HALTED",
                   haltReason |-> r, dailyPnl |-> p, consecutiveLosses |-> k]
      BY <2>1 DEF RecordTrade, record, IsHalted
    <3> HIDE DEF p, k
    <3>2. p = pnl /\ k = streak
      BY <1>2, <3>1
    <3> QED BY <3>1, <3>2
  <2>3. Breached(recorded', n) <=> reason # None
    BY RiskConstants DEF Breached, Breach, daily_loss_limit
  <2>4. DailyBreached(n)' => reason = "MAX_DAILY_LOSS"
    <3>1. PnlAfter(n)' = pnl
      BY DEF PnlAfter, PnlOf
    <3> HIDE DEF pnl
    <3> QED BY <3>1 DEF DailyBreached, Breach, daily_loss_limit
  <2>5. ~DailyBreached(n)' /\ reason # None => reason = "MAX_CONSECUTIVE_LOSSES"
    <3>1. PnlAfter(n)' = pnl
      BY DEF PnlAfter, PnlOf
    <3> HIDE DEF pnl
    <3> QED BY <3>1 DEF DailyBreached, Breach, daily_loss_limit
  <2> HIDE DEF reason
  <2>6. CASE reason = None
    <3>1. Breaches(recorded') = {}
      BY <1>5, <1>9, <2>3, <2>6
    <3> QED BY <1>2, <1>7, <2>2, <2>6, <3>1 DEF HistoryInv, HaltInv
  <2>7. CASE reason # None
    <3>1. Breaches(recorded') = {n}
      BY <1>5, <1>9, <2>3, <2>7
    <3>2. n <= n
      BY <1>3
    <3>3. HaltInv'
      BY <2>2, <2>4, <2>5, <2>7, <3>1, <3>2 DEF HaltInv
    <3> QED BY <1>2, <1>7, <3>3 DEF HistoryInv
  <2> QED BY <2>6, <2>7
<1> QED BY <1>8, <1>9

\* The invariant behind the two theorems that follow: record (domain/risk) keeps
\* totals and halt those of the whole history.
THEOREM HistoryInvariance == Spec => []HistoryInv
<1>1. Init => HistoryInv
  <2> SUFFICES ASSUME Init PROVE HistoryInv
    OBVIOUS
  <2>1. /\ recorded = << >> /\ risk = NewRisk
        /\ recorded \in Seq(Trades) /\ Len(recorded) = 0
    BY DEF Init
  <2>2. risk \in Risk
    BY <2>1 DEF NewRisk, Risk
  <2>3. TotalsMatchHistory
    <3>1. PnlOf(recorded, 0) = 0 /\ StreakOf(recorded, 0) = 0
      BY FirstPnl, FirstStreak
    <3>2. PnlAfter(0) = 0 /\ StreakAfter(0) = 0
      BY <3>1, TotalsOf
    <3> QED BY <2>1, <3>2 DEF TotalsMatchHistory, NewRisk
  <2>4. HaltInv
    <3>1. Breaches(recorded) = {}
      BY <2>1 DEF Breaches
    <3> QED BY <2>1, <3>1 DEF HaltInv, NewRisk
  <2> QED BY <2>1, <2>2, <2>3, <2>4 DEF HistoryInv
<1>2. HistoryInv /\ [Next]_vars => HistoryInv'
  <2> SUFFICES ASSUME HistoryInv, [Next]_vars PROVE HistoryInv'
    OBVIOUS
  <2>1. ASSUME NEW trade \in Trades, RecordTrade(trade) PROVE HistoryInv'
    BY <2>1, RecordKeepsHistory
  <2>2. CASE UNCHANGED vars
    BY <2>2 DEF vars, HistoryInv, TotalsMatchHistory, HaltInv, PnlAfter, StreakAfter,
                DailyBreached
  <2> QED BY <2>1, <2>2 DEF Next
<1> QED BY <1>1, <1>2, PTL DEF Spec

\* The running P&L and streak of record are those of the whole history, also
\* past a halt.
THEOREM TotalsAlwaysMatch == Spec => []TotalsMatchHistory
<1>1. HistoryInv => TotalsMatchHistory
  BY DEF HistoryInv
<1> QED BY <1>1, HistoryInvariance, PTL

\* The manager halts at the first trade that breaches a limit, for the reason
\* of that trade, and never otherwise.
THEOREM AlwaysHaltedAtFirstBreach == Spec => []HaltedAtFirstBreach
<1>1. HistoryInv => HaltedAtFirstBreach
  <2> SUFFICES ASSUME HistoryInv PROVE HaltedAtFirstBreach
    OBVIOUS
  <2> DEFINE breaches == {n \in 1..Len(recorded) : DailyBreached(n) \/ StreakBreached(n)}
             first    == CHOOSE n \in breaches : \A m \in breaches : n <= m
  <2>1. breaches = Breaches(recorded) /\ breaches \subseteq Int
    BY TotalsOf DEF Breaches
  <2>2. CASE breaches = {}
    BY <2>1, <2>2 DEF HistoryInv, HaltInv, HaltedAtFirstBreach
  <2>3. CASE breaches # {}
    <3>1. PICK f \in breaches :
             /\ \A m \in breaches : f <= m
             /\ risk.haltReason = IF DailyBreached(f) THEN "MAX_DAILY_LOSS"
                                  ELSE "MAX_CONSECUTIVE_LOSSES"
      BY <2>1, <2>3 DEF HistoryInv, HaltInv
    <3>2. first \in breaches /\ \A m \in breaches : first <= m
      <4> HIDE DEF breaches
      <4> QED BY <3>1
    <3>3. first = f
      <4> HIDE DEF breaches, first
      <4> QED BY <2>1, <3>1, <3>2
    <3>4. risk.state = "HALTED"
      BY <2>1, <2>3 DEF HistoryInv, HaltInv
    <3> HIDE DEF first
    <3> QED BY <2>3, <3>1, <3>3, <3>4 DEF HaltedAtFirstBreach, first
  <2> QED BY <2>2, <2>3
<1> QED BY <1>1, HistoryInvariance, PTL
=============================================================================
