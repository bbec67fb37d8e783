----------------------------- MODULE BotProofs -----------------------------
(***************************************************************************)
(* Theorems about TradingSession, and about Bot, which runs one on a       *)
(* stream of candles, for every value of their constants: any settings,    *)
(* prices, candle spacing, horizon, periods of the crossover and length of *)
(* the stream.  What is proved of Spec, the session's, uses no assumption  *)
(* of Bot's.                                                               *)
(***************************************************************************)
EXTENDS Bot, FiniteSetTheorems, TLAPS

-----------------------------------------------------------------------------
(* The operators the session is built from. *)

\* A settled trade has one of the outcomes.
LEMMA OutcomeType ==
    ASSUME NEW d, NEW entry, NEW expiry
    PROVE  resolve_outcome(d, entry, expiry) \in Outcomes
BY DEF resolve_outcome, Outcomes

\* A P&L is an integer.
LEMMA PnlType ==
    ASSUME NEW o \in Outcomes, NEW s \in Int, NEW p \in Nat
    PROVE  pnl_for(o, s, p) \in Int
BY DEF pnl_for, Outcomes, Hundredths

\* No settlement can lose more than the stake.
LEMMA PnlBound ==
    ASSUME NEW o \in Outcomes, NEW s \in Nat, NEW p \in Nat
    PROVE  pnl_for(o, s, p) >= -Hundredths(s)
<1>1. s * p \in Nat
  OBVIOUS
<1> QED BY <1>1 DEF pnl_for, Outcomes, Hundredths

\* The loss limit is an integer.
LEMMA LimitType == daily_loss_limit \in Int
BY RiskConstants DEF daily_loss_limit

\* record keeps the manager's type.
LEMMA RecordType ==
    ASSUME NEW r \in Risk, NEW t \in Trade
    PROVE  record(r, t) \in Risk
<1>1. r.dailyPnl + t.pnl \in Int
  BY DEF Risk, Trade
<1>2. Streak(r, t.outcome) \in Nat
  BY DEF Risk, Trade, Outcomes, Streak
<1>3. Breach(r.dailyPnl + t.pnl, Streak(r, t.outcome)) \in HaltReasons \cup {None}
  BY DEF Breach, HaltReasons
<1> QED BY <1>1, <1>2, <1>3 DEF record, Risk

-----------------------------------------------------------------------------
(* The type invariant. *)

\* Open times and prices of candles are naturals.
LEMMA CandleTimeType ==
    ASSUME TypeOK, NEW c \in Candles
    PROVE  c.openTime \in Nat /\ c.close \in Nat
<1>1. \A n \in 1..MaxSkip : clock + n * TimeframeS \in Nat
  BY SessionConstants DEF TypeOK
<1> QED BY <1>1, SessionConstants DEF Candles, CandleTimes

\* A settlement makes a trade.
LEMMA TradeType ==
    ASSUME TypeOK, NEW price \in Nat, open # None
    PROVE  TradeFor(broker, open, price) \in Trade
<1> DEFINE outcome == resolve_outcome(open.request.direction, open.entryPrice, price)
           pnl     == pnl_for(outcome, open.request.stake, PayoutPct)
<1>1. open \in OrderAck /\ open.request.stake \in Int
  BY DEF TypeOK, OrderAck, OrderRequest
<1>2. outcome \in Outcomes
  BY OutcomeType
<1>3. pnl \in Int
  BY <1>1, <1>2, PnlType, BrokerConstants
<1>4. broker.balance + Credit(open, pnl) \in Int
  BY <1>1, <1>3 DEF Credit, Hundredths, TypeOK, IsBroker
<1>5. CASE IsSettled(broker, open)
  BY <1>5 DEF TradeFor, IsSettled, TypeOK, IsBroker
<1>6. CASE ~IsSettled(broker, open)
  <2> HIDE DEF outcome, pnl
  <2>1. [ack |-> open, outcome |-> outcome, pnl |-> pnl,
         balanceAfter |-> broker.balance + Credit(open, pnl)] \in Trade
    BY <1>1, <1>2, <1>3, <1>4 DEF Trade
  <2> QED BY <1>6, <2>1 DEF TradeFor, outcome, pnl
<1> QED BY <1>5, <1>6

\* _maybe_settle leaves the broker, the manager and the trade well-typed.
LEMMA SettleType ==
    ASSUME TypeOK, NEW c \in Candles
    PROVE  /\ IsBroker(BrokerAfter(c))
           /\ BrokerAfter(c).nextId = broker.nextId
           /\ RiskAfter(c) \in Risk
           /\ Due(c) => Settled(c) \in Trade
<1>1. CASE ~Due(c)
  BY <1>1 DEF BrokerAfter, RiskAfter, TypeOK
<1>2. CASE Due(c)
  <2>1. open # None /\ open.orderId \in 1..broker.nextId - 1
    BY <1>2 DEF Due, TypeOK
  <2>2. Settled(c) \in Trade
    BY <2>1, TradeType, CandleTimeType DEF Settled
  <2>3. RiskAfter(c) \in Risk
    BY <1>2, <2>2, RecordType DEF RiskAfter, TypeOK
  <2>4. IsBroker(settle(broker, open, c.close))
        /\ settle(broker, open, c.close).nextId = broker.nextId
    <3>1. CASE IsSettled(broker, open)
      BY <3>1 DEF settle, TypeOK
    <3>2. CASE ~IsSettled(broker, open)
      <4> DEFINE t == TradeFor(broker, open, c.close)
                 s == [id \in DOMAIN broker.settled \cup {open.orderId} |->
                         IF id = open.orderId THEN t ELSE broker.settled[id]]
      <4>1. t \in Trade
        BY <2>2 DEF Settled
      <4>2. t.balanceAfter \in Int
        BY <4>1 DEF Trade
      <4>3. settle(broker, open, c.close) =
              [balance |-> t.balanceAfter, nextId |-> broker.nextId, settled |-> s]
        BY <3>2 DEF settle
      <4> HIDE DEF t
      <4>4. \A id \in DOMAIN s : id \in 1..broker.nextId - 1 /\ s[id] \in Trade
        BY <2>1, <4>1 DEF TypeOK, IsBroker
      <4> HIDE DEF s
      <4> QED BY <4>2, <4>3, <4>4 DEF IsBroker, TypeOK
    <3> QED BY <3>1, <3>2
  <2> QED BY <1>2, <2>2, <2>3, <2>4 DEF BrokerAfter
<1> QED BY <1>1, <1>2

\* _maybe_open leaves the broker and the acknowledgement well-typed.
LEMMA PlaceType ==
    ASSUME TypeOK, NEW c \in Candles, NEW signal \in Directions,
           NEW b, IsBroker(b)
    PROVE  /\ IsBroker(place(b, Request(c, signal)))
           /\ AckFor(b, Request(c, signal)) \in OrderAck
           /\ AckFor(b, Request(c, signal)).orderId
                \in 1..place(b, Request(c, signal)).nextId - 1
<1>1. stake \in Int /\ expiryS \in Int
  BY SessionConstants DEF TypeOK
<1>2. Request(c, signal) \in OrderRequest
  BY <1>1, CandleTimeType DEF Request, OrderRequest
<1>3. AckFor(b, Request(c, signal)) \in OrderAck
  <2>1. Request(c, signal).openedAt + Request(c, signal).expiryS \in Int
    BY <1>2 DEF OrderRequest
  <2> QED BY <1>2, <2>1, BrokerConstants DEF AckFor, OrderAck, IsBroker
<1>4. IsBroker(place(b, Request(c, signal)))
  BY <1>1 DEF place, IsBroker, Request, Hundredths
<1> QED BY <1>3, <1>4 DEF place, AckFor, IsBroker

\* Every step keeps the types,
LEMMA TypeStep == TypeOK /\ [Next]_vars => TypeOK'
<1> SUFFICES ASSUME TypeOK, [Next]_vars
             PROVE  TypeOK'
  OBVIOUS
<1>1. ASSUME NEW c \in Candles, NEW signal \in Signals(c), OnCandle(c, signal)
      PROVE  TypeOK'
  <2>1. /\ IsBroker(BrokerAfter(c)) /\ RiskAfter(c) \in Risk
        /\ BrokerAfter(c).nextId = broker.nextId
        /\ Due(c) => Settled(c) \in Trade
    BY SettleType
  <2>2. journal' \in Seq(Trade)
    BY <1>1, <2>1 DEF OnCandle, TypeOK
  <2>3. clock' \in Nat
    BY <1>1, CandleTimeType DEF OnCandle
  <2>4. IsBroker(broker') /\ open' \in OrderAck \cup {None}
        /\ (open' # None => open'.orderId \in 1..broker'.nextId - 1)
    <3>1. CASE Orders(c, signal)
      <4>1. signal \in Directions
        BY <3>1 DEF Orders, Signals
      <4> QED BY <1>1, <2>1, <3>1, <4>1, PlaceType DEF OnCandle
    <3>2. CASE ~Orders(c, signal)
      BY <1>1, <2>1, <3>2 DEF OnCandle, OpenAfter, TypeOK
    <3> QED BY <3>1, <3>2
  <2> QED BY <1>1, <2>1, <2>2, <2>3, <2>4 DEF OnCandle, TypeOK
<1>2. ASSUME NEW c \in Candles, NEW signal \in Signals(c), PlaceRaises(c, signal)
      PROVE  TypeOK'
  <2>1. /\ IsBroker(BrokerAfter(c)) /\ RiskAfter(c) \in Risk
        /\ BrokerAfter(c).nextId = broker.nextId
        /\ Due(c) => Settled(c) \in Trade
    BY SettleType
  <2>2. journal' \in Seq(Trade)
    BY <1>2, <2>1 DEF PlaceRaises, TypeOK
  <2>3. clock' \in Nat
    BY <1>2, CandleTimeType DEF PlaceRaises
  <2>4. failure' \in Failures
    BY <1>2 DEF PlaceRaises, Verdict, Failures, PlaceErrors
  <2>5. open' = None
    BY <1>2 DEF PlaceRaises, Orders
  <2> QED BY <1>2, <2>1, <2>2, <2>3, <2>4, <2>5 DEF PlaceRaises, TypeOK
<1>3. ASSUME NEW c \in Candles, LogTradeRaises(c)
      PROVE  TypeOK'
  <2>1. /\ IsBroker(BrokerAfter(c)) /\ RiskAfter(c) \in Risk
        /\ BrokerAfter(c).nextId = broker.nextId
    BY SettleType
  <2>2. clock' \in Nat
    BY <1>3, CandleTimeType DEF LogTradeRaises
  <2> QED BY <1>3, <2>1, <2>2 DEF LogTradeRaises, TypeOK, Failures
<1>4. ASSUME ForeignCandle
      PROVE  TypeOK'
  BY <1>4 DEF ForeignCandle, TypeOK, Failures
<1>5. ASSUME UNCHANGED vars
      PROVE  TypeOK'
  BY <1>5 DEF vars, TypeOK
<1> QED BY <1>1, <1>2, <1>3, <1>4, <1>5 DEF Next

\* and a new session has them.
LEMMA TypeInit == Init => TypeOK
<1> SUFFICES ASSUME Init PROVE TypeOK
  OBVIOUS
<1>1. risk \in Risk
  BY DEF Init, NewRisk, Risk
<1>2. IsBroker(broker)
  BY BrokerConstants DEF Init, NewBroker, IsBroker, Hundredths
<1> QED BY <1>1, <1>2 DEF Init, TypeOK

\* Every variable of the session keeps its type: whatever the settings, the
\* prices and the endings of on_candle, the ledger stays an integer number of
\* hundredths and settled trades stay under order numbers that were given out.
THEOREM TypeCorrect == Spec => []TypeOK
BY TypeInit, TypeStep, PTL DEF Spec

-----------------------------------------------------------------------------
(* The inductive invariant.  The safety properties are not inductive on    *)
(* their own: that the ledgers agree needs to know that the open order has *)
(* not been credited yet and holds exactly one stake, and that a halt      *)
(* leaves nothing at risk needs to know what an active manager has not     *)
(* seen yet.                                                               *)

\* The open order holds one stake, and is settled only by an on_candle whose
\* log_trade raised.
PositionInv ==
    open # None => /\ open.request.stake = stake
                   /\ stake > 0
                   /\ expiryS \in SUPPORTED_EXPIRY_SECONDS
                   /\ IsSettled(broker, open) <=> failure = "LOG_TRADE"

\* An active manager has seen no breach; a halted one knows why.
RiskOk(r) ==
    /\ r.state = "HALTED" <=> r.haltReason # None
    /\ r.state = "ACTIVE" /\ daily_loss_limit < 0 => r.dailyPnl > daily_loss_limit
    /\ r.state = "ACTIVE" /\ MaxConsecutiveLosses > 0 =>
         r.consecutiveLosses < MaxConsecutiveLosses
RiskInv == RiskOk(risk)

Solvent == broker.balance >= 0

SafetyInv ==
    /\ LedgersAgree
    /\ AllowedOrdersAreAccepted
    /\ LossesAreBounded
    /\ HaltedMeansFlat
    /\ NoOverduePosition
    /\ Solvent

IInv == TypeOK /\ PositionInv /\ RiskInv /\ SafetyInv

\* A new session satisfies the inductive invariant,
LEMMA InitIInv == Init => IInv
<1> SUFFICES ASSUME Init PROVE IInv
  OBVIOUS
<1>1. TypeOK
  BY TypeInit
<1>2. PositionInv
  BY DEF Init, PositionInv
<1>3. RiskInv
  <2>1. /\ risk.state = "ACTIVE" /\ risk.haltReason = None
        /\ risk.dailyPnl = 0 /\ risk.consecutiveLosses = 0
    BY DEF Init, NewRisk
  <2> QED BY <2>1, LimitType, RiskConstants DEF RiskInv, RiskOk
<1>4. LedgersAgree /\ Solvent
  BY BrokerConstants DEF Init, LedgersAgree, Equity, AtRisk, NewBroker, NewRisk, Hundredths, Solvent
<1>5. LossesAreBounded
  BY <1>1, LimitType, RiskConstants, SessionConstants
     DEF Init, LossesAreBounded, NewRisk, Hundredths, TypeOK
<1>6. AllowedOrdersAreAccepted /\ HaltedMeansFlat /\ NoOverduePosition
  BY SessionConstants DEF Init, AllowedOrdersAreAccepted, HaltedMeansFlat, NoOverduePosition,
     AtRisk, Failures
<1> QED BY <1>1, <1>2, <1>3, <1>4, <1>5, <1>6 DEF IInv, SafetyInv

-----------------------------------------------------------------------------
(* What _maybe_settle does to the invariant. *)

\* record keeps an active manager's knowledge, and its totals move by the
\* trade alone.
LEMMA RecordInv ==
    ASSUME NEW r \in Risk, r.state = "ACTIVE", RiskOk(r), NEW t \in Trade
    PROVE  /\ RiskOk(record(r, t))
           /\ record(r, t).dailyPnl = r.dailyPnl + t.pnl
           /\ MaxConsecutiveLosses > 0 =>
                record(r, t).consecutiveLosses <= MaxConsecutiveLosses
<1> DEFINE pnl    == r.dailyPnl + t.pnl
           streak == Streak(r, t.outcome)
           reason == Breach(pnl, streak)
<1>1. pnl \in Int /\ streak \in Nat
  BY DEF Risk, Trade, Outcomes, Streak
<1>2. streak <= r.consecutiveLosses + 1
  BY DEF Risk, Trade, Outcomes, Streak
<1>3. reason = None => pnl > daily_loss_limit /\ streak < MaxConsecutiveLosses
  BY <1>1, LimitType, RiskConstants DEF Breach
<1>4. record(r, t) = [state |-> IF reason = None THEN "ACTIVE" ELSE "HALTED",
                      haltReason |-> reason, dailyPnl |-> pnl,
                      consecutiveLosses |-> streak]
  BY DEF record, IsHalted
<1>5. MaxConsecutiveLosses > 0 => streak <= MaxConsecutiveLosses
  BY <1>1, <1>2, RiskConstants DEF RiskOk, Risk
<1> HIDE DEF pnl, streak, reason
<1>6. RiskOk(record(r, t))
  BY <1>3, <1>4 DEF RiskOk
<1> QED BY <1>4, <1>5, <1>6 DEF pnl

\* The settlement of a due position: it returns the stake with the profit or
\* the loss, and it finds the manager active.
LEMMA DueSettlement ==
    ASSUME IInv, failure = None, NEW c \in Candles, Due(c)
    PROVE  /\ risk.state = "ACTIVE"
           /\ Settled(c).pnl \in Int
           /\ Settled(c).pnl >= -Hundredths(stake)
           /\ BrokerAfter(c).balance = broker.balance + Hundredths(stake) + Settled(c).pnl
           /\ IsSettled(BrokerAfter(c), open)
           /\ RiskAfter(c) = record(risk, Settled(c))
           /\ Settled(c) \in Trade
<1>1. /\ open # None /\ ~IsSettled(broker, open)
      /\ open.request.stake = stake /\ stake > 0
  BY SessionConstants DEF Due, IInv, PositionInv, Failures
<1>2. stake \in Int /\ stake \in Nat
  BY <1>1, SessionConstants DEF IInv, TypeOK
<1>3. risk.state = "ACTIVE"
  BY <1>1, <1>2 DEF IInv, SafetyInv, HaltedMeansFlat, AtRisk, Hundredths, TypeOK, Risk
<1>4. Settled(c) \in Trade /\ Settled(c).pnl \in Int
  BY SettleType DEF IInv, Trade
<1> DEFINE outcome == resolve_outcome(open.request.direction, open.entryPrice, c.close)
           pnl     == pnl_for(outcome, open.request.stake, PayoutPct)
<1>5. pnl >= -Hundredths(stake)
  BY <1>1, <1>2, OutcomeType, PnlBound, BrokerConstants
<1> HIDE DEF pnl
<1>6. /\ Settled(c).pnl = pnl
      /\ Settled(c).balanceAfter = broker.balance + (Hundredths(stake) + pnl)
  BY <1>1 DEF Settled, TradeFor, Credit, pnl
<1>7. /\ BrokerAfter(c).balance = Settled(c).balanceAfter
      /\ IsSettled(BrokerAfter(c), open)
  BY <1>1 DEF BrokerAfter, settle, IsSettled, Settled
<1>8. BrokerAfter(c).balance = broker.balance + Hundredths(stake) + Settled(c).pnl
  BY <1>2, <1>4, <1>6, <1>7 DEF IInv, TypeOK, IsBroker, Hundredths
<1> QED BY <1>3, <1>4, <1>5, <1>6, <1>7, <1>8 DEF RiskAfter

\* What LossesAreBounded says, of any manager's totals.
LossBound(r) ==
    /\ stake > 0 /\ daily_loss_limit < 0 =>
         r.dailyPnl > daily_loss_limit - Hundredths(stake)
    /\ MaxConsecutiveLosses > 0 => r.consecutiveLosses <= MaxConsecutiveLosses

\* Whether or not a settlement is due, _maybe_open finds a ledger that agrees
\* with the manager's.
LEMMA AfterSettlement ==
    ASSUME IInv, failure = None, NEW c \in Candles
    PROVE  /\ RiskOk(RiskAfter(c))
           /\ LossBound(RiskAfter(c))
           /\ BrokerAfter(c).balance >= 0
           /\ OpenAfter(c) = None =>
                BrokerAfter(c).balance = Hundredths(StartingBalance) + RiskAfter(c).dailyPnl
<1>1. CASE ~Due(c)
  <2>1. BrokerAfter(c) = broker /\ RiskAfter(c) = risk /\ OpenAfter(c) = open
    BY <1>1 DEF BrokerAfter, RiskAfter, OpenAfter
  <2>2. open = None => broker.balance = Hundredths(StartingBalance) + risk.dailyPnl
    BY DEF IInv, SafetyInv, LedgersAgree, Equity, AtRisk, TypeOK, IsBroker
  <2> QED BY <2>1, <2>2 DEF IInv, RiskInv, SafetyInv, LossesAreBounded, LossBound, Solvent
<1>2. CASE Due(c)
  <2>1. /\ risk.state = "ACTIVE"
        /\ Settled(c).pnl \in Int
        /\ Settled(c).pnl >= -Hundredths(stake)
        /\ BrokerAfter(c).balance = broker.balance + Hundredths(stake) + Settled(c).pnl
        /\ RiskAfter(c) = record(risk, Settled(c))
        /\ Settled(c) \in Trade
    BY <1>2, DueSettlement
  <2>2. risk \in Risk /\ risk.dailyPnl \in Int /\ broker.balance \in Int /\ stake \in Int
    BY SessionConstants DEF IInv, TypeOK, Risk, IsBroker
  <2>3. /\ RiskOk(RiskAfter(c))
        /\ RiskAfter(c).dailyPnl = risk.dailyPnl + Settled(c).pnl
        /\ MaxConsecutiveLosses > 0 =>
             RiskAfter(c).consecutiveLosses <= MaxConsecutiveLosses
    BY <2>1, <2>2, RecordInv DEF IInv, RiskInv
  <2>4. broker.balance + Hundredths(stake) = Hundredths(StartingBalance) + risk.dailyPnl
    BY <1>2, SessionConstants DEF Due, IInv, PositionInv, SafetyInv, LedgersAgree, Equity,
       AtRisk, Failures
  <2>5. daily_loss_limit < 0 => risk.dailyPnl > daily_loss_limit
    BY <2>1 DEF IInv, RiskInv, RiskOk
  <2>6. LossBound(RiskAfter(c))
    BY <2>1, <2>2, <2>3, <2>5, LimitType DEF LossBound, Hundredths
  <2>7. BrokerAfter(c).balance = Hundredths(StartingBalance) + RiskAfter(c).dailyPnl
    BY <2>1, <2>2, <2>3, <2>4, BrokerConstants DEF Hundredths
  <2>8. BrokerAfter(c).balance >= 0
    BY <2>1, <2>2 DEF IInv, SafetyInv, Solvent, Hundredths
  <2> QED BY <2>3, <2>6, <2>7, <2>8
<1> QED BY <1>1, <1>2

\* An order that _maybe_open is about to place: the manager is active and the
\* balance covers the stake.
LEMMA OrderAllowed ==
    ASSUME IInv, failure = None, NEW c \in Candles, NEW signal, Orders(c, signal)
    PROVE  /\ RiskAfter(c).state # "HALTED"
           /\ Hundredths(stake) <= BrokerAfter(c).balance
<1>1. RiskOk(RiskAfter(c))
  BY AfterSettlement
<1>2. Denial(RiskAfter(c), stake, BrokerAfter(c).balance) = None
  BY DEF Orders, can_open
<1>3. ~IsHalted(RiskAfter(c))
  BY <1>1, <1>2 DEF Denial, IsHalted, RiskOk
<1>4. ~(Hundredths(stake) > BrokerAfter(c).balance)
  BY <1>2, <1>3, RiskConstants DEF Denial
<1>5. stake \in Int /\ BrokerAfter(c).balance \in Int
  BY SettleType, SessionConstants DEF IInv, TypeOK, IsBroker
<1> QED BY <1>3, <1>4, <1>5 DEF IsHalted, Hundredths

\* A placed order is not settled, and its stake has left the ledger.
LEMMA Placed ==
    ASSUME IInv, NEW c \in Candles, NEW signal \in Directions
    PROVE  LET b == BrokerAfter(c)
               r == Request(c, signal)
           IN /\ ~IsSettled(place(b, r), AckFor(b, r))
              /\ place(b, r).balance = b.balance - Hundredths(stake)
              /\ AckFor(b, r).request.stake = stake
              /\ AckFor(b, r).expiryAt = c.openTime + expiryS
              /\ AckFor(b, r) # None
<1>1. IsBroker(BrokerAfter(c))
  BY SettleType DEF IInv
<1>2. AckFor(BrokerAfter(c), Request(c, signal)) \in OrderAck
  BY <1>1, PlaceType DEF IInv
<1>3. BrokerAfter(c).nextId \notin DOMAIN BrokerAfter(c).settled
  BY <1>1 DEF IsBroker
<1> QED BY <1>2, <1>3, SessionConstants DEF place, AckFor, Request, IsSettled

-----------------------------------------------------------------------------
(* Every action keeps the invariant.  The facts below name the parts each  *)
(* action can disturb; TypeOK' comes from TypeStep.                        *)

\* A call of on_candle that returns keeps the invariant.
LEMMA OnCandleStep ==
    ASSUME IInv, NEW c \in Candles, NEW signal \in Signals(c), OnCandle(c, signal), TypeOK'
    PROVE  IInv'
<1>1. failure = None /\ failure' = None /\ stake' = stake /\ expiryS' = expiryS
      /\ risk' = RiskAfter(c) /\ clock' = c.openTime
  BY DEF OnCandle
<1>2. /\ RiskOk(RiskAfter(c)) /\ LossBound(RiskAfter(c)) /\ BrokerAfter(c).balance >= 0
      /\ OpenAfter(c) = None =>
           BrokerAfter(c).balance = Hundredths(StartingBalance) + RiskAfter(c).dailyPnl
  BY <1>1, AfterSettlement
<1>3. RiskInv' /\ LossesAreBounded'
  BY <1>1, <1>2 DEF RiskInv, RiskOk, LossesAreBounded, LossBound, daily_loss_limit
<1>4. AllowedOrdersAreAccepted'
  BY <1>1, SessionConstants DEF AllowedOrdersAreAccepted, Failures
<1>5. /\ stake \in Int /\ expiryS \in Int /\ BrokerAfter(c).balance \in Int
      /\ RiskAfter(c).dailyPnl \in Int /\ c.openTime \in Nat
  BY SettleType, CandleTimeType, SessionConstants DEF IInv, TypeOK, IsBroker, Risk
<1>6. CASE Orders(c, signal)
  <2> DEFINE b == BrokerAfter(c)
             r == Request(c, signal)
  <2>1. signal \in Directions
    BY <1>6 DEF Orders, Signals
  <2>2. broker' = place(b, r) /\ open' = AckFor(b, r) /\ Verdict(b, r) = "ACCEPTED"
    BY <1>6 DEF OnCandle
  <2>3. /\ open' # None /\ ~IsSettled(broker', open')
        /\ broker'.balance = b.balance - Hundredths(stake)
        /\ open'.request.stake = stake /\ open'.expiryAt = c.openTime + expiryS
    BY <2>1, <2>2, Placed
  <2>4. stake > 0 /\ expiryS \in SUPPORTED_EXPIRY_SECONDS
    BY <1>5, <2>2 DEF Verdict, Request
  <2>5. risk'.state # "HALTED" /\ Hundredths(stake) <= b.balance
    BY <1>1, <1>6, OrderAllowed
  <2>6. PositionInv'
    <3>1. failure' # "LOG_TRADE"
      BY <1>1, SessionConstants DEF Failures
    <3> QED BY <1>1, <2>3, <2>4, <3>1 DEF PositionInv, IsSettled
  <2>7. LedgersAgree'
    <3>1. AtRisk' = Hundredths(stake)
      BY <1>1, <2>3 DEF AtRisk, IsSettled, Hundredths
    <3>2. b.balance = Hundredths(StartingBalance) + RiskAfter(c).dailyPnl
      BY <1>2, <1>6 DEF Orders
    <3> HIDE DEF b, r
    <3>3. b.balance \in Int
      BY <1>5 DEF b
    <3> QED BY <1>1, <1>5, <2>3, <3>1, <3>2, <3>3, BrokerConstants
            DEF LedgersAgree, Equity, Hundredths
  <2>8. HaltedMeansFlat' /\ Solvent'
    BY <1>5, <2>3, <2>5 DEF HaltedMeansFlat, Solvent, Hundredths
  <2>9. NoOverduePosition'
    BY <1>1, <1>5, <2>3, <2>4 DEF NoOverduePosition, SUPPORTED_EXPIRY_SECONDS
  <2> QED BY <1>3, <1>4, <2>6, <2>7, <2>8, <2>9 DEF IInv, SafetyInv
<1>7. CASE ~Orders(c, signal)
  <2>1. broker' = BrokerAfter(c) /\ open' = OpenAfter(c)
    BY <1>7 DEF OnCandle
  <2>2. CASE Due(c) \/ open = None
    <3>1. open' = None /\ AtRisk' = 0
      BY <2>1, <2>2 DEF OpenAfter, AtRisk
    <3> QED BY <1>1, <1>2, <1>3, <1>4, <1>5, <2>1, <3>1, BrokerConstants
            DEF IInv, SafetyInv, PositionInv, LedgersAgree, Equity, HaltedMeansFlat,
                NoOverduePosition, Solvent, Hundredths
  <2>3. CASE ~Due(c) /\ open # None
    <3>1. broker' = broker /\ open' = open /\ risk' = risk
      BY <1>1, <2>1, <2>3 DEF BrokerAfter, RiskAfter, OpenAfter
    <3>2. c.openTime < open.expiryAt
      BY <1>5, <2>3 DEF Due, IInv, TypeOK, OrderAck
    <3>3. AtRisk' = AtRisk
      BY <1>1, <3>1 DEF AtRisk, IsSettled, Hundredths
    <3>4. PositionInv' /\ NoOverduePosition'
      BY <1>1, <3>1, <3>2 DEF IInv, PositionInv, IsSettled, NoOverduePosition
    <3> QED BY <1>3, <1>4, <3>1, <3>3, <3>4
            DEF IInv, SafetyInv, LedgersAgree, Equity, HaltedMeansFlat, Solvent, Hundredths
  <2> QED BY <2>2, <2>3
<1> QED BY <1>6, <1>7

\* A refused order: never with settings the broker supports.
LEMMA PlaceRaisesStep ==
    ASSUME IInv, NEW c \in Candles, NEW signal \in Signals(c), PlaceRaises(c, signal), TypeOK'
    PROVE  IInv'
<1>1. /\ failure = None /\ stake' = stake /\ expiryS' = expiryS
      /\ risk' = RiskAfter(c) /\ broker' = BrokerAfter(c)
      /\ Orders(c, signal) /\ open' = None
  BY DEF PlaceRaises, Orders
<1>2. /\ RiskOk(RiskAfter(c)) /\ LossBound(RiskAfter(c)) /\ BrokerAfter(c).balance >= 0
      /\ BrokerAfter(c).balance = Hundredths(StartingBalance) + RiskAfter(c).dailyPnl
  BY <1>1, AfterSettlement DEF Orders
<1>3. RiskInv' /\ LossesAreBounded'
  BY <1>1, <1>2 DEF RiskInv, RiskOk, LossesAreBounded, LossBound, daily_loss_limit
<1>4. AllowedOrdersAreAccepted'
  <2>1. ~ValidSettings
    <3> SUFFICES ASSUME ValidSettings PROVE FALSE
      OBVIOUS
    <3>1. stake \in Int /\ BrokerAfter(c).balance \in Int
      BY SettleType, SessionConstants DEF IInv, TypeOK, IsBroker
    <3>2. Hundredths(stake) <= BrokerAfter(c).balance
      BY <1>1, OrderAllowed
    <3>3. Verdict(BrokerAfter(c), Request(c, signal)) = "ACCEPTED"
      BY <3>1, <3>2 DEF ValidSettings, Verdict, Request, Hundredths
    <3> QED BY <3>3 DEF PlaceRaises
  <2> QED BY <1>1, <2>1 DEF AllowedOrdersAreAccepted, ValidSettings
<1>5. AtRisk' = 0
  BY <1>1 DEF AtRisk
<1>6. BrokerAfter(c).balance \in Int /\ RiskAfter(c).dailyPnl \in Int
  BY SettleType DEF IInv, IsBroker, Risk
<1> QED BY <1>1, <1>2, <1>3, <1>4, <1>5, <1>6, BrokerConstants
        DEF IInv, SafetyInv, PositionInv, LedgersAgree, Equity, HaltedMeansFlat,
            NoOverduePosition, Solvent, Hundredths

\* A failed log_trade: the position stays in _open, but it is settled, so it
\* holds no money.
LEMMA LogTradeRaisesStep ==
    ASSUME IInv, NEW c \in Candles, LogTradeRaises(c), TypeOK'
    PROVE  IInv'
<1>1. /\ failure = None /\ failure' = "LOG_TRADE" /\ Due(c)
      /\ stake' = stake /\ expiryS' = expiryS /\ open' = open
      /\ risk' = RiskAfter(c) /\ broker' = BrokerAfter(c)
  BY DEF LogTradeRaises
<1>2. /\ RiskOk(RiskAfter(c)) /\ LossBound(RiskAfter(c)) /\ BrokerAfter(c).balance >= 0
      /\ BrokerAfter(c).balance = Hundredths(StartingBalance) + RiskAfter(c).dailyPnl
  BY <1>1, AfterSettlement DEF OpenAfter
<1>3. RiskInv' /\ LossesAreBounded'
  BY <1>1, <1>2 DEF RiskInv, RiskOk, LossesAreBounded, LossBound, daily_loss_limit
<1>4. IsSettled(broker', open')
  BY <1>1, DueSettlement
<1>5. AtRisk' = 0
  BY <1>4 DEF AtRisk, IsSettled
<1>6. PositionInv'
  BY <1>1, <1>4 DEF IInv, PositionInv, IsSettled
<1>7. BrokerAfter(c).balance \in Int /\ RiskAfter(c).dailyPnl \in Int
  BY SettleType DEF IInv, IsBroker, Risk
<1>8. LedgersAgree' /\ HaltedMeansFlat' /\ Solvent'
  BY <1>1, <1>2, <1>5, <1>7, BrokerConstants
     DEF LedgersAgree, Equity, HaltedMeansFlat, Solvent, Hundredths
<1>9. AllowedOrdersAreAccepted' /\ NoOverduePosition'
  BY <1>1, SessionConstants DEF AllowedOrdersAreAccepted, NoOverduePosition, PlaceErrors, Failures
<1> QED BY <1>3, <1>6, <1>8, <1>9 DEF IInv, SafetyInv

\* A candle of another asset, before anything has changed.
LEMMA ForeignCandleStep ==
    ASSUME IInv, ForeignCandle, TypeOK'
    PROVE  IInv'
<1>1. /\ failure = None /\ failure' = "FOREIGN_ASSET"
      /\ UNCHANGED <<risk, broker, open, stake, expiryS>>
  BY DEF ForeignCandle
<1>2. PositionInv'
  BY <1>1, SessionConstants DEF IInv, PositionInv, IsSettled, Failures
<1>3. AtRisk' = AtRisk
  BY <1>1 DEF AtRisk, IsSettled, Hundredths
<1>4. AllowedOrdersAreAccepted' /\ NoOverduePosition'
  BY <1>1, SessionConstants DEF AllowedOrdersAreAccepted, NoOverduePosition, PlaceErrors, Failures
<1> QED BY <1>1, <1>2, <1>3, <1>4
        DEF IInv, SafetyInv, RiskInv, RiskOk, LedgersAgree, Equity, LossesAreBounded,
            HaltedMeansFlat, Solvent, Hundredths, daily_loss_limit

\* and every step keeps it.
LEMMA InductiveStep == IInv /\ [Next]_vars => IInv'
<1> SUFFICES ASSUME IInv, [Next]_vars
             PROVE  IInv'
  OBVIOUS
<1>1. TypeOK'
  BY TypeStep DEF IInv
<1>2. ASSUME NEW c \in Candles, NEW signal \in Signals(c), OnCandle(c, signal)
      PROVE  IInv'
  BY <1>1, <1>2, OnCandleStep
<1>3. ASSUME NEW c \in Candles, NEW signal \in Signals(c), PlaceRaises(c, signal)
      PROVE  IInv'
  BY <1>1, <1>3, PlaceRaisesStep
<1>4. ASSUME NEW c \in Candles, LogTradeRaises(c)
      PROVE  IInv'
  BY <1>1, <1>4, LogTradeRaisesStep
<1>5. CASE ForeignCandle
  BY <1>1, <1>5, ForeignCandleStep
<1>6. CASE UNCHANGED vars
  BY <1>1, <1>6 DEF vars, IInv, PositionInv, IsSettled, RiskInv, RiskOk, SafetyInv,
     LedgersAgree, Equity, AtRisk, AllowedOrdersAreAccepted, ValidSettings,
     LossesAreBounded, HaltedMeansFlat, NoOverduePosition, Solvent, daily_loss_limit
<1> QED BY <1>2, <1>3, <1>4, <1>5, <1>6 DEF Next

-----------------------------------------------------------------------------
(* The theorems. *)

\* The invariant above holds of every session, whatever ends it.
THEOREM Invariance == Spec => []IInv
BY InitIInv, InductiveStep, PTL DEF Spec

\* The account plus the stake of an open order is always the starting balance
\* plus the manager's running P&L (session.py:48-95), also after an exception
\* half way through on_candle.
THEOREM LedgersAlwaysAgree == Spec => []LedgersAgree
BY Invariance, PTL DEF IInv, SafetyInv

\* The day's loss passes its limit by less than one stake and the losing
\* streak never passes its limit (manager.py:75-94), for every limit.
THEOREM LossesAlwaysBounded == Spec => []LossesAreBounded
BY Invariance, PTL DEF IInv, SafetyInv

\* A halted manager has no order at risk (session.py:52-66).
THEOREM HaltedAlwaysFlat == Spec => []HaltedMeansFlat
BY Invariance, PTL DEF IInv, SafetyInv

\* No position outlives the first candle at or after its expiry
\* (session.py:68-79), whatever the spacing of the candles.
THEOREM NeverOverdue == Spec => []NoOverduePosition
BY Invariance, PTL DEF IInv, SafetyInv

\* With settings the broker supports, an order the manager allowed is never
\* refused by the broker (session.py:81-95, broker.py:51-67).
THEOREM AllowedAlwaysAccepted == Spec => []AllowedOrdersAreAccepted
BY Invariance, PTL DEF IInv, SafetyInv

\* Nothing is placed in a step that halts the manager or after it.
THEOREM NeverEntersOnceHalted == Spec => NoEntryOnceHalted
<1>1. IInv /\ [Next]_vars => [risk'.state = "HALTED" => broker'.nextId = broker.nextId]_vars
  <2> SUFFICES ASSUME IInv, Next, risk'.state = "HALTED"
               PROVE  broker'.nextId = broker.nextId
    OBVIOUS
  <2>1. ASSUME NEW c \in Candles, NEW signal \in Signals(c), OnCandle(c, signal)
        PROVE  broker'.nextId = broker.nextId
    <3>1. ~Orders(c, signal)
      BY <2>1, OrderAllowed DEF OnCandle
    <3> QED BY <2>1, <3>1, SettleType DEF OnCandle, IInv
  <2>2. ASSUME NEW c \in Candles, NEW signal \in Signals(c), PlaceRaises(c, signal)
        PROVE  broker'.nextId = broker.nextId
    BY <2>2, SettleType DEF PlaceRaises, IInv
  <2>3. ASSUME NEW c \in Candles, LogTradeRaises(c)
        PROVE  broker'.nextId = broker.nextId
    BY <2>3, SettleType DEF LogTradeRaises, IInv
  <2>4. CASE ForeignCandle
    BY <2>4 DEF ForeignCandle
  <2> QED BY <2>1, <2>2, <2>3, <2>4 DEF Next
<1> QED BY Invariance, <1>1, PTL DEF Spec, NoEntryOnceHalted

-----------------------------------------------------------------------------
(* The session keeps TradingContract: every on_candle is one of its steps  *)
(* or changes nothing it speaks of.                                        *)

\* A settlement moves the balance by stake and P&L, and the P&L is minus the
\* stake, nothing, or the payout.
LEMMA SettledPnl ==
    ASSUME IInv, failure = None, NEW c \in Candles, Due(c)
    PROVE  Settled(c).pnl \in {-Hundredths(stake), 0, stake * PayoutPct}
<1>1. open # None /\ ~IsSettled(broker, open) /\ open.request.stake = stake
  BY SessionConstants DEF Due, IInv, PositionInv, Failures
<1> DEFINE outcome == resolve_outcome(open.request.direction, open.entryPrice, c.close)
<1>2. outcome \in Outcomes
  BY OutcomeType
<1> HIDE DEF outcome
<1>3. pnl_for(outcome, stake, PayoutPct) \in {-Hundredths(stake), 0, stake * PayoutPct}
  BY <1>2 DEF pnl_for, Outcomes
<1>4. Settled(c).pnl = pnl_for(outcome, stake, PayoutPct)
  BY <1>1 DEF Settled, TradeFor, outcome
<1> QED BY <1>3, <1>4

\* A due settlement is the contract's Resolve as soon as the equity after the
\* step is the balance it leaves.
LEMMA SettlementResolves ==
    ASSUME IInv, failure = None, NEW c \in Candles, Due(c),
           risk' = RiskAfter(c), Equity' = BrokerAfter(c).balance
    PROVE  Contract!Resolve
<1>1. open # None /\ ~IsSettled(broker, open) /\ stake > 0
  BY SessionConstants DEF Due, IInv, PositionInv, Failures
<1>2. stake \in Int /\ broker.balance \in Int
  BY SessionConstants DEF IInv, TypeOK, IsBroker
<1>3. AtRisk = Hundredths(stake) /\ Exposed = stake
  BY <1>1, <1>2 DEF AtRisk, Exposed, Hundredths
<1>4. /\ Trading /\ Settled(c).pnl \in Int
      /\ Equity' = broker.balance + Hundredths(stake) + Settled(c).pnl
  BY DueSettlement DEF Trading
<1>5. Equity = broker.balance + Hundredths(stake)
  BY <1>3 DEF Equity
<1>6. Settled(c).pnl \in {-Hundredths(stake), 0, stake * PayoutPct}
  BY SettledPnl
<1>7. stake * PayoutPct \in Int
  BY <1>2, BrokerConstants
<1>8. Equity' \in {Equity - 100 * stake, Equity, Equity + stake * PayoutPct}
  BY <1>2, <1>4, <1>5, <1>6, <1>7 DEF Hundredths
<1>9. Trading' \in BOOLEAN
  BY DEF Trading
<1> QED BY <1>1, <1>3, <1>4, <1>8, <1>9 DEF Contract!Resolve

\* The settlement step of an on_candle that opens nothing: Close when a
\* position was due, nothing otherwise.
LEMMA SettlementRefines ==
    ASSUME IInv, failure = None, NEW c \in Candles,
           risk' = RiskAfter(c), broker' = BrokerAfter(c), stake' = stake,
           \/ open' = OpenAfter(c)
           \/ open' = open /\ Due(c)
    PROVE  [Contract!Next]_(Contract!contractVars)
<1>1. CASE Due(c)
  <2>1. AtRisk' = 0
    BY <1>1, DueSettlement DEF AtRisk, OpenAfter, IsSettled
  <2>2. BrokerAfter(c).balance \in Int
    BY SettleType DEF IInv, IsBroker
  <2>3. Equity' = BrokerAfter(c).balance /\ Exposed' = 0
    BY <2>1, <2>2 DEF Equity, Exposed
  <2> QED BY <1>1, <2>3, SettlementResolves DEF Contract!Next, Contract!Close
<1>2. CASE ~Due(c)
  <2>1. UNCHANGED <<risk, broker, open, stake>>
    BY <1>2 DEF BrokerAfter, RiskAfter, OpenAfter
  <2>2. AtRisk' = AtRisk
    BY <2>1 DEF AtRisk, IsSettled, Hundredths
  <2> QED BY <2>1, <2>2 DEF Contract!contractVars, Exposed, Equity, Trading
<1> QED BY <1>1, <1>2

\* The step of an on_candle that places an order: Turn when it settled one
\* first, Expose otherwise.
LEMMA OrderRefines ==
    ASSUME IInv, NEW c \in Candles, NEW signal \in Signals(c),
           OnCandle(c, signal), Orders(c, signal)
    PROVE  Contract!Next
<1> DEFINE b == BrokerAfter(c)
           r == Request(c, signal)
<1>1. /\ failure = None /\ stake' = stake /\ risk' = RiskAfter(c)
      /\ broker' = place(b, r) /\ open' = AckFor(b, r) /\ Verdict(b, r) = "ACCEPTED"
  BY DEF OnCandle
<1>2. signal \in Directions
  BY DEF Orders, Signals
<1>3. /\ open' # None /\ ~IsSettled(broker', open')
      /\ broker'.balance = b.balance - Hundredths(stake)
  BY <1>1, <1>2, Placed
<1>4. stake \in Stakes /\ stake \in Int /\ b.balance \in Int /\ RiskAfter(c) \in Risk
  BY SettleType, SessionConstants DEF IInv, TypeOK, IsBroker
<1>5. stake > 0
  BY <1>1, <1>4 DEF Verdict, Request
<1>6. RiskAfter(c).state # "HALTED" /\ Hundredths(stake) <= b.balance
  BY <1>1, OrderAllowed
<1>7. Trading'
  BY <1>1, <1>4, <1>6 DEF Trading, Risk
<1>8. AtRisk' = Hundredths(stake) /\ Exposed' = stake
  BY <1>1, <1>3, <1>4, <1>5 DEF AtRisk, Exposed, IsSettled, Hundredths
<1> HIDE DEF b, r
<1>9. Equity' = b.balance
  BY <1>3, <1>4, <1>8 DEF Equity, Hundredths
<1>10. Contract!Affordable(stake, b.balance)
  BY <1>5, <1>6 DEF Contract!Affordable, Hundredths
<1>11. CASE Due(c)
  <2>1. Contract!Resolve
    BY <1>1, <1>9, <1>11, SettlementResolves DEF b
  <2>2. Contract!Turn(stake)
    BY <1>7, <1>8, <1>9, <1>10, <2>1 DEF Contract!Turn
  <2> QED BY <1>4, <2>2 DEF Contract!Next
<1>12. CASE ~Due(c)
  <2>1. b = broker /\ risk' = risk /\ open = None
    BY <1>1, <1>12 DEF b, BrokerAfter, RiskAfter, OpenAfter, Orders
  <2>2. AtRisk = 0 /\ Exposed = 0
    BY <2>1 DEF AtRisk, Exposed
  <2>3. Equity = b.balance
    BY <1>4, <2>1, <2>2 DEF Equity
  <2>4. Contract!Expose(stake)
    BY <1>7, <1>8, <1>9, <1>10, <2>1, <2>2, <2>3 DEF Contract!Expose, Trading
  <2> QED BY <1>4, <2>4 DEF Contract!Next
<1> QED BY <1>11, <1>12

\* A new session is a new session of the contract.
LEMMA ContractInit == Init => Contract!Init
<1> SUFFICES ASSUME Init PROVE Contract!Init
  OBVIOUS
<1>1. open = None /\ risk.state = "ACTIVE" /\ broker.balance = Hundredths(StartingBalance)
  BY DEF Init, NewRisk, NewBroker
<1>2. AtRisk = 0
  BY <1>1 DEF AtRisk
<1> QED BY <1>1, <1>2, BrokerConstants
        DEF Contract!Init, Exposed, Equity, Trading, Hundredths

\* A session over the paper broker keeps the contract of TradingContract, for
\* every setting, price and candle spacing: one stake exposed at a time,
\* never more than the equity, and no exposure after the manager has halted.
THEOREM SessionImplementsContract == Spec => ImplementsContract
<1>1. IInv /\ [Next]_vars => [Contract!Next]_(Contract!contractVars)
  <2> SUFFICES ASSUME IInv, [Next]_vars
               PROVE  [Contract!Next]_(Contract!contractVars)
    OBVIOUS
  <2>1. ASSUME NEW c \in Candles, NEW signal \in Signals(c), OnCandle(c, signal)
        PROVE  [Contract!Next]_(Contract!contractVars)
    <3>1. CASE Orders(c, signal)
      BY <2>1, <3>1, OrderRefines
    <3>2. CASE ~Orders(c, signal)
      BY <2>1, <3>2, SettlementRefines DEF OnCandle
    <3> QED BY <3>1, <3>2
  <2>2. ASSUME NEW c \in Candles, NEW signal \in Signals(c), PlaceRaises(c, signal)
        PROVE  [Contract!Next]_(Contract!contractVars)
    BY <2>2, SettlementRefines DEF PlaceRaises
  <2>3. ASSUME NEW c \in Candles, LogTradeRaises(c)
        PROVE  [Contract!Next]_(Contract!contractVars)
    BY <2>3, SettlementRefines DEF LogTradeRaises
  <2>4. CASE ForeignCandle \/ UNCHANGED vars
    <3>1. UNCHANGED <<risk, broker, open, stake>>
      BY <2>4 DEF ForeignCandle, vars
    <3>2. AtRisk' = AtRisk
      BY <3>1 DEF AtRisk, IsSettled, Hundredths
    <3> QED BY <3>1, <3>2 DEF Contract!contractVars, Exposed, Equity, Trading
  <2> QED BY <2>1, <2>2, <2>3, <2>4 DEF Next
<1> QED BY Invariance, ContractInit, <1>1, PTL DEF Spec, ImplementsContract, Contract!Spec

-----------------------------------------------------------------------------
(* EveryOrderAccountedFor: the journal, the broker's settled trades and    *)
(* the open position together hold every order once.                       *)

\* One order is placed and not settled.
Pending == IF open # None /\ failure # "LOG_TRADE" THEN 1 ELSE 0
\* One order placed is not in the journal.
Missing == IF open # None THEN 1 ELSE 0

\* Orders are settled in the order they were placed in, and journalled under
\* their numbers: with one position at a time there is no other way.
OrderInv ==
    /\ open # None => open.orderId = broker.nextId - 1
    /\ failure = "LOG_TRADE" => open # None
    /\ DOMAIN broker.settled = 1..(broker.nextId - 1 - Pending)
    /\ Len(journal) = broker.nextId - 1 - Missing
    /\ \A i \in 1..Len(journal) : /\ journal[i] = broker.settled[i]
                                  /\ journal[i].ack.orderId = i

\* A settlement fills the one place that is left.
LEMMA SettlementFills ==
    ASSUME IInv, OrderInv, failure = None, NEW c \in Candles, Due(c)
    PROVE  /\ DOMAIN BrokerAfter(c).settled = 1..(broker.nextId - 1)
           /\ BrokerAfter(c).settled[broker.nextId - 1] = Settled(c)
           /\ \A i \in 1..(broker.nextId - 2) :
                BrokerAfter(c).settled[i] = broker.settled[i]
           /\ Settled(c).ack.orderId = broker.nextId - 1
           /\ Len(journal) = broker.nextId - 2
           /\ open # None
<1>1. /\ open # None /\ ~IsSettled(broker, open)
      /\ open.orderId = broker.nextId - 1
  BY SessionConstants DEF Due, IInv, PositionInv, Failures, OrderInv
<1>2. broker.nextId \in Nat \ {0}
  BY DEF IInv, TypeOK, IsBroker
<1>3. failure # "LOG_TRADE"
  BY SessionConstants DEF Failures
<1>4. DOMAIN broker.settled = 1..(broker.nextId - 2) /\ Len(journal) = broker.nextId - 2
  BY <1>1, <1>2, <1>3 DEF OrderInv, Pending, Missing
<1>5. broker.nextId - 1 >= 1
  BY <1>1, <1>2 DEF IInv, TypeOK
<1> DEFINE t == TradeFor(broker, open, c.close)
<1>6. t.ack = open
  BY <1>1 DEF TradeFor
<1> HIDE DEF t
<1>7. BrokerAfter(c).settled =
        [id \in DOMAIN broker.settled \cup {open.orderId} |->
           IF id = open.orderId THEN t ELSE broker.settled[id]]
  BY <1>1 DEF BrokerAfter, settle, t
<1>8. DOMAIN broker.settled \cup {open.orderId} = 1..(broker.nextId - 1)
  BY <1>1, <1>2, <1>4, <1>5
<1>9. Settled(c) = t
  BY DEF Settled, t
<1> QED BY <1>1, <1>2, <1>4, <1>5, <1>6, <1>7, <1>8, <1>9

\* A new session has placed nothing.
LEMMA OrderInit == Init => OrderInv
<1> SUFFICES ASSUME Init PROVE OrderInv
  OBVIOUS
<1>1. open = None /\ failure # "LOG_TRADE" /\ journal = << >>
  BY SessionConstants DEF Init, Failures
<1>2. broker.nextId = 1 /\ broker.settled = << >>
  BY DEF Init, NewBroker
<1> QED BY <1>1, <1>2 DEF OrderInv, Pending, Missing

\* The journal as _maybe_settle(c) leaves it when log_trade returns.
JournalAfter(c) == IF Due(c) THEN Append(journal, Settled(c)) ELSE journal

\* When nothing is open after the settlement, every order placed is settled
\* and journalled.
LEMMA AllJournalled ==
    ASSUME IInv, OrderInv, failure = None, NEW c \in Candles, OpenAfter(c) = None
    PROVE  /\ DOMAIN BrokerAfter(c).settled = 1..(broker.nextId - 1)
           /\ Len(JournalAfter(c)) = broker.nextId - 1
           /\ \A i \in 1..(broker.nextId - 1) :
                /\ JournalAfter(c)[i] = BrokerAfter(c).settled[i]
                /\ JournalAfter(c)[i].ack.orderId = i
<1>1. broker.nextId \in Nat \ {0} /\ journal \in Seq(Trade) /\ failure # "LOG_TRADE"
  BY SessionConstants DEF IInv, TypeOK, IsBroker, Failures
<1>2. CASE Due(c)
  <2>1. /\ DOMAIN BrokerAfter(c).settled = 1..(broker.nextId - 1)
        /\ BrokerAfter(c).settled[broker.nextId - 1] = Settled(c)
        /\ \A i \in 1..(broker.nextId - 2) :
             BrokerAfter(c).settled[i] = broker.settled[i]
        /\ Settled(c).ack.orderId = broker.nextId - 1
        /\ Len(journal) = broker.nextId - 2
    BY <1>2, SettlementFills
  <2>2. Settled(c) \in Trade
    BY <1>2, SettleType DEF IInv
  <2>3. JournalAfter(c) = Append(journal, Settled(c))
    BY <1>2 DEF JournalAfter
  <2>4. /\ Len(JournalAfter(c)) = broker.nextId - 1
        /\ \A i \in 1..(broker.nextId - 2) : JournalAfter(c)[i] = journal[i]
        /\ JournalAfter(c)[broker.nextId - 1] = Settled(c)
    BY <1>1, <2>1, <2>2, <2>3
  <2>5. \A i \in 1..(broker.nextId - 2) :
          journal[i] = broker.settled[i] /\ journal[i].ack.orderId = i
    BY <1>1, <2>1 DEF OrderInv
  <2>6. ASSUME NEW i \in 1..(broker.nextId - 1)
        PROVE  /\ JournalAfter(c)[i] = BrokerAfter(c).settled[i]
               /\ JournalAfter(c)[i].ack.orderId = i
    <3>1. CASE i = broker.nextId - 1
      BY <2>1, <2>4, <3>1
    <3>2. CASE i # broker.nextId - 1
      <4>1. i \in 1..(broker.nextId - 2)
        BY <1>1, <3>2
      <4> QED BY <2>1, <2>4, <2>5, <4>1
    <3> QED BY <3>1, <3>2
  <2> QED BY <2>1, <2>4, <2>6
<1>3. CASE ~Due(c)
  <2>1. open = None /\ BrokerAfter(c) = broker /\ JournalAfter(c) = journal
    BY <1>3 DEF OpenAfter, BrokerAfter, JournalAfter
  <2> QED BY <1>1, <2>1 DEF OrderInv, Pending, Missing
<1> QED BY <1>2, <1>3

\* Every call of on_candle keeps the order numbers in line.
LEMMA OrderStep == IInv /\ OrderInv /\ [Next]_vars => OrderInv'
<1> SUFFICES ASSUME IInv, OrderInv, [Next]_vars
             PROVE  OrderInv'
  OBVIOUS
<1>1. broker.nextId \in Nat \ {0}
  BY DEF IInv, TypeOK, IsBroker
<1>2. ASSUME NEW c \in Candles, NEW signal \in Signals(c), OnCandle(c, signal)
      PROVE  OrderInv'
  <2>1. /\ failure = None /\ failure' = None /\ journal' = JournalAfter(c)
        /\ failure' # "LOG_TRADE"
    BY <1>2, SessionConstants DEF OnCandle, JournalAfter, Failures
  <2>2. BrokerAfter(c).nextId = broker.nextId
    BY SettleType DEF IInv
  <2>3. CASE Orders(c, signal)
    <3>1. signal \in Directions
      BY <2>3 DEF Orders, Signals
    <3>2. /\ open' # None /\ open'.orderId = broker.nextId
          /\ broker'.nextId = broker.nextId + 1
          /\ broker'.settled = BrokerAfter(c).settled
      <4> DEFINE b == BrokerAfter(c)
                 r == Request(c, signal)
      <4>1. broker' = place(b, r) /\ open' = AckFor(b, r)
        BY <1>2, <2>3 DEF OnCandle
      <4>2. AckFor(b, r) # None
        BY <1>2, <2>3, <3>1, Placed DEF OnCandle
      <4> HIDE DEF b, r
      <4>3. /\ place(b, r).nextId = b.nextId + 1
            /\ place(b, r).settled = b.settled
            /\ AckFor(b, r).orderId = b.nextId
        BY DEF place, AckFor
      <4> QED BY <2>2, <4>1, <4>2, <4>3 DEF b
    <3>3. OpenAfter(c) = None
      BY <2>3 DEF Orders
    <3>4. Pending' = 1 /\ Missing' = 1
      BY <2>1, <3>2 DEF Pending, Missing
    <3>5. broker'.nextId - 1 - 1 = broker.nextId - 1 /\ broker'.nextId - 1 = broker.nextId
      BY <1>1, <3>2
    <3> QED BY <2>1, <3>2, <3>3, <3>4, <3>5, AllJournalled DEF OrderInv
  <2>4. CASE ~Orders(c, signal)
    <3>1. broker' = BrokerAfter(c) /\ open' = OpenAfter(c)
      BY <1>2, <2>4 DEF OnCandle
    <3>2. CASE OpenAfter(c) = None
      <4>1. Pending' = 0 /\ Missing' = 0
        BY <3>1, <3>2 DEF Pending, Missing
      <4> QED BY <1>1, <2>1, <2>2, <3>1, <3>2, <4>1, AllJournalled DEF OrderInv
    <3>3. CASE OpenAfter(c) # None
      <4>1. broker' = broker /\ open' = open /\ journal' = journal /\ open # None
        BY <2>1, <3>1, <3>3 DEF OpenAfter, BrokerAfter, JournalAfter
      <4>2. Pending' = Pending /\ Missing' = Missing
        BY <2>1, <4>1 DEF Pending, Missing
      <4> QED BY <2>1, <4>1, <4>2 DEF OrderInv
    <3> QED BY <3>2, <3>3
  <2> QED BY <2>3, <2>4
<1>3. ASSUME NEW c \in Candles, NEW signal \in Signals(c), PlaceRaises(c, signal)
      PROVE  OrderInv'
  <2>1. /\ failure = None /\ journal' = JournalAfter(c) /\ broker' = BrokerAfter(c)
        /\ open' = None /\ OpenAfter(c) = None
    BY <1>3 DEF PlaceRaises, JournalAfter, Orders
  <2>2. BrokerAfter(c).nextId = broker.nextId
    BY SettleType DEF IInv
  <2>3. failure' # "LOG_TRADE"
    BY <1>3 DEF PlaceRaises, Verdict
  <2>4. Pending' = 0 /\ Missing' = 0
    BY <2>1 DEF Pending, Missing
  <2> QED BY <1>1, <2>1, <2>2, <2>3, <2>4, AllJournalled DEF OrderInv
<1>4. ASSUME NEW c \in Candles, LogTradeRaises(c)
      PROVE  OrderInv'
  <2>1. /\ failure = None /\ journal' = journal /\ broker' = BrokerAfter(c)
        /\ open' = open /\ failure' = "LOG_TRADE" /\ Due(c)
    BY <1>4 DEF LogTradeRaises
  <2>2. BrokerAfter(c).nextId = broker.nextId
    BY SettleType DEF IInv
  <2>3. /\ open # None /\ open.orderId = broker.nextId - 1
        /\ DOMAIN BrokerAfter(c).settled = 1..(broker.nextId - 1)
        /\ Len(journal) = broker.nextId - 2
        /\ \A i \in 1..(broker.nextId - 2) : BrokerAfter(c).settled[i] = broker.settled[i]
    BY <2>1, SettlementFills DEF OrderInv
  <2>4. Pending' = 0 /\ Missing' = 1
    BY <2>1, <2>3 DEF Pending, Missing
  <2>5. \A i \in 1..Len(journal) : /\ journal[i] = BrokerAfter(c).settled[i]
                                   /\ journal[i].ack.orderId = i
    BY <1>1, <2>3 DEF OrderInv
  <2> QED BY <1>1, <2>1, <2>2, <2>3, <2>4, <2>5 DEF OrderInv
<1>5. CASE ForeignCandle \/ UNCHANGED vars
  <2>1. /\ UNCHANGED <<broker, open, journal>>
        /\ failure' = "LOG_TRADE" <=> failure = "LOG_TRADE"
    BY <1>5, SessionConstants DEF ForeignCandle, vars, Failures
  <2>2. Pending' = Pending /\ Missing' = Missing
    BY <2>1 DEF Pending, Missing
  <2> QED BY <2>1, <2>2 DEF OrderInv
<1> QED BY <1>2, <1>3, <1>4, <1>5 DEF Next

-----------------------------------------------------------------------------
\* OrderInv is enough: counting the settled trades gives the numbers that
\* EveryOrderAccountedFor compares.
LEMMA OrdersAccounted == IInv /\ OrderInv => EveryOrderAccountedFor
<1> SUFFICES ASSUME IInv, OrderInv PROVE EveryOrderAccountedFor
  OBVIOUS
<1> DEFINE n == broker.nextId - 1 - Pending
<1>1. broker.nextId \in Nat \ {0} /\ journal \in Seq(Trade)
  BY DEF IInv, TypeOK, IsBroker
<1>2. /\ Len(journal) \in Nat /\ DOMAIN journal = 1..Len(journal)
      /\ Len(journal) = broker.nextId - 1 - Missing
      /\ DOMAIN broker.settled = 1..n
  BY <1>1 DEF OrderInv
<1>3. /\ n \in Nat
      /\ Len(journal) <= n
      /\ Len(journal) = n - (IF failure = "LOG_TRADE" THEN 1 ELSE 0)
  BY <1>1, <1>2 DEF Pending, Missing, OrderInv
<1>4. Cardinality(1..n) = n
  BY <1>3, FS_Interval
<1>5. (1..broker.nextId - 1) \ (1..n) =
        IF open # None /\ failure # "LOG_TRADE" THEN {open.orderId} ELSE {}
  <2>1. CASE open # None /\ failure # "LOG_TRADE"
    <3>1. n = broker.nextId - 2 /\ open.orderId = broker.nextId - 1
      BY <1>1, <2>1 DEF Pending, OrderInv
    <3>2. (1..broker.nextId - 1) \ (1..n) = {broker.nextId - 1}
      BY <1>1, <1>3, <3>1
    <3> QED BY <2>1, <3>1, <3>2
  <2>2. CASE ~(open # None /\ failure # "LOG_TRADE")
    BY <1>1, <2>2 DEF Pending
  <2> QED BY <2>1, <2>2
<1>6. \A i \in DOMAIN journal : /\ i \in DOMAIN broker.settled
                                /\ journal[i] = broker.settled[i]
                                /\ journal[i].ack.orderId = i
  BY <1>1, <1>2, <1>3 DEF OrderInv
<1> HIDE DEF n
<1> QED BY <1>2, <1>3, <1>4, <1>5, <1>6 DEF EveryOrderAccountedFor

\* Whatever the candles, the signals and the failures, every order placed is
\* in the journal exactly once under its number, or is the open position, or
\* is the one trade that a failed log_trade lost (session.py, _maybe_settle
\* and _maybe_open).
THEOREM EveryOrderAlwaysAccountedFor == Spec => []EveryOrderAccountedFor
<1>1. IInv /\ OrderInv /\ [Next]_vars => OrderInv'
  BY OrderStep
<1>2. IInv /\ OrderInv => EveryOrderAccountedFor
  BY OrdersAccounted
<1> QED BY <1>1, <1>2, OrderInit, Invariance, PTL DEF Spec

-----------------------------------------------------------------------------
(* The strategy. *)

\* The deque stays in its bound and ends with the new close; the others keep their order.
LEMMA PushType ==
    ASSUME NEW S, NEW window \in Seq(S), Len(window) <= warmup_bars, NEW x \in S
    PROVE  /\ Push(window, x) \in Seq(S)
           /\ Len(Push(window, x)) = IF Len(window) < warmup_bars THEN Len(window) + 1
                                     ELSE warmup_bars
           /\ Push(window, x)[Len(Push(window, x))] = x
           /\ \A i \in 1..Len(Push(window, x)) - 1 :
                Push(window, x)[i] = window[i + Len(window) + 1 - Len(Push(window, x))]
<1>1. warmup_bars \in Nat /\ warmup_bars > 1
  BY CrossoverConstants DEF warmup_bars
<1>2. CASE Len(window) < warmup_bars
  <2>1. Push(window, x) = Append(window, x)
    BY <1>2 DEF Push
  <2> QED BY <1>2, <2>1
<1>3. CASE ~(Len(window) < warmup_bars)
  <2>1. Push(window, x) = Append(Tail(window), x)
    BY <1>3 DEF Push
  <2>2. Len(window) = warmup_bars /\ window # << >>
    BY <1>1, <1>3
  <2>3. /\ Tail(window) \in Seq(S)
        /\ Len(Tail(window)) = Len(window) - 1
        /\ \A i \in 1..Len(window) - 1 : Tail(window)[i] = window[i + 1]
    BY <2>2
  <2> QED BY <1>1, <2>1, <2>2, <2>3
<1> QED BY <1>2, <1>3

\* The crossover's signals are among those the session could meet.
LEMMA SignalType == ASSUME NEW window PROVE Signal(window) \in Directions \cup {None}
BY BotConstants DEF Signal, Crossing, Directions

-----------------------------------------------------------------------------
(* Refinement of the session. *)

\* A candle the loop delivers is a step of the session.
LEMMA DeliverIsSessionStep ==
    ASSUME TypeOK, NEW c \in Candles, DeliverCandle(c)
    PROVE  Next
<1> DEFINE signal == Signal(Push(closes, c.close))
<1>1. c.openTime <= Horizon
  <2>1. c.openTime \in CandleTimes
    BY DEF Candles
  <2>2. c.openTime <= LastCandle
    BY <2>1 DEF CandleTimes
  <2> QED BY <2>2, BotConstants, SessionConstants, CandleTimeType
<1>2. signal \in Signals(c)
  BY <1>1, SignalType DEF Signals
<1>3. OnCandle(c, signal) \/ PlaceRaises(c, signal) \/ LogTradeRaises(c)
  BY DEF DeliverCandle
<1> QED BY <1>2, <1>3 DEF Next

\* Every step of the bot is a step of the session, or leaves the session as it is.
LEMMA BotStepsSession == TypeOK /\ [BotNext]_botVars => [Next]_vars
<1> SUFFICES ASSUME TypeOK, [BotNext]_botVars PROVE [Next]_vars
  OBVIOUS
<1>1. CASE \E c \in Candles : DeliverCandle(c)
  BY <1>1, DeliverIsSessionStep
<1>2. CASE DeliverGap \/ SlotInSilence \/ FeedRaises \/ Report
  BY <1>2 DEF DeliverGap, SlotInSilence, FeedRaises, Report, sessionVars
<1>3. CASE UNCHANGED botVars
  BY <1>3 DEF botVars
<1> QED BY <1>1, <1>2, <1>3 DEF BotNext

\* The bot implements the session: whatever the feed does within its contract,
\* the loop and the crossover strategy show the session nothing it could not
\* meet on its own.
THEOREM BotImplementsSession == BotSpec => ImplementsSession
<1>1. BotInit => Init
  BY DEF BotInit
<1>2. TypeOK /\ [BotNext]_botVars => TypeOK'
  BY BotStepsSession, TypeStep
<1> QED BY <1>1, <1>2, TypeInit, BotStepsSession, PTL DEF BotSpec, Spec, ImplementsSession

\* So every theorem about the session holds in the bot; these are used below.
LEMMA BotSession == BotSpec => []IInv
BY BotImplementsSession, Invariance, PTL DEF ImplementsSession

-----------------------------------------------------------------------------
(* Types. *)

\* Slots are integers.
LEMMA SlotType ==
    ASSUME NEW t \in Nat
    PROVE  Slot(t) \in Int /\ Slot(t) + 1 \in Nat
<1>1. t \div TimeframeS \in Nat
  BY SessionConstants
<1> QED BY <1>1 DEF Slot

\* A delivered candle, with the signal the crossover gives, leaves the loop's own variables in
\* their types.
LEMMA DeliverKeepsTypes ==
    ASSUME BotTypeOK, TypeOK', NEW c \in Candles, DeliverCandle(c)
    PROVE  BotTypeOK'
<1>1. c.openTime \in Nat /\ c.close \in Prices
  BY CandleTimeType DEF BotTypeOK, Candles
<1>2. closes' \in Seq(Prices) /\ Len(closes') <= warmup_bars
  <2>1. closes' = Push(closes, c.close) \/ closes' = closes
    BY DEF DeliverCandle
  <2>2. Len(closes) \in Nat /\ warmup_bars \in Nat
    BY CrossoverConstants DEF BotTypeOK, warmup_bars
  <2> QED BY <1>1, <2>1, <2>2, PushType DEF BotTypeOK
<1>3. delivered' \in Seq(Nat) /\ Len(delivered') <= warmup_bars
  <2>1. delivered' = Push(delivered, c.openTime)
    BY DEF DeliverCandle
  <2>2. Len(delivered) \in Nat /\ warmup_bars \in Nat
    BY CrossoverConstants DEF BotTypeOK, warmup_bars
  <2>3. delivered \in Seq(Nat) /\ Len(delivered) <= warmup_bars
    BY DEF BotTypeOK
  <2>4. Push(delivered, c.openTime) \in Seq(Nat)
    BY <1>1, <2>3, PushType
  <2>5. Len(Push(delivered, c.openTime)) = IF Len(delivered) < warmup_bars THEN Len(delivered) + 1
                                            ELSE warmup_bars
    BY <1>1, <2>3, PushType
  <2> QED BY <2>1, <2>2, <2>4, <2>5
<1>4. unbroken' = TRUE /\ UNCHANGED <<silent, feedError, verdict>>
  BY DEF DeliverCandle, Port!Deliver
<1> QED BY <1>2, <1>3, <1>4 DEF BotTypeOK

\* So does every other step of the bot.
LEMMA BotTypeStep ==
    ASSUME BotTypeOK, TypeOK', [BotNext]_botVars
    PROVE  BotTypeOK'
<1>1. ASSUME NEW c \in Candles, DeliverCandle(c) PROVE BotTypeOK'
  BY <1>1, DeliverKeepsTypes
<1>2. CASE DeliverGap
  <2>1. closes' = << >> /\ unbroken' = FALSE
        /\ UNCHANGED <<silent, delivered, feedError, verdict>>
    BY <1>2 DEF DeliverGap, Port!Break
  <2>2. closes' \in Seq(Prices) /\ Len(closes') <= warmup_bars
    BY <2>1, CrossoverConstants DEF warmup_bars
  <2>3. delivered' \in Seq(Nat) /\ Len(delivered') <= warmup_bars
    BY <2>1 DEF BotTypeOK
  <2> QED BY <2>1, <2>2, <2>3 DEF BotTypeOK
<1>3. CASE SlotInSilence
  <2>1. PICK slot \in Slot(clock) + 1..Slot(clock) + MaxSkip - 1 :
          silent' = silent \cup {slot}
    BY <1>3 DEF SlotInSilence
  <2>2. UNCHANGED <<closes, unbroken, delivered, feedError, verdict>>
    BY <1>3 DEF SlotInSilence, Port!PassInSilence
  <2>3. slot \in Nat
    <3>1. clock \in Nat
      BY DEF BotTypeOK, TypeOK
    <3>2. Slot(clock) \in Int /\ Slot(clock) + 1 \in Nat
      BY <3>1, SlotType
    <3>3. MaxSkip \in Nat
      BY SessionConstants
    <3> QED BY <3>2, <3>3
  <2> QED BY <2>1, <2>2, <2>3 DEF BotTypeOK
<1>4. CASE FeedRaises \/ Report \/ UNCHANGED botVars
  BY <1>4 DEF FeedRaises, Report, botVars, BotTypeOK
<1> QED BY <1>1, <1>2, <1>3, <1>4 DEF BotNext

-----------------------------------------------------------------------------
(* What the bot adds. *)

\* The strategy's window holds the closes of the last candles, no announced
\* gap and no skipped slot between them but those of silence.
WindowInv ==
    failure = None =>
        /\ Len(closes) <= Len(delivered)
        /\ closes # << >> => unbroken
        /\ delivered # << >> => delivered[Len(delivered)] = clock
        /\ \A i \in 1..Len(closes) - 1 :
             LET k == Len(delivered) - Len(closes) + i
             IN Between(delivered[k], delivered[k + 1]) \subseteq silent

\* Candles fall on slots, and a position expires its expiry after it opened.
GridInv ==
    /\ \E n \in Nat : clock = n * TimeframeS
    /\ open # None => open.expiryAt = open.request.openedAt + open.request.expiryS

BotInv == BotTypeOK /\ WindowInv /\ GridInv

\* A delivered candle keeps the closes the end of an unbroken run of what was delivered.
LEMMA DeliverKeepsWindow ==
    ASSUME BotTypeOK, WindowInv, NEW c \in Candles, DeliverCandle(c)
    PROVE  WindowInv'
<1> SUFFICES ASSUME failure' = None PROVE WindowInv'
  BY DEF WindowInv
<1>1. c.openTime \in Nat /\ c.close \in Prices
  BY CandleTimeType DEF BotTypeOK, Candles
<1>2. /\ failure = None
      /\ closes' = Push(closes, c.close)
      /\ delivered' = Push(delivered, c.openTime)
      /\ clock' = c.openTime
  <2>1. ~LogTradeRaises(c) /\ ~PlaceRaises(c, Signal(Push(closes, c.close)))
    <3>1. failure' \notin Failures
      BY SessionConstants
    <3> QED BY <3>1 DEF LogTradeRaises, PlaceRaises, Failures, PlaceErrors, Verdict
  <2> QED BY <2>1 DEF DeliverCandle, Running, OnCandle
<1>3. /\ unbroken' = TRUE /\ silent' = silent
      /\ unbroken => Between(clock, c.openTime) \subseteq silent
  BY <1>2 DEF DeliverCandle, Port!Deliver, Between
<1> DEFINE W  == warmup_bars
           n  == Len(closes)
           d  == Len(delivered)
           nn == Len(closes')
           dd == Len(delivered')
<1>4. /\ W \in Nat /\ W > 1 /\ n \in 0..W /\ d \in 0..W
      /\ nn = IF n < W THEN n + 1 ELSE W
      /\ dd = IF d < W THEN d + 1 ELSE W
      /\ delivered'[dd] = c.openTime
      /\ \A i \in 1..dd - 1 : delivered'[i] = delivered[i + d + 1 - dd]
  <2>1. W \in Nat /\ W > 1
    BY CrossoverConstants DEF warmup_bars
  <2>2. n \in 0..W /\ d \in 0..W
    BY <2>1 DEF BotTypeOK
  <2>3. nn = IF n < W THEN n + 1 ELSE W
    BY <1>1, <1>2, <2>2, PushType DEF BotTypeOK
  <2>4. delivered \in Seq(Nat) /\ d <= W
    BY DEF BotTypeOK
  <2>5. /\ dd = IF d < W THEN d + 1 ELSE W
        /\ delivered'[dd] = c.openTime
        /\ \A i \in 1..dd - 1 : delivered'[i] = delivered[i + d + 1 - dd]
    <3> DEFINE p == Push(delivered, c.openTime)
    <3>1. /\ delivered \in Seq(Nat) /\ Len(delivered) <= warmup_bars /\ c.openTime \in Nat
      BY <1>1, <2>4
    <3>2. \A times \in Seq(Nat), t \in Nat : Len(times) <= warmup_bars =>
             /\ Len(Push(times, t)) = IF Len(times) < warmup_bars THEN Len(times) + 1
                                      ELSE warmup_bars
             /\ Push(times, t)[Len(Push(times, t))] = t
             /\ \A i \in 1..Len(Push(times, t)) - 1 :
                  Push(times, t)[i] = times[i + Len(times) + 1 - Len(Push(times, t))]
      BY PushType
    <3>3. /\ Len(p) = IF Len(delivered) < warmup_bars THEN Len(delivered) + 1 ELSE warmup_bars
          /\ p[Len(p)] = c.openTime
          /\ \A i \in 1..Len(p) - 1 : p[i] = delivered[i + Len(delivered) + 1 - Len(p)]
      BY <3>1, <3>2, Zenon
    <3> QED BY <1>2, <3>3
  <2> QED BY <2>1, <2>2, <2>3, <2>5
<1> HIDE DEF W, n, d, nn, dd
<1>5. n <= d /\ (n > 0 => unbroken /\ delivered[d] = clock)
  BY <1>2, <1>4 DEF WindowInv, n, d
<1>6. nn <= dd
  BY <1>4, <1>5
<1>7. ASSUME NEW i \in 1..nn - 1
      PROVE  Between(delivered'[dd - nn + i], delivered'[dd - nn + i + 1]) \subseteq silent
  <2>1. CASE i = nn - 1
    <3>1. n > 0
      BY <1>4, <1>7, <2>1
    <3>2. dd - nn + i = dd - 1 /\ dd - nn + i + 1 = dd /\ dd - 1 \in 1..dd - 1
      BY <1>4, <1>6, <1>7, <2>1
    <3>3. delivered'[dd - 1] = clock
      BY <1>4, <1>5, <3>1, <3>2
    <3> QED BY <1>3, <1>4, <1>5, <3>1, <3>2, <3>3
  <2>2. CASE i # nn - 1
    <3> DEFINE j == n + 1 - nn + i
    <3>0. n \in Int /\ d \in Int /\ nn \in Int /\ dd \in Int /\ i \in Int
      BY <1>4, <1>7
    <3>1. j \in 1..n - 1
      BY <1>4, <1>7, <2>2
    <3>2. Between(delivered[d - n + j], delivered[d - n + j + 1]) \subseteq silent
      BY <1>2, <3>1 DEF WindowInv, n, d
    <3>3. /\ dd - nn + i \in 1..dd - 1 /\ dd - nn + i + 1 \in 1..dd - 1
          /\ dd - nn + i + d + 1 - dd = d - n + j
          /\ dd - nn + i + 1 + d + 1 - dd = d - n + j + 1
      BY <3>0, <1>6, <1>7, <2>2
    <3>4. /\ delivered'[dd - nn + i] = delivered[d - n + j]
          /\ delivered'[dd - nn + i + 1] = delivered[d - n + j + 1]
      BY <1>4, <3>3
    <3> QED BY <3>2, <3>4
  <2> QED BY <2>1, <2>2
<1> QED BY <1>2, <1>3, <1>4, <1>6, <1>7 DEF WindowInv, nn, dd

\* So does every other step of the bot: a gap resets the closes, a report leaves them alone.
LEMMA WindowStep ==
    ASSUME BotTypeOK, WindowInv, [BotNext]_botVars
    PROVE  WindowInv'
<1>1. ASSUME NEW c \in Candles, DeliverCandle(c) PROVE WindowInv'
  BY <1>1, DeliverKeepsWindow
<1>2. CASE DeliverGap
  <2>1. closes' = << >> /\ UNCHANGED <<failure, clock, delivered>>
    BY <1>2 DEF DeliverGap, sessionVars, vars
  <2>2. Len(closes') = 0 /\ Len(delivered) \in Nat
    BY <2>1 DEF BotTypeOK
  <2> QED BY <2>1, <2>2 DEF WindowInv
<1>3. CASE SlotInSilence
  <2>1. silent \subseteq silent' /\ UNCHANGED <<failure, clock, closes, unbroken, delivered>>
    BY <1>3 DEF SlotInSilence, Port!PassInSilence, sessionVars, vars
  <2> QED BY <2>1 DEF WindowInv, Between, Slot
<1>4. CASE FeedRaises \/ Report \/ UNCHANGED botVars
  BY <1>4 DEF FeedRaises, Report, botVars, sessionVars, vars, WindowInv, Between, Slot
<1> QED BY <1>1, <1>2, <1>3, <1>4 DEF BotNext

\* Candles and open orders stay on the grid of the timeframe.
LEMMA GridStep ==
    ASSUME TypeOK, GridInv, [Next]_vars
    PROVE  GridInv'
<1>1. ASSUME NEW c \in Candles
      PROVE  \E n \in Nat : c.openTime = n * TimeframeS
  <2>1. PICK n \in Nat : clock = n * TimeframeS
    BY DEF GridInv
  <2>2. PICK m \in 1..MaxSkip : c.openTime = clock + m * TimeframeS
    BY DEF Candles, CandleTimes
  <2>3. n + m \in Nat /\ c.openTime = (n + m) * TimeframeS
    BY <2>1, <2>2, SessionConstants
  <2> QED BY <2>3
<1>2. ASSUME NEW c \in Candles, NEW signal, OnCandle(c, signal) PROVE GridInv'
  <2>1. \E n \in Nat : clock' = n * TimeframeS
    BY <1>1, <1>2 DEF OnCandle
  <2>2. open' = open \/ open' = None \/ open' = AckFor(BrokerAfter(c), Request(c, signal))
    BY <1>2 DEF OnCandle, OpenAfter
  <2>3. open' # None => open'.expiryAt = open'.request.openedAt + open'.request.expiryS
    BY <2>2 DEF GridInv, AckFor
  <2> QED BY <2>1, <2>3 DEF GridInv
<1>3. ASSUME NEW c \in Candles, LogTradeRaises(c) PROVE GridInv'
  BY <1>1, <1>3 DEF LogTradeRaises, GridInv
<1>4. ASSUME NEW c \in Candles, NEW signal, PlaceRaises(c, signal) PROVE GridInv'
  BY <1>1, <1>4 DEF PlaceRaises, OpenAfter, GridInv
<1>5. CASE ForeignCandle \/ UNCHANGED vars
  BY <1>5 DEF ForeignCandle, vars, GridInv
<1> QED BY <1>2, <1>3, <1>4, <1>5 DEF Next

\* The bot begins in its invariant,
LEMMA BotInvInit == BotInit => BotInv
<1> SUFFICES ASSUME BotInit PROVE BotInv
  OBVIOUS
<1>1. BotTypeOK
  <2>1. TypeOK
    BY TypeInit DEF BotInit
  <2>2. << >> \in Seq(Prices) /\ << >> \in Seq(Nat) /\ Len(<< >>) = 0 /\ warmup_bars \in Nat
    BY CrossoverConstants DEF warmup_bars
  <2>3. /\ closes = << >> /\ delivered = << >> /\ unbroken = FALSE /\ silent = {}
        /\ feedError = None /\ verdict = None
    BY DEF BotInit
  <2>4. Len(closes) <= warmup_bars /\ Len(delivered) <= warmup_bars
    BY <2>2, <2>3
  <2> QED BY <2>1, <2>2, <2>3, <2>4 DEF BotTypeOK
<1>2. WindowInv
  BY DEF BotInit, WindowInv
<1>3. GridInv
  <2>1. 0 \in Nat /\ 0 = 0 * TimeframeS
    BY SessionConstants
  <2> QED BY <2>1 DEF BotInit, Init, GridInv
<1> QED BY <1>1, <1>2, <1>3 DEF BotInv

\* every step keeps it,
LEMMA BotInvStep == BotInv /\ [BotNext]_botVars => BotInv'
<1> SUFFICES ASSUME BotInv, [BotNext]_botVars PROVE BotInv'
  OBVIOUS
<1>1. BotTypeOK /\ TypeOK /\ WindowInv /\ GridInv
  BY DEF BotInv, BotTypeOK
<1>2. [Next]_vars
  BY <1>1, BotStepsSession
<1>3. BotTypeOK'
  BY <1>1, <1>2, TypeStep, BotTypeStep
<1> QED BY <1>1, <1>2, <1>3, WindowStep, GridStep DEF BotInv

\* and so it always holds: types, the window of closes, the grid of the timeframe, and the
\* session's own types. The two properties of the bot below rest on it.
THEOREM BotInvariance == BotSpec => []BotInv
BY BotInvInit, BotInvStep, PTL DEF BotSpec

\* Every variable of the bot keeps its type, and the windows their length.
THEOREM BotTypeCorrect == BotSpec => []BotTypeOK
<1>1. BotInv => BotTypeOK
  BY DEF BotInv
<1> QED BY <1>1, BotInvariance, PTL

-----------------------------------------------------------------------------
(* Orders and settlements. *)

\* A step of the bot that places an order, or settles one, is the delivery of
\* a candle.
LEMMA OnlyCandlesTrade ==
    ASSUME BotTypeOK, [BotNext]_botVars, broker' # broker
    PROVE  \E c \in Candles : DeliverCandle(c) /\ failure = None
BY DEF BotNext, DeliverCandle, Running, DeliverGap, SlotInSilence, FeedRaises, Report,
       botVars, sessionVars, vars

\* A step that places an order has pushed its candle and has as many closes as the warm-up asks for.
LEMMA OrderNeedsSignal ==
    ASSUME BotTypeOK, NEW c \in Candles, DeliverCandle(c), broker'.nextId > broker.nextId
    PROVE  /\ failure' = None
           /\ closes' = Push(closes, c.close)
           /\ Len(closes') >= warmup_bars
<1> DEFINE window == Push(closes, c.close)
<1>1. BrokerAfter(c).nextId = broker.nextId /\ broker.nextId \in Nat
  BY SettleType DEF BotTypeOK, TypeOK, IsBroker
<1>2. broker'.nextId # broker.nextId
  BY <1>1
<1>3. ~LogTradeRaises(c) /\ ~PlaceRaises(c, Signal(window))
  BY <1>1, <1>2 DEF LogTradeRaises, PlaceRaises
<1>4. OnCandle(c, Signal(window)) /\ closes' = window
  BY <1>3 DEF DeliverCandle
<1>5. Orders(c, Signal(window))
  BY <1>1, <1>2, <1>4 DEF OnCandle
<1>6. Signal(window) # NoSignal
  BY <1>5, BotConstants DEF Orders
<1>7. ~(Len(window) < warmup_bars)
  BY <1>6 DEF Signal
<1>8. Len(window) \in Int /\ warmup_bars \in Int
  <2>1. c.close \in Prices
    BY DEF Candles
  <2> QED BY <2>1, PushType, CrossoverConstants DEF BotTypeOK, warmup_bars
<1> QED BY <1>4, <1>7, <1>8 DEF OnCandle

\* An order is placed only on slow + 1 candles between which nothing is known
\* to be missing, whatever gaps, silences, resets and failures came before.
THEOREM OrdersAlwaysFollowContiguousBars == BotSpec => OrdersFollowContiguousBars
<1>1. ASSUME BotInv, BotInv', [BotNext]_botVars, broker'.nextId > broker.nextId
      PROVE  /\ Len(delivered') = warmup_bars
             /\ \A i \in 1..SlowPeriod : Between(delivered'[i], delivered'[i + 1]) \subseteq silent'
  <2>1. broker.nextId \in Nat /\ broker' # broker
    BY <1>1 DEF BotInv, BotTypeOK, TypeOK, IsBroker
  <2>2. PICK c \in Candles : DeliverCandle(c)
    BY <1>1, <2>1, OnlyCandlesTrade DEF BotInv
  <2>3. failure' = None /\ Len(closes') >= warmup_bars
    BY <1>1, <2>2, OrderNeedsSignal DEF BotInv
  <2>4. /\ Len(closes') \in Nat /\ Len(closes') <= warmup_bars
        /\ Len(delivered') \in Nat /\ Len(delivered') <= warmup_bars
    BY <1>1 DEF BotInv, BotTypeOK
  <2>5. warmup_bars = SlowPeriod + 1 /\ SlowPeriod \in Nat
    BY CrossoverConstants DEF warmup_bars
  <2>6. Len(closes') = warmup_bars /\ Len(delivered') = warmup_bars
    BY <1>1, <2>3, <2>4, <2>5 DEF BotInv, WindowInv
  <2>7. ASSUME NEW i \in 1..SlowPeriod
        PROVE  Between(delivered'[i], delivered'[i + 1]) \subseteq silent'
    <3>1. i \in 1..Len(closes') - 1 /\ Len(delivered') - Len(closes') + i = i
      BY <2>5, <2>6
    <3> QED BY <1>1, <2>3, <3>1 DEF BotInv, WindowInv
  <2> QED BY <2>6, <2>7
<1>2. BotInv /\ BotInv' /\ [BotNext]_botVars =>
        [broker'.nextId > broker.nextId =>
           /\ Len(delivered') = warmup_bars
           /\ \A i \in 1..SlowPeriod :
                Between(delivered'[i], delivered'[i + 1]) \subseteq silent']_botVars
  BY <1>1
<1> QED BY <1>2, BotInvariance, PTL DEF BotSpec, OrdersFollowContiguousBars

\* A multiple of the timeframe is in the slot that ends there.
LEMMA SlotOfMultiple ==
    ASSUME NEW n \in Nat
    PROVE  Slot(n * TimeframeS) = n - 1
<1>1. (n * TimeframeS) \div TimeframeS = n
  BY SessionConstants
<1> QED BY <1>1 DEF Slot

\* A position is held for its expiry and no bar longer, unless slots are
\* missing after it.
THEOREM AlwaysHeldForItsExpiry == BotSpec => HeldForItsExpiry
<1>1. ASSUME IInv, BotInv, [BotNext]_botVars, broker'.settled # broker.settled
      PROVE  LET request == open.request
                 overtime == clock' - request.openedAt - request.expiryS
             IN /\ overtime >= 0
                /\ overtime >= TimeframeS =>
                     ~unbroken \/ Between(clock, clock') \cap silent # {}
  <2>1. PICK c \in Candles : DeliverCandle(c) /\ failure = None
    BY <1>1, OnlyCandlesTrade DEF BotInv
  <2>2. clock' = c.openTime /\ Due(c)
    <3>1. CASE LogTradeRaises(c)
      BY <3>1 DEF LogTradeRaises
    <3>2. ASSUME NEW signal, OnCandle(c, signal) PROVE clock' = c.openTime /\ Due(c)
      BY <1>1, <3>2 DEF OnCandle, BrokerAfter, place
    <3>3. ASSUME NEW signal, PlaceRaises(c, signal) PROVE clock' = c.openTime /\ Due(c)
      BY <1>1, <3>3 DEF PlaceRaises, BrokerAfter
    <3> QED BY <2>1, <3>1, <3>2, <3>3 DEF DeliverCandle
  <2>3. open # None /\ clock' >= open.expiryAt /\ clock < open.expiryAt
    BY <1>1, <2>1, <2>2 DEF Due, IInv, SafetyInv, NoOverduePosition
  <2>4. /\ open.expiryAt = open.request.openedAt + open.request.expiryS
        /\ open.expiryAt \in Int /\ open.request.openedAt \in Int /\ open.request.expiryS \in Int
    BY <1>1, <2>3 DEF BotInv, GridInv, BotTypeOK, TypeOK, OrderAck, OrderRequest
  <2>5. clock \in Nat /\ clock' \in Nat /\ TimeframeS \in Nat
    BY <1>1, <2>2, CandleTimeType, SessionConstants DEF BotInv, BotTypeOK, TypeOK
  <2> DEFINE overtime == clock' - open.request.openedAt - open.request.expiryS
  <2>6. overtime >= 0 /\ overtime = clock' - open.expiryAt
    BY <2>3, <2>4, <2>5
  <2>7. ASSUME overtime >= TimeframeS, unbroken
        PROVE  Between(clock, clock') \cap silent # {}
    <3>1. clock' > clock + TimeframeS
      BY <2>3, <2>4, <2>5, <2>6, <2>7
    <3>2. PICK n \in Nat : clock = n * TimeframeS
      BY <1>1 DEF BotInv, GridInv
    <3>3. PICK m \in 1..MaxSkip : clock' = clock + m * TimeframeS
      BY <2>2 DEF Candles, CandleTimes
    <3>4. m > 1 /\ m \in Nat
      BY <2>5, <3>1, <3>3, SessionConstants
    <3>5. clock' = (n + m) * TimeframeS /\ n + m \in Nat
      BY <2>5, <3>2, <3>3, <3>4
    <3>6. Slot(clock) = n - 1 /\ Slot(clock') = n + m - 1
      BY <3>2, <3>5, SlotOfMultiple
    <3>7. n \in Between(clock, clock')
      BY <3>4, <3>6 DEF Between
    <3>8. Between(clock, clock') \subseteq silent
      BY <2>1, <2>2, <2>7 DEF DeliverCandle, Port!Deliver, Between
    <3> QED BY <3>7, <3>8
  <2> QED BY <2>6, <2>7
<1>2. IInv /\ BotInv /\ [BotNext]_botVars =>
        [broker'.settled # broker.settled =>
           LET request == open.request
               overtime == clock' - request.openedAt - request.expiryS
           IN /\ overtime >= 0
              /\ overtime >= TimeframeS =>
                   ~unbroken \/ Between(clock, clock') \cap silent # {}]_botVars
  BY <1>1
<1> QED BY <1>2, BotSession, BotInvariance, PTL DEF BotSpec, HeldForItsExpiry
=============================================================================
