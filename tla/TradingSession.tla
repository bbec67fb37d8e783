--------------------------- MODULE TradingSession ---------------------------
(***************************************************************************)
(* domain/session.py with the collaborators cli/wire.py gives it: one      *)
(* RiskManager, one PaperBrokerAdapter, a Strategy that may answer any     *)
(* candle with any signal, and a trade log whose append may raise.         *)
(*                                                                         *)
(* on_candle runs to its end or to an exception, and nothing else touches  *)
(* the session meanwhile: it is one step.  Its four endings are the        *)
(* actions.  An exception leaves whatever was assigned before it, and ends *)
(* the session, since run_session lets it through (cli/run.py).            *)
(***************************************************************************)
EXTENDS RiskManager, PaperBroker, Sequences, FiniteSets

CONSTANTS
    Stakes,      \* values of stake_amount
    Expiries,    \* values of default_expiry_s
    Prices,      \* closing prices
    TimeframeS,  \* seconds between candle slots
    MaxSkip,     \* bound: slots from one candle to the next
    Horizon,     \* bound: the time after which the strategy stays silent
    LastCandle   \* bound: the open time of the last candle

PlaceErrors == {"INSUFFICIENT_BALANCE", "UNSUPPORTED_EXPIRY"}
Failures    == PlaceErrors \cup {"LOG_TRADE", "FOREIGN_ASSET"}

\* The manager's day starts with the broker's starting balance (cli/wire.py
\* passes settings.starting_balance to both).
ASSUME SessionConstants ==
    /\ DayStartBalance = StartingBalance
    /\ Stakes \subseteq Int
    /\ Expiries \subseteq Int
    /\ Prices \subseteq Nat
    /\ TimeframeS \in Nat \ {0}
    /\ MaxSkip \in Nat
    /\ Horizon \in Nat
    /\ LastCandle \in Nat
    /\ None \notin OrderAck \cup Directions \cup Failures

VARIABLES
    stake,     \* stake
    expiryS,   \* expiry_s
    open,      \* _open
    journal,   \* the trades log_trade was given and kept, in order
    clock,     \* open_time of the last candle
    failure    \* the exception that ended the session, or None

vars == <<risk, broker, stake, expiryS, open, journal, clock, failure>>

\* Candles come in open-time order, one slot apart or more.
CandleTimes == {t \in {clock + n * TimeframeS : n \in 1..MaxSkip} : t <= LastCandle}
Candles     == [openTime: CandleTimes, close: Prices]
Signals(c) == IF c.openTime <= Horizon THEN Directions \cup {None} ELSE {None}

TypeOK ==
    /\ risk \in Risk
    /\ IsBroker(broker)
    /\ stake \in Stakes /\ expiryS \in Expiries
    /\ open \in OrderAck \cup {None}
    /\ open # None => open.orderId \in 1..broker.nextId - 1
    /\ journal \in Seq(Trade)
    /\ clock \in Nat
    /\ failure \in Failures \cup {None}

Init ==
    /\ risk = NewRisk
    /\ broker = NewBroker
    /\ stake \in Stakes /\ expiryS \in Expiries
    /\ open = None
    /\ journal = << >>
    /\ clock = 0
    /\ failure = None

-----------------------------------------------------------------------------
\* Mutant: a position is settled one second late.
DueLate(c) == open # None /\ c.openTime > open.expiryAt

\* _maybe_settle goes ahead: a position is open and its expiry has come.
Due(c) == open # None /\ c.openTime >= open.expiryAt

\* The trade, the broker and the risk manager as _maybe_settle(c) leaves them.
Settled(c)     == TradeFor(broker, open, c.close)
BrokerAfter(c) == IF Due(c) THEN settle(broker, open, c.close) ELSE broker
RiskAfter(c)   == IF Due(c) THEN record(risk, Settled(c)) ELSE risk

\* Mutant: the settled position is not cleared.
KeepsPosition(c) == open

OpenAfter(c) == IF Due(c) THEN None ELSE open

\* Mutant: a second position on top of an open one.
Stacks(c, signal) ==
    signal # None /\ can_open(RiskAfter(c), stake, BrokerAfter(c).balance)
\* Mutant: the manager is asked before it has recorded the settlement.
AsksTooEarly(c, signal) ==
    signal # None /\ OpenAfter(c) = None /\ can_open(risk, stake, BrokerAfter(c).balance)

\* on_candle calls open_position: there is a signal, nothing is open after
\* the settlement, and can_open, given the balance after it, allows.
Orders(c, signal) ==
    /\ signal # None
    /\ OpenAfter(c) = None
    /\ can_open(RiskAfter(c), stake, BrokerAfter(c).balance)

\* The request _maybe_open builds.
Request(c, signal) ==
    [direction |-> signal, stake |-> stake, expiryS |-> expiryS, openedAt |-> c.openTime]

\* on_candle returns.
OnCandle(c, signal) ==
    /\ failure = None
    /\ risk' = RiskAfter(c)
    /\ journal' = IF Due(c) THEN Append(journal, Settled(c)) ELSE journal
    /\ clock' = c.openTime
    /\ IF Orders(c, signal)
       THEN /\ Verdict(BrokerAfter(c), Request(c, signal)) = "ACCEPTED"
            /\ broker' = place(BrokerAfter(c), Request(c, signal))
            /\ open' = AckFor(BrokerAfter(c), Request(c, signal))
       ELSE /\ broker' = BrokerAfter(c)
            /\ open' = OpenAfter(c)
    /\ UNCHANGED <<stake, expiryS, failure>>

\* log_trade raises: the broker has settled, the manager has recorded, and
\* _open still holds the settled position.
LogTradeRaises(c) ==
    /\ failure = None
    /\ Due(c)
    /\ broker' = BrokerAfter(c)
    /\ risk' = RiskAfter(c)
    /\ clock' = c.openTime
    /\ failure' = "LOG_TRADE"
    /\ UNCHANGED <<open, journal, stake, expiryS>>

\* open_position raises: the settlement before it stands.
PlaceRaises(c, signal) ==
    /\ failure = None
    /\ Orders(c, signal)
    /\ Verdict(BrokerAfter(c), Request(c, signal)) # "ACCEPTED"
    /\ broker' = BrokerAfter(c)
    /\ risk' = RiskAfter(c)
    /\ open' = OpenAfter(c)
    /\ journal' = IF Due(c) THEN Append(journal, Settled(c)) ELSE journal
    /\ clock' = c.openTime
    /\ failure' = Verdict(BrokerAfter(c), Request(c, signal))
    /\ UNCHANGED <<stake, expiryS>>

\* A candle of another asset: ValueError before anything is done.
ForeignCandle ==
    /\ failure = None
    /\ failure' = "FOREIGN_ASSET"
    /\ UNCHANGED <<risk, broker, open, journal, clock, stake, expiryS>>

Next ==
    \/ \E c \in Candles : \/ \E signal \in Signals(c) : OnCandle(c, signal) \/ PlaceRaises(c, signal)
                          \/ LogTradeRaises(c)
    \/ ForeignCandle

Spec == Init /\ [][Next]_vars

\* The feed keeps delivering candles (in the program it never ends); whether
\* the strategy signals, and what, is not part of the assumption.
FairSpec == Spec /\ WF_vars(\E c \in Candles, signal \in Directions \cup {None} :
                              signal \in Signals(c) /\ OnCandle(c, signal))

-----------------------------------------------------------------------------
\* What an accepted, unsettled order has at stake.
AtRisk == IF open # None /\ ~IsSettled(broker, open) THEN Hundredths(stake) ELSE 0
Equity == broker.balance + AtRisk

ValidSettings == stake > 0 /\ expiryS \in SUPPORTED_EXPIRY_SECONDS

\* The broker's ledger and the risk manager's running P&L never drift apart,
\* though they are kept by two objects and updated at two moments of a trade
\* (the stake leaves the ledger at place and counts as lost only at record):
\* the account plus the stake of an open order is the starting balance plus
\* the day's P&L, also after an exception half way through on_candle.
LedgersAgree == Equity = Hundredths(StartingBalance) + risk.dailyPnl

\* can_open and place judge the same stake against the same balance, so with
\* settings the broker supports no order the manager allowed is refused; a
\* refusal raises and would end the session (session.py:81, broker.py:51).
AllowedOrdersAreAccepted == ValidSettings => failure \notin PlaceErrors

\* The circuit breaker reacts within one trade: the day's loss passes the
\* limit by less than one stake, and the losing streak never passes its limit.
LossesAreBounded ==
    /\ stake > 0 /\ daily_loss_limit < 0 =>
         risk.dailyPnl > daily_loss_limit - Hundredths(stake)
    /\ MaxConsecutiveLosses > 0 => risk.consecutiveLosses <= MaxConsecutiveLosses

\* Halting never strands a position: the manager halts while recording a
\* settlement, and the same on_candle opens nothing after it.
HaltedMeansFlat == risk.state = "HALTED" => AtRisk = 0

\* A position that is still open has not reached its expiry at the last
\* candle: it was settled at the first candle that could settle it, however
\* many slots the feed skipped.
NoOverduePosition ==
    failure = None /\ open # None => clock < open.expiryAt

\* Every order is accounted for exactly once: the journal lists the settled
\* trades in order number order, none twice; a failed log_trade loses exactly
\* the last one; the only unsettled order is the open one.
EveryOrderAccountedFor ==
    /\ \A i \in DOMAIN journal : /\ i \in DOMAIN broker.settled
                                 /\ journal[i] = broker.settled[i]
                                 /\ journal[i].ack.orderId = i
    /\ Len(journal) = Cardinality(DOMAIN broker.settled)
                      - (IF failure = "LOG_TRADE" THEN 1 ELSE 0)
    /\ (1..broker.nextId - 1) \ DOMAIN broker.settled =
         IF open # None /\ failure # "LOG_TRADE" THEN {open.orderId} ELSE {}

\* Once halted, and already in the step that halts, no order is placed again.
NoEntryOnceHalted == [][risk'.state = "HALTED" => broker'.nextId = broker.nextId]_vars

\* A session keeps the contract of TradingContract: its exposure is the stake
\* of the unsettled order, its equity the account plus that stake.
Exposed == IF AtRisk = 0 THEN 0 ELSE stake
Trading == risk.state = "ACTIVE"
Contract == INSTANCE TradingContract WITH
    StartEquity <- Hundredths(StartingBalance),
    exposed     <- Exposed,
    equity      <- Equity,
    trading     <- Trading
ImplementsContract == Contract!Spec

\* Every position is settled in the end, unless an exception ends the session.
PositionsAreSettled == open # None ~> (open = None \/ failure # None)
=============================================================================
