--------------------------------- MODULE Bot ---------------------------------
(***************************************************************************)
(* cli/run.py and the `run' command of cli/main.py: one process that feeds *)
(* a TradingSession, with its crossover strategy, from a market data port. *)
(* The port is its contract, CandleStream, which ExnovaFeed implements;    *)
(* the session is TradingSession with the strategy's signals.              *)
(***************************************************************************)
EXTENDS TradingSession, MACrossover

VARIABLES
    unbroken,   \* no GapMarker since the last candle
    silent,     \* slots in which a live connection brought nothing
    delivered,  \* open times of the last candles given to the session
    feedError,  \* the exception the feed raised, or None
    verdict     \* what main made of the end of run_session, or None

sessionVars == vars
botVars == <<vars, closes, unbroken, silent, delivered, feedError, verdict>>

\* The crossover's signals are not bounded in time as an arbitrary strategy's are.
ASSUME BotConstants == NoSignal = None /\ LastCandle <= Horizon

\* main.py: _EXNOVA_CONNECTION_ERRORS; a journal that cannot be written
\* raises OSError too.  Ctrl-C comes while the generator waits.
ConnectionErrors == {"LoginError", "AuthenticationError", "WsConnectionLost", "OSError"}
FeedErrors       == ConnectionErrors \cup
                    {"MappingError", "OverflowError", "WebSocketException", "KeyboardInterrupt"}

BotTypeOK ==
    /\ TypeOK
    /\ closes \in Seq(Prices) /\ Len(closes) <= warmup_bars
    /\ unbroken \in BOOLEAN
    /\ silent \subseteq Nat
    /\ delivered \in Seq(Nat) /\ Len(delivered) <= warmup_bars
    /\ feedError \in FeedErrors \cup {None}
    /\ verdict \in {None, "FAILED_TO_CONNECT", "TRACEBACK"}

BotInit ==
    /\ Init
    /\ closes = << >>
    /\ unbroken = FALSE
    /\ silent = {}
    /\ delivered = << >>
    /\ feedError = None
    /\ verdict = None

\* The slots of the session's candles, counted from the first possible one.
Slot(t) == t \div TimeframeS - 1
Port == INSTANCE CandleStream WITH
    last <- Slot(clock),
    over <- feedError # None

Running == failure = None /\ feedError = None

\* The loop body for a candle: session.on_candle, which asks the strategy
\* after it has settled; a failed log_trade comes before the strategy's turn.
DeliverCandle(c) ==
    /\ Running
    /\ LET window == Push(closes, c.close)
       IN \/ /\ OnCandle(c, Signal(window)) \/ PlaceRaises(c, Signal(window))
             /\ closes' = window
          \/ LogTradeRaises(c) /\ UNCHANGED closes
    /\ UNCHANGED <<feedError, verdict>>
    /\ Port!Deliver
    /\ delivered' = Push(delivered, c.openTime)

\* Mutant: the strategy keeps its window.
NoReset ==
    /\ Running
    /\ UNCHANGED <<sessionVars, closes, delivered, feedError, verdict>>
    /\ Port!Break
\* Mutant: the open position is given up.
AbandonsPosition ==
    /\ Running
    /\ closes' = << >>
    /\ open' = None
    /\ UNCHANGED <<risk, broker, stake, expiryS, journal, clock, failure, delivered,
                   feedError, verdict>>
    /\ Port!Break

\* The loop body for a GapMarker: the strategy is reset and nothing else.
DeliverGap ==
    /\ Running
    /\ closes' = << >>
    /\ UNCHANGED <<sessionVars, delivered, feedError, verdict>>
    /\ Port!Break

FeedRaises ==
    /\ Running
    /\ feedError' \in FeedErrors
    /\ UNCHANGED <<sessionVars, closes, unbroken, silent, delivered, verdict>>

\* The feed is told nothing in a slot before the next candle, and cannot tell
\* anyone; several in a row are several steps.
SlotInSilence ==
    /\ Running
    /\ \E slot \in Slot(clock) + 1..Slot(clock) + MaxSkip - 1 : silent' = silent \cup {slot}
    /\ UNCHANGED <<sessionVars, closes, delivered, feedError, verdict>>
    /\ Port!PassInSilence

\* main's `except _EXNOVA_CONNECTION_ERRORS', or its absence.
Report ==
    /\ ~Running
    /\ verdict = None
    /\ verdict' = IF feedError \in ConnectionErrors \/ failure = "LOG_TRADE"
                  THEN "FAILED_TO_CONNECT" ELSE "TRACEBACK"
    /\ UNCHANGED <<sessionVars, closes, unbroken, silent, delivered, feedError>>

BotNext == (\E c \in Candles : DeliverCandle(c)) \/ DeliverGap \/ SlotInSilence
           \/ FeedRaises \/ Report

BotSpec == BotInit /\ [][BotNext]_botVars

-----------------------------------------------------------------------------
\* The slots strictly between two open times.
Between(t, u) == Slot(t) + 1..Slot(u) - 1

\* An order is placed only on a signal computed from slow + 1 candles with no
\* announced gap between them: the reset that run_session makes on a GapMarker
\* and the strategy's own warm-up together keep them out of trading.  What the
\* candles of an order may lack is only slots the feed was silent in
\* (run.py:53, market_data.py:192).
OrdersFollowContiguousBars ==
    [][broker'.nextId > broker.nextId =>
         /\ Len(delivered') = warmup_bars
         /\ \A i \in 1..SlowPeriod :
              Between(delivered'[i], delivered'[i + 1]) \subseteq silent']_botVars

\* Though an order is dated by the open time of a candle that has closed, it
\* is held for its expiry: settling is by candles that have closed too.  No
\* trade is shorter, and none longer by a bar, unless slots were skipped after
\* its expiry (session.py:71, 92).
HeldForItsExpiry ==
    [][broker'.settled # broker.settled =>
         LET request == open.request
             overtime == clock' - request.openedAt - request.expiryS
         IN /\ overtime >= 0
            /\ overtime >= TimeframeS =>
                 ~unbroken \/ Between(clock, clock') \cap silent # {}]_botVars

\* Gaps, feed errors and the crossover strategy show the session nothing it
\* could not meet on its own: what holds of TradingSession holds in the bot,
\* in particular an open position outlives a gap and is settled after it.
ImplementsSession == Spec

\* main.py:49: "Anything else (a bug, a domain error) is intentionally NOT
\* caught here and surfaces as an unhandled traceback."
OnlyConnectionErrorsAreReportedAsSuch ==
    verdict = "FAILED_TO_CONNECT" => feedError \in ConnectionErrors
=============================================================================
