# A TLA+ model of botafuturo

botafuturo is a binary-option bot: it streams candles from the Exnova web
socket, runs a moving-average crossover over them, and trades the signals with a
simulated ("paper") broker under a risk manager that halts after too many losses.
This directory holds TLA+ modules for its parts, TLC configurations that check
them on small instances, and TLAPS proofs about the session, the bot, the strategy, the
manager, the broker, the feed, the journal's days and the logging set-up for every value of
their constants. Source paths below are relative to `src/src/botafuturo/`.

## The system

| Component | Source | State it keeps | Operations | What makes it correct |
| --- | --- | --- | --- | --- |
| Trading session | `domain/session.py` | the open position (`_open`) | `on_candle` | one position at a time, settled at the first candle that can; nothing opened after a halt; every trade journalled once |
| Risk manager | `domain/risk/manager.py` | active/halted, reason, day's P&L, losing streak | `can_open`, `record` | halted for good by the first breach; totals of the whole day |
| Settlement, P&L | `domain/settlement.py`, `domain/pnl.py` | none | `resolve_outcome`, `pnl_for` | CALL and PUT mirror each other; a loss costs one stake |
| Paper broker | `adapters/paper/` | ledger, next order number, settled trades | `balance`, `place`, `settle` | money conserved, never overdrawn, `settle` idempotent |
| Crossover strategy | `domain/strategy/ma_crossover.py` | the last slow + 1 closes | `on_candle`, `reset`, `warmup_bars` | a signal exactly at a crossing |
| Feed adapter | `adapters/exnova/market_data.py` | `_connected`, the window being built, retry count | `connect`, `disconnect`, `stream_closed_candles` | only closed candles, in order, gaps announced, losses resolved, no connection leaked |
| Web socket client | `adapters/exnova/ws_client.py` | `_transport` | `connect`, `disconnect`, `subscribe`, `receive` | handshake ends; every failure of a read is one exception |
| Backoff | `adapters/exnova/reconnect.py` | none | `backoff_delay` | grows to its cap |
| Mapping, login | `adapters/exnova/mapping.py`, `session_auth.py` | none | `to_candle`, `login` | refuse what they cannot read |
| Session loop, CLI | `cli/run.py`, `cli/main.py` | none | `run_session`, `main` | reset on a gap, disconnect at the end, errors told apart |
| Composition root | `cli/wire.py` | none | `build_paper_trading_session` | one starting balance for broker and manager; nothing of an earlier run but the files; one journal file per day a run begins on |
| Journal, report | `adapters/logging/journal.py`, `cli/report.py` | the day's file | `append`, `read`, `summarize` | append-only; the report is the account of the day |
| Redaction, logging | `adapters/logging/redaction.py`, `logging_setup.py` | the values registered by a session; the filters and handlers of the root logger, shared by all | `configure`, `register`, `filter` | each record written once, rewritten once, whichever logger it comes from |
| Settings, secrets, clock | `config/`, `ports/clock.py` | none | loading | not modelled |

**Interaction.** The program is one thread. `run_session` connects the feed, pulls
the next item from the generator `stream_closed_candles`, and gives a candle to
`session.on_candle` or resets the strategy on a `GapMarker`. `on_candle` calls
broker, manager, journal and strategy in a fixed order and returns before the next
item is pulled. Concurrency is with the server and the network: between any two
reads the server goes on, falls silent, sends other messages, or dies. Across
processes there are only the journal files, one for each day a run begins on, which
the runs write one after another or, with one process per asset, at the same time,
and which `report` reads. Within a process the root logger is shared.

**What is hard.** Exceptions half way through `on_candle`; a candle that at once
settles, halts and carries a signal; candles that skip slots; a window that rolls
over while the connection is down; a handshake that is never answered; a reconnect
that fails; the retry counter; a torn journal line followed by another run's; a server
that stalls on a connection that lives; a run that is restarted, crosses midnight, or is
killed between a settlement and its record; records that pass one filter or two.
`PROJECT.json` lists each at its line, under `hazards`.

## The modules

| Module | Models | Notes |
| --- | --- | --- |
| `Settlement` | settlement and P&L | operators only |
| `RiskManager` | the risk manager | its state is the record `risk`; `can_open`, `record` are operators on it |
| `RiskHistory` | the manager alone | any sequence of trades; `recorded` is the history its counters are compared with |
| `RiskHistoryProofs` | theorems about the manager | TLAPS |
| `PaperBroker` | broker and ledger | its state is the record `broker`; `place`, `settle` are operators on it |
| `PaperBrokerCalls` | the broker alone | any caller: many open orders, settled in any order and again |
| `PaperBrokerCallsProofs` | theorems about the broker | TLAPS |
| `TradingSession` | session + manager + broker + journal sink | an arbitrary strategy |
| `TradingContract` | what a session promises its owner | abstract; `TradingSession` implements it |
| `MACrossover`, `MACrossoverBars` | the strategy, and the strategy alone | `fed` is the history its signals are compared with |
| `MACrossoverProofs` | theorems about the signals | TLAPS |
| `CandleStream` | the contract of `MarketDataPort` | abstract; `ExnovaFeed` implements it, `Bot` relies on it |
| `Backoff` | the upper bound of the delay | the jitter below it is not told apart |
| `WsLink` | client end, network and server of one web socket | the server is external |
| `ExnovaFeed` | adapter, handshake and the disconnecting `finally` | `pc` is where the client blocks |
| `ExnovaFeedProofs` | theorems about connections, retries and what is yielded | TLAPS |
| `Bot` | loop, strategy and session over `CandleStream` | implements `TradingSession` |
| `BotProofs` | theorems about the session and the bot | TLAPS |
| `JournalFile` | one journal file and its report | operators only |
| `TradingDays` | several runs over several days and their journal files | uses the manager's and the broker's operators, one record of each per run |
| `TradingDaysProofs` | theorems about runs, days, files and reports | TLAPS |
| `LoggingSetup` | `configure`, registries, filters, records on their way | the standard library's loggers are external |
| `LoggingSetupProofs` | theorems about records and their lines | TLAPS |
| `Sums` | lemmas about sums over finite sets | TLAPS; `SumFunctionOnSet` is the community modules' |

### How state and actions correspond to the code

*Trading session.* `on_candle` cannot be interrupted by anything but an exception,
so a call is one step, and the actions are the ways it ends: `OnCandle` (it
returns), `LogTradeRaises` (the journal fails after broker and manager have been
updated), `PlaceRaises` (the broker refuses), `ForeignCandle` (the asset check). An
exception leaves what was assigned before it and ends the session (`failure`). The
settlement is described by `Due`, `Settled`, `BrokerAfter`, `RiskAfter`,
`OpenAfter`; the entry by `Orders` and `Request`, which read the values *after* the
settlement, as the code does. `clock` is the open time of the last candle, the only
time the session knows. `stake` and `expiryS` are chosen once, among values the
settings accept, which include ones the broker refuses.

*Money* is exact: amounts in the configuration are integers, rates are percent, so
every ledger amount is an integer number of hundredths. The code computes with
`Decimal` of 28 digits, which is exact for amounts of this kind.

*Broker.* `PaperBrokerCalls` lets any caller place and settle. `returned` is a history, with no
effect on the behaviour: every trade that `settle` gave to a caller, under its order. A property
of repeated calls must speak of these, since the broker's own table is what answers them.

*Feed.* Each blocking call is an action, since the server moves between them. `WsLink`
holds what the client does to the link (`OpenSocket`, `disconnect`, `Subscribed`,
`Received`, `Lost`) and the server: it advances through windows of `Ticks` pushes
each, sends noise (`timeSync`, other events, malformed candles, messages that are
not JSON), answers the handshake either way, stalls for any number of push slots, and
dies losing any tail of what it sent. Two histories serve the properties: `lastPush`, the
last push of each window on this connection, and `silent`, the windows of which a
subscriber was told nothing. `Lost` covers a timeout, a dead transport and a message
that is not JSON, which `_recv` turns into the same exception. `Raise` is an
exception that leaves the generator: the `finally` of `run_session` calls
`disconnect`, which does something only if `_connected`. A failed handshake inside a
reconnect has `_connected` false, and the first `connect` is outside the `try`; both
leave the transport as it is. `Interrupt` is Ctrl-C, at any point where the client waits.

*The stream contract.* `CandleStream` promises candles in order and a `GapMarker` for
every slot skipped, except the slots in which a live connection brought nothing
(`silent`): the adapter tells windows from the pushes it gets and compares them only
for equality (`market_data.py:192`), so these it does not know to have skipped. This is
what `ports/market_data.py:58` promises ("any timeframe slot the feed is known to have
skipped"), and it is weaker than a strategy would like: `ImplementsCandleStream`,
`YieldedCandlesAreClosed` and `OrdersFollowContiguousBars` all exempt the silent slots, so no
property forbids the strategy to average over bars that a stall has separated. What is checked
of a stall is what becomes of the position: `NoOverduePosition` holds over candles any number
of slots apart.

*Bot.* `DeliverCandle` takes the session's own actions with the signal the crossover
gives and conjoins `CandleStream`'s `Deliver`, so the streams delivered are those of the port's
contract whose candles are at most `MaxSkip` slots apart; `SlotInSilence` is the feed's silence in
any slot before the next candle. `Report` is `main`'s `except`.

*Journal.* A line is the sequence of its fragments: a whole record is one fragment, a
torn write leaves a `Torn` one, and what the next append brings joins the last
line unless the file ended with a newline. `read` keeps the lines that are exactly
one whole record, of the dates that are asked for.

*Runs and days.* `Begin` is `build_paper_trading_session`: a new manager, a new broker
whose orders count from 1, and the journal of today. `Open`, `Settle` and `Log` are the
three parts of `on_candle` between which a kill leaves different files: an order is only
in memory, a settlement is only in memory, a record is in the file. `Settle` and
`record` are one step, since nothing of either outlives the process; so a Ctrl-C between
any two statements of `on_candle` is one of `Die` or `LogInterrupted`. The model adds to a
record the run that made it, which the code does not write, to tell apart the equal
order numbers of different runs. Days are one clock: the code takes the journal's date
from the local calendar and a record's from the candle's UTC time, which shifts a trade
to the other side of a midnight as an expiry over midnight does.

*Logging.* A text is a sequence of tokens, a word after a key or not; a registered value
and whatever follows a key are rewritten. `Emit` is a whole log call: the root logger's
own filters for its own records, then each handler with its filters and its formatting,
all changing one record in place. Beside each record, `emitted` keeps what every session had
registered when it was emitted, which is what a line is compared with. The message is substituted as the standard library
does it, with its TypeError when arguments do not fit.

## The runs

Passing runs:

| Run | Question | Bounds |
| --- | --- | --- |
| `session` | money, halting, expiry, accounting, the contract, settlement in the end | balance 3, stakes 0 to 3, limits of 70% and 2 losses, expiries 60, 90, 300, prices below, at and above the entry price, up to one skipped slot, 11 slots with signals in the first 5 |
| `risk_history` | counters and halt against the history | 6 trades of any outcome and two stakes |
| `paper_broker` | several orders, settled in any order, twice | 3 orders, stakes and expiries good and bad |
| `crossover` | signals against a definition over the history | 2 and 3 bars, 3 prices, 7 bars |
| `feed` | closed candles, contract, sockets, backoff, overflow, liveness | 4 windows of 2 pushes, 2 messages in flight, one of them other than a push, 3 lost connections, handshake of 2 reads, cap 3, floats of 3 bits |
| `bot` | what the loop adds | periods 1 and 2, 6 slots, up to one skipped, expiries 60 and 120 (refused) |
| `journal` | torn and lost records, reports, dates, the limit per run | 2 runs, 3 trades, 2 days |
| `logging` | records written once, rewritten once | 2 sessions, 2 values, 2 records |

*Why the bounds are enough.* In `session` a stake of 2 or 3 empties the balance of 3
or leaves too little for the next within the horizon, so halts for either reason, refusals for lack of balance, a stake of the
whole balance, an expiry that spans several candles and one that spans one, ties,
and a settlement and an entry on one candle all occur; after the last signal there
is time for the longest expiry. In `feed` three lost connections in a
row make two waits, bounded by 2 and by the cap of 3, and then an overflow; `FloatBits = 3`
stands for 1024 and `CapS = 3` for 60, so that all three happen. Fewer in a row start again
from 2. The handshake can be used up by noise, a window can pass in silence between two
that are yielded, and it can roll over before, during and after a reconnect; the wire is
long enough for a message behind another. In `bot` an order can follow a silent
slot, a gap, or none, and be settled one bar later or after a skipped slot. In `journal` a
run can die and the other begin on the same day or the next, both can be alive at once, a
run can trade on both sides of midnight, and a torn line can be followed by either
run's records; the balance of 2 lets a run lose twice its limit if nothing stops it.
`risk_history` and `crossover` have no type invariant of their own: their other invariants
say of each variable what it is, not only what it may be. Runs whose time or
calls are used up stop there, and their configurations switch the deadlock check off;
`paper_broker` and `crossover`, which never stop, keep it.

Runs that refute a documented claim; each counterexample is a behaviour of the code:

| Run | Claim | What the code does |
| --- | --- | --- |
| `feed_disconnects` | `run.py:31`, an exception still disconnects | not when it comes from the handshake of a reconnect |
| `feed_retries` | repository `README.md:159`, a dropped connection is reconnected | a reconnect that fails ends the session |
| `journal_torn` | `ports/trade_log.py:4`, an appended record is never lost | the first record after a torn line is unreadable |
| `bot_journal_failure` | `main.py:49`, only connection errors are reported as such | a journal that cannot be written is, too |

Four more divergences are modelled and have no run of their own. The handler of a
lost connection increments `attempt` before it uses it (`market_data.py:171`), so the
first retry is attempt 1, not the attempt 0 of `reconnect.py:35`: `BackoffGrowsWhileSilent`
says that the first bound is 2 seconds. `base * 2**attempt`
is a floating-point product, so attempt 1024 is an `OverflowError` that ends the
stream, not a delay that has saturated (`reconnect.py:36`): `OverflowNeedsSilence` says that
it takes that many losses in a row. The daily loss limit is one of a run, not of a
day: `DayLossGrowsWithRuns` says how much a day can lose.

The fourth is about redaction. What a second session of one process registers is not masked:
`configure` adds no filter where there is one (`logging_setup.py:34` and `:46`), so every record is
rewritten with the registry of the first session only. `redaction.py:46` says that a registered value is
redacted "from all future output", `logging_setup.py:26` that `configure` installs
"a `RedactingFilter(registry)`", and the repository's `README.md:221` that "Credentials never leak to
logs"; `tests/conftest.py:16` knows it ("a second call with a *different* `SecretRegistry` is a silent
no-op, by design") and restores the root logger around every test. The command `run` builds one
session per process and does not meet it. `LinesAreRedactedAlike` promises masking for the first
session's values only, and neither requires nor forbids it for the others'; a `configure` that
added a filter for each session would satisfy it too.

**Fairness.** `TradingSession!FairSpec`: some `on_candle` call keeps returning; which
signal it carries is not assumed. It stands for a feed that goes on, and is used for
`PositionsAreSettled` only. `ExnovaFeed!FairSpec`: the client's thread runs on (weak
fairness; a `recv` returns, raises or times out, so a client step is always enabled
before the end) and the server's clock runs on (strong fairness of `Advance`,
because other messages can fill the wire in between; a server that falls silent does not
stay so in the last window). Ctrl-C is never assumed. Nothing is assumed of the
server's answers: it may never confirm a handshake. After `MaxGaps` lost
connections the server stays sound, so that the bound does not stop the client.

Every property of a passing run has a mutant: a named operator beside the definition
it mutates ("Mutant: ...") that breaks the code's rule the way a slip would, and
under which the property fails.

## The proofs

Eight modules of theorems, checked by TLAPS. `BotProofs`, on the session, for all settings,
payout rates, prices, candle spacings and horizons:

| Theorem | Says of `TradingSession` |
| --- | --- |
| `TypeCorrect` | `Spec => []TypeOK` |
| `LedgersAlwaysAgree` | `Spec => []LedgersAgree` |
| `LossesAlwaysBounded` | `Spec => []LossesAreBounded` |
| `HaltedAlwaysFlat` | `Spec => []HaltedMeansFlat` |
| `NeverOverdue` | `Spec => []NoOverduePosition` |
| `AllowedAlwaysAccepted` | `Spec => []AllowedOrdersAreAccepted` |
| `NeverEntersOnceHalted` | `Spec => NoEntryOnceHalted` |
| `EveryOrderAlwaysAccountedFor` | `Spec => []EveryOrderAccountedFor` |
| `SessionImplementsContract` | `Spec => Contract!Spec`: the refinement, step by step |

`BotProofs`, on the bot, for all periods, prices and skipped slots; `MACrossoverProofs`, for all periods,
integer prices and lengths:

| Theorem | Says |
| --- | --- |
| `BotTypeCorrect` | `BotSpec => []BotTypeOK` |
| `OrdersAlwaysFollowContiguousBars` | `BotSpec => OrdersFollowContiguousBars` |
| `AlwaysHeldForItsExpiry` | `BotSpec => HeldForItsExpiry` |
| `BotImplementsSession` | `BotSpec => ImplementsSession`: so the theorems on the session hold of the bot |
| `SignalsAreCrossings` | `Spec => []SignalIsACrossing` of `MACrossoverBars` |
| `MirrorsAlwaysMirror` | `Spec => []MirroredPricesMirrorSignals` of `MACrossoverBars` |

`RiskHistoryProofs` and `PaperBrokerCallsProofs`, for any number of trades and orders, of any
amounts:

| Theorem | Says |
| --- | --- |
| `TotalsAlwaysMatch` | `Spec => []TotalsMatchHistory` of `RiskHistory` |
| `AlwaysHaltedAtFirstBreach` | `Spec => []HaltedAtFirstBreach` of `RiskHistory` |
| `CallsTypeCorrect` | `Spec => []TypeOK` of `PaperBrokerCalls` |
| `MoneyIsConserved` | `Spec => []Conservation` of `PaperBrokerCalls` |
| `AccountNeverOverdrawn` | `Spec => []NeverOverdrawn` of `PaperBrokerCalls` |
| `SettledOnce` | `Spec => SettleIsIdempotent` of `PaperBrokerCalls` |

`ExnovaFeedProofs`, for any number of windows, pushes, messages and lost connections, and
`TradingDaysProofs`, for any number of runs, trades and days:

| Theorem | Says |
| --- | --- |
| `FeedTypeCorrect` | `Spec => []TypeOK` of `ExnovaFeed` |
| `NeverOrphanSocket` | `Spec => []NoOrphanSocket` |
| `OverflowOnlyAfterSilence` | `Spec => []OverflowNeedsSilence` |
| `BackoffAlwaysGrows` | `Spec => BackoffGrowsWhileSilent` |
| `YieldedAlwaysClosed` | `Spec => []YieldedCandlesAreClosed` |
| `FeedImplementsCandleStream` | `Spec => ImplementsCandleStream`: the refinement, step by step |
| `DaysTypeCorrect` | `Spec => []TypeOK` of `TradingDays` |
| `DyingAlwaysCostsOneTrade` | `Spec => []DyingCostsOneTrade` |
| `FilesOnlyGrow` | `Spec => OnlyAppended` |
| `DayLossAlwaysBounded` | `Spec => []DayLossGrowsWithRuns` |
| `TornWritesAlwaysCostOneRecordEach` | `Spec => []TornWritesCostOneRecordEach` |
| `ReportAlwaysMatchesTrades` | `Spec => []ReportMatchesTrades` |
| `DateFilterAlwaysFindsTrades` | `Spec => []DateFilterFindsTrades` |

`LoggingSetupProofs`, for any number of sessions, registered values and records:

| Theorem | Says of `LoggingSetup` |
| --- | --- |
| `LoggingTypeCorrect` | `Spec => []TypeOK` |
| `RecordsAlwaysWrittenOnce` | `Spec => []RecordsAreWrittenOnce` |
| `LinesAlwaysRedactedAlike` | `Spec => []LinesAreRedactedAlike` |

`Sums` holds the lemmas about finite sums that four of them rest on. Where `BotProofs` speaks
of the session it uses no assumption of the bot's.

*Assumptions.* `RiskConstants`, `BrokerConstants`, `SessionConstants`: amounts are
integers, the payout rate and prices are naturals, `None` is none of the values it
is told apart from, and the manager's day starts with the broker's balance. Limits
may be zero or negative, stakes and expiries anything, as in the settings. The settings check
nothing else either (`config/settings.py`), so they also accept values the assumptions exclude, a
negative starting balance or payout rate: such configurations make no sense, and the theorems
say nothing of them.
For the feed, `LinkConstants`, `BackoffConstants` and `FeedConstants`: there are windows
and pushes, the cap and the overflow are positive, `None` is neither a message nor an exit.
For the bot, `BotConstants`: the strategy's `None` is the session's, and no candle comes
after the horizon. `CrossoverConstants` is what `__init__` of the strategy insists on; `BarsConstants`,
`HistoryConstants`, `CallConstants` and `DaysConstants` say that prices and amounts are
numbers and that the manager and the broker of a run start with the same balance.
`LoggingConstants` says that no registered value is the mask or the placeholder, and that
`None` is no text, no arguments and no record, as Python's is not.

*The session.* The properties are not inductive by themselves. That the ledgers agree
needs to know that the open order holds exactly one stake and has not been credited
(`PositionInv`); that a halt leaves nothing at risk needs to know that a manager with
an open order is active; the bound on the loss needs to know that an active manager
has seen no breach (`RiskInv`); that the broker accepts needs the balance the manager
was asked about. `IInv` joins them with the type invariant, a balance that is never
negative and the properties themselves. `DueSettlement` says what a settlement does to
money and manager, `AfterSettlement` what `_maybe_open` finds after it, `Placed` and
`OrderAllowed` what an order does; each action has its lemma, and `InductiveStep`
joins them. The refinement maps a settlement to `Close`, an entry to `Expose`, both on
one candle to `Turn`, and everything else to a stutter.

`EveryOrderAccountedFor` needs an invariant of its own beside `IInv`: `OrderInv` says that
the settled order numbers are an initial segment of those given, and that the journal is
its prefix. A settlement fills the one place left (`SettlementFills`), after which the
segment is complete and an order may be placed (`AllJournalled`); a failed `log_trade`
leaves the journal one short for good.

*The bot and the strategy.* Each step of the bot is a step of the session
(`BotStepsSession`), so what the session's invariants say of prices, orders and expiries can be
used of the bot. `WindowInv` says that the closes in the deque are those of the last candles
delivered, with nothing but silent slots between them; the order then needs a full deque
(`OrderNeedsSignal`). `GridInv` keeps candles on the grid of the timeframe, which bounds how
long an order outlives its expiry. `DequeInv` says that the deque is the end of the history:
its lead is that of the history at the same place (`SumShift`), and the products the code
compares are the double sum the property is stated with (`SumAffine`).

*Sums and histories.* No induction theorem can be used here, so that a sum over a finite set
grows by what is added is proved by taking a smallest subset for which it fails
(`Smallest`, from the well-foundedness of inclusion on finite sets): `FoldUnique`,
`FoldExists`, then `SumAdd`, `SumUnion`, `SumAffine`, `SumShift`. With these `Conservation` is
inductive beside `Numbered` (order numbers are given once, and a number is settled only if it was
given). `SettleIsIdempotent` speaks only of what callers were told; `ReturnsInv` relates that to the
broker's table, every trade returned for an order being the one stored under its number, and
`StoredTradesStay` says that no call changes an entry. `TotalsMatchHistory` is inductive beside
`HaltInv`, which says that the halt is that of the smallest index at which the history breaches
a limit.

*The feed.* `SocketInv` adds to `NoOrphanSocket` that nothing is held where a connection is
about to be opened: `OpenSocket` forgets what `_transport` was, and only the order of
`_reconnect` (disconnect, wait, log in, open) makes that harmless. `AttemptInv` says that the
stream ends with a gap for each attempt counted; a candle update ends the count in the same
step, so attempt `FloatBits` needs that many gaps in a row at the end of the stream. `DelayInv`
relates the bound to the attempts since the server was last heard. For what is yielded,
`FlowInv` follows the pushes from the server to the client, the pending window and the wire taken
together: they are in order, inside the time that has passed, the last of a window's pushes on
the connection is `lastPush`, and windows missing between two of them were silent; `YieldInv`
adds that the window being built is a later one than the last yielded, with only silence
between. A candle that is yielded is then closed and complete, and its step is one of the
contract's.

*Runs and days.* `RunInv` holds of each run apart: what a live run has settled is what it has
numbered (`MadeInv`), the trade it is logging is its last (`HeldInv`), its manager's P&L is the sum of
the records it made (`CountInv`), so its loss is bounded (`LimitInv`) also after it has died, and
at most its last trade has no completed append (`LastLost`). The bound for a day adds up those
of its runs, which share no record (`SumUnion`). `FilesInv` says of the files only what
`OnlyAppended` needs: an unfinished line is the last.

*Files and reports.* What a file is worth is said of its lines, which no append remembers, so
`JournalInv` relates them to the appends that made them. `AppendsInv`: a record is appended
once, and one about to be logged not before (its order number is new in its run).
`LinesInv`: what stands on a line was appended by a run of that day, lines are in the
order of the appends, and an unfinished line belongs to an append that was broken off.
`CountsInv` is the strengthening the bound on torn writes needs: the records that were appended
but have no line of their own, and one more while the last line is unfinished, are no more than
the appends broken off. Without that one more, the append after a torn write would break the bound. Each way
an append ends has its lemma (`OwnLines`, `OwnCounts`), and steps that write nothing share one.

`read` and `summarize` are loops, written as recursive functions. That such a function
has a value for every length is proved by taking the least length without one
(`Least`): `LoopReads` and `LoopTallies`. Then `ReadsWholeLines` says that `read` returns
exactly the whole lines of the wanted dates in order, and `SummaryCounts` that `summarize`
counts what it reads; `SumBijection` turns the sum over places into the sum over records, and
`SumOfCardinalities` adds up the files for the date filter.

*Logging.* `SetupInv` says that the root logger has the handler and the filter of the first
session that configured it, which is why a record meets one registry; `RecordsInv` relates
lines and records both ways: a line for each record that can be formatted, rewritten by what the
first session had registered when it was emitted, and lines in strictly growing order of
records, so none has two; and nothing is emitted before the first `configure`. A record of the root logger passes that registry twice.
`EmitWrites` shows that this is the same as once: after the first time there are no arguments
left to substitute, and what was masked is masked again to itself.

*Only model-checked.* All liveness: fairness is out of the prover's reach, so
`PositionsAreSettled`, `LossIsResolved` and `EveryWindowCloses` stay with TLC. Every other
property of a passing run is a theorem. The four runs that refute a claim have no proof: a
counterexample is one behaviour.

## Not modelled

- `history`, `price_at`: they raise `NotImplementedError`; `unsubscribe`: nobody calls it.
- Argument parsing, `--fake-data`, `print_summary`, log wording: no state.
- Settings and secrets: loading; `SecretProvider` has no caller. What the settings accept is
  what the assumptions on the constants say. `redact_mapping`, and the patterns of
  `redact_text` beyond "what follows a key": string handling.
- Log levels, and records emitted before the first `configure`: the program emits none.
- `win_rate`: a ratio of two counts that are checked.
- The jitter below the backoff bound, and the length of waits: steps have no duration.
- `KeyboardInterrupt` between two statements of `connect` or `disconnect` (it is modelled
  wherever the client waits), and exceptions of `transport.close`.
- The time at which a candle reaches the session: see `HeldForItsExpiry` for what can be
  said without it.

## Plan

Done: all of it.

1. Session, manager and broker with their contract; the manager and the broker alone.
2. Strategy, feed, link and backoff; the stream contract.
3. The bot over that contract; the journal and its report.
4. Theorems: type correctness, safety and refinement of the session.
5. `TradingDays`: several runs over the journal files, after one another, at once and
   across midnight, killed at any step.
6. Stalls and silence in the feed, its contract and the bot; how long a position is
   held; Ctrl-C.
7. `LoggingSetup`: `configure` and its filters over several sessions of one process.
8. Theorems about the feed's connections and retries and the broker's ledger.
9. Theorems about the manager's history, the ledger against all orders, what the feed yields
   and its refinement, the signals, the bot and its refinement, and the runs over several days.
10. Theorems about torn files, reports and the date filter, with an invariant that relates the
   lines of a file to the appends that made them; and about `LoggingSetup`.
