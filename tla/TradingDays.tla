----------------------------- MODULE TradingDays -----------------------------
(***************************************************************************)
(* Several runs of the program over the same journal directory, on several *)
(* days: what cli/wire.py builds for each, and what the `report' command   *)
(* reads afterwards.                                                       *)
(*                                                                         *)
(* A run is a process with a session, a RiskManager, a broker and a ledger *)
(* in its memory, all gone when it dies.  Runs follow each other or run at *)
(* the same time (one asset each), and share the files, one for each date  *)
(* a run started on.  A process dies between any two steps: killed, by     *)
(* Ctrl-C, or by an exception.  Settling and recording a trade is one step *)
(* here, since nothing of it outlives the process; appending its record is *)
(* the next.                                                               *)
(***************************************************************************)
EXTENDS RiskManager, PaperBroker, JournalFile

CONSTANTS
    Stake,        \* stake_amount
    Prices,       \* closing prices
    MaxSessions,  \* bound: runs of the program
    MaxTrades,    \* bound: orders, over all runs
    LastDay       \* bound: the last day

DaySeconds == 86400
Days == 0..LastDay
Sessions == 1..MaxSessions

ASSUME DaysConstants ==
    /\ DayStartBalance = StartingBalance
    /\ Stake \in Int
    /\ Prices \subseteq Nat
    /\ MaxSessions \in Nat /\ MaxTrades \in Nat /\ LastDay \in Nat

VARIABLES
    day,      \* today
    started,  \* the day each run began on: its journal_date
    pc,       \* of each run: "NEW", "IDLE", "LOGGING" (settled, not journalled) or "DOWN"
    open,     \* of each run: _open
    files,    \* the journal files
    made,     \* history: the records of all settled trades
    appends   \* history: the calls of append, and whether they returned

vars == <<risk, broker, day, started, pc, open, files, made, appends>>

Records == [session: Sessions, order_id: Nat, outcome: Outcomes, pnl: Int, date: Nat]

TypeOK ==
    /\ day \in Days
    /\ started \in Seq(Days) /\ Len(started) <= MaxSessions
    /\ pc \in [Sessions -> {"NEW", "IDLE", "LOGGING", "DOWN"}]
    /\ \A s \in Sessions :
         /\ pc[s] = "NEW" <=> s > Len(started)
         /\ pc[s] = "LOGGING" => open[s] # None
         /\ pc[s] \in {"IDLE", "LOGGING"} => risk[s] \in Risk /\ IsBroker(broker[s])
         /\ pc[s] \in {"NEW", "DOWN"} => risk[s] = None /\ broker[s] = None /\ open[s] = None
    /\ \A d \in Days : /\ files[d].lines \in Seq(Seq(Records \cup {Torn}))
                       /\ ~files[d].terminated => files[d].lines # << >>
    /\ made \subseteq Records
    /\ appends \in Seq([record: Records, returned: BOOLEAN])

Init ==
    /\ day = 0
    /\ started = << >>
    /\ pc = [s \in Sessions |-> "NEW"]
    /\ risk = [s \in Sessions |-> None]
    /\ broker = [s \in Sessions |-> None]
    /\ open = [s \in Sessions |-> None]
    /\ files = [d \in Days |-> EmptyFile]
    /\ made = {}
    /\ appends = << >>

-----------------------------------------------------------------------------
\* build_paper_trading_session: a manager and a broker that know nothing of
\* earlier runs, and the journal of today.
Begin(s) ==
    /\ s = Len(started) + 1
    /\ started' = Append(started, day)
    /\ pc' = [pc EXCEPT ![s] = "IDLE"]
    /\ risk' = [risk EXCEPT ![s] = NewRisk]
    /\ broker' = [broker EXCEPT ![s] = NewBroker]
    /\ UNCHANGED <<day, open, files, made, appends>>

\* The first and the last minute of today: an order of the latter expires
\* tomorrow.
OpeningTimes == {day * DaySeconds, (day + 1) * DaySeconds - 60}

\* Every price may follow, so one direction gives every outcome.
Request(at) == [direction |-> "CALL", stake |-> Stake, expiryS |-> 60, openedAt |-> at]

\* The trades made, and those that open orders will make.
TradesDue == Cardinality(made) + Cardinality({s \in Sessions : pc[s] = "IDLE" /\ open[s] # None})

\* _maybe_open places an order.
Open(s, at) ==
    /\ pc[s] = "IDLE" /\ open[s] = None
    /\ TradesDue < MaxTrades
    /\ can_open(risk[s], Stake, broker[s].balance)
    /\ Verdict(broker[s], Request(at)) = "ACCEPTED"
    /\ broker' = [broker EXCEPT ![s] = place(@, Request(at))]
    /\ open' = [open EXCEPT ![s] = AckFor(broker[s], Request(at))]
    /\ UNCHANGED <<risk, day, started, pc, files, made, appends>>

\* _trade_to_record, with the session that made the trade, which the code
\* leaves out.
ExpiryDate(ack) == ack.expiryAt \div DaySeconds
RecordOf(s, trade) ==
    [session |-> s, order_id |-> trade.ack.orderId, outcome |-> trade.outcome,
     pnl |-> trade.pnl, date |-> ExpiryDate(trade.ack)]

\* _maybe_settle up to log_trade: the broker settles, the manager records.
Settle(s, price) ==
    /\ pc[s] = "IDLE" /\ open[s] # None
    /\ ExpiryDate(open[s]) <= day
    /\ LET trade == TradeFor(broker[s], open[s], price)
       IN /\ broker' = [broker EXCEPT ![s] = settle(@, open[s], price)]
          /\ risk' = [risk EXCEPT ![s] = record(@, trade)]
          /\ made' = made \cup {RecordOf(s, trade)}
    /\ pc' = [pc EXCEPT ![s] = "LOGGING"]
    /\ UNCHANGED <<day, started, open, files, appends>>

\* What log_trade appends.
Current(s) == RecordOf(s, broker[s].settled[open[s].orderId])

\* Mutant: the journal changes at midnight.
Today(s) == day

\* Where: in the file of the day the run began on.
JournalDate(s) == started[s]

\* log_trade returns, and _open is cleared.
Log(s) ==
    /\ pc[s] = "LOGGING"
    /\ files' = [files EXCEPT ![JournalDate(s)] = Appended(@, Current(s))]
    /\ appends' = Append(appends, [record |-> Current(s), returned |-> TRUE])
    /\ pc' = [pc EXCEPT ![s] = "IDLE"]
    /\ open' = [open EXCEPT ![s] = None]
    /\ UNCHANGED <<risk, broker, day, started, made>>

\* The process is gone, and all it kept in memory.
Gone(s) ==
    /\ pc' = [pc EXCEPT ![s] = "DOWN"]
    /\ risk' = [risk EXCEPT ![s] = None]
    /\ broker' = [broker EXCEPT ![s] = None]
    /\ open' = [open EXCEPT ![s] = None]

\* Mutant: a failed append is ignored and the session goes on.
GoesOn(s) ==
    /\ pc' = [pc EXCEPT ![s] = "IDLE"]
    /\ open' = [open EXCEPT ![s] = None]
    /\ UNCHANGED <<risk, broker>>

\* append raises, or the process is killed inside it: in both cases it ends.
AppendFails(s) == Gone(s)

LogInterrupted(s) ==
    /\ pc[s] = "LOGGING"
    /\ \E file \in Interrupted(files[JournalDate(s)], Current(s)) :
         files' = [files EXCEPT ![JournalDate(s)] = file]
    /\ appends' = Append(appends, [record |-> Current(s), returned |-> FALSE])
    /\ AppendFails(s)
    /\ UNCHANGED <<day, started, made>>

\* Killed, interrupted by Ctrl-C, or ended by the feed, between two steps.
Die(s) ==
    /\ pc[s] \in {"IDLE", "LOGGING"}
    /\ Gone(s)
    /\ UNCHANGED <<day, started, files, made, appends>>

Midnight ==
    /\ day < LastDay
    /\ day' = day + 1
    /\ UNCHANGED <<risk, broker, started, pc, open, files, made, appends>>

Next ==
    \/ \E s \in Sessions : \/ Begin(s)
                           \/ \E at \in OpeningTimes : Open(s, at)
                           \/ \E price \in Prices : Settle(s, price)
                           \/ Log(s) \/ LogInterrupted(s) \/ Die(s)
    \/ Midnight

Spec == Init /\ [][Next]_vars

-----------------------------------------------------------------------------
Returned   == {i \in DOMAIN appends : appends[i].returned}
Journalled == {appends[i].record : i \in Returned}
Broken(d)  == {i \in DOMAIN appends : ~appends[i].returned /\ started[appends[i].record.session] = d}
SessionsOf(d) == {s \in 1..Len(started) : started[s] = d}

\* The report of a date, and the records of that file.
Report(d) == summarize(read(files[d], Nat))
InFile(d) == ToSet(read(files[d], Nat))

\* The trades whose append returned, of the runs that began on a day.
Logged(d)   == {r \in Journalled : started[r.session] = d}
PnlOf(S)    == SumFunction([r \in S |-> r.pnl])
Count(S, o) == Cardinality({r \in S : r.outcome = o})

\* A file only grows, whoever writes to it: a line that ends with a newline
\* never changes, and an unfinished one is only extended (journal.py:30).
OnlyAppended ==
    [][\A d \in Days :
         LET old == files[d].lines
             new == files'[d].lines
         IN /\ Len(new) >= Len(old)
            /\ \A i \in DOMAIN old : IsPrefix(old[i], new[i])
            /\ files[d].terminated => \A i \in DOMAIN old : new[i] = old[i]]_vars

\* A torn write costs a file at most one record besides its own, of whichever
\* run appends next: every other record whose append returned is read, once,
\* in the order of the appends (journal.py:42-48).
TornWritesCostOneRecordEach ==
    \A d \in Days :
        LET shown == read(files[d], Nat)
            at(i) == CHOOSE n \in DOMAIN appends : appends[n].record = shown[i]
        IN /\ Cardinality(Logged(d) \ InFile(d)) <= Cardinality(Broken(d))
           /\ \A i, j \in DOMAIN shown : i < j => at(i) < at(j)

\* A run that dies loses at most the trade it was settling; all it settled
\* before is in its journal, wherever it was killed (session.py:74-79).
DyingCostsOneTrade ==
    \A s \in 1..Len(started) :
        LET lost == {r \in made \ Journalled : r.session = s}
        IN /\ pc[s] = "IDLE" => lost = {}
           /\ \A r \in lost, other \in made :
                other.session = s /\ other # r => other.order_id < r.order_id

\* Unless an append broke, the report of a date is the account of the trades
\* of the runs that began on it, also of those made after midnight: no trade
\* of theirs is missing and none of another run is in it (wire.py:113).
ReportMatchesTrades ==
    \A d \in Days :
        Broken(d) = {} =>
            /\ Report(d).trade_count = Cardinality(Logged(d))
            /\ Report(d).net_pnl     = PnlOf(Logged(d))
            /\ Report(d).win_count   = Count(Logged(d), "WIN")
            /\ Report(d).loss_count  = Count(Logged(d), "LOSS")
            /\ Report(d).tie_count   = Count(Logged(d), "TIE")

\* What was traded on a date can be found all the same: reading all files
\* for that date gives each trade that expired on it, once, although runs
\* that began the day before filed theirs under that day (journal.py:50-56).
DateFilterFindsTrades ==
    (\A d \in Days : Broken(d) = {}) =>
        \A date \in Days :
            /\ UNION {ToSet(read(files[d], {date})) : d \in Days}
                 = {r \in Journalled : r.date = date}
            /\ SumFunction([d \in Days |-> Len(read(files[d], {date}))])
                 = Cardinality({r \in Journalled : r.date = date})

\* The daily loss limit holds for each run, not for the day: a manager starts
\* afresh with every run, so what a day can lose grows with the number of its
\* runs, and by no more than the limit and less than a stake for each.
DayLossGrowsWithRuns ==
    Stake > 0 /\ daily_loss_limit < 0 =>
        \A d \in Days : SessionsOf(d) # {} =>
            PnlOf({r \in made : r.session \in SessionsOf(d)})
              > Cardinality(SessionsOf(d)) * (daily_loss_limit - Hundredths(Stake))

\* ports/trade_log.py:4: "once a record is appended it must never be silently
\* mutated or removed by application code".
AppendedRecordsAreRead == \A d \in Days : Logged(d) \subseteq InFile(d)
=============================================================================
