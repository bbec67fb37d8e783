-------------------------- MODULE TradingDaysProofs --------------------------
(***************************************************************************)
(* Theorems about TradingDays, for any number of runs, trades and days,    *)
(* any stake, payout rate and limits.                                      *)
(***************************************************************************)
EXTENDS TradingDays, Sums

Alive(s)  == pc[s] \in {"IDLE", "LOGGING"}
MadeBy(s) == {r \in made : r.session = s}

\* The order a living run holds is the last one its broker numbered; its trade
\* is stored once it is settled, and until then its manager is active.
HeldInv(s) ==
    open[s] # None =>
        /\ open[s] \in OrderAck
        /\ open[s].request.stake = Stake /\ Stake > 0
        /\ open[s].expiryAt \in Nat
        /\ open[s].orderId > 0 /\ open[s].orderId = broker[s].nextId - 1
        /\ pc[s] = "IDLE" => ~IsSettled(broker[s], open[s]) /\ risk[s].state = "ACTIVE"
        /\ pc[s] = "LOGGING" => /\ IsSettled(broker[s], open[s])
                                /\ broker[s].settled[open[s].orderId].ack = open[s]

\* What a living run has settled it has made, under numbers its broker knows;
\* at most the last of it is not yet journalled.
MadeInv(s) ==
    /\ \A r \in MadeBy(s) : r.order_id \in DOMAIN broker[s].settled
    /\ pc[s] = "IDLE" => MadeBy(s) \subseteq Journalled
    /\ pc[s] = "LOGGING" =>
         /\ MadeBy(s) \subseteq Journalled \cup {Current(s)}
         /\ Current(s) \in MadeBy(s)
         /\ \A r \in MadeBy(s) : r # Current(s) => r.order_id < Current(s).order_id

\* The manager of a living run has counted what the run made, and an active
\* one has seen no limit breached.
CountInv(s) ==
    /\ risk[s].dailyPnl = PnlOf(MadeBy(s))
    /\ risk[s].state = "ACTIVE" /\ daily_loss_limit < 0 => risk[s].dailyPnl > daily_loss_limit
    /\ risk[s].state = "HALTED" => risk[s].haltReason \in HaltReasons

\* No run, living or dead, has lost a stake beyond its limit.
LimitInv(s) ==
    Stake > 0 /\ daily_loss_limit < 0 =>
        PnlOf(MadeBy(s)) > daily_loss_limit - Hundredths(Stake)

\* What a run has lost, if anything, is the last trade it made.
LastLost(s) ==
    \A r \in MadeBy(s) \ Journalled, other \in MadeBy(s) :
        other # r => other.order_id < r.order_id

RunType(s) ==
    /\ pc[s] = "NEW" <=> s > Len(started)
    /\ pc[s] = "LOGGING" => open[s] # None
    /\ Alive(s) => risk[s] \in Risk /\ IsBroker(broker[s])
    /\ ~Alive(s) => risk[s] = None /\ broker[s] = None /\ open[s] = None

RunInv(s) ==
    /\ RunType(s)
    /\ Alive(s) => HeldInv(s) /\ MadeInv(s) /\ CountInv(s)
    /\ pc[s] = "NEW" => MadeBy(s) = {}
    /\ LimitInv(s)
    /\ LastLost(s)

File == [lines: Seq(Seq(Records \cup {Torn})), terminated: BOOLEAN]

FilesInv ==
    /\ files \in [Days -> File]
    /\ \A d \in Days : ~files[d].terminated => files[d].lines # << >>

Types ==
    /\ day \in Days
    /\ started \in Seq(Days) /\ Len(started) <= MaxSessions
    /\ pc \in [Sessions -> {"NEW", "IDLE", "LOGGING", "DOWN"}]
    /\ DOMAIN risk = Sessions /\ DOMAIN broker = Sessions /\ DOMAIN open = Sessions
    /\ FilesInv
    /\ made \subseteq Records /\ IsFiniteSet(made)
    /\ appends \in Seq([record: Records, returned: BOOLEAN])

DaysInv == Types /\ \A s \in Sessions : RunInv(s)

-----------------------------------------------------------------------------
(* The files. *)

\* Whatever is written at the end of a file, the file only grows.
LEMMA WrittenAtTheEnd ==
    ASSUME NEW file \in File, ~file.terminated => file.lines # << >>,
           NEW fragment \in Records \cup {Torn}, NEW newline \in BOOLEAN
    PROVE  LET new == Extended(file, fragment, newline)
           IN /\ new \in File /\ new.lines # << >>
              /\ Len(new.lines) >= Len(file.lines)
              /\ \A i \in DOMAIN file.lines : IsPrefix(file.lines[i], new.lines[i])
              /\ file.terminated => \A i \in DOMAIN file.lines : new.lines[i] = file.lines[i]
<1> DEFINE Line == Seq(Records \cup {Torn})
           old == file.lines
           new == Extended(file, fragment, newline)
<1>1. old \in Seq(Line) /\ file.terminated \in BOOLEAN
  BY DEF File
<1>2. new.terminated = newline
      /\ new = [lines |-> new.lines, terminated |-> newline]
  BY DEF Extended
<1>3. CASE file.terminated
  <2>1. new.lines = Append(old, <<fragment>>)
    BY <1>3 DEF Extended
  <2>2. <<fragment>> \in Line
    OBVIOUS
  <2> HIDE DEF old, Line, new
  <2>3. new.lines \in Seq(Line) /\ new.lines # << >> /\ Len(new.lines) = Len(old) + 1
        /\ \A i \in DOMAIN old : new.lines[i] = old[i] /\ old[i] \in Line
    BY <1>1, <2>1, <2>2
  <2>4. \A i \in DOMAIN old : IsPrefix(old[i], old[i])
    BY <2>3 DEF IsPrefix, Line
  <2>5. new \in File
    BY <1>2, <2>3 DEF File, Line
  <2> QED BY <1>1, <2>3, <2>4, <2>5 DEF old, new
<1>4. CASE ~file.terminated
  <2> DEFINE n == Len(old)
  <2>1. new.lines = [old EXCEPT ![n] = Append(@, fragment)]
    BY <1>4 DEF Extended
  <2>2. old # << >>
    BY <1>4
  <2> HIDE DEF old, Line, new
  <2>3. n \in DOMAIN old /\ old[n] \in Line /\ n \in Nat
    BY <1>1, <2>2
  <2>4. Append(old[n], fragment) \in Line
    BY <2>3 DEF Line
  <2>5. new.lines \in Seq(Line) /\ new.lines # << >> /\ Len(new.lines) = Len(old)
    BY <1>1, <2>1, <2>2, <2>3, <2>4
  <2>6. ASSUME NEW i \in DOMAIN old PROVE IsPrefix(old[i], new.lines[i])
    <3>1. old[i] \in Line
      BY <1>1
    <3>2. CASE i = n
      BY <2>1, <3>1, <3>2 DEF IsPrefix, Line
    <3>3. CASE i # n
      BY <2>1, <3>1, <3>3 DEF IsPrefix, Line
    <3> QED BY <3>2, <3>3
  <2>7. new \in File
    BY <1>2, <2>5 DEF File, Line
  <2> QED BY <1>1, <1>4, <2>5, <2>6, <2>7 DEF old, new
<1> QED BY <1>1, <1>3, <1>4

\* An interrupted append changes no more of a file than an unterminated last line.
LEMMA InterruptedAtTheEnd ==
    ASSUME NEW file \in File, ~file.terminated => file.lines # << >>,
           NEW rec \in Records, NEW new \in Interrupted(file, rec)
    PROVE  /\ new \in File /\ (~new.terminated => new.lines # << >>)
           /\ Len(new.lines) >= Len(file.lines)
           /\ \A i \in DOMAIN file.lines : IsPrefix(file.lines[i], new.lines[i])
           /\ file.terminated => \A i \in DOMAIN file.lines : new.lines[i] = file.lines[i]
<1>1. CASE new = file
  <2>1. \A i \in DOMAIN file.lines : file.lines[i] \in Seq(Records \cup {Torn})
    BY DEF File
  <2>2. \A i \in DOMAIN file.lines : IsPrefix(file.lines[i], file.lines[i])
    BY <2>1 DEF IsPrefix
  <2>3. Len(file.lines) \in Nat
    BY DEF File
  <2> QED BY <1>1, <2>2, <2>3
<1>2. CASE \E fragment \in Records \cup {Torn}, newline \in BOOLEAN :
             new = Extended(file, fragment, newline)
  <2>1. PICK fragment \in Records \cup {Torn}, newline \in BOOLEAN :
           new = Extended(file, fragment, newline)
    BY <1>2
  <2> QED BY <2>1, WrittenAtTheEnd
<1>3. ASSUME new # file
      PROVE  \E fragment \in Records \cup {Torn}, newline \in BOOLEAN :
               new = Extended(file, fragment, newline)
  <2>1. \/ new = Extended(file, Torn, FALSE) \/ new = Extended(file, rec, FALSE)
        \/ new = Extended(file, rec, TRUE)
    BY <1>3 DEF Interrupted, Appended
  <2>2. rec \in Records \cup {Torn} /\ Torn \in Records \cup {Torn}
    OBVIOUS
  <2> QED BY <2>1, <2>2
<1> QED BY <1>1, <1>2, <1>3

-----------------------------------------------------------------------------
(* Money. *)

\* No record, no P&L.
LEMMA PnlOfNone == PnlOf({}) = 0
<1> DEFINE pnls == [r \in {} |-> r.pnl]
<1>1. PnlOf({}) = SumFunctionOnSet(pnls, DOMAIN pnls) /\ DOMAIN pnls = {}
  BY DEF PnlOf, SumFunction
<1> HIDE DEF pnls
<1> QED BY <1>1, SumEmpty

\* The P&L of finitely many records is an integer,
LEMMA PnlOfType ==
    ASSUME NEW S \in SUBSET Records, IsFiniteSet(S)
    PROVE  PnlOf(S) \in Int
<1> DEFINE pnls == [r \in S |-> r.pnl]
<1>1. PnlOf(S) = SumFunctionOnSet(pnls, S)
  BY DEF PnlOf, SumFunction
<1>2. \A r \in S : pnls[r] \in Int
  BY DEF Records
<1> HIDE DEF pnls
<1> QED BY <1>1, <1>2, SumType

\* one record more adds its own,
LEMMA PnlOfOneMore ==
    ASSUME NEW S \in SUBSET Records, IsFiniteSet(S), NEW rec \in Records, rec \notin S
    PROVE  PnlOf(S \cup {rec}) = PnlOf(S) + rec.pnl
<1> DEFINE T == S \cup {rec}
           pnls  == [r \in S |-> r.pnl]
           pnls2 == [r \in T |-> r.pnl]
<1>1. PnlOf(S) = SumFunctionOnSet(pnls, S) /\ PnlOf(T) = SumFunctionOnSet(pnls2, T)
  BY DEF PnlOf, SumFunction
<1>2. /\ \A r \in S : pnls[r] = pnls2[r] /\ pnls2[r] \in Int
      /\ pnls2[rec] = rec.pnl /\ pnls2[rec] \in Int
  BY DEF Records
<1> HIDE DEF pnls, pnls2
<1>3. SumFunctionOnSet(pnls2, S \cup {rec}) = pnls2[rec] + SumFunctionOnSet(pnls2, S)
  <2>1. \A r \in S : pnls2[r] \in Int
    BY <1>2
  <2> QED BY <1>2, <2>1, SumAdd
<1>4. SumFunctionOnSet(pnls, S) = SumFunctionOnSet(pnls2, S)
  BY <1>2, SumCongruence
<1>5. SumFunctionOnSet(pnls2, S) \in Int
  BY <1>2, SumType
<1> QED BY <1>1, <1>2, <1>3, <1>4, <1>5

\* The trade of an unsettled order of this stake, and what settling it leaves:
\* it wins something or loses at most the stake.
LEMMA NewTrade ==
    ASSUME NEW b, IsBroker(b), NEW ack \in OrderAck, ack.request.stake = Stake, Stake > 0,
           ~IsSettled(b, ack), ack.orderId > 0, ack.orderId = b.nextId - 1, NEW price
    PROVE  LET trade == TradeFor(b, ack, price)
               after == settle(b, ack, price)
           IN /\ trade \in Trade /\ trade.ack = ack /\ trade.pnl >= -Hundredths(Stake)
              /\ IsBroker(after) /\ after.nextId = b.nextId
              /\ DOMAIN after.settled = DOMAIN b.settled \cup {ack.orderId}
              /\ after.settled[ack.orderId] = trade
<1> DEFINE outcome == resolve_outcome(ack.request.direction, ack.entryPrice, price)
           pnl     == pnl_for(outcome, ack.request.stake, PayoutPct)
           balance == b.balance + Credit(ack, pnl)
           trade   == TradeFor(b, ack, price)
           after   == settle(b, ack, price)
<1>1. outcome \in Outcomes
  BY DEF resolve_outcome, Outcomes
<1>2. pnl \in Int /\ pnl >= -Hundredths(Stake)
  <2>1. Stake * PayoutPct \in Nat
    BY DaysConstants, BrokerConstants
  <2>2. Hundredths(Stake) \in Nat
    BY DaysConstants DEF Hundredths
  <2> HIDE DEF outcome
  <2> QED BY <1>1, <2>1, <2>2 DEF pnl_for, Outcomes
<1>3. balance \in Int
  <2>1. Hundredths(Stake) \in Int /\ b.balance \in Int
    BY DaysConstants DEF Hundredths, IsBroker
  <2> HIDE DEF pnl
  <2> QED BY <1>2, <2>1 DEF Credit
<1>4. trade = [ack |-> ack, outcome |-> outcome, pnl |-> pnl, balanceAfter |-> balance]
  BY DEF TradeFor
<1> HIDE DEF outcome, pnl, balance, trade
<1>5. /\ trade \in Trade /\ trade.ack = ack /\ trade.pnl >= -Hundredths(Stake)
      /\ trade.balanceAfter \in Int
  BY <1>1, <1>2, <1>3, <1>4 DEF Trade
<1>6. after = [balance |-> trade.balanceAfter, nextId |-> b.nextId,
               settled |-> [id \in DOMAIN b.settled \cup {ack.orderId} |->
                              IF id = ack.orderId THEN trade ELSE b.settled[id]]]
  BY DEF settle, trade
<1> HIDE DEF after
<1>7. /\ after.nextId = b.nextId
      /\ DOMAIN after.settled = DOMAIN b.settled \cup {ack.orderId}
      /\ after.settled[ack.orderId] = trade
      /\ \A id \in DOMAIN b.settled : id # ack.orderId => after.settled[id] = b.settled[id]
  BY <1>6
<1>8. ack.orderId \in 1..b.nextId - 1
  BY DEF OrderAck, IsBroker
<1>9. IsBroker(after)
  BY <1>5, <1>6, <1>7, <1>8 DEF IsBroker
<1> QED BY <1>5, <1>7, <1>9 DEF trade, after

\* What the manager counts, and that it halts when its limit is reached.
LEMMA Recorded ==
    ASSUME NEW r \in Risk, NEW trade \in Trade,
           r.state = "HALTED" => r.haltReason \in HaltReasons
    PROVE  LET after == record(r, trade)
           IN /\ after \in Risk
              /\ after.dailyPnl = r.dailyPnl + trade.pnl
              /\ after.state = "ACTIVE" => after.dailyPnl > daily_loss_limit
              /\ after.state = "HALTED" => after.haltReason \in HaltReasons
<1> DEFINE pnl    == r.dailyPnl + trade.pnl
           streak == Streak(r, trade.outcome)
           reason == Breach(pnl, streak)
           after  == record(r, trade)
<1>1. pnl \in Int /\ streak \in Nat
  BY DEF Risk, Trade, Streak, Outcomes
<1>2. CASE IsHalted(r)
  <2>1. after = [r EXCEPT !.dailyPnl = pnl, !.consecutiveLosses = streak]
    BY <1>2 DEF record
  <2> HIDE DEF pnl, streak, after
  <2>2. after \in Risk /\ after.dailyPnl = pnl /\ after.state = "HALTED"
          /\ after.haltReason \in HaltReasons
    BY <1>1, <1>2, <2>1 DEF Risk, IsHalted
  <2> QED BY <2>2 DEF pnl, after
<1>3. CASE ~IsHalted(r)
  <2>1. after = [state |-> IF reason = None THEN "ACTIVE" ELSE "HALTED",
                 haltReason |-> reason, dailyPnl |-> pnl, consecutiveLosses |-> streak]
    BY <1>3 DEF record
  <2>2. daily_loss_limit \in Int
    BY RiskConstants DEF daily_loss_limit
  <2> HIDE DEF pnl, streak, after
  <2>3. reason \in HaltReasons \cup {None} /\ (reason = None => pnl > daily_loss_limit)
    <3> QED BY <1>1, <2>2, RiskConstants DEF Breach, HaltReasons
  <2> HIDE DEF reason
  <2>4. after \in Risk /\ after.dailyPnl = pnl
    BY <1>1, <2>1, <2>3 DEF Risk
  <2>5. /\ after.state = "ACTIVE" => reason = None
        /\ after.state = "HALTED" => after.haltReason \in HaltReasons
    BY <2>1, <2>3
  <2> QED BY <2>3, <2>4, <2>5 DEF pnl, after
<1> QED BY <1>2, <1>3

-----------------------------------------------------------------------------
(* The steps. *)

\* A step of one run is none of the others' business.
LEMMA OthersUndisturbed ==
    ASSUME NEW t \in Sessions, RunInv(t),
           pc'[t] = pc[t], risk'[t] = risk[t], broker'[t] = broker[t], open'[t] = open[t],
           MadeBy(t)' = MadeBy(t), Journalled \subseteq Journalled',
           t > Len(started') <=> t > Len(started)
    PROVE  RunInv(t)'
<1>1. RunType(t)'
  BY DEF RunInv, RunType, Alive
<1>2. LimitInv(t)' /\ LastLost(t)' /\ (pc[t] = "NEW" => MadeBy(t) = {})'
  <2> QED BY DEF RunInv, LimitInv, LastLost
<1>3. ASSUME Alive(t) PROVE HeldInv(t)'
  BY <1>3 DEF RunInv, HeldInv
<1>4. ASSUME Alive(t) PROVE CountInv(t)'
  <2> QED BY <1>4 DEF RunInv, CountInv
<1>5. ASSUME Alive(t) PROVE MadeInv(t)'
  <2>1. Current(t)' = Current(t)
    BY DEF Current
  <2>2. MadeInv(t)
    BY <1>5 DEF RunInv
  <2> QED BY <2>1, <2>2 DEF MadeInv
<1>6. Alive(t)' <=> Alive(t)
  BY DEF Alive
<1> QED BY <1>1, <1>2, <1>3, <1>4, <1>5, <1>6 DEF RunInv

\* A run that has just begun has made nothing.
LEMMA BeginKeeps ==
    ASSUME DaysInv, NEW s \in Sessions, Begin(s)
    PROVE  DaysInv'
<1>1. /\ s = Len(started) + 1 /\ started' = Append(started, day)
      /\ pc' = [pc EXCEPT ![s] = "IDLE"]
      /\ risk' = [risk EXCEPT ![s] = NewRisk]
      /\ broker' = [broker EXCEPT ![s] = NewBroker]
      /\ UNCHANGED <<day, open, files, made, appends>>
  BY DEF Begin
<1>2. started' \in Seq(Days) /\ Len(started') = Len(started) + 1 /\ Len(started) \in Nat
  BY <1>1 DEF DaysInv, Types
<1>3. Types'
  <2>1. s <= MaxSessions
    BY DEF Sessions
  <2> QED BY <1>1, <1>2, <2>1 DEF DaysInv, Types, FilesInv
<1>4. /\ \A t \in Sessions : MadeBy(t)' = MadeBy(t)
      /\ Journalled' = Journalled
  BY <1>1 DEF MadeBy, Journalled, Returned
<1>5. ASSUME NEW t \in Sessions, t # s PROVE RunInv(t)'
  <2>1. /\ pc'[t] = pc[t] /\ risk'[t] = risk[t] /\ broker'[t] = broker[t] /\ open'[t] = open[t]
        /\ t > Len(started') <=> t > Len(started)
    BY <1>1, <1>2, <1>5 DEF DaysInv, Types, Sessions
  <2> QED BY <1>4, <2>1, OthersUndisturbed DEF DaysInv
<1>6. RunInv(s)'
  <2>1. pc[s] = "NEW"
    BY <1>1, <1>2 DEF DaysInv, RunInv, RunType
  <2>2. /\ pc'[s] = "IDLE" /\ risk'[s] = NewRisk /\ broker'[s] = NewBroker /\ open'[s] = None
    BY <1>1, <2>1 DEF DaysInv, Types, RunInv, RunType, Alive
  <2>3. MadeBy(s)' = {}
    BY <1>4, <2>1 DEF DaysInv, RunInv
  <2>4. RunType(s)'
    <3>1. NewRisk \in Risk
      BY DEF NewRisk, Risk
    <3>2. IsBroker(NewBroker)
      BY BrokerConstants DEF IsBroker, NewBroker, Hundredths
    <3>3. ~(s > Len(started'))
      BY <1>1, <1>2
    <3> QED BY <2>2, <3>1, <3>2, <3>3 DEF RunType, Alive
  <2>5. HeldInv(s)'
    BY <2>2 DEF HeldInv
  <2>6. MadeInv(s)'
    <3> QED BY <2>2, <2>3 DEF MadeInv
  <2>7. CountInv(s)'
    <3>1. PnlOf(MadeBy(s)') = 0
      BY <2>3, PnlOfNone
    <3> QED BY <2>2, <3>1 DEF CountInv, NewRisk
  <2>8. LimitInv(s)' /\ LastLost(s)'
    <3> QED BY <1>4, <2>3 DEF DaysInv, RunInv, LimitInv, LastLost
  <2> QED BY <2>2, <2>4, <2>5, <2>6, <2>7, <2>8 DEF RunInv
<1> QED BY <1>3, <1>5, <1>6 DEF DaysInv

\* A run places an order.
LEMMA OpenKeeps ==
    ASSUME DaysInv, NEW s \in Sessions, NEW at \in OpeningTimes, Open(s, at)
    PROVE  DaysInv'
<1> DEFINE order == Request(at)
           ack   == AckFor(broker[s], order)
<1>1. /\ pc[s] = "IDLE" /\ open[s] = None
      /\ can_open(risk[s], Stake, broker[s].balance)
      /\ Verdict(broker[s], order) = "ACCEPTED"
      /\ broker' = [broker EXCEPT ![s] = place(@, order)]
      /\ open' = [open EXCEPT ![s] = ack]
      /\ UNCHANGED <<risk, day, started, pc, files, made, appends>>
  BY DEF Open
<1>2. Types'
  BY <1>1 DEF DaysInv, Types, FilesInv
<1>3. /\ \A t \in Sessions : MadeBy(t)' = MadeBy(t)
      /\ Journalled' = Journalled
  BY <1>1 DEF MadeBy, Journalled, Returned
<1>4. ASSUME NEW t \in Sessions, t # s PROVE RunInv(t)'
  <2>1. /\ pc'[t] = pc[t] /\ risk'[t] = risk[t] /\ broker'[t] = broker[t] /\ open'[t] = open[t]
        /\ t > Len(started') <=> t > Len(started)
    BY <1>1, <1>4 DEF DaysInv, Types
  <2> QED BY <1>3, <2>1, OthersUndisturbed DEF DaysInv
<1>5. /\ pc'[s] = "IDLE" /\ risk'[s] = risk[s] /\ started' = started
      /\ broker'[s] = place(broker[s], order) /\ open'[s] = ack
  BY <1>1 DEF DaysInv, Types
<1>6. /\ RunInv(s) /\ Alive(s) /\ IsBroker(broker[s]) /\ risk[s] \in Risk
      /\ MadeInv(s) /\ CountInv(s)
  BY <1>1 DEF DaysInv, RunInv, RunType, Alive
<1>7. at \in Nat
  BY DaysConstants DEF DaysInv, Types, Days, OpeningTimes, DaySeconds
<1>8. Stake > 0 /\ Stake \in Int
  BY <1>1, DaysConstants DEF Verdict, Request
<1>9. /\ order \in OrderRequest /\ order.stake = Stake
      /\ order.openedAt + order.expiryS \in Nat
  BY <1>7, <1>8 DEF Request, OrderRequest, Directions
<1>10. /\ ack.request = order /\ ack.orderId = broker[s].nextId
       /\ ack.expiryAt = order.openedAt + order.expiryS /\ ack \in OrderAck
  <2>1. broker[s].nextId \in Nat /\ EntryPrice \in Nat
    BY <1>6, BrokerConstants DEF IsBroker
  <2> HIDE DEF order
  <2> QED BY <1>9, <2>1 DEF AckFor, OrderAck
<1>11. risk[s].state = "ACTIVE"
  <2> SUFFICES ASSUME risk[s].state = "HALTED" PROVE FALSE
    BY <1>6 DEF Risk
  <2>1. risk[s].haltReason = None
    BY <1>1 DEF can_open, Denial, IsHalted
  <2> QED BY <1>6, <2>1, RiskConstants DEF CountInv, HaltReasons
<1> HIDE DEF ack, order
<1>12. /\ IsBroker(broker'[s]) /\ broker'[s].settled = broker[s].settled
       /\ broker'[s].nextId = broker[s].nextId + 1
  <2>1. Hundredths(order.stake) \in Int
    BY <1>8, <1>9 DEF Hundredths
  <2> QED BY <1>5, <1>6, <2>1 DEF IsBroker, place
<1>13. HeldInv(s)'
  <2>1. ack.orderId \notin DOMAIN broker[s].settled /\ ack.orderId > 0 /\ ack.orderId \in Nat
    BY <1>6, <1>10 DEF IsBroker
  <2> QED BY <1>5, <1>8, <1>9, <1>10, <1>11, <1>12, <2>1 DEF HeldInv, IsSettled
<1>14. RunType(s)'
  BY <1>1, <1>5, <1>6, <1>12 DEF RunInv, RunType, Alive
<1>15. MadeInv(s)' /\ CountInv(s)' /\ LimitInv(s)' /\ LastLost(s)'
  <2> QED BY <1>1, <1>3, <1>5, <1>6, <1>12 DEF RunInv, MadeInv, CountInv, LimitInv, LastLost
<1>16. RunInv(s)'
  BY <1>5, <1>13, <1>14, <1>15 DEF RunInv
<1> QED BY <1>2, <1>4, <1>16 DEF DaysInv

\* A run settles: its manager counts a trade more, which is not yet journalled.
LEMMA SettleKeeps ==
    ASSUME DaysInv, NEW s \in Sessions, NEW price \in Prices, Settle(s, price)
    PROVE  DaysInv'
<1> DEFINE b     == broker[s]
           ack   == open[s]
           trade == TradeFor(b, ack, price)
           rec   == RecordOf(s, trade)
<1>1. /\ pc[s] = "IDLE" /\ ack # None
      /\ broker' = [broker EXCEPT ![s] = settle(b, ack, price)]
      /\ risk' = [risk EXCEPT ![s] = record(@, trade)]
      /\ made' = made \cup {rec}
      /\ pc' = [pc EXCEPT ![s] = "LOGGING"]
      /\ UNCHANGED <<day, started, open, files, appends>>
  BY DEF Settle
<1>2. /\ pc'[s] = "LOGGING" /\ open'[s] = ack /\ broker'[s] = settle(b, ack, price)
      /\ risk'[s] = record(risk[s], trade)
  BY <1>1 DEF DaysInv, Types
<1>3. /\ RunInv(s) /\ HeldInv(s) /\ MadeInv(s) /\ CountInv(s)
      /\ IsBroker(b) /\ risk[s] \in Risk /\ pc[s] # "NEW"
  BY <1>1 DEF DaysInv, RunInv, RunType, Alive
<1>4. /\ ack \in OrderAck /\ ack.request.stake = Stake /\ Stake > 0 /\ ack.expiryAt \in Nat
      /\ ack.orderId > 0 /\ ack.orderId = b.nextId - 1
      /\ ~IsSettled(b, ack) /\ risk[s].state = "ACTIVE"
  BY <1>1, <1>3 DEF HeldInv
<1>5. /\ trade \in Trade /\ trade.ack = ack /\ trade.pnl >= -Hundredths(Stake)
      /\ IsBroker(broker'[s]) /\ broker'[s].nextId = b.nextId
      /\ DOMAIN broker'[s].settled = DOMAIN b.settled \cup {ack.orderId}
      /\ broker'[s].settled[ack.orderId] = trade
  BY <1>2, <1>3, <1>4, NewTrade
<1>6. /\ risk'[s] \in Risk /\ risk'[s].dailyPnl = risk[s].dailyPnl + trade.pnl
      /\ risk'[s].state = "ACTIVE" => risk'[s].dailyPnl > daily_loss_limit
      /\ risk'[s].state = "HALTED" => risk'[s].haltReason \in HaltReasons
  BY <1>2, <1>3, <1>5, Recorded DEF CountInv
<1> HIDE DEF trade
<1>7. /\ rec \in Records /\ rec.session = s /\ rec.order_id = ack.orderId /\ rec.pnl = trade.pnl
  <2>1. ExpiryDate(ack) \in Nat
    BY <1>4 DEF ExpiryDate, DaySeconds
  <2>2. ack.orderId \in Nat /\ trade.outcome \in Outcomes /\ trade.pnl \in Int
    BY <1>4, <1>5 DEF OrderAck, Trade
  <2> QED BY <1>5, <2>1, <2>2 DEF RecordOf, Records
<1>8. Current(s)' = rec
  BY <1>2, <1>5 DEF Current, RecordOf, ExpiryDate
<1> HIDE DEF rec
<1>9. Types'
  <2>1. IsFiniteSet(made')
    BY <1>1, FS_AddElement DEF DaysInv, Types
  <2> QED BY <1>1, <1>7, <2>1 DEF DaysInv, Types, FilesInv
<1>10. Journalled' = Journalled
  BY <1>1 DEF Journalled, Returned
<1>11. ASSUME NEW t \in Sessions, t # s PROVE RunInv(t)'
  <2>1. /\ pc'[t] = pc[t] /\ risk'[t] = risk[t] /\ broker'[t] = broker[t] /\ open'[t] = open[t]
        /\ t > Len(started') <=> t > Len(started)
    BY <1>1, <1>11 DEF DaysInv, Types
  <2>2. MadeBy(t)' = MadeBy(t)
    BY <1>1, <1>7, <1>11 DEF MadeBy
  <2> QED BY <1>10, <2>1, <2>2, OthersUndisturbed DEF DaysInv
<1>12. MadeBy(s)' = MadeBy(s) \cup {rec}
  BY <1>1, <1>7 DEF MadeBy
<1>13. \A r \in MadeBy(s) : r.order_id \in DOMAIN b.settled /\ r.order_id < rec.order_id
  <2>1. \A id \in DOMAIN b.settled : id \in 1..b.nextId - 1 /\ id # ack.orderId
    BY <1>3, <1>4 DEF IsBroker, IsSettled
  <2>2. \A r \in MadeBy(s) : r.order_id \in DOMAIN b.settled
    BY <1>3 DEF MadeInv
  <2>3. \A id \in DOMAIN b.settled : id < rec.order_id
    BY <1>3, <1>4, <1>7, <2>1 DEF IsBroker
  <2> QED BY <2>2, <2>3
<1>14. MadeBy(s) \subseteq Journalled
  BY <1>1, <1>3 DEF MadeInv
<1>15. PnlOf(MadeBy(s)') = PnlOf(MadeBy(s)) + trade.pnl
  <2>1. rec \notin MadeBy(s)
    BY <1>7, <1>13 DEF Records
  <2>2. MadeBy(s) \in SUBSET Records /\ IsFiniteSet(MadeBy(s))
    BY FS_Subset DEF DaysInv, Types, MadeBy
  <2> QED BY <1>7, <1>12, <2>1, <2>2, PnlOfOneMore
<1>16. RunType(s)'
  BY <1>1, <1>2, <1>3, <1>5, <1>6 DEF RunInv, RunType, Alive
<1>17. HeldInv(s)'
  BY <1>2, <1>4, <1>5 DEF HeldInv, IsSettled
<1>18. MadeInv(s)'
  <2>1. \A r \in MadeBy(s)' : r.order_id \in DOMAIN broker'[s].settled
    BY <1>5, <1>7, <1>12, <1>13
  <2>2. \A r \in MadeBy(s)' : r # rec => r.order_id < rec.order_id
    BY <1>12, <1>13
  <2> QED BY <1>2, <1>8, <1>10, <1>12, <1>14, <2>1, <2>2 DEF MadeInv
<1>19. CountInv(s)'
  BY <1>3, <1>6, <1>15 DEF CountInv
<1>20. LimitInv(s)'
  <2>1. daily_loss_limit' = daily_loss_limit /\ daily_loss_limit \in Int
        /\ Hundredths(Stake) \in Int
    BY RiskConstants, DaysConstants DEF daily_loss_limit, Hundredths
  <2>2. daily_loss_limit < 0 => PnlOf(MadeBy(s)) > daily_loss_limit
    BY <1>3, <1>4 DEF CountInv
  <2>3. PnlOf(MadeBy(s)) \in Int /\ trade.pnl \in Int
    BY <1>3, <1>5 DEF CountInv, Risk, Trade
  <2> QED BY <1>5, <1>15, <2>1, <2>2, <2>3 DEF LimitInv
<1>21. LastLost(s)'
  BY <1>10, <1>12, <1>13, <1>14 DEF LastLost
<1>22. RunInv(s)'
  BY <1>2, <1>16, <1>17, <1>18, <1>19, <1>20, <1>21 DEF RunInv
<1> QED BY <1>9, <1>11, <1>22 DEF DaysInv

\* What an append adds to the history of appends.
LEMMA AppendRecorded ==
    ASSUME appends \in Seq([record: Records, returned: BOOLEAN]), NEW rec \in Records,
           NEW returned \in BOOLEAN,
           appends' = Append(appends, [record |-> rec, returned |-> returned])
    PROVE  /\ appends' \in Seq([record: Records, returned: BOOLEAN])
           /\ Journalled' = Journalled \cup (IF returned THEN {rec} ELSE {})
<1> DEFINE a == [record |-> rec, returned |-> returned]
           n == Len(appends) + 1
<1>1. a \in [record: Records, returned: BOOLEAN] /\ a.record = rec /\ a.returned = returned
  OBVIOUS
<1> HIDE DEF a
<1>2. appends' = Append(appends, a)
  BY DEF a
<1>3. /\ DOMAIN appends' = DOMAIN appends \cup {n} /\ appends'[n] = a
      /\ \A i \in DOMAIN appends : appends'[i] = appends[i]
      /\ appends' \in Seq([record: Records, returned: BOOLEAN])
  BY <1>1, <1>2
<1> HIDE DEF n
<1>4. Journalled' = Journalled \cup (IF returned THEN {rec} ELSE {})
  BY <1>1, <1>3 DEF Journalled, Returned
<1> QED BY <1>3, <1>4

\* What a run logs is the trade it has just made, in a file of its own day.
LEMMA WhatIsLogged ==
    ASSUME DaysInv, NEW s \in Sessions, pc[s] = "LOGGING"
    PROVE  /\ Current(s) \in Records /\ Current(s) \in MadeBy(s)
           /\ JournalDate(s) \in Days
           /\ files[JournalDate(s)] \in File
           /\ ~files[JournalDate(s)].terminated => files[JournalDate(s)].lines # << >>
<1>1. MadeInv(s) /\ ~(s > Len(started))
  BY DEF DaysInv, RunInv, RunType, Alive
<1>2. Current(s) \in MadeBy(s) /\ MadeBy(s) \subseteq Records
  BY <1>1 DEF MadeInv, DaysInv, Types, MadeBy
<1>3. s \in 1..Len(started) /\ started \in Seq(Days)
  BY <1>1 DEF DaysInv, Types, Sessions
<1>4. JournalDate(s) \in Days
  BY <1>3 DEF JournalDate
<1> QED BY <1>2, <1>4 DEF DaysInv, Types, FilesInv

\* A run that is gone leaves what it made as it is.
LEMMA GoneKeeps ==
    ASSUME DaysInv, NEW s \in Sessions, Alive(s), Gone(s),
           UNCHANGED <<started, made>>, Journalled' = Journalled
    PROVE  \A t \in Sessions : RunInv(t)'
<1>1. \A t \in Sessions : MadeBy(t)' = MadeBy(t)
  BY DEF MadeBy
<1>2. ASSUME NEW t \in Sessions, t # s PROVE RunInv(t)'
  <2>1. /\ pc'[t] = pc[t] /\ risk'[t] = risk[t] /\ broker'[t] = broker[t] /\ open'[t] = open[t]
        /\ t > Len(started') <=> t > Len(started)
    BY <1>2 DEF Gone, DaysInv, Types
  <2> QED BY <1>1, <2>1, OthersUndisturbed DEF DaysInv
<1>3. RunInv(s)'
  <2>1. /\ pc'[s] = "DOWN" /\ risk'[s] = None /\ broker'[s] = None /\ open'[s] = None
    BY DEF Gone, DaysInv, Types
  <2>2. ~(s > Len(started))
    BY DEF Alive, DaysInv, RunInv, RunType
  <2>3. RunType(s)'
    BY <2>1, <2>2 DEF RunType, Alive
  <2>4. LimitInv(s)' /\ LastLost(s)'
    BY <1>1 DEF DaysInv, RunInv, LimitInv, LastLost
  <2> QED BY <2>1, <2>3, <2>4 DEF RunInv, Alive
<1> QED BY <1>2, <1>3

\* A run has logged its trade.
LEMMA LogKeeps ==
    ASSUME DaysInv, NEW s \in Sessions, Log(s)
    PROVE  DaysInv'
<1> DEFINE d   == JournalDate(s)
           rec == Current(s)
<1>1. /\ pc[s] = "LOGGING"
      /\ files' = [files EXCEPT ![d] = Appended(@, rec)]
      /\ appends' = Append(appends, [record |-> rec, returned |-> TRUE])
      /\ pc' = [pc EXCEPT ![s] = "IDLE"]
      /\ open' = [open EXCEPT ![s] = None]
      /\ UNCHANGED <<risk, broker, day, started, made>>
  BY DEF Log
<1>2. /\ rec \in Records /\ rec \in MadeBy(s) /\ d \in Days /\ files[d] \in File
      /\ ~files[d].terminated => files[d].lines # << >>
  BY <1>1, WhatIsLogged
<1> HIDE DEF rec, d
<1>3. Appended(files[d], rec) \in File /\ Appended(files[d], rec).lines # << >>
  BY <1>2, WrittenAtTheEnd DEF Appended
<1>4. FilesInv'
  BY <1>1, <1>2, <1>3 DEF DaysInv, Types, FilesInv
<1>5. /\ appends' \in Seq([record: Records, returned: BOOLEAN])
      /\ Journalled' = Journalled \cup {rec}
  BY <1>1, <1>2, AppendRecorded DEF DaysInv, Types
<1>6. Types'
  BY <1>1, <1>4, <1>5 DEF DaysInv, Types
<1>7. \A t \in Sessions : MadeBy(t)' = MadeBy(t)
  BY <1>1 DEF MadeBy
<1>8. ASSUME NEW t \in Sessions, t # s PROVE RunInv(t)'
  <2>1. /\ pc'[t] = pc[t] /\ risk'[t] = risk[t] /\ broker'[t] = broker[t] /\ open'[t] = open[t]
        /\ t > Len(started') <=> t > Len(started)
    BY <1>1, <1>8 DEF DaysInv, Types
  <2> QED BY <1>5, <1>7, <2>1, OthersUndisturbed DEF DaysInv
<1>9. RunInv(s)'
  <2>1. /\ pc'[s] = "IDLE" /\ open'[s] = None /\ risk'[s] = risk[s] /\ broker'[s] = broker[s]
        /\ started' = started
    BY <1>1 DEF DaysInv, Types
  <2>2. RunInv(s) /\ Alive(s) /\ MadeInv(s) /\ CountInv(s)
    BY <1>1 DEF DaysInv, RunInv, Alive
  <2>3. RunType(s)'
    BY <1>1, <2>1, <2>2 DEF RunInv, RunType, Alive
  <2>4. HeldInv(s)'
    BY <2>1 DEF HeldInv
  <2>5. MadeInv(s)'
    BY <1>1, <1>5, <1>7, <2>1, <2>2 DEF MadeInv, rec
  <2>6. CountInv(s)' /\ LimitInv(s)' /\ LastLost(s)'
    BY <1>5, <1>7, <2>1, <2>2 DEF RunInv, CountInv, LimitInv, LastLost
  <2> QED BY <2>1, <2>3, <2>4, <2>5, <2>6 DEF RunInv
<1> QED BY <1>6, <1>8, <1>9 DEF DaysInv

\* The append is interrupted, and the run is gone.
LEMMA InterruptedKeeps ==
    ASSUME DaysInv, NEW s \in Sessions, LogInterrupted(s)
    PROVE  DaysInv'
<1> DEFINE d   == JournalDate(s)
           rec == Current(s)
<1>1. /\ pc[s] = "LOGGING"
      /\ appends' = Append(appends, [record |-> rec, returned |-> FALSE])
      /\ Gone(s)
      /\ UNCHANGED <<day, started, made>>
  BY DEF LogInterrupted, AppendFails
<1>2. PICK file \in Interrupted(files[d], rec) : files' = [files EXCEPT ![d] = file]
  BY DEF LogInterrupted
<1>3. /\ rec \in Records /\ d \in Days /\ files[d] \in File
      /\ ~files[d].terminated => files[d].lines # << >>
  BY <1>1, WhatIsLogged
<1> HIDE DEF rec, d
<1>4. file \in File /\ (~file.terminated => file.lines # << >>)
  BY <1>2, <1>3, InterruptedAtTheEnd
<1>5. FilesInv'
  BY <1>2, <1>3, <1>4 DEF DaysInv, Types, FilesInv
<1>6. appends' \in Seq([record: Records, returned: BOOLEAN]) /\ Journalled' = Journalled
  BY <1>1, <1>3, AppendRecorded DEF DaysInv, Types
<1>7. Types'
  BY <1>1, <1>5, <1>6 DEF DaysInv, Types, Gone
<1>8. Alive(s)
  BY <1>1 DEF Alive
<1>9. \A t \in Sessions : RunInv(t)'
  BY <1>1, <1>6, <1>8, GoneKeeps
<1> QED BY <1>7, <1>9 DEF DaysInv

\* A run that is killed keeps the invariant, whatever it held,
LEMMA DieKeeps ==
    ASSUME DaysInv, NEW s \in Sessions, Die(s)
    PROVE  DaysInv'
<1>1. Alive(s) /\ Gone(s) /\ UNCHANGED <<day, started, files, made, appends>>
  BY DEF Die, Alive
<1>2. Types'
  BY <1>1 DEF DaysInv, Types, FilesInv, Gone
<1>3. Journalled' = Journalled
  BY <1>1 DEF Journalled, Returned
<1>4. \A t \in Sessions : RunInv(t)'
  BY <1>1, <1>3, GoneKeeps
<1> QED BY <1>2, <1>4 DEF DaysInv

\* and so does midnight.
LEMMA ClockKeeps ==
    ASSUME DaysInv, Midnight \/ UNCHANGED vars
    PROVE  DaysInv'
<1>1. UNCHANGED <<risk, broker, started, pc, open, files, made, appends>> /\ day' \in Days
  BY DaysConstants DEF DaysInv, Types, Midnight, vars, Days
<1>2. Types'
  BY <1>1 DEF DaysInv, Types, FilesInv
<1>3. Journalled' = Journalled /\ \A t \in Sessions : MadeBy(t)' = MadeBy(t)
  BY <1>1 DEF Journalled, Returned, MadeBy
<1>4. ASSUME NEW t \in Sessions PROVE RunInv(t)'
  BY <1>1, <1>3, OthersUndisturbed DEF DaysInv
<1> QED BY <1>2, <1>4 DEF DaysInv

\* No run has begun: nothing is held, made, counted or written.
LEMMA DaysStart == Init => DaysInv
<1> SUFFICES ASSUME Init PROVE DaysInv
  OBVIOUS
<1>1. Types
  <2>1. EmptyFile \in File /\ EmptyFile.terminated
    BY DEF EmptyFile, File
  <2>2. 0 \in Days /\ MaxSessions \in Nat
    BY DaysConstants DEF Days
  <2>3. FilesInv
    BY <2>1 DEF Init, FilesInv
  <2> QED BY <2>2, <2>3, FS_EmptySet DEF Init, Types
<1>2. ASSUME NEW s \in Sessions PROVE RunInv(s)
  <2>1. /\ pc[s] = "NEW" /\ risk[s] = None /\ broker[s] = None /\ open[s] = None
        /\ MadeBy(s) = {} /\ Len(started) = 0
    BY DEF Init, MadeBy
  <2>2. RunType(s)
    BY <2>1 DEF RunType, Alive, Sessions
  <2>3. LimitInv(s)
    <3>1. daily_loss_limit \in Int /\ Hundredths(Stake) \in Int
             /\ (Stake > 0 => Hundredths(Stake) > 0)
      BY RiskConstants, DaysConstants DEF daily_loss_limit, Hundredths
    <3> QED BY <2>1, <3>1, PnlOfNone DEF LimitInv
  <2> QED BY <2>1, <2>2, <2>3 DEF RunInv, Alive, LastLost
<1> QED BY <1>1, <1>2 DEF DaysInv

\* What holds of every run at every step: what a living one holds, has made
\* and has counted, and what a dead one can have lost.
THEOREM DaysInvariance == Spec => []DaysInv
<1>1. Init => DaysInv
  BY DaysStart
<1>2. DaysInv /\ [Next]_vars => DaysInv'
  <2> SUFFICES ASSUME DaysInv, [Next]_vars PROVE DaysInv'
    OBVIOUS
  <2>1. ASSUME NEW s \in Sessions, Begin(s) PROVE DaysInv'
    BY <2>1, BeginKeeps
  <2>2. ASSUME NEW s \in Sessions, NEW at \in OpeningTimes, Open(s, at) PROVE DaysInv'
    BY <2>2, OpenKeeps
  <2>3. ASSUME NEW s \in Sessions, NEW price \in Prices, Settle(s, price) PROVE DaysInv'
    BY <2>3, SettleKeeps
  <2>4. ASSUME NEW s \in Sessions, Log(s) PROVE DaysInv'
    BY <2>4, LogKeeps
  <2>5. ASSUME NEW s \in Sessions, LogInterrupted(s) PROVE DaysInv'
    BY <2>5, InterruptedKeeps
  <2>6. ASSUME NEW s \in Sessions, Die(s) PROVE DaysInv'
    BY <2>6, DieKeeps
  <2>7. CASE Midnight \/ UNCHANGED vars
    BY <2>7, ClockKeeps
  <2> QED BY <2>1, <2>2, <2>3, <2>4, <2>5, <2>6, <2>7 DEF Next
<1> QED BY <1>1, <1>2, PTL DEF Spec

\* The runs, their managers and brokers, the files and the histories keep their
\* types, through every crash.
THEOREM DaysTypeCorrect == Spec => []TypeOK
<1>1. DaysInv => TypeOK
  <2> SUFFICES ASSUME DaysInv PROVE TypeOK
    OBVIOUS
  <2>1. \A s \in Sessions :
           /\ pc[s] = "NEW" <=> s > Len(started)
           /\ pc[s] = "LOGGING" => open[s] # None
           /\ pc[s] \in {"IDLE", "LOGGING"} => risk[s] \in Risk /\ IsBroker(broker[s])
           /\ pc[s] \in {"NEW", "DOWN"} =>
                risk[s] = None /\ broker[s] = None /\ open[s] = None
    BY DEF DaysInv, RunInv, RunType, Alive
  <2>2. \A d \in Days : /\ files[d].lines \in Seq(Seq(Records \cup {Torn}))
                        /\ ~files[d].terminated => files[d].lines # << >>
    BY DEF DaysInv, Types, FilesInv, File
  <2> QED BY <2>1, <2>2 DEF DaysInv, Types, TypeOK
<1> QED BY <1>1, DaysInvariance, PTL

\* A run killed at any point loses at most the trade it was settling; what it
\* settled before is in its journal.
THEOREM DyingAlwaysCostsOneTrade == Spec => []DyingCostsOneTrade
<1>1. DaysInv => DyingCostsOneTrade
  <2> SUFFICES ASSUME DaysInv, NEW s \in 1..Len(started)
               PROVE  LET lost == {r \in made \ Journalled : r.session = s}
                      IN /\ pc[s] = "IDLE" => lost = {}
                         /\ \A r \in lost, other \in made :
                              other.session = s /\ other # r => other.order_id < r.order_id
    BY DEF DyingCostsOneTrade
  <2>1. s \in Sessions
    BY DaysConstants DEF DaysInv, Types, Sessions
  <2>2. RunInv(s)
    BY <2>1 DEF DaysInv
  <2>3. pc[s] = "IDLE" => MadeBy(s) \subseteq Journalled
    BY <2>2 DEF RunInv, Alive, MadeInv
  <2> QED BY <2>2, <2>3 DEF RunInv, LastLost, MadeBy
<1> QED BY <1>1, DaysInvariance, PTL

\* No step of any run, whole or interrupted, changes or removes a line that was
\* finished, in any of the files.
THEOREM FilesOnlyGrow == Spec => OnlyAppended
<1> DEFINE Grown(d) ==
      LET old == files[d].lines
          new == files'[d].lines
      IN /\ Len(new) >= Len(old)
         /\ \A i \in DOMAIN old : IsPrefix(old[i], new[i])
         /\ files[d].terminated => \A i \in DOMAIN old : new[i] = old[i]
<1>1. DaysInv /\ [Next]_vars => \A d \in Days : Grown(d)
  <2> SUFFICES ASSUME DaysInv, [Next]_vars, NEW d \in Days PROVE Grown(d)
    OBVIOUS
  <2>1. files \in [Days -> File] /\ files[d] \in File
    BY DEF DaysInv, Types, FilesInv
  <2>2. CASE files'[d] = files[d]
    <3>1. \A i \in DOMAIN files[d].lines : files[d].lines[i] \in Seq(Records \cup {Torn})
      BY <2>1 DEF File
    <3>2. \A i \in DOMAIN files[d].lines : IsPrefix(files[d].lines[i], files[d].lines[i])
      BY <3>1 DEF IsPrefix
    <3>3. Len(files[d].lines) \in Nat
      BY <2>1 DEF File
    <3> QED BY <2>2, <3>2, <3>3
  <2>3. ASSUME NEW s \in Sessions, Log(s), d = JournalDate(s) PROVE Grown(d)
    <3>1. files'[d] = Extended(files[d], Current(s), TRUE)
      BY <2>1, <2>3 DEF Log, Appended
    <3>2. Current(s) \in Records /\ (~files[d].terminated => files[d].lines # << >>)
      BY <2>3, WhatIsLogged DEF Log
    <3>3. Current(s) \in Records \cup {Torn} /\ TRUE \in BOOLEAN
      BY <3>2
    <3>4. LET new == Extended(files[d], Current(s), TRUE)
          IN /\ Len(new.lines) >= Len(files[d].lines)
             /\ \A i \in DOMAIN files[d].lines : IsPrefix(files[d].lines[i], new.lines[i])
             /\ files[d].terminated =>
                  \A i \in DOMAIN files[d].lines : new.lines[i] = files[d].lines[i]
      BY <2>1, <3>2, <3>3, WrittenAtTheEnd
    <3> QED BY <3>1, <3>4
  <2>4. ASSUME NEW s \in Sessions, LogInterrupted(s), d = JournalDate(s) PROVE Grown(d)
    <3>1. PICK file \in Interrupted(files[d], Current(s)) : files'[d] = file
      BY <2>1, <2>4 DEF LogInterrupted
    <3>2. Current(s) \in Records /\ (~files[d].terminated => files[d].lines # << >>)
      BY <2>4, WhatIsLogged DEF LogInterrupted
    <3> QED BY <2>1, <3>1, <3>2, InterruptedAtTheEnd
  <2>5. ASSUME NEW s \in Sessions, Log(s) \/ LogInterrupted(s), d # JournalDate(s)
        PROVE  files'[d] = files[d]
    BY <2>1, <2>5 DEF Log, LogInterrupted
  <2>6. CASE UNCHANGED files
    BY <2>2, <2>6
  <2>7. UNCHANGED files \/ \E s \in Sessions : Log(s) \/ LogInterrupted(s)
    BY DEF Next, Begin, Open, Settle, Die, Midnight, vars
  <2> HIDE DEF Grown
  <2> QED BY <2>2, <2>3, <2>4, <2>5, <2>6, <2>7
<1> QED BY <1>1, DaysInvariance, PTL DEF Spec, OnlyAppended

-----------------------------------------------------------------------------
(* The loss of a day. *)

MadeByRuns(T) == {r \in made : r.session \in T}

\* The P&L of two disjoint sets of records is the sum of theirs.
LEMMA PnlOfUnion ==
    ASSUME NEW S \in SUBSET Records, NEW T \in SUBSET Records,
           IsFiniteSet(S), IsFiniteSet(T), S \cap T = {}
    PROVE  PnlOf(S \cup T) = PnlOf(S) + PnlOf(T)
<1> DEFINE pnls(A) == [r \in A |-> r.pnl]
           all == pnls(S \cup T)
<1>1. \A A \in SUBSET Records : PnlOf(A) = SumFunctionOnSet(pnls(A), A)
  BY DEF PnlOf, SumFunction
<1>2. \A A \in SUBSET Records : \A r \in A : pnls(A)[r] = r.pnl /\ r.pnl \in Int
  BY DEF Records
<1>3. /\ \A r \in S : pnls(S)[r] = all[r]
      /\ \A r \in T : pnls(T)[r] = all[r]
      /\ \A r \in S \cup T : all[r] \in Int
  BY <1>2
<1>4. S \cup T \in SUBSET Records
  OBVIOUS
<1>5. PnlOf(S \cup T) = SumFunctionOnSet(all, S \cup T)
  BY <1>1, <1>4
<1>6. PnlOf(S) = SumFunctionOnSet(pnls(S), S) /\ PnlOf(T) = SumFunctionOnSet(pnls(T), T)
  BY <1>1
<1> HIDE DEF pnls, all
<1>7. /\ SumFunctionOnSet(pnls(S), S) = SumFunctionOnSet(all, S)
      /\ SumFunctionOnSet(pnls(T), T) = SumFunctionOnSet(all, T)
  BY <1>3, SumCongruence
<1>8. SumFunctionOnSet(all, S \cup T) = SumFunctionOnSet(all, S) + SumFunctionOnSet(all, T)
  BY <1>3, SumUnion
<1> QED BY <1>5, <1>6, <1>7, <1>8

\* If no run of a set can lose k, all together lose less than k for each.
LEMMA RunsAddUp ==
    ASSUME DaysInv, NEW k \in Int, NEW T \in SUBSET Sessions, IsFiniteSet(T),
           \A s \in T : PnlOf(MadeBy(s)) >= k
    PROVE  PnlOf(MadeByRuns(T)) >= Cardinality(T) * k
<1> DEFINE Bad(S) == ~(PnlOf(MadeByRuns(S)) >= Cardinality(S) * k)
           B == {S \in SUBSET T : Bad(S)}
<1>1. SUFFICES ASSUME B # {} PROVE FALSE
  OBVIOUS
<1>2. PICK M \in B : \A S \in B : S \subseteq M => S = M
  <2> B \in SUBSET SUBSET T
    OBVIOUS
  <2> HIDE DEF B
  <2> QED BY <1>1, Smallest
<1>3. M \in SUBSET T /\ Bad(M) /\ IsFiniteSet(M)
  BY <1>2, FS_Subset
<1>4. M # {}
  <2> SUFFICES ASSUME M = {} PROVE FALSE
    OBVIOUS
  <2>1. MadeByRuns(M) = {} /\ Cardinality(M) = 0
    BY FS_EmptySet DEF MadeByRuns
  <2> QED BY <1>3, <2>1, PnlOfNone
<1>5. PICK s \in M : TRUE
  BY <1>4
<1> DEFINE R == M \ {s}
<1>6. ~Bad(R)
  BY <1>2, <1>5
<1>7. Cardinality(R) \in Nat /\ Cardinality(M) = Cardinality(R) + 1
  <2>1. IsFiniteSet(R) /\ Cardinality(R) = Cardinality(M) - 1
    BY <1>3, <1>5, FS_RemoveElement
  <2>2. Cardinality(M) \in Nat /\ Cardinality(R) \in Nat
    BY <1>3, <2>1, FS_CardinalityType
  <2> QED BY <2>1, <2>2
<1>8. /\ MadeByRuns(M) = MadeByRuns(R) \cup MadeBy(s)
      /\ MadeByRuns(R) \cap MadeBy(s) = {}
      /\ MadeByRuns(R) \in SUBSET Records /\ IsFiniteSet(MadeByRuns(R))
      /\ MadeBy(s) \in SUBSET Records /\ IsFiniteSet(MadeBy(s))
  <2>1. made \subseteq Records /\ IsFiniteSet(made)
    BY DEF DaysInv, Types
  <2>2. MadeByRuns(R) \subseteq made /\ MadeBy(s) \subseteq made
    BY DEF MadeByRuns, MadeBy
  <2>3. IsFiniteSet(MadeByRuns(R)) /\ IsFiniteSet(MadeBy(s))
    BY <2>1, <2>2, FS_Subset
  <2> QED BY <1>5, <2>1, <2>2, <2>3 DEF MadeByRuns, MadeBy
<1>9. /\ PnlOf(MadeByRuns(M)) = PnlOf(MadeByRuns(R)) + PnlOf(MadeBy(s))
      /\ PnlOf(MadeByRuns(R)) \in Int /\ PnlOf(MadeBy(s)) \in Int
  BY <1>8, PnlOfUnion, PnlOfType
<1>10. PnlOf(MadeBy(s)) >= k
  BY <1>3, <1>5
<1>11. PnlOf(MadeByRuns(R)) >= Cardinality(R) * k
  BY <1>6
<1>12. ~(PnlOf(MadeByRuns(M)) >= Cardinality(M) * k)
  BY <1>3
<1>13. (Cardinality(R) + 1) * k = Cardinality(R) * k + k
  BY <1>7
<1>14. Cardinality(R) * k \in Int
  BY <1>7
<1> HIDE DEF R
<1> QED BY <1>7, <1>9, <1>10, <1>11, <1>12, <1>13, <1>14

\* The runs begun on a day lose together less than the limit and a stake for
\* each of them, however many they are and however they end.
THEOREM DayLossAlwaysBounded == Spec => []DayLossGrowsWithRuns
<1>1. DaysInv => DayLossGrowsWithRuns
  <2> SUFFICES ASSUME DaysInv, Stake > 0, daily_loss_limit < 0,
                      NEW d \in Days, SessionsOf(d) # {}
               PROVE  PnlOf({r \in made : r.session \in SessionsOf(d)})
                        > Cardinality(SessionsOf(d)) * (daily_loss_limit - Hundredths(Stake))
    BY DEF DayLossGrowsWithRuns
  <2> DEFINE T     == SessionsOf(d)
             bound == daily_loss_limit - Hundredths(Stake)
             n     == Cardinality(T)
  <2>1. bound \in Int
    BY RiskConstants, DaysConstants DEF daily_loss_limit, Hundredths
  <2>2. T \subseteq 1..Len(started) /\ T \subseteq Sessions /\ IsFiniteSet(1..Len(started))
    <3>1. Len(started) \in Nat /\ Len(started) <= MaxSessions /\ MaxSessions \in Nat
      BY DaysConstants DEF DaysInv, Types
    <3>2. IsFiniteSet(1..Len(started))
      BY <3>1, FS_Interval
    <3> QED BY <3>1, <3>2 DEF Sessions, SessionsOf
  <2>3. IsFiniteSet(T) /\ n \in Nat /\ n # 0
    BY <2>2, FS_Subset, FS_CardinalityType, FS_EmptySet
  <2>4. \A s \in T : PnlOf(MadeBy(s)) >= bound + 1
    <3> SUFFICES ASSUME NEW s \in T PROVE PnlOf(MadeBy(s)) >= bound + 1
      OBVIOUS
    <3>1. s \in Sessions
      BY <2>2
    <3>2. PnlOf(MadeBy(s)) > bound
      BY <3>1 DEF DaysInv, RunInv, LimitInv
    <3>3. MadeBy(s) \in SUBSET Records /\ IsFiniteSet(MadeBy(s))
      BY FS_Subset DEF DaysInv, Types, MadeBy
    <3>4. PnlOf(MadeBy(s)) \in Int
      BY <3>3, PnlOfType
    <3> HIDE DEF bound
    <3> QED BY <2>1, <3>2, <3>4
  <2> HIDE DEF bound, n, T
  <2>5. PnlOf(MadeByRuns(T)) >= n * (bound + 1)
    BY <2>1, <2>2, <2>3, <2>4, RunsAddUp DEF n
  <2>6. n * (bound + 1) = n * bound + n /\ n * bound \in Int
    BY <2>1, <2>3
  <2>7. PnlOf(MadeByRuns(T)) \in Int
    <3>1. MadeByRuns(T) \in SUBSET Records /\ IsFiniteSet(MadeByRuns(T))
      BY FS_Subset DEF DaysInv, Types, MadeByRuns
    <3> QED BY <3>1, PnlOfType
  <2>8. PnlOf(MadeByRuns(T)) > n * bound
    BY <2>3, <2>5, <2>6, <2>7
  <2> QED BY <2>8 DEF MadeByRuns, T, n, bound
<1> QED BY <1>1, DaysInvariance, PTL

-----------------------------------------------------------------------------
(* What the lines of a file have to do with the appends that wrote them. *)

DayOf(n)       == started[appends[n].record.session]
Holds(line, r) == \E k \in DOMAIN line : line[k] = r
IsLine(line, r) == line = <<r>>
IsAt(n, line)  == Holds(line, appends[n].record)

\* A record is appended once, after it was made, by a run that has begun; what
\* a run is about to log has not been appended.
AppendsInv ==
    /\ \A n \in DOMAIN appends : /\ appends[n].record \in made
                                 /\ appends[n].record.session \in 1..Len(started)
    /\ \A m, n \in DOMAIN appends : appends[m].record = appends[n].record => m = n
    /\ \A s \in Sessions : pc[s] = "LOGGING" =>
         \A n \in DOMAIN appends : appends[n].record # Current(s)

\* What a file holds was appended by runs of its day, in the order of its
\* lines; no append that returned has left the last line unfinished.
LinesInv(d) ==
    LET lines == files[d].lines
    IN /\ \A i \in DOMAIN lines, r \in Records : Holds(lines[i], r) =>
            \E n \in DOMAIN appends : appends[n].record = r /\ DayOf(n) = d
       /\ \A i, j \in DOMAIN lines, m, n \in DOMAIN appends :
            i < j /\ IsAt(m, lines[i]) /\ IsAt(n, lines[j]) => m < n
       /\ ~files[d].terminated =>
            \A n \in DOMAIN appends : IsAt(n, lines[Len(lines)]) => ~appends[n].returned

\* Of the records whose append returned, those that have no line of their own.
Unread(d) == {r \in Logged(d) : \A i \in DOMAIN files[d].lines : ~IsLine(files[d].lines[i], r)}

\* Each was preceded on its line by what a broken append left; another such
\* line may be waiting.
CountsInv(d) ==
    Cardinality(Unread(d)) + (IF files[d].terminated THEN 0 ELSE 1) <= Cardinality(Broken(d))

JournalInv == DaysInv /\ AppendsInv /\ \A d \in Days : LinesInv(d) /\ CountsInv(d)

\* A torn fragment is no record.
LEMMA TornIsNoRecord == Torn \notin Records
BY DEF Torn, Records, Outcomes

\* The record a run is about to log is one of its own, and was made.
LEMMA CurrentOf ==
    ASSUME DaysInv, NEW s \in Sessions, pc[s] = "LOGGING"
    PROVE  /\ Current(s).session = s /\ Current(s).order_id = open[s].orderId
           /\ Current(s) \in made
<1>1. RunInv(s) /\ HeldInv(s) /\ MadeInv(s) /\ open[s] # None
  BY DEF DaysInv, RunInv, RunType, Alive
<1>2. broker[s].settled[open[s].orderId].ack = open[s]
  BY <1>1 DEF HeldInv
<1>3. Current(s) \in made
  BY <1>1 DEF MadeInv, MadeBy
<1> QED BY <1>2, <1>3 DEF Current, RecordOf

\* A step that appends nothing.
LEMMA NothingAppended ==
    ASSUME DaysInv, DaysInv', AppendsInv, UNCHANGED appends, made \subseteq made',
           Len(started) <= Len(started'),
           NEW s \in Sessions,
           \A t \in Sessions \ {s} : pc'[t] = pc[t] /\ broker'[t] = broker[t] /\ open'[t] = open[t],
           pc'[s] = "LOGGING" => Current(s)' \notin made
    PROVE  AppendsInv'
<1>1. Len(started) \in Nat /\ Len(started') \in Nat
  BY DEF DaysInv, Types
<1>2. \A n \in DOMAIN appends' : /\ appends'[n].record \in made'
                                 /\ appends'[n].record.session \in 1..Len(started')
  BY <1>1 DEF AppendsInv
<1>3. ASSUME NEW t \in Sessions, pc'[t] = "LOGGING", NEW n \in DOMAIN appends'
      PROVE  appends'[n].record # Current(t)'
  <2>1. CASE t = s
    BY <1>3, <2>1 DEF AppendsInv
  <2>2. CASE t # s
    <3>1. Current(t)' = Current(t) /\ pc[t] = "LOGGING"
      BY <1>3, <2>2 DEF Current
    <3> QED BY <1>3, <3>1 DEF AppendsInv
  <2> QED BY <2>1, <2>2
<1> QED BY <1>2, <1>3 DEF AppendsInv

\* A run settles a trade that no file can hold yet.
LEMMA SettledIsNew ==
    ASSUME DaysInv, DaysInv', NEW s \in Sessions, NEW price \in Prices, Settle(s, price)
    PROVE  Current(s)' \notin made
<1>1. pc[s] = "IDLE" /\ open[s] # None /\ open' = open /\ pc'[s] = "LOGGING"
  BY DEF Settle, DaysInv, Types
<1>2. HeldInv(s) /\ MadeInv(s)
  BY <1>1 DEF DaysInv, RunInv, Alive
<1>3. ~IsSettled(broker[s], open[s])
  BY <1>1, <1>2 DEF HeldInv
<1>4. Current(s)'.session = s /\ Current(s)'.order_id = open[s].orderId
  <2>1. HeldInv(s)'
    BY <1>1 DEF DaysInv, RunInv, Alive
  <2>2. broker'[s].settled[open'[s].orderId].ack = open'[s]
    BY <1>1, <2>1 DEF HeldInv
  <2> QED BY <1>1, <2>2 DEF Current, RecordOf
<1> SUFFICES ASSUME Current(s)' \in made PROVE FALSE
  OBVIOUS
<1>5. Current(s)' \in MadeBy(s)
  BY <1>4 DEF MadeBy
<1> QED BY <1>2, <1>3, <1>4, <1>5 DEF MadeInv, IsSettled

\* An append, whether it returns or not.
LEMMA AppendIsNew ==
    ASSUME DaysInv, DaysInv', AppendsInv, NEW s \in Sessions, pc[s] = "LOGGING", pc'[s] # "LOGGING",
           NEW returned \in BOOLEAN,
           appends' = Append(appends, [record |-> Current(s), returned |-> returned]),
           UNCHANGED <<started, made>>,
           \A t \in Sessions \ {s} : pc'[t] = pc[t] /\ broker'[t] = broker[t] /\ open'[t] = open[t]
    PROVE  AppendsInv'
<1> DEFINE N   == Len(appends) + 1
           rec == Current(s)
<1>1. rec \in made /\ rec.session = s /\ s \in 1..Len(started)
  <2>1. ~(s > Len(started))
    BY DEF DaysInv, RunInv, RunType
  <2>2. Len(started) \in Nat /\ s \in Nat /\ s >= 1
    BY DaysConstants DEF DaysInv, Types, Sessions
  <2> QED BY <2>1, <2>2, CurrentOf
<1>2. \A n \in DOMAIN appends : appends[n].record # rec
  BY DEF AppendsInv
<1> HIDE DEF rec
<1>3. /\ DOMAIN appends' = DOMAIN appends \cup {N} /\ N \notin DOMAIN appends
      /\ appends'[N].record = rec
      /\ \A n \in DOMAIN appends : appends'[n] = appends[n]
  <2>1. appends \in Seq([record: Records, returned: BOOLEAN])
    BY DEF DaysInv, Types
  <2> QED BY <2>1 DEF rec
<1> HIDE DEF N
<1>4. \A n \in DOMAIN appends' : /\ appends'[n].record \in made'
                                 /\ appends'[n].record.session \in 1..Len(started')
  BY <1>1, <1>3 DEF AppendsInv
<1>5. \A m, n \in DOMAIN appends' : appends'[m].record = appends'[n].record => m = n
  BY <1>2, <1>3 DEF AppendsInv
<1>6. ASSUME NEW t \in Sessions, pc'[t] = "LOGGING", NEW n \in DOMAIN appends'
      PROVE  appends'[n].record # Current(t)'
  <2>1. t # s /\ pc[t] = "LOGGING" /\ Current(t)' = Current(t)
    BY <1>6 DEF Current
  <2>2. Current(t) # rec
    BY <1>1, <2>1, CurrentOf
  <2>3. \A m \in DOMAIN appends : appends[m].record # Current(t)
    BY <2>1 DEF AppendsInv
  <2> QED BY <1>3, <2>1, <2>2, <2>3
<1> QED BY <1>4, <1>5, <1>6 DEF AppendsInv

\* How a file is extended: its last line, or a new one.
LEMMA WrittenLine ==
    ASSUME NEW file \in File, ~file.terminated => file.lines # << >>,
           NEW fragment \in Records \cup {Torn}, NEW newline \in BOOLEAN
    PROVE  LET new == Extended(file, fragment, newline)
               N   == Len(new.lines)
           IN /\ new.terminated = newline /\ N \in Nat /\ DOMAIN new.lines = 1..N
              /\ file.terminated =>  /\ N = Len(file.lines) + 1
                                     /\ new.lines[N] = <<fragment>>
              /\ ~file.terminated => /\ N = Len(file.lines) /\ N \in DOMAIN file.lines
                                     /\ new.lines[N] = Append(file.lines[N], fragment)
              /\ \A i \in DOMAIN file.lines : i # N => new.lines[i] = file.lines[i]
<1> DEFINE Line == Seq(Records \cup {Torn})
           old  == file.lines
           new  == Extended(file, fragment, newline)
<1>1. old \in Seq(Line) /\ file.terminated \in BOOLEAN /\ new.terminated = newline
  BY DEF File, Extended
<1>2. CASE file.terminated
  <2>1. new.lines = Append(old, <<fragment>>)
    BY <1>2 DEF Extended
  <2> HIDE DEF old, new, Line
  <2> QED BY <1>1, <1>2, <2>1 DEF new, old
<1>3. CASE ~file.terminated
  <2>1. new.lines = [old EXCEPT ![Len(old)] = Append(@, fragment)] /\ old # << >>
    BY <1>3 DEF Extended
  <2> HIDE DEF old, new, Line
  <2>2. Len(old) \in Nat /\ Len(old) \in DOMAIN old
    BY <1>1, <2>1
  <2>3. DOMAIN new.lines = 1..Len(old)
    BY <1>1, <2>1
  <2>4. Len(new.lines) = Len(old)
    BY <1>1, <2>1, <2>2, <2>3
  <2> QED BY <1>1, <1>3, <2>1, <2>2, <2>3, <2>4 DEF new, old
<1> QED BY <1>1, <1>2, <1>3

\* What append leaves at the end of a file, when it returns and when it does not.
WrittenTo(file, rec, returned, new) ==
    \/ new = file /\ ~returned
    \/ \E fragment \in {Torn, rec}, newline \in BOOLEAN :
         /\ new = Extended(file, fragment, newline)
         /\ returned => fragment = rec /\ newline

\* It is at the end: of the last line, or of a file that gets a new one.
LEMMA WrittenLines ==
    ASSUME NEW file \in File, ~file.terminated => file.lines # << >>,
           NEW rec \in Records, \A i \in DOMAIN file.lines : ~Holds(file.lines[i], rec),
           NEW returned \in BOOLEAN, NEW new, WrittenTo(file, rec, returned, new)
    PROVE  LET old   == file.lines
               lines == new.lines
           IN /\ Len(lines) \in Nat /\ DOMAIN lines = 1..Len(lines)
              /\ \A i \in DOMAIN lines, r \in Records \ {rec} :
                   Holds(lines[i], r) => i \in DOMAIN old /\ Holds(old[i], r)
              /\ \A i \in DOMAIN lines : Holds(lines[i], rec) => i = Len(lines)
              /\ ~new.terminated /\ Len(lines) \in DOMAIN old =>
                   ~file.terminated /\ Len(lines) = Len(old)
              /\ ~new.terminated => lines # << >>
              /\ \A i \in DOMAIN old : /\ i \in DOMAIN lines
                                       /\ lines[i] = old[i] \/ (~file.terminated /\ i = Len(old))
              /\ returned => new.terminated
              /\ returned /\ file.terminated =>
                   Len(lines) \in DOMAIN lines /\ IsLine(lines[Len(lines)], rec)
<1> DEFINE Line  == Seq(Records \cup {Torn})
           old   == file.lines
           lines == new.lines
           M     == Len(lines)
<1>1. old \in Seq(Line) /\ file.terminated \in BOOLEAN
  BY DEF File
<1>2. CASE new = file /\ ~returned
  <2> HIDE DEF Line
  <2> QED BY <1>1, <1>2
<1>3. CASE new # file \/ returned
  <2>1. PICK fragment \in {Torn, rec}, newline \in BOOLEAN :
          /\ new = Extended(file, fragment, newline)
          /\ returned => fragment = rec /\ newline
    BY <1>3 DEF WrittenTo
  <2>2. fragment \in Records \cup {Torn} /\ \A r \in Records : r # Torn
    BY TornIsNoRecord
  <2>3. /\ new.terminated = newline /\ M \in Nat /\ DOMAIN lines = 1..M
        /\ file.terminated =>  M = Len(old) + 1 /\ lines[M] = <<fragment>>
        /\ ~file.terminated => /\ M = Len(old) /\ M \in DOMAIN old
                               /\ lines[M] = Append(old[M], fragment)
        /\ \A i \in DOMAIN old : i # M => lines[i] = old[i]
    BY <2>1, <2>2, WrittenLine
  <2> HIDE DEF old, lines, M, Line
  <2>4. DOMAIN old = 1..Len(old) /\ Len(old) \in Nat
    BY <1>1
  <2> DEFINE L == Len(old)
  <2>14. \/ file.terminated /\ M = L + 1
         \/ ~file.terminated /\ M = L /\ M \in DOMAIN old
    BY <1>1, <2>3
  <2>15. L \in Nat /\ M \in Nat /\ DOMAIN old = 1..L /\ DOMAIN lines = 1..M
    BY <2>3, <2>4
  <2> HIDE DEF L
  <2>13. M \in 1..M
    BY <2>14, <2>15
  <2>5. ASSUME NEW i \in DOMAIN lines, i # M PROVE i \in DOMAIN old /\ lines[i] = old[i]
    <3>1. i \in DOMAIN old
      BY <2>5, <2>14, <2>15
    <3> QED BY <2>3, <2>5, <3>1
  <2>6. ASSUME NEW r \in Records, Holds(lines[M], r)
        PROVE  r = fragment \/ (M \in DOMAIN old /\ Holds(old[M], r))
    <3>1. CASE file.terminated
      BY <2>3, <2>6, <3>1 DEF Holds
    <3>2. CASE ~file.terminated
      <4>1. old[M] \in Line
        BY <1>1, <2>3, <3>2
      <4> QED BY <2>3, <2>6, <3>2, <4>1 DEF Holds, Line
    <3> QED BY <1>1, <3>1, <3>2
  <2>7. \A i \in DOMAIN lines, r \in Records \ {rec} :
          Holds(lines[i], r) => i \in DOMAIN old /\ Holds(old[i], r)
    BY <2>2, <2>5, <2>6
  <2>8. \A i \in DOMAIN lines : Holds(lines[i], rec) => i = M
    BY <2>5 DEF old
  <2>9. M \in DOMAIN old => ~file.terminated /\ M = L
    BY <2>14, <2>15
  <2>10. ASSUME NEW i \in DOMAIN old
         PROVE  i \in DOMAIN lines /\ (lines[i] = old[i] \/ (~file.terminated /\ i = Len(old)))
    <3>1. i \in DOMAIN lines
      BY <2>14, <2>15
    <3> QED BY <2>3, <2>9, <3>1 DEF L
  <2>11. /\ returned => new.terminated
         /\ returned /\ file.terminated => M \in DOMAIN lines /\ IsLine(lines[M], rec)
    BY <2>1, <2>3, <2>13 DEF IsLine
  <2>12. lines # << >>
    BY <2>3, <2>13
  <2> QED BY <2>3, <2>7, <2>8, <2>9, <2>10, <2>11, <2>12 DEF old, lines, M, L
<1> QED BY <1>2, <1>3

\* append in one step of run s: what it writes at the end of the file of the
\* run's day, and whether it returns.
Wrote(s, returned, new) ==
    LET file == files[started[s]]
    IN /\ appends' = Append(appends, [record |-> Current(s), returned |-> returned])
       /\ files' = [files EXCEPT ![started[s]] = new]
       /\ started' = started
       /\ WrittenTo(file, Current(s), returned, new)

\* What the histories say after an append.
LEMMA Counted ==
    ASSUME DaysInv, AppendsInv, NEW s \in Sessions, pc[s] = "LOGGING",
           NEW returned \in BOOLEAN, NEW new, Wrote(s, returned, new)
    PROVE  LET rec == Current(s)
               N   == Len(appends) + 1
           IN /\ rec \in Records /\ rec # Torn /\ rec.session = s /\ started[s] \in Days
              /\ s \in 1..Len(started)
              /\ DOMAIN appends' = DOMAIN appends \cup {N} /\ N \in Nat
              /\ \A n \in DOMAIN appends : n < N /\ appends'[n] = appends[n]
              /\ appends'[N].record = rec /\ appends'[N].returned = returned
              /\ \A n \in DOMAIN appends : appends[n].record # rec
              /\ \A e \in Days :
                   /\ Broken(e)' = Broken(e) \cup (IF e = started[s] /\ ~returned THEN {N} ELSE {})
                   /\ Logged(e)' = Logged(e) \cup (IF e = started[s] /\ returned THEN {rec} ELSE {})
<1> DEFINE rec == Current(s)
           N   == Len(appends) + 1
           d   == started[s]
<1>1. rec \in Records /\ d \in Days /\ rec.session = s
  BY WhatIsLogged, CurrentOf DEF JournalDate
<1>2. rec # Torn
  BY <1>1, TornIsNoRecord
<1>3. \A n \in DOMAIN appends : appends[n].record # rec
  BY DEF AppendsInv
<1>4. appends' = Append(appends, [record |-> rec, returned |-> returned]) /\ started' = started
  BY DEF Wrote
<1>10. s \in 1..Len(started)
  <2>1. ~(s > Len(started))
    BY DEF DaysInv, RunInv, RunType
  <2>2. Len(started) \in Nat /\ s \in Nat /\ s >= 1
    BY DaysConstants DEF DaysInv, Types, Sessions
  <2> QED BY <2>1, <2>2
<1> HIDE DEF rec, d
<1>5. appends \in Seq([record: Records, returned: BOOLEAN])
  BY DEF DaysInv, Types
<1>6. /\ DOMAIN appends' = DOMAIN appends \cup {N} /\ N \in Nat
      /\ \A n \in DOMAIN appends : n < N /\ appends'[n] = appends[n]
      /\ appends'[N].record = rec /\ appends'[N].returned = returned
  BY <1>4, <1>5
<1>7. Journalled' = Journalled \cup (IF returned THEN {rec} ELSE {})
  BY <1>1, <1>4, <1>5, AppendRecorded
<1> HIDE DEF N
<1>8. ASSUME NEW e \in Days
      PROVE  Broken(e)' = Broken(e) \cup (IF e = d /\ ~returned THEN {N} ELSE {})
  BY <1>1, <1>4, <1>6 DEF Broken, d
<1>9. ASSUME NEW e \in Days
      PROVE  Logged(e)' = Logged(e) \cup (IF e = d /\ returned THEN {rec} ELSE {})
  BY <1>1, <1>4, <1>7 DEF Logged, d
<1> QED BY <1>1, <1>2, <1>3, <1>6, <1>8, <1>9, <1>10 DEF rec, N, d

\* What is being logged is in no file yet.
LEMMA LoggedNowhere ==
    ASSUME JournalInv, NEW s \in Sessions, pc[s] = "LOGGING", NEW e \in Days
    PROVE  \A i \in DOMAIN files[e].lines : ~Holds(files[e].lines[i], Current(s))
<1>1. Current(s) \in Records
  BY WhatIsLogged DEF JournalInv
<1>2. \A n \in DOMAIN appends : appends[n].record # Current(s)
  BY DEF JournalInv, AppendsInv
<1>3. LinesInv(e)
  BY DEF JournalInv
<1> QED BY <1>1, <1>2, <1>3 DEF LinesInv

\* The files of other days are as they were.
LEMMA OtherFiles ==
    ASSUME JournalInv, NEW s \in Sessions, pc[s] = "LOGGING",
           NEW returned \in BOOLEAN, NEW new, Wrote(s, returned, new),
           NEW e \in Days, e # started[s]
    PROVE  LinesInv(e)' /\ CountsInv(e)'
<1> DEFINE rec == Current(s)
           N   == Len(appends) + 1
<1>0. DaysInv /\ AppendsInv /\ LinesInv(e) /\ CountsInv(e)
  BY DEF JournalInv
<1>1. /\ DOMAIN appends' = DOMAIN appends \cup {N}
      /\ \A n \in DOMAIN appends : appends'[n] = appends[n]
      /\ appends'[N].record = rec
      /\ Broken(e)' = Broken(e) /\ Logged(e)' = Logged(e)
  <2>1. /\ Broken(e)' = Broken(e) \cup (IF e = started[s] /\ ~returned THEN {N} ELSE {})
        /\ Logged(e)' = Logged(e) \cup (IF e = started[s] /\ returned THEN {rec} ELSE {})
    BY <1>0, Counted, Zenon
  <2>2. /\ DOMAIN appends' = DOMAIN appends \cup {N}
        /\ \A n \in DOMAIN appends : appends'[n] = appends[n]
        /\ appends'[N].record = rec
    BY <1>0, Counted, Zenon
  <2> QED BY <2>1, <2>2
<1>2. files'[e] = files[e] /\ started' = started
  BY <1>0 DEF Wrote, DaysInv, Types, FilesInv
<1>3. \A i \in DOMAIN files[e].lines : ~Holds(files[e].lines[i], rec)
  BY LoggedNowhere
<1> HIDE DEF rec, N
<1>4. ASSUME NEW n \in DOMAIN appends', NEW i \in DOMAIN files[e].lines, IsAt(n, files[e].lines[i])'
      PROVE  n \in DOMAIN appends /\ IsAt(n, files[e].lines[i])
  BY <1>1, <1>2, <1>3, <1>4 DEF IsAt
<1>5. LinesInv(e)'
  <2> DEFINE lines == files[e].lines
  <2>1. \A i \in DOMAIN lines, r \in Records : Holds(lines[i], r) =>
            \E n \in DOMAIN appends' : appends'[n].record = r /\ DayOf(n)' = e
    BY <1>0, <1>1, <1>2 DEF LinesInv, DayOf
  <2>2. \A i, j \in DOMAIN lines, m, n \in DOMAIN appends' :
            i < j /\ IsAt(m, lines[i])' /\ IsAt(n, lines[j])' => m < n
    BY <1>0, <1>4 DEF LinesInv
  <2>3. ASSUME ~files[e].terminated, NEW n \in DOMAIN appends', IsAt(n, lines[Len(lines)])'
        PROVE  ~appends'[n].returned
    <3>1. Len(lines) \in DOMAIN lines
      BY <1>0, <2>3 DEF DaysInv, Types, FilesInv, File
    <3>2. n \in DOMAIN appends /\ IsAt(n, lines[Len(lines)])
      BY <1>2, <1>4, <2>3, <3>1
    <3> QED BY <1>0, <1>1, <2>3, <3>2 DEF LinesInv
  <2> QED BY <1>2, <2>1, <2>2, <2>3 DEF LinesInv, IsAt
<1>6. CountsInv(e)'
  BY <1>0, <1>1, <1>2 DEF CountsInv, Unread
<1> QED BY <1>5, <1>6

\* What the last lemmas say of the file that is appended to.
LEMMA OwnFile ==
    ASSUME JournalInv, NEW s \in Sessions, pc[s] = "LOGGING",
           NEW returned \in BOOLEAN, NEW new, Wrote(s, returned, new)
    PROVE  /\ started[s] \in Days /\ files'[started[s]] = new
           /\ files[started[s]] \in File /\ files[started[s]].terminated \in BOOLEAN
           /\ ~files[started[s]].terminated => files[started[s]].lines # << >>
           /\ Current(s) \in Records
           /\ \A i \in DOMAIN files[started[s]].lines :
                 ~Holds(files[started[s]].lines[i], Current(s))
           /\ WrittenTo(files[started[s]], Current(s), returned, new)
<1>1. DaysInv /\ JournalDate(s) = started[s]
  BY DEF JournalInv, JournalDate
<1>2. /\ Current(s) \in Records /\ started[s] \in Days /\ files[started[s]] \in File
      /\ ~files[started[s]].terminated => files[started[s]].lines # << >>
  BY <1>1, WhatIsLogged
<1>3. files[started[s]].terminated \in BOOLEAN
  BY <1>2 DEF File
<1>4. files'[started[s]] = new /\ WrittenTo(files[started[s]], Current(s), returned, new)
  BY <1>1, <1>2 DEF Wrote, DaysInv, Types, FilesInv
<1> QED BY <1>2, <1>3, <1>4, LoggedNowhere

\* The file of the run's day: its last line is the only one that can be new to
\* a record, and an append that returned has finished it.
LEMMA OwnLines ==
    ASSUME JournalInv, NEW s \in Sessions, pc[s] = "LOGGING",
           NEW returned \in BOOLEAN, NEW new, Wrote(s, returned, new),
           NEW d \in Days, d = started[s]
    PROVE  LinesInv(d)'
<1>11. PICK N : N = Len(appends) + 1
  OBVIOUS
<1> DEFINE rec   == Current(s)
           old   == files[d].lines
           lines == new.lines
           M     == Len(lines)
<1>0. DaysInv /\ AppendsInv /\ LinesInv(d)
  BY OwnFile DEF JournalInv
<1>1. /\ d \in Days /\ files'[d] = new /\ started' = started
      /\ rec.session = s
      /\ DOMAIN appends' = DOMAIN appends \cup {N}
      /\ \A n \in DOMAIN appends : n < N /\ appends'[n] = appends[n] /\ appends[n].record # rec
      /\ appends'[N].record = rec /\ appends'[N].returned = returned
  <2>1. d \in Days /\ files'[d] = new
    BY OwnFile
  <2>2. started' = started
    BY DEF Wrote
  <2>3. /\ rec.session = s
        /\ DOMAIN appends' = DOMAIN appends \cup {N}
        /\ \A n \in DOMAIN appends : n < N /\ appends'[n] = appends[n]
        /\ appends'[N].record = rec /\ appends'[N].returned = returned
        /\ \A n \in DOMAIN appends : appends[n].record # rec
    BY <1>0, <1>11, Counted, Zenon
  <2> QED BY <2>1, <2>2, <2>3
<1>2. \A n \in DOMAIN appends : appends[n].record \in Records \ {rec}
  <2>1. made \subseteq Records
    BY <1>0 DEF DaysInv, Types
  <2> QED BY <1>0, <1>1, <2>1 DEF AppendsInv
<1>3. /\ M \in Nat /\ DOMAIN lines = 1..M
      /\ \A i \in DOMAIN lines, r \in Records \ {rec} :
           Holds(lines[i], r) => i \in DOMAIN old /\ Holds(old[i], r)
      /\ \A i \in DOMAIN lines : Holds(lines[i], rec) => i = M
      /\ ~new.terminated /\ M \in DOMAIN old => ~files[d].terminated /\ M = Len(old)
      /\ ~new.terminated => lines # << >>
      /\ returned => new.terminated
  <2> DEFINE file == files[d]
  <2>1. /\ file \in File /\ (~file.terminated => file.lines # << >>)
        /\ rec \in Records /\ \A i \in DOMAIN file.lines : ~Holds(file.lines[i], rec)
        /\ WrittenTo(file, rec, returned, new)
    BY OwnFile
  <2> HIDE DEF file, rec
  <2> QED BY <2>1, WrittenLines DEF file
<1> HIDE DEF rec, M
<1>4. ASSUME NEW i \in DOMAIN lines, NEW r \in Records, Holds(lines[i], r)
      PROVE  \E n \in DOMAIN appends' : appends'[n].record = r /\ DayOf(n)' = d
  <2>1. CASE r = rec
    <3>1. appends'[N].record = r /\ DayOf(N)' = d
      BY <1>1, <2>1 DEF DayOf
    <3> QED BY <1>1, <3>1
  <2>2. CASE r # rec
    <3>1. PICK n \in DOMAIN appends : appends[n].record = r /\ DayOf(n) = d
      BY <1>0, <1>3, <1>4, <2>2 DEF LinesInv
    <3>2. appends'[n].record = r /\ DayOf(n)' = d
      BY <1>1, <3>1 DEF DayOf
    <3> QED BY <1>1, <3>2
  <2> QED BY <2>1, <2>2
<1>5. ASSUME NEW i \in DOMAIN lines, NEW n \in DOMAIN appends, IsAt(n, lines[i])'
      PROVE  i \in DOMAIN old /\ IsAt(n, old[i])
  BY <1>1, <1>2, <1>3, <1>5 DEF IsAt
<1>6. ASSUME NEW i \in DOMAIN lines, IsAt(N, lines[i])'
      PROVE  i = M
  BY <1>1, <1>3, <1>6 DEF IsAt
<1>7. ASSUME NEW i \in DOMAIN lines, NEW j \in DOMAIN lines, i < j,
             NEW m \in DOMAIN appends', NEW n \in DOMAIN appends',
             IsAt(m, lines[i])', IsAt(n, lines[j])'
      PROVE  m < n
  <2>1. m # N
    BY <1>3, <1>6, <1>7
  <2>2. CASE n = N
    BY <1>1, <2>1, <2>2
  <2>3. CASE n # N
    BY <1>0, <1>1, <1>5, <1>7, <2>1, <2>3 DEF LinesInv
  <2> QED BY <2>2, <2>3
<1>8. ASSUME ~new.terminated, NEW n \in DOMAIN appends', IsAt(n, lines[M])'
      PROVE  ~appends'[n].returned
  <2>1. M \in DOMAIN lines
    BY <1>3, <1>8
  <2>2. CASE n = N
    BY <1>1, <1>3, <1>8, <2>2
  <2>3. CASE n # N
    <3>1. n \in DOMAIN appends /\ M \in DOMAIN old /\ IsAt(n, old[M])
      BY <1>1, <1>5, <1>8, <2>1, <2>3
    <3> QED BY <1>0, <1>1, <1>3, <1>8, <3>1 DEF LinesInv
  <2> QED BY <2>2, <2>3
<1>9. /\ \A i \in DOMAIN lines, r \in Records : Holds(lines[i], r) =>
            \E n \in DOMAIN appends' : appends'[n].record = r /\ DayOf(n)' = d
      /\ \A i, j \in DOMAIN lines, m, n \in DOMAIN appends' :
            i < j /\ IsAt(m, lines[i])' /\ IsAt(n, lines[j])' => m < n
      /\ ~new.terminated =>
            \A n \in DOMAIN appends' : IsAt(n, lines[M])' => ~appends'[n].returned
  BY <1>4, <1>7, <1>8
<1> HIDE DEF lines
<1>10. LinesInv(d)'
  BY <1>1, <1>9 DEF LinesInv, lines, M
<1> QED BY <1>1, <1>10

\* Finitely many records are logged, and finitely many appends broken.
LEMMA HistoriesAreFinite ==
    ASSUME DaysInv, AppendsInv, NEW d \in Days
    PROVE  /\ IsFiniteSet(Logged(d)) /\ Logged(d) \subseteq made
           /\ IsFiniteSet(Unread(d)) /\ Cardinality(Unread(d)) \in Nat
           /\ IsFiniteSet(Broken(d)) /\ Cardinality(Broken(d)) \in Nat
<1>1. IsFiniteSet(made) /\ appends \in Seq([record: Records, returned: BOOLEAN])
  BY DEF DaysInv, Types
<1>2. Logged(d) \subseteq made /\ Unread(d) \subseteq made
  BY DEF AppendsInv, Logged, Unread, Journalled, Returned
<1>3. IsFiniteSet(DOMAIN appends)
  <2>1. Len(appends) \in Nat /\ DOMAIN appends = 1..Len(appends)
    BY <1>1
  <2> QED BY <2>1, FS_Interval
<1>4. Broken(d) \subseteq DOMAIN appends
  BY DEF Broken
<1>5. IsFiniteSet(Logged(d)) /\ IsFiniteSet(Unread(d)) /\ IsFiniteSet(Broken(d))
  BY <1>1, <1>2, <1>3, <1>4, FS_Subset
<1> QED BY <1>2, <1>5, FS_CardinalityType

\* One element more is at most one more.
LEMMA AtMostOneMore ==
    ASSUME NEW S, IsFiniteSet(S), NEW x, NEW T \in SUBSET (S \cup {x})
    PROVE  Cardinality(T) \in Nat /\ Cardinality(T) <= Cardinality(S) + 1
<1>1. /\ IsFiniteSet(S \cup {x}) /\ Cardinality(S) \in Nat /\ Cardinality(S \cup {x}) \in Nat
      /\ Cardinality(S \cup {x}) = Cardinality(S) \/ Cardinality(S \cup {x}) = Cardinality(S) + 1
  <2>1. IsFiniteSet(S \cup {x})
        /\ Cardinality(S \cup {x}) = IF x \in S THEN Cardinality(S) ELSE Cardinality(S) + 1
    BY FS_AddElement
  <2> QED BY <2>1, FS_CardinalityType
<1>2. IsFiniteSet(T) /\ Cardinality(T) <= Cardinality(S \cup {x})
  BY <1>1, FS_Subset
<1>3. Cardinality(T) \in Nat
  BY <1>2, FS_CardinalityType
<1> QED BY <1>1, <1>2, <1>3

\* An append that breaks takes a finished line away from no record; one that
\* returns may lose its own line to what a broken append left, and ends it.
LEMMA OwnCounts ==
    ASSUME JournalInv, NEW s \in Sessions, pc[s] = "LOGGING",
           NEW returned \in BOOLEAN, NEW new, Wrote(s, returned, new),
           NEW d \in Days, d = started[s]
    PROVE  CountsInv(d)'
<1>1. PICK N : N = Len(appends) + 1
  OBVIOUS
<1>3. PICK rec : rec = Current(s)
  OBVIOUS
<1> DEFINE old   == files[d].lines
           lines == new.lines
<1>4. DaysInv /\ AppendsInv /\ LinesInv(d) /\ CountsInv(d) /\ d \in Days
  BY OwnFile DEF JournalInv
<1>5. /\ files'[d] = new /\ files[d].terminated \in BOOLEAN /\ started'[s] = d
      /\ Broken(d)' = Broken(d) \cup (IF returned THEN {} ELSE {N})
      /\ Logged(d)' = Logged(d) \cup (IF returned THEN {rec} ELSE {})
      /\ N \notin Broken(d)
  <2>1. files'[d] = new /\ files[d].terminated \in BOOLEAN
    BY OwnFile
  <2>2. started' = started
    BY DEF Wrote
  <2>3. \A e \in Days :
          /\ Broken(e)' = Broken(e)
               \cup (IF e = started[s] /\ ~returned THEN {Len(appends) + 1} ELSE {})
          /\ Logged(e)' = Logged(e)
               \cup (IF e = started[s] /\ returned THEN {Current(s)} ELSE {})
    BY <1>4, Counted, Zenon
  <2>4. Broken(d)' = Broken(d) \cup (IF d = started[s] /\ ~returned THEN {N} ELSE {})
        /\ Logged(d)' = Logged(d) \cup (IF d = started[s] /\ returned THEN {rec} ELSE {})
    BY <1>1, <1>3, <1>4, <2>3
  <2>5. N \notin DOMAIN appends
    <3>1. appends \in Seq([record: Records, returned: BOOLEAN])
      BY <1>4 DEF DaysInv, Types
    <3> QED BY <1>1, <3>1
  <2> QED BY <2>1, <2>2, <2>4, <2>5 DEF Broken
<1>6. /\ \A i \in DOMAIN old : /\ i \in DOMAIN lines
                               /\ lines[i] = old[i] \/ (~files[d].terminated /\ i = Len(old))
      /\ returned => /\ new.terminated
                     /\ files[d].terminated => \E i \in DOMAIN lines : IsLine(lines[i], rec)
  <2> DEFINE file == files[d]
  <2>1. /\ file \in File /\ (~file.terminated => file.lines # << >>)
        /\ rec \in Records /\ \A i \in DOMAIN file.lines : ~Holds(file.lines[i], rec)
        /\ WrittenTo(file, rec, returned, new)
    BY <1>3, OwnFile
  <2> HIDE DEF file
  <2>2. \A i \in DOMAIN file.lines :
           /\ i \in DOMAIN lines
           /\ lines[i] = file.lines[i] \/ (~file.terminated /\ i = Len(file.lines))
    BY <2>1, WrittenLines
  <2>3. returned => new.terminated
    BY <2>1, WrittenLines
  <2>4. ASSUME returned, file.terminated
        PROVE  Len(lines) \in DOMAIN lines /\ IsLine(lines[Len(lines)], rec)
    <3>1. new = Extended(file, rec, TRUE) /\ rec \in Records \cup {Torn} /\ TRUE \in BOOLEAN
      BY <2>1, <2>4 DEF WrittenTo
    <3>2. /\ Len(lines) \in Nat /\ DOMAIN lines = 1..Len(lines)
          /\ Len(lines) = Len(file.lines) + 1 /\ lines[Len(lines)] = <<rec>>
      BY <2>1, <2>4, <3>1, WrittenLine
    <3>3. Len(file.lines) \in Nat
      BY <2>1 DEF File
    <3> QED BY <3>2, <3>3 DEF IsLine
  <2> QED BY <2>2, <2>3, <2>4 DEF file
<1>7. \A r \in Unread(d)' : r \in Logged(d)' /\ \A i \in DOMAIN lines : ~IsLine(lines[i], r)
  BY <1>5 DEF Unread
<1>8. ASSUME NEW r \in Logged(d), \A i \in DOMAIN lines : ~IsLine(lines[i], r)
      PROVE  r \in Unread(d)
  <2> SUFFICES ASSUME NEW i \in DOMAIN old, IsLine(old[i], r) PROVE FALSE
    BY DEF Unread
  <2>1. ~files[d].terminated /\ i = Len(old)
    BY <1>6, <1>8
  <2>2. PICK n \in DOMAIN appends : appends[n].returned /\ appends[n].record = r
    BY DEF Logged, Journalled, Returned
  <2>3. IsAt(n, old[Len(old)])
    <3>1. <<r>>[1] = r /\ 1 \in DOMAIN <<r>>
      OBVIOUS
    <3>2. Holds(old[i], r)
      BY <3>1 DEF Holds, IsLine
    <3> QED BY <2>1, <2>2, <3>2 DEF IsAt
  <2> QED BY <1>4, <2>1, <2>2, <2>3 DEF LinesInv
<1> DEFINE u  == Cardinality(Unread(d))
           b  == Cardinality(Broken(d))
           u2 == Cardinality(Unread(d)')
           b2 == Cardinality(Broken(d)')
<1>9. /\ IsFiniteSet(Unread(d)) /\ IsFiniteSet(Broken(d)) /\ u \in Nat /\ b \in Nat
      /\ u + (IF files[d].terminated THEN 0 ELSE 1) <= b
  BY <1>4, HistoriesAreFinite DEF CountsInv
<1>10. CASE returned
  <2>1. new.terminated /\ Broken(d)' = Broken(d)
    BY <1>5, <1>6, <1>10
  <2>2. Unread(d)' \subseteq Unread(d) \cup {rec}
    BY <1>5, <1>7, <1>8, <1>10
  <2>3. files[d].terminated => Unread(d)' \subseteq Unread(d)
    BY <1>6, <1>7, <1>10, <2>2
  <2>4. u2 \in Nat /\ u2 <= u + 1
    BY <1>9, <2>2, AtMostOneMore
  <2>5. files[d].terminated => u2 <= u
    BY <1>9, <2>3, FS_Subset
  <2> HIDE DEF u, u2, b
  <2>6. u2 + 0 <= b
    BY <1>5, <1>9, <2>4, <2>5
  <2> QED BY <1>5, <2>1, <2>6 DEF CountsInv, u2, b
<1>11. CASE ~returned
  <2>1. Unread(d)' \subseteq Unread(d)
    BY <1>5, <1>7, <1>8, <1>11
  <2>2. Broken(d)' = Broken(d) \cup {N}
    BY <1>5, <1>11
  <2>3. u2 \in Nat /\ u2 <= u
    BY <1>9, <2>1, FS_Subset, FS_CardinalityType
  <2>4. b2 = b + 1
    BY <1>5, <1>9, <2>2, FS_AddElement
  <2> HIDE DEF u, u2, b, b2
  <2>5. u2 + (IF new.terminated THEN 0 ELSE 1) <= b2
    BY <1>9, <2>3, <2>4
  <2> QED BY <1>5, <2>5 DEF CountsInv, u2, b2
<1> QED BY <1>10, <1>11

\* Where nothing is appended, the files stay what they are.
LEMMA QuietFiles ==
    ASSUME JournalInv, UNCHANGED <<files, appends>>,
           \A s \in 1..Len(started) : started'[s] = started[s], NEW d \in Days
    PROVE  LinesInv(d)' /\ CountsInv(d)'
<1>1. AppendsInv /\ LinesInv(d) /\ CountsInv(d)
  BY DEF JournalInv
<1>2. \A n \in DOMAIN appends : DayOf(n)' = DayOf(n)
  BY <1>1 DEF AppendsInv, DayOf
<1>3. Logged(d)' = Logged(d) /\ Broken(d)' = Broken(d)
  <2>1. Journalled' = Journalled
    BY DEF Journalled, Returned
  <2>2. \A r \in Journalled : started'[r.session] = started[r.session]
    BY <1>1 DEF AppendsInv, Journalled, Returned
  <2>3. \A n \in DOMAIN appends :
          started'[appends[n].record.session] = started[appends[n].record.session]
    BY <1>1 DEF AppendsInv
  <2> QED BY <2>1, <2>2, <2>3 DEF Logged, Broken
<1>4. LinesInv(d)'
  BY <1>1, <1>2 DEF LinesInv, IsAt
<1>5. CountsInv(d)'
  BY <1>1, <1>3 DEF CountsInv, Unread
<1> QED BY <1>4, <1>5

\* An append, whether it returns or not, keeps the invariant.
LEMMA AppendKeeps ==
    ASSUME JournalInv, DaysInv', NEW s \in Sessions, pc[s] = "LOGGING", pc'[s] # "LOGGING",
           UNCHANGED made,
           \A t \in Sessions \ {s} : pc'[t] = pc[t] /\ broker'[t] = broker[t] /\ open'[t] = open[t],
           NEW returned \in BOOLEAN, NEW new, Wrote(s, returned, new)
    PROVE  JournalInv'
<1>1. AppendsInv'
  BY AppendIsNew DEF JournalInv, Wrote
<1>2. ASSUME NEW e \in Days PROVE LinesInv(e)' /\ CountsInv(e)'
  <2>1. CASE e = started[s]
    BY <2>1, OwnLines, OwnCounts
  <2>2. CASE e # started[s]
    BY <2>2, OtherFiles
  <2> QED BY <2>1, <2>2
<1> QED BY <1>1, <1>2 DEF JournalInv

\* An append that returns keeps the invariant,
LEMMA LogAppends ==
    ASSUME JournalInv, DaysInv', NEW s \in Sessions, Log(s)
    PROVE  JournalInv'
<1>1. /\ pc[s] = "LOGGING" /\ UNCHANGED made /\ started' = started
      /\ pc' = [pc EXCEPT ![s] = "IDLE"] /\ open' = [open EXCEPT ![s] = None] /\ broker' = broker
      /\ appends' = Append(appends, [record |-> Current(s), returned |-> TRUE])
      /\ files' = [files EXCEPT ![started[s]] = Appended(@, Current(s))]
  BY DEF Log, JournalDate
<1>2. /\ pc'[s] # "LOGGING"
      /\ \A t \in Sessions \ {s} : pc'[t] = pc[t] /\ broker'[t] = broker[t] /\ open'[t] = open[t]
  BY <1>1 DEF JournalInv, DaysInv, Types
<1>3. Wrote(s, TRUE, Extended(files[started[s]], Current(s), TRUE))
  BY <1>1 DEF Wrote, WrittenTo, Appended
<1> QED BY <1>1, <1>2, <1>3, AppendKeeps

\* and so does one in which the run dies.
LEMMA InterruptedAppends ==
    ASSUME JournalInv, DaysInv', NEW s \in Sessions, LogInterrupted(s)
    PROVE  JournalInv'
<1>1. /\ pc[s] = "LOGGING" /\ UNCHANGED made /\ started' = started /\ Gone(s)
      /\ appends' = Append(appends, [record |-> Current(s), returned |-> FALSE])
  BY DEF LogInterrupted, AppendFails
<1>2. /\ pc'[s] # "LOGGING"
      /\ \A t \in Sessions \ {s} : pc'[t] = pc[t] /\ broker'[t] = broker[t] /\ open'[t] = open[t]
  BY <1>1 DEF Gone, JournalInv, DaysInv, Types
<1>3. PICK new \in Interrupted(files[started[s]], Current(s)) :
        files' = [files EXCEPT ![started[s]] = new]
  BY DEF LogInterrupted, JournalDate
<1>4. WrittenTo(files[started[s]], Current(s), FALSE, new)
  BY <1>3 DEF Interrupted, Appended, WrittenTo
<1>5. Wrote(s, FALSE, new)
  BY <1>1, <1>3, <1>4 DEF Wrote
<1> QED BY <1>1, <1>2, <1>5, AppendKeeps

\* A step that is no append keeps it too.
LEMMA QuietKeeps ==
    ASSUME JournalInv, DaysInv', [Next]_vars,
           \A s \in Sessions : ~Log(s) /\ ~LogInterrupted(s)
    PROVE  JournalInv'
<1> DEFINE Rest(s) == \A t \in Sessions \ {s} :
             pc'[t] = pc[t] /\ broker'[t] = broker[t] /\ open'[t] = open[t]
           Quiet == /\ UNCHANGED <<files, appends>>
                    /\ Len(started) <= Len(started')
                    /\ \A s \in 1..Len(started) : started'[s] = started[s]
<1>0. DaysInv /\ AppendsInv
  BY DEF JournalInv
<1>1. Types /\ Types' /\ Len(started) \in Nat
  BY <1>0 DEF DaysInv, Types
<1>2. ASSUME NEW s \in Sessions, Begin(s) PROVE AppendsInv' /\ Quiet
  <2>1. /\ started' = Append(started, day) /\ UNCHANGED <<open, files, made, appends>>
        /\ pc' = [pc EXCEPT ![s] = "IDLE"] /\ broker' = [broker EXCEPT ![s] = NewBroker]
    BY <1>2 DEF Begin
  <2>2. Quiet /\ Rest(s) /\ pc'[s] # "LOGGING"
    BY <1>1, <2>1 DEF Types
  <2>3. AppendsInv'
    BY <1>0, <2>1, <2>2, NothingAppended
  <2> QED BY <2>2, <2>3
<1>3. ASSUME NEW s \in Sessions, NEW at \in OpeningTimes, Open(s, at) PROVE AppendsInv' /\ Quiet
  <2>1. /\ UNCHANGED <<started, pc, files, made, appends>> /\ pc[s] = "IDLE"
        /\ \E b, o : broker' = [broker EXCEPT ![s] = b] /\ open' = [open EXCEPT ![s] = o]
    BY <1>3 DEF Open
  <2>2. Quiet /\ Rest(s) /\ pc'[s] # "LOGGING"
    BY <1>1, <2>1 DEF Types
  <2>3. AppendsInv'
    BY <1>0, <2>1, <2>2, NothingAppended
  <2> QED BY <2>2, <2>3
<1>4. ASSUME NEW s \in Sessions, NEW price \in Prices, Settle(s, price) PROVE AppendsInv' /\ Quiet
  <2>1. /\ UNCHANGED <<started, open, files, appends>> /\ made \subseteq made'
        /\ pc' = [pc EXCEPT ![s] = "LOGGING"] /\ \E b : broker' = [broker EXCEPT ![s] = b]
    BY <1>4 DEF Settle
  <2>2. Quiet /\ Rest(s)
    BY <1>1, <2>1 DEF Types
  <2>3. Current(s)' \notin made
    BY <1>0, <1>4, SettledIsNew
  <2>4. AppendsInv'
    BY <1>0, <2>1, <2>2, <2>3, NothingAppended
  <2> QED BY <2>2, <2>4
<1>5. ASSUME NEW s \in Sessions, Die(s) PROVE AppendsInv' /\ Quiet
  <2>1. Gone(s) /\ UNCHANGED <<started, files, made, appends>>
    BY <1>5 DEF Die
  <2>2. Quiet /\ Rest(s) /\ pc'[s] # "LOGGING"
    BY <1>1, <2>1 DEF Types, Gone
  <2>3. AppendsInv'
    BY <1>0, <2>1, <2>2, NothingAppended
  <2> QED BY <2>2, <2>3
<1>6. ASSUME Midnight \/ UNCHANGED vars PROVE AppendsInv' /\ Quiet
  <2>1. UNCHANGED <<broker, started, pc, open, files, made, appends>>
    BY <1>6 DEF Midnight, vars
  <2>2. Quiet
    BY <1>1, <2>1
  <2>3. AppendsInv'
    BY <1>0, <2>1 DEF AppendsInv, Current
  <2> QED BY <2>2, <2>3
<1>7. AppendsInv' /\ Quiet
  BY <1>2, <1>3, <1>4, <1>5, <1>6 DEF Next
<1>8. \A d \in Days : LinesInv(d)' /\ CountsInv(d)'
  BY <1>7, QuietFiles
<1> QED BY <1>7, <1>8 DEF JournalInv

\* What the lines of the files have to do with the appends, at every step.
THEOREM JournalInvariance == Spec => []JournalInv
<1>1. Init => JournalInv
  <2> SUFFICES ASSUME Init PROVE AppendsInv /\ \A d \in Days : LinesInv(d) /\ CountsInv(d)
    BY DaysStart DEF JournalInv
  <2>1. appends = << >> /\ DOMAIN appends = {} /\ \A s \in Sessions : pc[s] = "NEW"
    BY DEF Init
  <2>2. AppendsInv
    BY <2>1 DEF AppendsInv
  <2>3. ASSUME NEW d \in Days PROVE LinesInv(d) /\ CountsInv(d)
    <3>1. DOMAIN files[d].lines = {} /\ files[d].terminated
      BY DEF Init, EmptyFile
    <3>2. Broken(d) = {} /\ Unread(d) = {}
      BY <2>1 DEF Broken, Unread, Logged, Journalled, Returned
    <3> QED BY <3>1, <3>2, FS_EmptySet DEF LinesInv, CountsInv
  <2> QED BY <2>2, <2>3
<1>2. JournalInv /\ DaysInv' /\ [Next]_vars => JournalInv'
  BY LogAppends, InterruptedAppends, QuietKeeps
<1> QED BY <1>1, <1>2, DaysInvariance, PTL DEF Spec

-----------------------------------------------------------------------------
(* What read returns. *)

IsReading(g, file, wanted, N) ==
    g = [n \in 0..N |->
           IF n = 0 THEN << >>
           ELSE IF IsRead(file.lines[n], wanted) THEN Append(g[n - 1], file.lines[n][1])
           ELSE g[n - 1]]

\* The loop has a result after any number of lines: else take the least without one.
LEMMA LoopReads ==
    ASSUME NEW file, NEW wanted, NEW N \in Nat
    PROVE  \E g : IsReading(g, file, wanted, N)
<1> DEFINE Has(n) == \E g : IsReading(g, file, wanted, n)
           B == {n \in Nat : ~Has(n)}
<1> SUFFICES ASSUME B # {} PROVE FALSE
  OBVIOUS
<1>1. PICK m \in B : \A n \in B : m <= n
  <2> HIDE DEF Has
  <2> QED BY Least
<1> SUFFICES Has(m)
  BY <1>1
<1>2. CASE m = 0
  <2> DEFINE g == [n \in 0..0 |-> << >>]
  <2>1. IsReading(g, file, wanted, 0)
    BY DEF IsReading
  <2> QED BY <1>2, <2>1
<1>3. CASE m # 0
  <2>1. m - 1 \in Nat /\ m \in Nat /\ m - 1 \notin B
    BY <1>1, <1>3
  <2>2. PICK g : IsReading(g, file, wanted, m - 1)
    BY <2>1
  <2> DEFINE step(n, before) ==
               IF n = 0 THEN << >>
               ELSE IF IsRead(file.lines[n], wanted) THEN Append(before[n - 1], file.lines[n][1])
               ELSE before[n - 1]
             h == [n \in 0..m |-> step(n, g)]
  <2>3. g = [n \in 0..m - 1 |-> step(n, g)]
    BY <2>2 DEF IsReading
  <2>4. \A n \in 0..m - 1 : h[n] = g[n]
    <3> HIDE DEF step
    <3> QED BY <2>1, <2>3
  <2>5. \A n \in 0..m : step(n, h) = step(n, g)
    <3> HIDE DEF h
    <3> QED BY <2>1, <2>4
  <2>6. h = [n \in 0..m |-> step(n, h)]
    <3>1. h = [n \in 0..m |-> step(n, g)]
      OBVIOUS
    <3> HIDE DEF step, h
    <3> QED BY <2>5, <3>1
  <2>7. IsReading(h, file, wanted, m)
    <3> HIDE DEF h
    <3> QED BY <2>6 DEF IsReading
  <2> QED BY <2>7
<1> QED BY <1>2, <1>3

\* h says on which of the first n lines of a file the records of shown are.
IsIndex(h, shown, file, wanted, n) ==
    /\ h \in [DOMAIN shown -> 1..n]
    /\ \A i, j \in DOMAIN shown : i < j => h[i] < h[j]
    /\ \A i \in 1..n : IsRead(file.lines[i], wanted) <=> \E k \in DOMAIN shown : h[k] = i
    /\ \A k \in DOMAIN shown : shown[k] = file.lines[h[k]][1]

\* A line that is read is one whole record of a wanted date.
LEMMA LineRecord ==
    ASSUME NEW file \in File, NEW i \in DOMAIN file.lines, NEW wanted, IsRead(file.lines[i], wanted)
    PROVE  /\ file.lines[i][1] \in Records /\ file.lines[i][1].date \in wanted
           /\ IsLine(file.lines[i], file.lines[i][1]) /\ Holds(file.lines[i], file.lines[i][1])
<1> DEFINE line == file.lines[i]
<1>1. line \in Seq(Records \cup {Torn})
  BY DEF File
<1>2. Len(line) = 1 /\ line[1] # Torn /\ line[1].date \in wanted
  BY DEF IsRead
<1> HIDE DEF line
<1>3. line[1] \in Records /\ line = <<line[1]>> /\ 1 \in DOMAIN line
  BY <1>1, <1>2
<1> QED BY <1>2, <1>3 DEF IsLine, Holds, line

\* One more line.
LEMMA IndexGrows ==
    ASSUME NEW file \in File, NEW wanted, NEW n \in DOMAIN file.lines,
           NEW before \in Seq(Records), NEW h, IsIndex(h, before, file, wanted, n - 1),
           NEW after, after = IF IsRead(file.lines[n], wanted) THEN Append(before, file.lines[n][1])
                              ELSE before
    PROVE  after \in Seq(Records) /\ \E k : IsIndex(k, after, file, wanted, n)
<1> DEFINE lines == file.lines
<1>0. n \in Nat /\ n - 1 \in Nat /\ 1..n = 1..(n - 1) \cup {n} /\ n \notin 1..n - 1
  <2>1. n \in 1..Len(lines) /\ Len(lines) \in Nat
    BY DEF File
  <2> QED BY <2>1
<1>1. CASE ~IsRead(lines[n], wanted)
  <2>1. after = before
    BY <1>1
  <2>2. IsIndex(h, before, file, wanted, n)
    BY <1>0, <1>1 DEF IsIndex
  <2> QED BY <2>1, <2>2
<1>2. CASE IsRead(lines[n], wanted)
  <2> DEFINE rec == lines[n][1]
             L   == Len(before) + 1
             k   == [i \in 1..L |-> IF i = L THEN n ELSE h[i]]
  <2>1. rec \in Records /\ after = Append(before, rec)
    BY <1>2, LineRecord
  <2> HIDE DEF rec
  <2>2. /\ after \in Seq(Records) /\ DOMAIN after = 1..L /\ L \in Nat /\ L \in DOMAIN after
        /\ DOMAIN before = 1..L - 1 /\ DOMAIN after = DOMAIN before \cup {L}
        /\ L \notin DOMAIN before
        /\ after[L] = rec /\ \A i \in DOMAIN before : after[i] = before[i] /\ i < L
    BY <2>1
  <2>3. k[L] = n /\ \A i \in DOMAIN before : k[i] = h[i]
    BY <2>2
  <2>4. k = [i \in DOMAIN after |-> k[i]]
    BY <2>2
  <2> HIDE DEF k, L
  <2>5. \A i \in DOMAIN before : h[i] \in 1..n - 1
    BY DEF IsIndex
  <2>6. k \in [DOMAIN after -> 1..n]
    BY <1>0, <2>2, <2>3, <2>4, <2>5
  <2>7. ASSUME NEW i \in DOMAIN after, NEW j \in DOMAIN after, i < j PROVE k[i] < k[j]
    <3>1. i \in DOMAIN before
      BY <2>2, <2>7
    <3>2. CASE j = L
      BY <1>0, <2>3, <2>5, <3>1, <3>2
    <3>3. CASE j # L
      BY <2>2, <2>3, <2>7, <3>1, <3>3 DEF IsIndex
    <3> QED BY <3>2, <3>3
  <2>8. ASSUME NEW i \in 1..n
        PROVE  IsRead(file.lines[i], wanted) <=> \E m \in DOMAIN after : k[m] = i
    <3>1. CASE i = n
      BY <1>2, <2>2, <2>3, <3>1
    <3>2. CASE i # n
      <4>1. i \in 1..n - 1
        BY <1>0, <3>2
      <4>2. (\E m \in DOMAIN after : k[m] = i) <=> \E m \in DOMAIN before : h[m] = i
        BY <2>2, <2>3, <3>2
      <4> QED BY <4>1, <4>2 DEF IsIndex
    <3> QED BY <3>1, <3>2
  <2>9. ASSUME NEW i \in DOMAIN after PROVE after[i] = file.lines[k[i]][1]
    <3>1. CASE i = L
      BY <2>2, <2>3, <3>1 DEF rec
    <3>2. CASE i # L
      BY <2>2, <2>3, <3>2 DEF IsIndex
    <3> QED BY <3>1, <3>2
  <2>10. IsIndex(k, after, file, wanted, n)
    BY <2>6, <2>7, <2>8, <2>9 DEF IsIndex
  <2> QED BY <2>2, <2>10
<1> QED BY <1>1, <1>2

\* read returns the records of the whole lines with a wanted date, in order.
LEMMA ReadsWholeLines ==
    ASSUME NEW file \in File, NEW wanted
    PROVE  /\ read(file, wanted) \in Seq(Records)
           /\ \E h : IsIndex(h, read(file, wanted), file, wanted, Len(file.lines))
<1> DEFINE N == Len(file.lines)
           g == CHOOSE f : IsReading(f, file, wanted, N)
<1>1. read(file, wanted) = g[N]
  BY Zenon DEF read, IsReading
<1>2. N \in Nat /\ DOMAIN file.lines = 1..N
  BY DEF File
<1> HIDE DEF N
<1>3. IsReading(g, file, wanted, N)
  BY <1>2, LoopReads
<1> HIDE DEF g
<1> DEFINE Good(n) == g[n] \in Seq(Records) /\ \E h : IsIndex(h, g[n], file, wanted, n)
           B == {n \in Nat : n <= N /\ ~Good(n)}
<1> SUFFICES ASSUME B # {} PROVE FALSE
  BY <1>1, <1>2 DEF N
<1>4. PICK m \in B : \A n \in B : m <= n
  <2> HIDE DEF Good
  <2> QED BY Least
<1> SUFFICES Good(m)
  BY <1>4
<1>5. CASE m = 0
  <2>1. g[0] = << >>
    BY <1>2, <1>3 DEF IsReading
  <2> DEFINE h == [i \in {} |-> 0]
  <2>2. IsIndex(h, << >>, file, wanted, 0)
    BY DEF IsIndex
  <2> HIDE DEF h
  <2>3. << >> \in Seq(Records)
    OBVIOUS
  <2> QED BY <1>5, <2>1, <2>2, <2>3
<1>6. CASE m # 0
  <2>1. m \in 1..N /\ m - 1 \in Nat /\ m - 1 <= N /\ m - 1 \notin B
    BY <1>2, <1>4, <1>6
  <2>2. Good(m - 1)
    BY <2>1
  <2>3. PICK h : IsIndex(h, g[m - 1], file, wanted, m - 1)
    BY <2>2
  <2>4. g[m] = IF IsRead(file.lines[m], wanted) THEN Append(g[m - 1], file.lines[m][1])
               ELSE g[m - 1]
    <3>1. m \in 0..N
      BY <1>2, <2>1
    <3>2. g = [n \in 0..N |->
                 IF n = 0 THEN << >>
                 ELSE IF IsRead(file.lines[n], wanted) THEN Append(g[n - 1], file.lines[n][1])
                 ELSE g[n - 1]]
      BY <1>3 DEF IsReading
    <3> QED BY <1>6, <3>1, <3>2, Zenon
  <2>5. m \in DOMAIN file.lines /\ g[m - 1] \in Seq(Records)
    BY <1>2, <2>1, <2>2
  <2> QED BY <2>3, <2>4, <2>5, IndexGrows
<1> QED BY <1>5, <1>6

-----------------------------------------------------------------------------
(* What the journal shows. *)

\* The records a file shows were appended by runs of its day, each once, and
\* come in the order of their appends; a record on a line of its own is shown.
Shows(d, wanted, shown) ==
    /\ shown \in Seq(Records)
    /\ \A k \in DOMAIN shown :
         /\ shown[k].date \in wanted
         /\ \E n \in DOMAIN appends : appends[n].record = shown[k] /\ DayOf(n) = d
    /\ \A i, j \in DOMAIN shown, m, n \in DOMAIN appends :
         i < j /\ appends[m].record = shown[i] /\ appends[n].record = shown[j] => m < n
    /\ \A r \in Records, i \in DOMAIN files[d].lines :
         IsLine(files[d].lines[i], r) /\ r.date \in wanted => \E k \in DOMAIN shown : shown[k] = r

\* What read returns are the file's whole lines of the wanted dates, each in its place.
LEMMA ShownRecords ==
    ASSUME JournalInv, NEW d \in Days, NEW wanted
    PROVE  Shows(d, wanted, read(files[d], wanted))
<1> DEFINE shown == read(files[d], wanted)
           lines == files[d].lines
<1>1. LinesInv(d) /\ files[d] \in File
  BY DEF JournalInv, DaysInv, Types, FilesInv
<1>2. shown \in Seq(Records)
  BY <1>1, ReadsWholeLines
<1>3. PICK h : IsIndex(h, shown, files[d], wanted, Len(lines))
  BY <1>1, ReadsWholeLines
<1>4. DOMAIN lines = 1..Len(lines)
  BY <1>1 DEF File
<1> HIDE DEF shown
<1>5. ASSUME NEW k \in DOMAIN shown
      PROVE  /\ h[k] \in DOMAIN lines /\ shown[k].date \in wanted
             /\ shown[k] \in Records /\ Holds(lines[h[k]], shown[k])
  <2>1. h[k] \in DOMAIN lines /\ IsRead(lines[h[k]], wanted) /\ shown[k] = lines[h[k]][1]
    BY <1>3, <1>4 DEF IsIndex
  <2> HIDE DEF lines
  <2> QED BY <1>1, <2>1, LineRecord DEF lines
<1>6. ASSUME NEW k \in DOMAIN shown
      PROVE  \E n \in DOMAIN appends : appends[n].record = shown[k] /\ DayOf(n) = d
  BY <1>1, <1>5 DEF LinesInv
<1>7. ASSUME NEW i \in DOMAIN shown, NEW j \in DOMAIN shown, i < j,
             NEW m \in DOMAIN appends, NEW n \in DOMAIN appends,
             appends[m].record = shown[i], appends[n].record = shown[j]
      PROVE  m < n
  <2>1. h[i] < h[j]
    BY <1>3, <1>7 DEF IsIndex
  <2>2. /\ h[i] \in DOMAIN lines /\ IsAt(m, lines[h[i]])
        /\ h[j] \in DOMAIN lines /\ IsAt(n, lines[h[j]])
    BY <1>5, <1>7 DEF IsAt
  <2> QED BY <1>1, <2>1, <2>2 DEF LinesInv
<1>8. ASSUME NEW r \in Records, NEW i \in DOMAIN lines, IsLine(lines[i], r), r.date \in wanted
      PROVE  \E k \in DOMAIN shown : shown[k] = r
  <2>1. lines[i] = <<r>> /\ lines[i][1] = r /\ r # Torn
    BY <1>8, TornIsNoRecord DEF IsLine
  <2>2. IsRead(lines[i], wanted)
    BY <1>8, <2>1 DEF IsRead
  <2>3. PICK k \in DOMAIN shown : h[k] = i
    BY <1>3, <1>4, <2>2 DEF IsIndex
  <2> QED BY <1>3, <2>1, <2>3 DEF IsIndex
<1> QED BY <1>2, <1>5, <1>6, <1>7, <1>8 DEF shown, Shows

\* No record is shown twice.
LEMMA ShownOnce ==
    ASSUME JournalInv, NEW d, NEW wanted, NEW shown, Shows(d, wanted, shown)
    PROVE  \A i, j \in DOMAIN shown : shown[i] = shown[j] => i = j
<1> SUFFICES ASSUME NEW i \in DOMAIN shown, NEW j \in DOMAIN shown, shown[i] = shown[j]
             PROVE  i = j
  OBVIOUS
<1>1. PICK n \in DOMAIN appends : appends[n].record = shown[i]
  BY DEF Shows
<1>2. i \in Nat /\ j \in Nat /\ n \in Nat
  <2>1. appends \in Seq([record: Records, returned: BOOLEAN]) /\ shown \in Seq(Records)
    BY DEF JournalInv, DaysInv, Types, Shows
  <2> QED BY <2>1
<1>3. ~(i < j) /\ ~(j < i)
  BY <1>1, <1>2 DEF Shows
<1> QED BY <1>2, <1>3

\* However often an append breaks, in whatever state it leaves a line, it hides
\* at most one record that was appended in full; the others are read in order.
THEOREM TornWritesAlwaysCostOneRecordEach == Spec => []TornWritesCostOneRecordEach
<1>1. JournalInv => TornWritesCostOneRecordEach
  <2> SUFFICES ASSUME JournalInv, NEW d \in Days
               PROVE  LET shown == read(files[d], Nat)
                          at(i) == CHOOSE n \in DOMAIN appends : appends[n].record = shown[i]
                      IN /\ Cardinality(Logged(d) \ InFile(d)) <= Cardinality(Broken(d))
                         /\ \A i, j \in DOMAIN shown : i < j => at(i) < at(j)
    BY DEF TornWritesCostOneRecordEach
  <2>0. PICK shown : shown = read(files[d], Nat)
    OBVIOUS
  <2> DEFINE at(i) == CHOOSE n \in DOMAIN appends : appends[n].record = shown[i]
  <2>7. Shows(d, Nat, shown)
    BY <2>0, ShownRecords
  <2>1. ASSUME NEW i \in DOMAIN shown, NEW j \in DOMAIN shown, i < j PROVE at(i) < at(j)
    <3>1. /\ at(i) \in DOMAIN appends /\ appends[at(i)].record = shown[i]
          /\ at(j) \in DOMAIN appends /\ appends[at(j)].record = shown[j]
      <4>1. /\ \E n \in DOMAIN appends : appends[n].record = shown[i]
            /\ \E n \in DOMAIN appends : appends[n].record = shown[j]
        BY <2>7 DEF Shows
      <4> QED BY <4>1
    <3> HIDE DEF at
    <3> QED BY <2>1, <2>7, <3>1 DEF Shows
  <2>2. DaysInv /\ AppendsInv /\ CountsInv(d)
    BY DEF JournalInv
  <2>3. Logged(d) \ InFile(d) \subseteq Unread(d)
    <3> SUFFICES ASSUME NEW r \in Logged(d), r \notin Unread(d) PROVE r \in InFile(d)
      OBVIOUS
    <3>1. PICK i \in DOMAIN files[d].lines : IsLine(files[d].lines[i], r)
      BY DEF Unread
    <3>2. r \in Records /\ r.date \in Nat
      BY <2>2, HistoriesAreFinite DEF DaysInv, Types, Records
    <3>3. \E k \in DOMAIN shown : shown[k] = r
      BY <2>7, <3>1, <3>2 DEF Shows
    <3> QED BY <2>0, <3>3 DEF InFile, ToSet
  <2>4. /\ IsFiniteSet(Unread(d)) /\ Cardinality(Unread(d)) \in Nat
        /\ Cardinality(Broken(d)) \in Nat
    BY <2>2, HistoriesAreFinite
  <2>5. /\ Cardinality(Logged(d) \ InFile(d)) <= Cardinality(Unread(d))
        /\ Cardinality(Logged(d) \ InFile(d)) \in Nat
    BY <2>3, <2>4, FS_Subset, FS_CardinalityType
  <2>6. Cardinality(Unread(d)) <= Cardinality(Broken(d))
    BY <2>2, <2>4 DEF CountsInv
  <2> QED BY <2>0, <2>1, <2>4, <2>5, <2>6
<1> QED BY <1>1, JournalInvariance, PTL

\* Where no append broke, a file shows what was logged on its day.
LEMMA AllIsShown ==
    ASSUME JournalInv, NEW d \in Days, Broken(d) = {}, NEW wanted,
           NEW shown, Shows(d, wanted, shown)
    PROVE  {shown[k] : k \in DOMAIN shown} = {r \in Logged(d) : r.date \in wanted}
<1>1. DaysInv /\ AppendsInv /\ CountsInv(d)
  BY DEF JournalInv
<1>2. Unread(d) = {}
  <2>1. IsFiniteSet(Unread(d)) /\ Cardinality(Unread(d)) \in Nat
    BY <1>1, HistoriesAreFinite
  <2>2. Cardinality(Unread(d)) = 0
    BY <1>1, <2>1, FS_EmptySet DEF CountsInv
  <2> QED BY <2>1, <2>2, FS_EmptySet
<1>3. ASSUME NEW k \in DOMAIN shown PROVE shown[k] \in Logged(d) /\ shown[k].date \in wanted
  <2>1. PICK n \in DOMAIN appends : appends[n].record = shown[k] /\ DayOf(n) = d
    BY DEF Shows
  <2>2. shown[k].date \in wanted
    BY DEF Shows
  <2>3. appends[n].returned
    BY <2>1 DEF Broken, DayOf
  <2> QED BY <2>1, <2>2, <2>3 DEF Logged, Journalled, Returned, DayOf
<1>4. ASSUME NEW r \in Logged(d), r.date \in wanted PROVE \E k \in DOMAIN shown : shown[k] = r
  <2>1. PICK i \in DOMAIN files[d].lines : IsLine(files[d].lines[i], r)
    BY <1>2 DEF Unread
  <2>2. r \in Records
    BY <1>1, HistoriesAreFinite DEF DaysInv, Types
  <2> QED BY <1>4, <2>1, <2>2 DEF Shows
<1> QED BY <1>3, <1>4


-----------------------------------------------------------------------------
(* What summarize returns. *)

IsTally(g, records, N) ==
    g = [n \in 0..N |-> IF n = 0 THEN NoTrades ELSE Tally(g[n - 1], records[n])]

\* summarize's loop has a value for any number of records.
LEMMA LoopTallies ==
    ASSUME NEW records, NEW N \in Nat
    PROVE  \E g : IsTally(g, records, N)
<1> DEFINE Has(n) == \E g : IsTally(g, records, n)
           B == {n \in Nat : ~Has(n)}
<1> SUFFICES ASSUME B # {} PROVE FALSE
  OBVIOUS
<1>1. PICK m \in B : \A n \in B : m <= n
  <2> HIDE DEF Has
  <2> QED BY Least
<1> SUFFICES Has(m)
  BY <1>1
<1>2. CASE m = 0
  <2> DEFINE g == [n \in 0..0 |-> NoTrades]
  <2>1. IsTally(g, records, 0)
    BY DEF IsTally
  <2> QED BY <1>2, <2>1
<1>3. CASE m # 0
  <2>1. m - 1 \in Nat /\ m \in Nat /\ m - 1 \notin B
    BY <1>1, <1>3
  <2>2. PICK g : IsTally(g, records, m - 1)
    BY <2>1
  <2> DEFINE step(n, before) == IF n = 0 THEN NoTrades ELSE Tally(before[n - 1], records[n])
             h == [n \in 0..m |-> step(n, g)]
  <2>3. g = [n \in 0..m - 1 |-> step(n, g)]
    BY <2>2 DEF IsTally
  <2>4. \A n \in 0..m - 1 : h[n] = g[n]
    <3> HIDE DEF step
    <3> QED BY <2>1, <2>3
  <2>5. \A n \in 0..m : step(n, h) = step(n, g)
    <3> HIDE DEF h
    <3> QED BY <2>1, <2>4
  <2>6. h = [n \in 0..m |-> step(n, h)]
    <3>1. h = [n \in 0..m |-> step(n, g)]
      OBVIOUS
    <3> HIDE DEF step, h
    <3> QED BY <2>5, <3>1
  <2>7. IsTally(h, records, m)
    <3> HIDE DEF h
    <3> QED BY <2>6 DEF IsTally
  <2> QED BY <2>7
<1> QED BY <1>2, <1>3

\* The places of the first n records that have an outcome.
With(records, n, o) == {i \in 1..n : records[i].outcome = o}

\* One record more counts for its own outcome only.
LEMMA OneRecordMore ==
    ASSUME NEW records, NEW n \in Nat, n # 0, NEW o
    PROVE  /\ Cardinality(With(records, n, o)) =
                Cardinality(With(records, n - 1, o)) + (IF records[n].outcome = o THEN 1 ELSE 0)
           /\ Cardinality(With(records, n - 1, o)) \in Nat
<1> DEFINE S == With(records, n - 1, o)
<1>1. n - 1 \in Nat /\ n \notin S
  BY DEF With
<1>2. With(records, n, o) = S \cup (IF records[n].outcome = o THEN {n} ELSE {})
  BY DEF With
<1>3. IsFiniteSet(S)
  <2>1. IsFiniteSet(1..n - 1) /\ S \subseteq 1..n - 1
    BY FS_Interval DEF With
  <2> QED BY <2>1, FS_Subset
<1> HIDE DEF S
<1>4. Cardinality(S) \in Nat
  BY <1>3, FS_CardinalityType
<1>5. CASE records[n].outcome = o
  <2>1. Cardinality(S \cup {n}) = Cardinality(S) + 1
    BY <1>1, <1>3, FS_AddElement
  <2> QED BY <1>2, <1>4, <1>5, <2>1 DEF S
<1>6. CASE records[n].outcome # o
  <2>1. With(records, n, o) = S
    BY <1>2, <1>6
  <2> QED BY <1>4, <1>6, <2>1 DEF S
<1> QED BY <1>5, <1>6

PnlsOf(records) == [i \in DOMAIN records |-> records[i].pnl]

IsSummary(total, records, n) ==
    /\ total.trade_count = n
    /\ total.win_count   = Cardinality(With(records, n, "WIN"))
    /\ total.loss_count  = Cardinality(With(records, n, "LOSS"))
    /\ total.tie_count   = Cardinality(With(records, n, "TIE"))
    /\ total.net_pnl     = SumFunctionOnSet(PnlsOf(records), 1..n)

\* An empty tally is that of no record.
LEMMA NothingTallied == ASSUME NEW records PROVE IsSummary(NoTrades, records, 0)
<1>1. 1..0 = {}
  OBVIOUS
<1>2. \A o : With(records, 0, o) = {}
  BY <1>1 DEF With
<1>3. Cardinality({}) = 0 /\ SumFunctionOnSet(PnlsOf(records), 1..0) = 0
  BY <1>1, FS_EmptySet, SumEmpty
<1>4. \A o : Cardinality(With(records, 0, o)) = 0
  BY <1>2, <1>3
<1> QED BY <1>3, <1>4 DEF IsSummary, NoTrades

\* One turn of the loop.
LEMMA TallyAdds ==
    ASSUME NEW records \in Seq(Records), NEW n \in DOMAIN records, NEW total,
           IsSummary(total, records, n - 1)
    PROVE  IsSummary(Tally(total, records[n]), records, n)
<1> DEFINE pnls == PnlsOf(records)
           after == Tally(total, records[n])
<1>1. n \in Nat /\ n # 0 /\ n - 1 \in Nat /\ n \in 1..n
  OBVIOUS
<1>2. /\ after.trade_count = total.trade_count + 1
      /\ after.win_count   = total.win_count + (IF records[n].outcome = "WIN" THEN 1 ELSE 0)
      /\ after.loss_count  = total.loss_count + (IF records[n].outcome = "LOSS" THEN 1 ELSE 0)
      /\ after.tie_count   = total.tie_count + (IF records[n].outcome = "TIE" THEN 1 ELSE 0)
      /\ after.net_pnl     = total.net_pnl + records[n].pnl
  BY DEF Tally
<1> HIDE DEF after
<1>3. after.trade_count = n
  BY <1>1, <1>2 DEF IsSummary
<1>4. /\ after.win_count  = Cardinality(With(records, n, "WIN"))
      /\ after.loss_count = Cardinality(With(records, n, "LOSS"))
      /\ after.tie_count  = Cardinality(With(records, n, "TIE"))
  BY <1>1, <1>2, OneRecordMore DEF IsSummary
<1>5. after.net_pnl = SumFunctionOnSet(pnls, 1..n)
  <2>1. ASSUME NEW i \in 1..n PROVE pnls[i] \in Int /\ pnls[i] = records[i].pnl
    <3>1. i \in DOMAIN records /\ records[i] \in Records
      OBVIOUS
    <3> QED BY <3>1 DEF PnlsOf, Records
  <2> HIDE DEF pnls
  <2>2. PICK S : S = 1..n
    OBVIOUS
  <2>3. IsFiniteSet(S) /\ n \in S /\ \A i \in S : pnls[i] \in Int
    BY <1>1, <2>1, <2>2, FS_Interval
  <2>4. S \ {n} = 1..n - 1
    BY <1>1, <2>2
  <2>5. SumFunctionOnSet(pnls, S) = pnls[n] + SumFunctionOnSet(pnls, S \ {n})
    BY <2>3, SumRemove
  <2>6. SumFunctionOnSet(pnls, S \ {n}) \in Int
    <3>1. IsFiniteSet(S \ {n}) /\ \A i \in S \ {n} : pnls[i] \in Int
      BY <2>3, FS_Subset
    <3> QED BY <3>1, SumType
  <2>7. total.net_pnl = SumFunctionOnSet(pnls, S \ {n})
    BY <2>4 DEF IsSummary, pnls
  <2>8. pnls[n] \in Int /\ pnls[n] = records[n].pnl
    BY <1>1, <2>1
  <2> QED BY <1>2, <2>2, <2>5, <2>6, <2>7, <2>8
<1> QED BY <1>3, <1>4, <1>5 DEF IsSummary, after

\* The summary counts the records of each outcome and adds up their P&L.
LEMMA SummaryCounts ==
    ASSUME NEW records \in Seq(Records)
    PROVE  IsSummary(summarize(records), records, Len(records))
<1> DEFINE N == Len(records)
           g == CHOOSE f : IsTally(f, records, N)
<1>1. summarize(records) = g[N]
  BY Zenon DEF summarize, IsTally
<1>2. N \in Nat /\ DOMAIN records = 1..N
  OBVIOUS
<1> HIDE DEF N
<1>3. IsTally(g, records, N)
  BY <1>2, LoopTallies
<1> HIDE DEF g
<1> DEFINE Good(n) == IsSummary(g[n], records, n)
           B == {n \in Nat : n <= N /\ ~Good(n)}
<1> SUFFICES ASSUME B # {} PROVE FALSE
  BY <1>1, <1>2 DEF N
<1>4. PICK m \in B : \A n \in B : m <= n
  <2> HIDE DEF Good
  <2> QED BY Least
<1> SUFFICES Good(m)
  BY <1>4
<1>5. g = [n \in 0..N |-> IF n = 0 THEN NoTrades ELSE Tally(g[n - 1], records[n])]
  BY <1>3 DEF IsTally
<1>6. CASE m = 0
  <2>1. g[0] = NoTrades
    BY <1>2, <1>5
  <2> QED BY <1>6, <2>1, NothingTallied
<1>7. CASE m # 0
  <2>1. m \in 1..N /\ m - 1 \in Nat /\ m - 1 <= N /\ m - 1 \notin B /\ m \in 0..N
    BY <1>2, <1>4, <1>7
  <2>2. IsSummary(g[m - 1], records, m - 1)
    BY <2>1
  <2>3. g[m] = Tally(g[m - 1], records[m])
    BY <1>5, <1>7, <2>1, Zenon
  <2>4. m \in DOMAIN records
    BY <1>2, <2>1
  <2>5. IsSummary(Tally(g[m - 1], records[m]), records, m)
    BY <2>2, <2>4, TallyAdds
  <2>6. IsSummary(g[m], records, m)
    BY <2>3, <2>5, Zenon
  <2> QED BY <2>6
<1> QED BY <1>6, <1>7

\* Records that differ are as many as their places, and add up to the same.
LEMMA PlacesCount ==
    ASSUME NEW shown \in Seq(Records), \A i, j \in DOMAIN shown : shown[i] = shown[j] => i = j,
           NEW S \in SUBSET DOMAIN shown
    PROVE  /\ IsFiniteSet(S) /\ Cardinality(S) = Cardinality(Mapped(shown, S))
           /\ SumFunctionOnSet(PnlsOf(shown), S) = PnlOf(Mapped(shown, S))
<1> DEFINE T == Mapped(shown, S)
           g == [r \in T |-> r.pnl]
           f == PnlsOf(shown)
<1>1. IsFiniteSet(S)
  <2>1. IsFiniteSet(1..Len(shown)) /\ DOMAIN shown = 1..Len(shown)
    BY FS_Interval
  <2> QED BY <2>1, FS_Subset
<1>2. AreMapped(f, g, S, shown)
  <2>1. ASSUME NEW x \in S PROVE f[x] \in Int /\ g[shown[x]] = f[x]
    <3>1. x \in DOMAIN shown /\ shown[x] \in Records /\ shown[x] \in T
      BY DEF Mapped
    <3> QED BY <3>1 DEF PnlsOf, Records
  <2> HIDE DEF f, g
  <2> QED BY <2>1 DEF AreMapped
<1>3. PnlOf(T) = SumFunctionOnSet(g, T)
  BY DEF PnlOf, SumFunction
<1> HIDE DEF f, g
<1>4. /\ Cardinality(T) = Cardinality(S)
      /\ SumFunctionOnSet(f, S) = SumFunctionOnSet(g, T)
  BY <1>1, <1>2, SumBijection
<1> QED BY <1>1, <1>3, <1>4 DEF f

\* Unless an append to it broke, the file of a day, summed up, is the account
\* of what the runs begun on that day have logged, and of nothing else.
THEOREM ReportAlwaysMatchesTrades == Spec => []ReportMatchesTrades
<1>1. JournalInv => ReportMatchesTrades
  <2> SUFFICES ASSUME JournalInv, NEW d \in Days, Broken(d) = {}
               PROVE  /\ Report(d).trade_count = Cardinality(Logged(d))
                      /\ Report(d).net_pnl     = PnlOf(Logged(d))
                      /\ Report(d).win_count   = Count(Logged(d), "WIN")
                      /\ Report(d).loss_count  = Count(Logged(d), "LOSS")
                      /\ Report(d).tie_count   = Count(Logged(d), "TIE")
    BY DEF ReportMatchesTrades
  <2>1. PICK shown : shown = read(files[d], Nat)
    OBVIOUS
  <2>2. Shows(d, Nat, shown)
    BY <2>1, ShownRecords
  <2>3. /\ shown \in Seq(Records) /\ Len(shown) \in Nat /\ DOMAIN shown = 1..Len(shown)
        /\ \A i, j \in DOMAIN shown : shown[i] = shown[j] => i = j
    <3>1. shown \in Seq(Records)
      BY <2>2 DEF Shows
    <3>2. \A i, j \in DOMAIN shown : shown[i] = shown[j] => i = j
      BY <2>2, ShownOnce
    <3> QED BY <3>1, <3>2
  <2>4. Mapped(shown, DOMAIN shown) = Logged(d)
    <3>1. {shown[k] : k \in DOMAIN shown} = {r \in Logged(d) : r.date \in Nat}
      BY <2>2, AllIsShown
    <3>2. \A r \in Logged(d) : r.date \in Nat
      BY HistoriesAreFinite DEF JournalInv, DaysInv, Types, Records
    <3> QED BY <3>1, <3>2 DEF Mapped
  <2>5. IsSummary(Report(d), shown, Len(shown))
    BY <2>1, <2>3, SummaryCounts DEF Report
  <2>6. /\ Cardinality(DOMAIN shown) = Cardinality(Logged(d))
        /\ SumFunctionOnSet(PnlsOf(shown), DOMAIN shown) = PnlOf(Logged(d))
    BY <2>3, <2>4, PlacesCount
  <2>7. Cardinality(DOMAIN shown) = Len(shown)
    BY <2>3, FS_Interval
  <2>8. ASSUME NEW o PROVE Cardinality(With(shown, Len(shown), o)) = Count(Logged(d), o)
    <3> DEFINE S == With(shown, Len(shown), o)
    <3>1. S \in SUBSET DOMAIN shown
      BY <2>3 DEF With
    <3>2. Mapped(shown, S) = {r \in Logged(d) : r.outcome = o}
      BY <2>3, <2>4 DEF Mapped, With
    <3> HIDE DEF S
    <3>3. Cardinality(S) = Cardinality(Mapped(shown, S))
      BY <2>3, <3>1, PlacesCount
    <3> QED BY <3>2, <3>3 DEF Count, S
  <2> QED BY <2>3, <2>5, <2>6, <2>7, <2>8 DEF IsSummary
<1> QED BY <1>1, JournalInvariance, PTL

\* Read for one date, all the files together show each trade that expired on
\* it, once, under whichever day its run began.
THEOREM DateFilterAlwaysFindsTrades == Spec => []DateFilterFindsTrades
<1>1. JournalInv => DateFilterFindsTrades
  <2> SUFFICES ASSUME JournalInv, \A d \in Days : Broken(d) = {}, NEW date \in Days
               PROVE  /\ UNION {ToSet(read(files[d], {date})) : d \in Days}
                           = {r \in Journalled : r.date = date}
                      /\ SumFunction([d \in Days |-> Len(read(files[d], {date}))])
                           = Cardinality({r \in Journalled : r.date = date})
    BY DEF DateFilterFindsTrades
  <2> DEFINE shown(d) == read(files[d], {date})
             found    == {r \in Journalled : r.date = date}
             L == [d \in Days |-> {r \in Logged(d) : r.date = date}]
             c == [d \in Days |-> Len(shown(d))]
  <2>1. ASSUME NEW d \in Days
        PROVE  /\ ToSet(shown(d)) = L[d]
               /\ IsFiniteSet(L[d]) /\ c[d] = Cardinality(L[d])
    <3>1. PICK s : s = shown(d)
      OBVIOUS
    <3>2. Shows(d, {date}, s)
      BY <3>1, ShownRecords
    <3>3. {s[k] : k \in DOMAIN s} = {r \in Logged(d) : r.date \in {date}}
      BY <3>2, AllIsShown
    <3>4. {s[k] : k \in DOMAIN s} = L[d]
      BY <3>3
    <3>5. s \in Seq(Records) /\ \A i, j \in DOMAIN s : s[i] = s[j] => i = j
      <4>1. s \in Seq(Records)
        BY <3>2 DEF Shows
      <4>2. \A i, j \in DOMAIN s : s[i] = s[j] => i = j
        BY <3>2, ShownOnce
      <4> QED BY <4>1, <4>2
    <3>6. Cardinality(DOMAIN s) = Cardinality(Mapped(s, DOMAIN s))
      BY <3>5, PlacesCount
    <3>7. Cardinality(DOMAIN s) = Len(s)
      <4>1. DOMAIN s = 1..Len(s) /\ Len(s) \in Nat
        BY <3>5
      <4> QED BY <4>1, FS_Interval
    <3>8. IsFiniteSet(L[d])
      BY HistoriesAreFinite, FS_Subset DEF JournalInv
    <3> HIDE DEF L
    <3> QED BY <3>1, <3>4, <3>6, <3>7, <3>8 DEF Mapped, ToSet
  <2>2. Union(L, Days) = found
    <3>1. \A r \in Journalled : started[r.session] \in Days
      BY DEF JournalInv, DaysInv, Types, AppendsInv, Journalled, Returned
    <3> QED BY <3>1 DEF Union, Logged
  <2>3. \A d, e \in Days : d # e => L[d] \cap L[e] = {}
    BY DEF Logged
  <2>4. IsFiniteSet(Days)
    BY DaysConstants, FS_Interval DEF Days
  <2>5. UNION {ToSet(shown(d)) : d \in Days} = Union(L, Days)
    <3> HIDE DEF L
    <3> QED BY <2>1, Zenon DEF Union
  <2>6. SumFunctionOnSet(c, Days) = Cardinality(Union(L, Days))
    <3>1. AreCounts(c, L, Days)
      <4> HIDE DEF L, c
      <4> QED BY <2>1, <2>3 DEF AreCounts
    <3> HIDE DEF L, c
    <3> QED BY <2>4, <3>1, SumOfCardinalities
  <2>7. SumFunction(c) = SumFunctionOnSet(c, Days)
    BY DEF SumFunction
  <2> HIDE DEF L
  <2> QED BY <2>2, <2>5, <2>6, <2>7
<1> QED BY <1>1, JournalInvariance, PTL
=============================================================================
