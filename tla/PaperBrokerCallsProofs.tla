----------------------- MODULE PaperBrokerCallsProofs -----------------------
(***************************************************************************)
(* Theorems about PaperBrokerCalls for any stakes, expiries, prices and    *)
(* payout rate, and any number of orders.                                  *)
(***************************************************************************)
EXTENDS PaperBrokerCalls, Sums

\* An accepted order has a positive stake, which the account covers.
LEMMA AcceptedIsCovered ==
    ASSUME NEW order \in Orders, Verdict(broker, order) = "ACCEPTED", broker.balance \in Int
    PROVE  order.stake \in Nat /\ broker.balance - Hundredths(order.stake) >= 0
<1>1. order.stake \in Int
  BY CallConstants DEF Orders
<1>2. ~(order.stake <= 0 \/ Hundredths(order.stake) > broker.balance)
  <2> SUFFICES ASSUME order.stake <= 0 \/ Hundredths(order.stake) > broker.balance
               PROVE  FALSE
    OBVIOUS
  <2>1. Verdict(broker, order) = "INSUFFICIENT_BALANCE"
    BY DEF Verdict
  <2> QED BY <2>1
<1> QED BY <1>1, <1>2 DEF Hundredths

\* No settlement takes money from the account: the worst outcome gives nothing
\* back of the stake that was debited.
LEMMA CreditIsNoDebit ==
    ASSUME NEW ack, ack.request.stake \in Nat, NEW outcome \in Outcomes
    PROVE  Credit(ack, pnl_for(outcome, ack.request.stake, PayoutPct)) \in Nat
<1>1. ack.request.stake * PayoutPct \in Nat
  BY BrokerConstants
<1> QED BY <1>1 DEF Credit, pnl_for, Outcomes, Hundredths

BalanceInv ==
    /\ broker.balance \in Nat
    /\ \A ack \in acks : ack.request.stake \in Nat

\* An accepted order debits at most the balance; a refused one debits nothing.
LEMMA PlaceKeepsBalance ==
    ASSUME BalanceInv, NEW order \in Orders, Place(order)
    PROVE  BalanceInv'
<1>1. order.stake \in Nat /\ broker.balance - Hundredths(order.stake) >= 0
  BY AcceptedIsCovered DEF Place, BalanceInv
<1>2. broker'.balance = broker.balance - Hundredths(order.stake)
  BY DEF Place, place
<1>3. broker'.balance \in Nat
  BY <1>1, <1>2 DEF BalanceInv, Hundredths
<1>4. acks' = acks \cup {AckFor(broker, order)} /\ AckFor(broker, order).request = order
  BY DEF Place, AckFor
<1> QED BY <1>1, <1>3, <1>4 DEF BalanceInv

\* A settlement only credits, and only once.
LEMMA SettleKeepsBalance ==
    ASSUME BalanceInv, NEW ack \in acks, NEW price \in Prices, Settle(ack, price)
    PROVE  BalanceInv'
<1>1. CASE IsSettled(broker, ack)
  BY <1>1 DEF Settle, settle, BalanceInv
<1>2. CASE ~IsSettled(broker, ack)
  <2> DEFINE outcome == resolve_outcome(ack.request.direction, ack.entryPrice, price)
             pnl     == pnl_for(outcome, ack.request.stake, PayoutPct)
  <2>1. outcome \in Outcomes
    BY DEF resolve_outcome, Outcomes
  <2>2. Credit(ack, pnl) \in Nat
    BY <2>1, CreditIsNoDebit DEF BalanceInv
  <2>3. TradeFor(broker, ack, price).balanceAfter = broker.balance + Credit(ack, pnl)
    BY <1>2 DEF TradeFor
  <2>4. broker'.balance = TradeFor(broker, ack, price).balanceAfter
    BY <1>2 DEF Settle, settle
  <2>5. broker'.balance \in Nat
    <3> HIDE DEF pnl
    <3> QED BY <2>2, <2>3, <2>4 DEF BalanceInv
  <2> QED BY <2>5 DEF Settle, BalanceInv
<1> QED BY <1>1, <1>2

\* The account is never overdrawn, with any number of orders open, settled in
\* any order, and settled again.
THEOREM AccountNeverOverdrawn == Spec => []NeverOverdrawn
<1>1. Init => BalanceInv
  BY BrokerConstants DEF Init, BalanceInv, NewBroker, Hundredths
<1>2. BalanceInv /\ [Next]_vars => BalanceInv'
  <2> SUFFICES ASSUME BalanceInv, [Next]_vars PROVE BalanceInv'
    OBVIOUS
  <2>1. ASSUME NEW order \in Orders, Place(order) PROVE BalanceInv'
    BY <2>1, PlaceKeepsBalance
  <2>2. ASSUME NEW order \in Orders, RefusePlace(order) PROVE BalanceInv'
    BY <2>2 DEF RefusePlace, BalanceInv
  <2>3. ASSUME NEW ack \in acks, NEW price \in Prices, Settle(ack, price) PROVE BalanceInv'
    BY <2>3, SettleKeepsBalance
  <2>4. CASE UNCHANGED vars
    BY <2>4 DEF vars, BalanceInv
  <2> QED BY <2>1, <2>2, <2>3, <2>4 DEF Next
<1>3. BalanceInv => NeverOverdrawn
  BY DEF BalanceInv, NeverOverdrawn
<1> QED BY <1>1, <1>2, <1>3, PTL DEF Spec
-----------------------------------------------------------------------------
(* Where the money is. *)

\* Order numbers tell the acknowledgements apart and have all been given out.
Numbered ==
    /\ IsFiniteSet(acks)
    /\ IsFiniteSet(DOMAIN broker.settled)
    /\ \A ack \in acks : ack.orderId \in 1..broker.nextId - 1
    /\ \A a, b \in acks : a.orderId = b.orderId => a = b

\* The broker and the acknowledgements are well-formed.
Typed == IsBroker(broker) /\ acks \subseteq OrderAck

CallsInv == Typed /\ Numbered /\ Conservation

\* Whatever is asked for, the acknowledgement of an order is well-formed.
LEMMA AckType ==
    ASSUME IsBroker(broker), NEW order \in Orders
    PROVE  AckFor(broker, order) \in OrderAck
<1>1. order \in OrderRequest /\ order.openedAt + order.expiryS \in Int
  BY CallConstants DEF Orders, OrderRequest
<1>2. broker.nextId \in Nat /\ EntryPrice \in Nat
  BY BrokerConstants DEF IsBroker
<1> QED BY <1>1, <1>2 DEF AckFor, OrderAck

\* The trade of an order not settled yet: what settling it credits is its stake
\* and its P&L.
LEMMA NewTrade ==
    ASSUME IsBroker(broker), NEW ack \in OrderAck, ~IsSettled(broker, ack), NEW price
    PROVE  LET trade == TradeFor(broker, ack, price)
           IN /\ trade \in Trade
              /\ trade.balanceAfter
                   = broker.balance + Hundredths(ack.request.stake) + trade.pnl
<1> DEFINE stake   == ack.request.stake
           outcome == resolve_outcome(ack.request.direction, ack.entryPrice, price)
           pnl     == pnl_for(outcome, stake, PayoutPct)
           after   == broker.balance + Credit(ack, pnl)
<1>1. stake \in Int /\ Hundredths(stake) \in Int
  BY DEF OrderAck, OrderRequest, Hundredths
<1>2. outcome \in Outcomes
  BY DEF resolve_outcome, Outcomes
<1>3. pnl \in Int
  <2> HIDE DEF outcome, stake
  <2>1. stake * PayoutPct \in Int
    BY <1>1, BrokerConstants
  <2> QED BY <1>1, <1>2, <2>1 DEF pnl_for, Outcomes, Hundredths
<1>4. broker.balance \in Int
  BY DEF IsBroker
<1>5. after \in Int /\ after = broker.balance + Hundredths(stake) + pnl
  <2> HIDE DEF pnl
  <2> QED BY <1>1, <1>3, <1>4 DEF Credit
<1>6. TradeFor(broker, ack, price)
        = [ack |-> ack, outcome |-> outcome, pnl |-> pnl, balanceAfter |-> after]
  BY DEF TradeFor
<1> HIDE DEF outcome, pnl, after
<1> QED BY <1>2, <1>3, <1>5, <1>6 DEF Trade

\* The sums are of integers.
LEMMA Amounts ==
    ASSUME Typed
    PROVE  /\ \A ack \in acks : Hundredths(ack.request.stake) \in Int
           /\ \A id \in DOMAIN broker.settled : broker.settled[id].pnl \in Int
           /\ broker.balance \in Int
<1>1. ASSUME NEW ack \in acks PROVE Hundredths(ack.request.stake) \in Int
  <2>1. ack.request.stake \in Int
    BY DEF Typed, OrderAck, OrderRequest
  <2> QED BY <2>1 DEF Hundredths
<1>2. ASSUME NEW id \in DOMAIN broker.settled PROVE broker.settled[id].pnl \in Int
  BY DEF Typed, IsBroker, Trade
<1> QED BY <1>1, <1>2 DEF Typed, IsBroker

\* An order that is placed takes the next number, is open, and its stake leaves the ledger.
LEMMA PlaceKeepsCalls ==
    ASSUME CallsInv, NEW order \in Orders, Place(order)
    PROVE  CallsInv'
<1> DEFINE ack == AckFor(broker, order)
           stakes == [a \in OpenAcks |-> Hundredths(a.request.stake)]
           stakes2 == [a \in OpenAcks' |-> Hundredths(a.request.stake)]
<1>1. ack \in OrderAck /\ ack.orderId = broker.nextId /\ ack.request = order
  <2>1. ack.orderId = broker.nextId /\ ack.request = order
    BY DEF AckFor
  <2> QED BY <2>1, AckType DEF CallsInv, Typed
<1>2. order.stake \in Int /\ Hundredths(order.stake) \in Int
  <2>1. order.stake \in Int
    BY CallConstants DEF Orders
  <2> QED BY <2>1 DEF Hundredths
<1>3. broker.nextId \in Nat \ {0} /\ broker.balance \in Int
  BY DEF CallsInv, Typed, IsBroker
<1>4. /\ broker'.balance = broker.balance - Hundredths(order.stake)
      /\ broker'.nextId = broker.nextId + 1
      /\ broker'.settled = broker.settled
      /\ acks' = acks \cup {ack}
  BY DEF Place, place
<1> HIDE DEF ack
<1>5. Typed'
  <2>1. broker'.balance \in Int /\ broker'.nextId \in Nat \ {0}
    BY <1>2, <1>3, <1>4
  <2>2. \A id \in DOMAIN broker.settled : id \in 1..broker.nextId - 1 /\ broker.settled[id] \in Trade
    BY DEF CallsInv, Typed, IsBroker
  <2>3. \A id \in DOMAIN broker'.settled :
           id \in 1..broker'.nextId - 1 /\ broker'.settled[id] \in Trade
    BY <1>3, <1>4, <2>2
  <2>4. acks' \subseteq OrderAck
    BY <1>1, <1>4 DEF CallsInv, Typed
  <2> QED BY <2>1, <2>3, <2>4 DEF Typed, IsBroker
<1>6. Numbered'
  <2>1. IsFiniteSet(acks')
    BY <1>4, FS_AddElement DEF CallsInv, Numbered
  <2>2. \A a \in acks : a.orderId \in Nat
    BY DEF CallsInv, Typed, OrderAck
  <2>3. \A a \in acks' : a.orderId \in 1..broker'.nextId - 1
    BY <1>1, <1>3, <1>4, <2>2 DEF CallsInv, Numbered
  <2>4. \A a, b \in acks' : a.orderId = b.orderId => a = b
    BY <1>1, <1>3, <1>4, <2>2 DEF CallsInv, Numbered
  <2> QED BY <1>4, <2>1, <2>3, <2>4 DEF CallsInv, Numbered
<1>7. Equity' = Equity
  <2>1. ack \notin acks
    BY <1>1, <1>3 DEF CallsInv, Numbered
  <2>2. ~IsSettled(broker, ack)
    BY <1>1, <1>3 DEF CallsInv, Typed, IsBroker, IsSettled
  <2>3. OpenAcks' = OpenAcks \cup {ack} /\ ack \notin OpenAcks
    BY <1>4, <2>1, <2>2 DEF OpenAcks, IsSettled
  <2>4. IsFiniteSet(OpenAcks) /\ OpenAcks \subseteq acks
    BY FS_Subset DEF CallsInv, Numbered, OpenAcks
  <2>5. stakes2[ack] = Hundredths(order.stake)
    BY <1>1, <2>3
  <2>6. \A a \in OpenAcks : stakes2[a] = stakes[a] /\ stakes[a] \in Int
    BY <2>3, <2>4, Amounts DEF CallsInv
  <2> DEFINE O == OpenAcks
  <2>7. SumFunctionOnSet(stakes2, O \cup {ack})
          = stakes2[ack] + SumFunctionOnSet(stakes2, O)
    <3> HIDE DEF stakes, stakes2
    <3>1. stakes2[ack] \in Int /\ \A a \in O : stakes2[a] \in Int
      BY <1>2, <2>5, <2>6
    <3> HIDE DEF O
    <3> QED BY <3>1, <2>3, <2>4, SumAdd DEF O
  <2>8. SumFunctionOnSet(stakes2, O) = SumFunctionOnSet(stakes, O)
           /\ SumFunctionOnSet(stakes, O) \in Int
    <3> HIDE DEF stakes, stakes2
    <3> QED BY <2>4, <2>6, SumCongruence, SumType
  <2>9. AtRisk = SumFunctionOnSet(stakes, O)
           /\ AtRisk' = SumFunctionOnSet(stakes2, O \cup {ack})
    <3>1. DOMAIN stakes = O /\ DOMAIN stakes2 = O \cup {ack}
      BY <2>3
    <3>2. AtRisk = SumFunctionOnSet(stakes, DOMAIN stakes)
      BY DEF AtRisk, SumFunction
    <3>3. AtRisk' = SumFunctionOnSet(stakes2, DOMAIN stakes2)
      BY DEF AtRisk, SumFunction
    <3> HIDE DEF stakes, stakes2, O
    <3> QED BY <3>1, <3>2, <3>3
  <2> HIDE DEF stakes, stakes2, O
  <2> QED BY <1>2, <1>3, <1>4, <2>5, <2>7, <2>8, <2>9 DEF Equity
<1>8. SettledPnl' = SettledPnl
  BY <1>4 DEF SettledPnl
<1> QED BY <1>5, <1>6, <1>7, <1>8 DEF CallsInv, Conservation

\* What settling an order for the first time changes.
LEMMA FirstSettlement ==
    ASSUME CallsInv, NEW ack \in acks, NEW price \in Prices,
           Settle(ack, price), ~IsSettled(broker, ack)
    PROVE  LET id == ack.orderId
           IN /\ broker'.nextId = broker.nextId
              /\ acks' = acks
              /\ id \notin DOMAIN broker.settled
              /\ DOMAIN broker'.settled = DOMAIN broker.settled \cup {id}
              /\ \A j \in DOMAIN broker.settled : broker'.settled[j] = broker.settled[j]
              /\ broker'.settled[id] \in Trade
              /\ broker'.balance = broker.balance + Hundredths(ack.request.stake)
                                     + broker'.settled[id].pnl
<1> DEFINE id    == ack.orderId
           trade == TradeFor(broker, ack, price)
<1>1. /\ trade \in Trade
      /\ trade.balanceAfter = broker.balance + Hundredths(ack.request.stake) + trade.pnl
  <2>1. IsBroker(broker) /\ ack \in OrderAck
    BY DEF CallsInv, Typed
  <2> QED BY <2>1, NewTrade
<1>2. broker' = [balance |-> trade.balanceAfter, nextId |-> broker.nextId,
                 settled |-> [j \in DOMAIN broker.settled \cup {id} |->
                                IF j = id THEN trade ELSE broker.settled[j]]]
  BY DEF Settle, settle
<1> HIDE DEF trade
<1>3. id \notin DOMAIN broker.settled /\ acks' = acks
  BY DEF IsSettled, Settle
<1> HIDE DEF id
<1>4. /\ broker'.balance = trade.balanceAfter
      /\ broker'.nextId = broker.nextId
      /\ broker'.settled = [j \in DOMAIN broker.settled \cup {id} |->
                                IF j = id THEN trade ELSE broker.settled[j]]
  BY <1>2
<1>5. /\ DOMAIN broker'.settled = DOMAIN broker.settled \cup {id}
      /\ \A j \in DOMAIN broker.settled : broker'.settled[j] = broker.settled[j]
      /\ broker'.settled[id] = trade
  BY <1>3, <1>4
<1> QED BY <1>1, <1>3, <1>4, <1>5 DEF id

\* A settlement moves its order from the open ones to the settled, and credits stake and P&L.
LEMMA SettleKeepsCalls ==
    ASSUME CallsInv, NEW ack \in acks, NEW price \in Prices,
           Settle(ack, price), ~IsSettled(broker, ack)
    PROVE  CallsInv'
<1> DEFINE id      == ack.orderId
           stakes  == [a \in OpenAcks |-> Hundredths(a.request.stake)]
           stakes2 == [a \in OpenAcks' |-> Hundredths(a.request.stake)]
           pnls    == [j \in DOMAIN broker.settled |-> broker.settled[j].pnl]
           pnls2   == [j \in DOMAIN broker'.settled |-> broker'.settled[j].pnl]
           stake   == Hundredths(ack.request.stake)
           pnl     == broker'.settled[id].pnl
           D       == DOMAIN broker.settled
           O       == OpenAcks'
<1>1. /\ broker'.nextId = broker.nextId
      /\ acks' = acks
      /\ id \notin D
      /\ DOMAIN broker'.settled = D \cup {id}
      /\ \A j \in D : broker'.settled[j] = broker.settled[j]
      /\ broker'.settled[id] \in Trade
      /\ broker'.balance = broker.balance + stake + pnl
  BY FirstSettlement
<1>2. stake \in Int /\ pnl \in Int /\ broker.balance \in Int
  <2>1. pnl \in Int
    BY <1>1 DEF Trade
  <2> QED BY <2>1, Amounts DEF CallsInv
<1>3. broker.nextId \in Nat \ {0}
  BY DEF CallsInv, Typed, IsBroker
<1>4. OpenAcks = O \cup {ack} /\ ack \notin O /\ IsFiniteSet(O) /\ O \subseteq acks
  <2>1. \A a \in acks : a.orderId = id => a = ack
    BY DEF CallsInv, Numbered
  <2>2. \A a \in acks : IsSettled(broker', a) <=> (IsSettled(broker, a) \/ a = ack)
    BY <1>1, <2>1 DEF IsSettled
  <2>3. OpenAcks = O \cup {ack} /\ ack \notin O /\ O \subseteq acks
    BY <1>1, <2>2 DEF OpenAcks
  <2> QED BY <2>3, FS_Subset DEF CallsInv, Numbered
<1>5. AtRisk' = AtRisk - stake
  <2>1. stakes[ack] = stake /\ \A a \in O : stakes[a] = stakes2[a] /\ stakes2[a] \in Int
    BY <1>4, Amounts DEF CallsInv
  <2>2. AtRisk = SumFunctionOnSet(stakes, O \cup {ack}) /\ AtRisk' = SumFunctionOnSet(stakes2, O)
    <3>1. DOMAIN stakes = O \cup {ack} /\ DOMAIN stakes2 = O
      BY <1>4
    <3>2. AtRisk = SumFunctionOnSet(stakes, DOMAIN stakes)
           /\ AtRisk' = SumFunctionOnSet(stakes2, DOMAIN stakes2)
      BY DEF AtRisk, SumFunction
    <3> HIDE DEF stakes, stakes2, O
    <3> QED BY <3>1, <3>2
  <2> HIDE DEF stakes, stakes2, O, stake
  <2>3. SumFunctionOnSet(stakes, O \cup {ack}) = stakes[ack] + SumFunctionOnSet(stakes, O)
    <3>1. stakes[ack] \in Int /\ \A a \in O : stakes[a] \in Int
      BY <1>2, <2>1
    <3> QED BY <1>4, <3>1, SumAdd
  <2>4. SumFunctionOnSet(stakes, O) = SumFunctionOnSet(stakes2, O)
           /\ SumFunctionOnSet(stakes2, O) \in Int
    BY <1>4, <2>1, SumCongruence, SumType
  <2> QED BY <1>2, <2>1, <2>2, <2>3, <2>4
<1>6. SettledPnl' = SettledPnl + pnl /\ SettledPnl \in Int
  <2>1. pnls2[id] = pnl /\ \A j \in D : pnls2[j] = pnls[j] /\ pnls[j] \in Int
    BY <1>1, Amounts DEF CallsInv
  <2>2. SettledPnl = SumFunctionOnSet(pnls, D) /\ SettledPnl' = SumFunctionOnSet(pnls2, D \cup {id})
    <3>1. DOMAIN pnls = D /\ DOMAIN pnls2 = D \cup {id}
      BY <1>1
    <3>2. SettledPnl = SumFunctionOnSet(pnls, DOMAIN pnls)
           /\ SettledPnl' = SumFunctionOnSet(pnls2, DOMAIN pnls2)
      BY DEF SettledPnl, SumFunction
    <3> HIDE DEF pnls, pnls2, D, id
    <3> QED BY <3>1, <3>2
  <2>3. IsFiniteSet(D)
    BY DEF CallsInv, Numbered
  <2> HIDE DEF pnls, pnls2, D, id, pnl
  <2>4. SumFunctionOnSet(pnls2, D \cup {id}) = pnls2[id] + SumFunctionOnSet(pnls2, D)
    <3>1. pnls2[id] \in Int /\ \A j \in D : pnls2[j] \in Int
      BY <1>2, <2>1
    <3> QED BY <1>1, <2>3, <3>1, SumAdd
  <2>5. SumFunctionOnSet(pnls2, D) = SumFunctionOnSet(pnls, D)
           /\ SumFunctionOnSet(pnls, D) \in Int
    BY <2>1, <2>3, SumCongruence, SumType
  <2> QED BY <1>2, <2>1, <2>2, <2>4, <2>5
<1>7. AtRisk \in Int
  <2>1. DOMAIN stakes = O \cup {ack} /\ IsFiniteSet(O \cup {ack})
    BY <1>4, FS_AddElement
  <2>2. \A a \in DOMAIN stakes : stakes[a] \in Int
    BY <1>4, Amounts DEF CallsInv
  <2>3. AtRisk = SumFunctionOnSet(stakes, DOMAIN stakes)
    BY DEF AtRisk, SumFunction
  <2> HIDE DEF stakes, O
  <2> QED BY <2>1, <2>2, <2>3, SumType
<1>8. Conservation'
  <2>1. Equity = Hundredths(StartingBalance) + SettledPnl
    BY DEF CallsInv, Conservation
  <2>2. Hundredths(StartingBalance) \in Int
    BY BrokerConstants DEF Hundredths
  <2> HIDE DEF pnl, stake, id, D, O, stakes, stakes2, pnls, pnls2
  <2> QED BY <1>1, <1>2, <1>5, <1>6, <1>7, <2>1, <2>2 DEF Equity, Conservation
<1>9. Typed'
  <2>1. \A j \in D : j \in 1..broker.nextId - 1 /\ broker.settled[j] \in Trade
    BY DEF CallsInv, Typed, IsBroker
  <2>2. id \in 1..broker.nextId - 1
    BY DEF CallsInv, Numbered
  <2>3. \A j \in DOMAIN broker'.settled :
           j \in 1..broker'.nextId - 1 /\ broker'.settled[j] \in Trade
    BY <1>1, <2>1, <2>2
  <2>4. broker'.balance \in Int
    <3> HIDE DEF pnl, stake
    <3> QED BY <1>1, <1>2
  <2> QED BY <1>1, <1>3, <2>3, <2>4 DEF Typed, IsBroker, CallsInv
<1>10. Numbered'
  BY <1>1, FS_AddElement DEF CallsInv, Numbered
<1> QED BY <1>8, <1>9, <1>10 DEF CallsInv

\* A repeated settlement changes neither account nor records, and a refused
\* order changes nothing but the reply.
LEMMA OthersKeepCalls ==
    ASSUME CallsInv, UNCHANGED <<broker, acks>>
    PROVE  CallsInv'
<1>1. AtRisk' = AtRisk /\ SettledPnl' = SettledPnl
  BY DEF AtRisk, OpenAcks, IsSettled, SettledPnl
<1>2. Typed' /\ Numbered'
  BY DEF CallsInv, Typed, IsBroker, Numbered
<1> QED BY <1>1, <1>2 DEF CallsInv, Conservation, Equity

\* A new broker: no order, and the whole balance.
LEMMA InitialCalls == Init => CallsInv
<1> SUFFICES ASSUME Init PROVE CallsInv
  OBVIOUS
<1>1. /\ broker.balance = Hundredths(StartingBalance) /\ Hundredths(StartingBalance) \in Int
      /\ broker.nextId = 1
      /\ DOMAIN broker.settled = {}
      /\ acks = {}
  BY BrokerConstants DEF Init, NewBroker, Hundredths
<1>2. Typed
  BY <1>1 DEF Typed, IsBroker
<1>3. Numbered
  BY <1>1, FS_EmptySet DEF Numbered
<1>4. AtRisk = 0
  <2> DEFINE stakes == [a \in OpenAcks |-> Hundredths(a.request.stake)]
  <2>1. DOMAIN stakes = {}
    BY <1>1 DEF OpenAcks
  <2>2. AtRisk = SumFunctionOnSet(stakes, DOMAIN stakes)
    BY DEF AtRisk, SumFunction
  <2> HIDE DEF stakes
  <2> QED BY <2>1, <2>2, SumEmpty
<1>5. SettledPnl = 0
  <2> DEFINE pnls == [id \in DOMAIN broker.settled |-> broker.settled[id].pnl]
  <2>1. DOMAIN pnls = {}
    BY <1>1
  <2>2. SettledPnl = SumFunctionOnSet(pnls, DOMAIN pnls)
    BY DEF SettledPnl, SumFunction
  <2> HIDE DEF pnls
  <2> QED BY <2>1, <2>2, SumEmpty
<1> QED BY <1>1, <1>2, <1>3, <1>4, <1>5 DEF CallsInv, Conservation, Equity

\* The invariant behind the two theorems that follow, whatever is called: place
\* and settle keep the account, the acknowledgements and the trades in step.
THEOREM CallsInvariance == Spec => []CallsInv
<1>1. CallsInv /\ [Next]_vars => CallsInv'
  <2> SUFFICES ASSUME CallsInv, [Next]_vars PROVE CallsInv'
    OBVIOUS
  <2>1. ASSUME NEW order \in Orders, Place(order) PROVE CallsInv'
    BY <2>1, PlaceKeepsCalls
  <2>2. ASSUME NEW order \in Orders, RefusePlace(order) PROVE CallsInv'
    BY <2>2, OthersKeepCalls DEF RefusePlace
  <2>3. ASSUME NEW ack \in acks, NEW price \in Prices, Settle(ack, price) PROVE CallsInv'
    <3>1. CASE IsSettled(broker, ack)
      BY <2>3, <3>1, OthersKeepCalls DEF Settle, settle
    <3>2. CASE ~IsSettled(broker, ack)
      BY <2>3, <3>2, SettleKeepsCalls
    <3> QED BY <3>1, <3>2
  <2>4. CASE UNCHANGED vars
    BY <2>4, OthersKeepCalls DEF vars
  <2> QED BY <2>1, <2>2, <2>3, <2>4 DEF Next
<1> QED BY <1>1, InitialCalls, PTL DEF Spec

\* What settle has returned for an order is the trade stored under its number.
ReturnsInv ==
    \A r \in returned :
        /\ r.orderId \in DOMAIN broker.settled
        /\ r = [orderId |-> r.orderId, trade |-> broker.settled[r.orderId]]

\* No call drops or rewrites a stored trade.
LEMMA StoredTradesStay ==
    ASSUME CallsInv, [Next]_vars
    PROVE  \A id \in DOMAIN broker.settled :
             id \in DOMAIN broker'.settled /\ broker'.settled[id] = broker.settled[id]
<1>1. ASSUME NEW order \in Orders, Place(order) PROVE broker'.settled = broker.settled
  BY <1>1 DEF Place, place
<1>2. ASSUME NEW order \in Orders, RefusePlace(order) PROVE broker' = broker
  BY <1>2 DEF RefusePlace
<1>3. ASSUME NEW ack \in acks, NEW price \in Prices, Settle(ack, price)
      PROVE  \A id \in DOMAIN broker.settled :
               id \in DOMAIN broker'.settled /\ broker'.settled[id] = broker.settled[id]
  <2>1. CASE IsSettled(broker, ack)
    BY <1>3, <2>1 DEF Settle, settle
  <2>2. CASE ~IsSettled(broker, ack)
    BY <1>3, <2>2, FirstSettlement
  <2> QED BY <2>1, <2>2
<1>4. CASE UNCHANGED vars
  BY <1>4 DEF vars
<1> QED BY <1>1, <1>2, <1>3, <1>4 DEF Next

\* A settlement, the first or a repeated one, returns the trade that is stored after it.
LEMMA SettleReturnsStored ==
    ASSUME CallsInv, NEW ack \in acks, NEW price \in Prices, Settle(ack, price)
    PROVE  /\ ack.orderId \in DOMAIN broker'.settled
           /\ returned' = returned \cup
                {[orderId |-> ack.orderId, trade |-> broker'.settled[ack.orderId]]}
<1> DEFINE id    == ack.orderId
           trade == TradeFor(broker, ack, price)
<1>1. returned' = returned \cup {[orderId |-> id, trade |-> trade]}
  BY DEF Settle
<1>2. CASE IsSettled(broker, ack)
  <2>1. broker' = broker /\ trade = broker.settled[id] /\ id \in DOMAIN broker.settled
    BY <1>2 DEF Settle, settle, TradeFor, IsSettled
  <2> QED BY <1>1, <2>1
<1>3. CASE ~IsSettled(broker, ack)
  <2>1. broker'.settled = [j \in DOMAIN broker.settled \cup {id} |->
                             IF j = id THEN trade ELSE broker.settled[j]]
    BY <1>3 DEF Settle, settle
  <2> HIDE DEF trade, id
  <2>2. id \in DOMAIN broker'.settled /\ broker'.settled[id] = trade
    BY <2>1
  <2> QED BY <1>1, <2>2 DEF id
<1> QED BY <1>2, <1>3

\* So whatever was returned stays what is stored.
LEMMA ReturnsStep ==
    ASSUME CallsInv, ReturnsInv, [Next]_vars
    PROVE  ReturnsInv'
<1>1. ASSUME NEW r \in returned
      PROVE  /\ r.orderId \in DOMAIN broker'.settled
             /\ r = [orderId |-> r.orderId, trade |-> broker'.settled[r.orderId]]
  BY StoredTradesStay DEF ReturnsInv
<1>2. CASE returned' = returned
  BY <1>1, <1>2 DEF ReturnsInv
<1>3. ASSUME NEW ack \in acks, NEW price \in Prices, Settle(ack, price) PROVE ReturnsInv'
  <2> DEFINE new == [orderId |-> ack.orderId, trade |-> broker'.settled[ack.orderId]]
  <2>1. ack.orderId \in DOMAIN broker'.settled /\ returned' = returned \cup {new}
    BY <1>3, SettleReturnsStored
  <2>2. new.orderId = ack.orderId /\ new = [orderId |-> new.orderId,
                                            trade |-> broker'.settled[new.orderId]]
    OBVIOUS
  <2> HIDE DEF new
  <2> QED BY <1>1, <2>1, <2>2 DEF ReturnsInv
<1> QED BY <1>2, <1>3 DEF Next, Place, RefusePlace, vars

\* What callers were told agrees with what the broker stores, whatever is called.
THEOREM ReturnsInvariance == Spec => []ReturnsInv
<1>1. Init => ReturnsInv
  BY DEF Init, ReturnsInv
<1> QED BY <1>1, ReturnsStep, CallsInvariance, PTL DEF Spec

\* The broker's records stay well-formed and its trades stay under the numbers
\* of orders it accepted; callers only ever get such trades.
THEOREM CallsTypeCorrect == Spec => []TypeOK
<1>1. CallsInv /\ ReturnsInv => TypeOK
  <2> SUFFICES ASSUME CallsInv, ReturnsInv PROVE TypeOK
    OBVIOUS
  <2>1. IsBroker(broker) /\ acks \subseteq OrderAck
    BY DEF CallsInv, Typed
  <2>2. ASSUME NEW r \in returned PROVE r \in [orderId: Nat, trade: Trade]
    <3>1. /\ r.orderId \in DOMAIN broker.settled
          /\ r = [orderId |-> r.orderId, trade |-> broker.settled[r.orderId]]
      BY DEF ReturnsInv
    <3>2. broker.nextId \in Nat /\ r.orderId \in 1..broker.nextId - 1
          /\ broker.settled[r.orderId] \in Trade
      BY <2>1, <3>1 DEF IsBroker
    <3>3. r.orderId \in Nat
      BY <3>2
    <3> QED BY <3>1, <3>2, <3>3
  <2> QED BY <2>1, <2>2 DEF TypeOK
<1> QED BY <1>1, CallsInvariance, ReturnsInvariance, PTL

\* No call makes or loses money: balance and open stakes are always the
\* starting balance and the P&L of what was settled.
THEOREM MoneyIsConserved == Spec => []Conservation
<1>1. CallsInv => Conservation
  BY DEF CallsInv
<1> QED BY <1>1, CallsInvariance, PTL

\* Settling an order again, at any price and after whatever else was called,
\* returns the trade it returned first and moves no money; nor does a refusal.
THEOREM SettledOnce == Spec => SettleIsIdempotent
<1> DEFINE Same  == \A first, again \in returned' :
                      first.orderId = again.orderId => first.trade = again.trade
           Quiet == broker'.nextId = broker.nextId
                    /\ DOMAIN broker'.settled = DOMAIN broker.settled
                    => broker'.balance = broker.balance
<1>1. ReturnsInv' => Same
  <2> SUFFICES ASSUME ReturnsInv', NEW first \in returned', NEW again \in returned',
                      first.orderId = again.orderId
               PROVE  first.trade = again.trade
    OBVIOUS
  <2>1. /\ first = [orderId |-> first.orderId, trade |-> broker'.settled[first.orderId]]
        /\ again = [orderId |-> again.orderId, trade |-> broker'.settled[again.orderId]]
    BY DEF ReturnsInv
  <2>2. /\ first.trade = broker'.settled[first.orderId]
        /\ again.trade = broker'.settled[again.orderId]
    BY <2>1
  <2> QED BY <2>2
<1>2. CallsInv /\ [Next]_vars => Quiet
  <2> SUFFICES ASSUME CallsInv, [Next]_vars, broker'.nextId = broker.nextId,
                      DOMAIN broker'.settled = DOMAIN broker.settled
               PROVE  broker'.balance = broker.balance
    OBVIOUS
  <2>1. ASSUME NEW order \in Orders, Place(order) PROVE FALSE
    <3>1. broker'.nextId = broker.nextId + 1
      BY <2>1 DEF Place, place
    <3> QED BY <3>1 DEF CallsInv, Typed, IsBroker
  <2>2. ASSUME NEW order \in Orders, RefusePlace(order) PROVE broker'.balance = broker.balance
    BY <2>2 DEF RefusePlace
  <2>3. ASSUME NEW ack \in acks, NEW price \in Prices, Settle(ack, price)
        PROVE  broker'.balance = broker.balance
    <3>1. IsSettled(broker, ack)
      BY <2>3, FirstSettlement
    <3> QED BY <2>3, <3>1 DEF Settle, settle
  <2>4. CASE UNCHANGED vars
    BY <2>4 DEF vars
  <2> QED BY <2>1, <2>2, <2>3, <2>4 DEF Next
<1> QED BY <1>1, <1>2, CallsInvariance, ReturnsInvariance, PTL DEF Spec, SettleIsIdempotent
=============================================================================
