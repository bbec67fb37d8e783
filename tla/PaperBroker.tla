----------------------------- MODULE PaperBroker -----------------------------
(***************************************************************************)
(* adapters/paper/broker.py and adapters/paper/balance.py: the in-memory   *)
(* broker.  Its state is the record `broker': the ledger balance, the next *)
(* order number and the trades already settled, by order number.  An       *)
(* OrderAck carries its OrderRequest, flattened here; times are seconds.   *)
(***************************************************************************)
EXTENDS Settlement

CONSTANTS
    StartingBalance,  \* starting_balance
    PayoutPct,        \* payout_rate, in percent
    EntryPrice        \* _PAPER_ENTRY_PRICE

ASSUME BrokerConstants ==
    /\ StartingBalance \in Nat
    /\ PayoutPct \in Nat
    /\ EntryPrice \in Nat

VARIABLE broker

SUPPORTED_EXPIRY_SECONDS == {60, 300}

OrderRequest == [direction: Directions, stake: Int, expiryS: Int, openedAt: Nat]
OrderAck     == [orderId: Nat, request: OrderRequest, expiryAt: Int, entryPrice: Nat]
Trade        == [ack: OrderAck, outcome: Outcomes, pnl: Int, balanceAfter: Int]

\* What a broker's state always is, with the settled trades under their order
\* numbers.
IsBroker(b) ==
    /\ b.balance \in Int
    /\ b.nextId \in Nat \ {0}
    /\ \A id \in DOMAIN b.settled : id \in 1..b.nextId - 1 /\ b.settled[id] \in Trade

NewBroker == [balance |-> Hundredths(StartingBalance), nextId |-> 1, settled |-> << >>]

\* Mutant: the stake is not compared with the balance.
IgnoresBalance(b, order) ==
    IF order.stake <= 0 THEN "INSUFFICIENT_BALANCE"
    ELSE IF order.expiryS \notin SUPPORTED_EXPIRY_SECONDS THEN "UNSUPPORTED_EXPIRY"
    ELSE "ACCEPTED"
\* Mutant: a stake equal to the whole balance is refused.
RefusesLastStake(b, order) ==
    IF order.stake <= 0 \/ Hundredths(order.stake) >= b.balance
    THEN "INSUFFICIENT_BALANCE"
    ELSE IF order.expiryS \notin SUPPORTED_EXPIRY_SECONDS THEN "UNSUPPORTED_EXPIRY"
    ELSE "ACCEPTED"

\* The two checks place makes before it takes money, in their order.
Verdict(b, order) ==
    IF order.stake <= 0 \/ Hundredths(order.stake) > b.balance
    THEN "INSUFFICIENT_BALANCE"
    ELSE IF order.expiryS \notin SUPPORTED_EXPIRY_SECONDS THEN "UNSUPPORTED_EXPIRY"
    ELSE "ACCEPTED"

\* An accepted place: a fresh order number, and Balance.debit of the stake
\* (whose own check repeats one the verdict has made).
place(b, order) ==
    [balance |-> b.balance - Hundredths(order.stake),
     nextId  |-> b.nextId + 1,
     settled |-> b.settled]

\* Mutant: the acknowledgement carries the next order's number.
NumbersNext(b, order) ==
    [orderId |-> b.nextId + 1, request |-> order,
     expiryAt |-> order.openedAt + order.expiryS, entryPrice |-> EntryPrice]

\* The acknowledgement that place returns.
AckFor(b, order) ==
    [orderId |-> b.nextId, request |-> order,
     expiryAt |-> order.openedAt + order.expiryS, entryPrice |-> EntryPrice]

\* Mutant: settle has no memory.
NeverSettled(b, ack) == FALSE

IsSettled(b, ack) == ack.orderId \in DOMAIN b.settled

\* Mutant: the stake debited by place is not returned.
KeepsStake(ack, pnl) == pnl

\* What settle credits: stake and profit (WIN), nothing (LOSS), stake (TIE).
Credit(ack, pnl) == Hundredths(ack.request.stake) + pnl

\* Mutant: a repeated settle computes its answer afresh, and stores nothing.
Recomputes(b, ack, price) ==
    LET outcome == resolve_outcome(ack.request.direction, ack.entryPrice, price)
        pnl     == pnl_for(outcome, ack.request.stake, PayoutPct)
    IN [ack |-> ack, outcome |-> outcome, pnl |-> pnl,
        balanceAfter |-> b.balance + Credit(ack, pnl)]

\* The Trade that settle returns: the stored one when the order is settled.
TradeFor(b, ack, price) ==
    IF IsSettled(b, ack) THEN b.settled[ack.orderId]
    ELSE LET outcome == resolve_outcome(ack.request.direction, ack.entryPrice, price)
             pnl     == pnl_for(outcome, ack.request.stake, PayoutPct)
         IN [ack |-> ack, outcome |-> outcome, pnl |-> pnl,
             balanceAfter |-> b.balance + Credit(ack, pnl)]

\* What settle leaves: the credit, and the trade stored under its order.
settle(b, ack, price) ==
    IF IsSettled(b, ack) THEN b
    ELSE LET trade == TradeFor(b, ack, price)
         IN [balance |-> trade.balanceAfter,
             nextId  |-> b.nextId,
             settled |-> [id \in DOMAIN b.settled \cup {ack.orderId} |->
                            IF id = ack.orderId THEN trade ELSE b.settled[id]]]
=============================================================================
