--------------------------- MODULE PaperBrokerCalls ---------------------------
(***************************************************************************)
(* A PaperBrokerAdapter on its own, as ports/broker.py lets any caller use *)
(* it: several orders open at once, settled in any order, and settled more *)
(* than once, at prices that need not agree.                               *)
(***************************************************************************)
EXTENDS PaperBroker, FiniteSets, Functions

CONSTANTS
    Stakes,     \* stakes asked for, acceptable or not
    Expiries,   \* expiry_s values asked for, supported or not
    Prices,     \* expiry quotes
    MaxOrders   \* bound: orders accepted in one behaviour

ASSUME CallConstants ==
    /\ Stakes \subseteq Int
    /\ Expiries \subseteq Int
    /\ Prices \subseteq Nat

VARIABLES
    acks,       \* the acknowledgements callers hold
    reply,      \* what the last call returned or raised
    returned    \* history: the trades settle returned, and for which order

vars == <<broker, acks, reply, returned>>

TypeOK ==
    /\ IsBroker(broker)
    /\ acks \subseteq OrderAck
    /\ returned \subseteq [orderId: Nat, trade: Trade]

Init ==
    /\ broker = NewBroker
    /\ acks = {}
    /\ reply = "NONE"
    /\ returned = {}

Orders == {[direction |-> d, stake |-> s, expiryS |-> e, openedAt |-> 0] :
             d \in Directions, s \in Stakes, e \in Expiries}

Place(order) ==
    /\ broker.nextId <= MaxOrders
    /\ Verdict(broker, order) = "ACCEPTED"
    /\ broker' = place(broker, order)
    /\ acks' = acks \cup {AckFor(broker, order)}
    /\ reply' = "ACK"
    /\ UNCHANGED returned

RefusePlace(order) ==
    /\ Verdict(broker, order) # "ACCEPTED"
    /\ reply' = Verdict(broker, order)
    /\ UNCHANGED <<broker, acks, returned>>

Settle(ack, price) ==
    /\ reply' = TradeFor(broker, ack, price)
    /\ broker' = settle(broker, ack, price)
    /\ returned' = returned \cup {[orderId |-> ack.orderId, trade |-> reply']}
    /\ UNCHANGED acks

Next ==
    \/ \E order \in Orders : Place(order) \/ RefusePlace(order)
    \/ \E ack \in acks, price \in Prices : Settle(ack, price)

Spec == Init /\ [][Next]_vars

-----------------------------------------------------------------------------
OpenAcks == {ack \in acks : ~IsSettled(broker, ack)}
AtRisk   == SumFunction([ack \in OpenAcks |-> Hundredths(ack.request.stake)])
Equity   == broker.balance + AtRisk

SettledPnl == SumFunction([id \in DOMAIN broker.settled |-> broker.settled[id].pnl])

\* Money is conserved: what the account holds and what is at stake in open
\* orders is the starting balance plus the P&L of every settled trade, for any
\* number of open orders and any order of settling them (place, settle, Balance).
Conservation == Equity = Hundredths(StartingBalance) + SettledPnl

\* The account is never overdrawn, whatever is open (Balance.debit,
\* adapters/paper/balance.py:21, raises rather than go negative).
NeverOverdrawn == broker.balance >= 0

\* settle is idempotent per order (ports/broker.py:63): whenever and at
\* whatever price it is called again, it returns the trade it returned first;
\* and a call that neither places an order nor settles a new one moves no money.
SettleIsIdempotent ==
    [][/\ \A first, again \in returned' :
            first.orderId = again.orderId => first.trade = again.trade
       /\ /\ broker'.nextId = broker.nextId
          /\ DOMAIN broker'.settled = DOMAIN broker.settled
          => broker'.balance = broker.balance]_vars
=============================================================================
