--------------------------- MODULE TradingContract ---------------------------
(***************************************************************************)
(* What a trading session promises whoever funds it, without candles,      *)
(* orders or ledgers: at most one stake is exposed at a time, it is never  *)
(* more than the equity, the equity moves only when an exposure ends and   *)
(* then by the loss of that stake, by nothing, or by its payout, and once  *)
(* trading has stopped nothing is exposed again.                           *)
(***************************************************************************)
EXTENDS Integers

CONSTANTS StartEquity, Stakes, PayoutPct

VARIABLES
    exposed,  \* the stake at risk, 0 when none is
    equity,   \* what the session is worth, in hundredths
    trading   \* FALSE once the session has stopped for good

contractVars == <<exposed, equity, trading>>

Init == exposed = 0 /\ equity = StartEquity /\ trading = TRUE

\* s may be staked out of an equity of e.
Affordable(s, e) == s > 0 /\ 100 * s <= e

Expose(s) ==
    /\ trading
    /\ exposed = 0
    /\ Affordable(s, equity)
    /\ exposed' = s
    /\ UNCHANGED <<equity, trading>>

\* The exposure ends: a loss, a tie or a win.
Resolve ==
    /\ trading
    /\ exposed > 0
    /\ equity' \in {equity - 100 * exposed, equity, equity + exposed * PayoutPct}
    /\ trading' \in BOOLEAN

Close == Resolve /\ exposed' = 0

\* One exposure ends and another begins on the same candle.
Turn(s) ==
    /\ Resolve
    /\ trading'
    /\ Affordable(s, equity')
    /\ exposed' = s

Next == Close \/ \E s \in Stakes : Expose(s) \/ Turn(s)

Spec == Init /\ [][Next]_contractVars
=============================================================================
