--------------------------- MODULE MACrossoverBars ---------------------------
(***************************************************************************)
(* The crossover strategy on its own, fed any closing prices and reset at  *)
(* any time.  `fed' is everything it was fed since the last reset; the     *)
(* signals are compared with a definition over that history.               *)
(***************************************************************************)
EXTENDS MACrossover

CONSTANTS
    Prices,   \* closing prices
    MaxBars   \* bound: bars between two resets

ASSUME BarsConstants == Prices \subseteq Int

VARIABLES fed, signal

vars == <<closes, fed, signal>>

Init == closes = << >> /\ fed = << >> /\ signal = NoSignal

OnCandle(close) ==
    /\ Len(fed) < MaxBars
    /\ closes' = Push(closes, close)
    /\ signal' = Signal(closes')
    /\ fed' = Append(fed, close)

Reset ==
    /\ closes' = << >>
    /\ fed' = << >>
    /\ signal' = NoSignal

Next == Reset \/ \E close \in Prices : OnCandle(close)

Spec == Init /\ [][Next]_vars

-----------------------------------------------------------------------------
\* The sign of the fast mean minus the slow mean of the bars up to the n-th:
\* every fast bar against every slow bar, each pair once.
LeadAt(n) ==
    LET fast == n - FastPeriod + 1..n
        slow == n - SlowPeriod + 1..n
    IN SumFunction([i \in fast |-> SumFunction([j \in slow |-> fed[i] - fed[j]])])

\* A signal is given exactly when there are two slow means to compare and
\* the fast mean has just passed the slow one, in that direction; the window
\* of slow + 1 bars is always enough to tell, whatever came before it.
SignalIsACrossing ==
    LET n == Len(fed)
    IN /\ signal = "CALL" <=> n > SlowPeriod /\ LeadAt(n - 1) <= 0 /\ LeadAt(n) > 0
       /\ signal = "PUT"  <=> n > SlowPeriod /\ LeadAt(n - 1) >= 0 /\ LeadAt(n) < 0

\* CALL and PUT are mirror images: prices reflected about any level would
\* have given the opposite signal.
MirroredPricesMirrorSignals ==
    \A level \in Prices :
        LET mirrored == [i \in DOMAIN closes |-> 2 * level - closes[i]]
        IN /\ Signal(closes) = "CALL" <=> Signal(mirrored) = "PUT"
           /\ Signal(closes) = "PUT"  <=> Signal(mirrored) = "CALL"
=============================================================================
