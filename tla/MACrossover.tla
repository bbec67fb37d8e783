----------------------------- MODULE MACrossover -----------------------------
(***************************************************************************)
(* domain/strategy/ma_crossover.py: the SMA(fast)/SMA(slow) crossover      *)
(* strategy.  Its state is `closes', a deque of at most slow + 1 closing   *)
(* prices.  Means are compared by cross-multiplication, which is exact;    *)
(* the code divides Decimals of 28 digits.                                 *)
(***************************************************************************)
EXTENDS Integers, Sequences, SequencesExt

CONSTANTS
    FastPeriod,  \* fast_period
    SlowPeriod,  \* slow_period
    NoSignal     \* on_candle's None

\* __init__ raises ValueError otherwise.
ASSUME CrossoverConstants ==
    /\ FastPeriod \in Nat \ {0}
    /\ SlowPeriod \in Nat
    /\ FastPeriod < SlowPeriod
    /\ NoSignal \notin {"CALL", "PUT"}

VARIABLE closes

warmup_bars == SlowPeriod + 1

\* Mutant: a deque of slow + 2 bars.
LongDeque(window, close) ==
    IF Len(window) <= warmup_bars THEN Append(window, close)
    ELSE Append(Tail(window), close)

\* _closes.append, at maxlen = slow + 1.
Push(window, close) ==
    IF Len(window) < warmup_bars THEN Append(window, close)
    ELSE Append(Tail(window), close)

Total(s) == SumFunction(s)

\* Which is higher, the mean of the last FastPeriod bars of s or that of all
\* its bars: positive when the fast one is, zero when they are equal.
Lead(s) == Len(s) * Total(SubSeq(s, Len(s) - FastPeriod + 1, Len(s)))
           - FastPeriod * Total(s)

\* Mutant: only an upward crossing may start from a touch.
LopsidedCrossing(prev, curr) ==
    CASE prev <= 0 /\ curr > 0 -> "CALL"
      [] prev > 0 /\ curr < 0  -> "PUT"
      [] OTHER                 -> NoSignal

\* The direction in which the lead crosses zero from one bar to the next; a
\* crossing may start from a touch and may not end in one.
Crossing(prev, curr) ==
    CASE prev <= 0 /\ curr > 0 -> "CALL"
      [] prev >= 0 /\ curr < 0 -> "PUT"
      [] OTHER                 -> NoSignal

\* What on_candle answers once the window holds the new close.
Signal(window) ==
    IF Len(window) < warmup_bars THEN NoSignal
    ELSE Crossing(Lead(Front(window)), Lead(Tail(window)))
=============================================================================
