-------------------------- MODULE MACrossoverProofs --------------------------
(***************************************************************************)
(* Theorems about the crossover strategy alone (MACrossoverBars), for any  *)
(* two periods, any integer prices and a stream of any length.             *)
(***************************************************************************)
EXTENDS MACrossoverBars, Sums

-----------------------------------------------------------------------------
(* Totals and leads. *)

\* Sums of integer prices are integers,
LEMMA TotalType == ASSUME NEW s \in Seq(Int) PROVE Total(s) \in Int
<1>1. Total(s) = SumFunctionOnSet(s, 1..Len(s)) /\ IsFiniteSet(1..Len(s))
  BY FS_Interval DEF Total, SumFunction
<1>2. \A i \in 1..Len(s) : s[i] \in Int
  OBVIOUS
<1> QED BY <1>1, <1>2, SumType

\* s is what stands in q behind its first m values.
IsPart(s, q, m) ==
    /\ m \in Nat /\ m + Len(s) <= Len(q)
    /\ \A i \in 1..Len(s) : s[i] = q[m + i]

\* The total of a part of q is that of the places it was taken from.
LEMMA TotalOfPart ==
    ASSUME NEW s \in Seq(Int), NEW q \in Seq(Int), NEW m, IsPart(s, q, m)
    PROVE  Total(s) = SumFunctionOnSet(q, m + 1..m + Len(s))
<1> DEFINE S == 1..Len(s)
<1>1. Total(s) = SumFunctionOnSet(s, S) /\ IsFiniteSet(S)
  BY FS_Interval DEF Total, SumFunction
<1>2. AreMoved(s, q, S, m)
  BY DEF AreMoved, IsPart
<1>3. Moved(S, m) = m + 1..m + Len(s)
  <2>1. ASSUME NEW j \in m + 1..m + Len(s) PROVE j \in Moved(S, m)
    <3>1. j - m \in S /\ j = m + (j - m)
      BY DEF IsPart
    <3> QED BY <3>1 DEF Moved
  <2>2. ASSUME NEW j \in Moved(S, m) PROVE j \in m + 1..m + Len(s)
    BY <2>2 DEF Moved, IsPart
  <2> QED BY <2>1, <2>2
<1> HIDE DEF S
<1>4. SumFunctionOnSet(s, S) = SumFunctionOnSet(q, Moved(S, m))
  BY <1>1, <1>2, SumShift
<1> QED BY <1>1, <1>3, <1>4

\* The lead in terms of the whole history, in which LeadAt and Lead agree.
LeadOf(q, n) ==
    SlowPeriod * SumFunctionOnSet(q, n - FastPeriod + 1..n)
      - FastPeriod * SumFunctionOnSet(q, n - SlowPeriod + 1..n)

\* The lead the deque gives is the lead of the history at the deque's place in it.
LEMMA LeadOfWindow ==
    ASSUME NEW s \in Seq(Int), Len(s) = SlowPeriod, NEW q \in Seq(Int), NEW m,
           IsPart(s, q, m)
    PROVE  Lead(s) = LeadOf(q, m + SlowPeriod)
<1> DEFINE k == SlowPeriod - FastPeriod
           t == SubSeq(s, k + 1, SlowPeriod)
<1>1. /\ FastPeriod \in Nat /\ SlowPeriod \in Nat /\ k \in Nat /\ k + FastPeriod = SlowPeriod
      /\ m \in Nat /\ m + SlowPeriod <= Len(q)
  BY CrossoverConstants DEF IsPart
<1> HIDE DEF k
<1>2. /\ t \in Seq(Int) /\ Len(t) = FastPeriod
      /\ \A i \in 1..FastPeriod : t[i] = s[k + i]
  BY <1>1
<1> HIDE DEF t
<1>3. ASSUME NEW i \in 1..FastPeriod PROVE t[i] = q[(m + k) + i]
  <2>1. k + i \in 1..SlowPeriod
    BY <1>1
  <2>2. s[k + i] = q[m + (k + i)]
    BY <2>1 DEF IsPart
  <2>3. m + (k + i) = (m + k) + i
    BY <1>1
  <2> QED BY <1>2, <2>2, <2>3
<1>4. IsPart(t, q, m + k)
  BY <1>1, <1>2, <1>3 DEF IsPart
<1>5. Total(t) = SumFunctionOnSet(q, (m + k) + 1..(m + k) + FastPeriod)
  BY <1>2, <1>4, TotalOfPart
<1>6. Total(s) = SumFunctionOnSet(q, m + 1..m + SlowPeriod)
  BY TotalOfPart
<1>7. /\ (m + k) + FastPeriod = m + SlowPeriod
      /\ (m + k) + 1 = (m + SlowPeriod) - FastPeriod + 1
      /\ m + 1 = (m + SlowPeriod) - SlowPeriod + 1
      /\ SlowPeriod - FastPeriod + 1 = k + 1
  BY <1>1
<1> QED BY <1>5, <1>6, <1>7 DEF Lead, LeadOf, t

\* Comparing every fast bar with every slow one compares the means.
LEMMA LeadOfPairs ==
    ASSUME fed \in Seq(Int), NEW n \in SlowPeriod..Len(fed)
    PROVE  LeadAt(n) = LeadOf(fed, n)
<1> DEFINE fast == n - FastPeriod + 1..n
           slow == n - SlowPeriod + 1..n
           inner(i) == [j \in slow |-> fed[i] - fed[j]]
           outer == [i \in fast |-> SumFunction(inner(i))]
           total == SumFunctionOnSet(fed, slow)
<1>1. FastPeriod \in Nat /\ SlowPeriod \in Nat /\ FastPeriod < SlowPeriod
      /\ n \in Nat /\ n >= SlowPeriod /\ n <= Len(fed)
  BY CrossoverConstants
<1>2. /\ IsFiniteSet(fast) /\ Cardinality(fast) = FastPeriod
      /\ IsFiniteSet(slow) /\ Cardinality(slow) = SlowPeriod
  <2>1. n - FastPeriod + 1 \in Int /\ n - SlowPeriod + 1 \in Int /\ n \in Int
    BY <1>1
  <2>2. /\ IsFiniteSet(fast) /\ IsFiniteSet(slow)
        /\ Cardinality(fast) = IF n - FastPeriod + 1 > n THEN 0 ELSE n - (n - FastPeriod + 1) + 1
        /\ Cardinality(slow) = IF n - SlowPeriod + 1 > n THEN 0 ELSE n - (n - SlowPeriod + 1) + 1
    BY <2>1, FS_Interval
  <2> HIDE DEF fast, slow
  <2> QED BY <1>1, <2>2
<1>3. \A i \in fast \cup slow : fed[i] \in Int
  BY <1>1
<1>4. ASSUME NEW i \in fast PROVE outer[i] = SlowPeriod * fed[i] + (-total)
  <2>1. outer[i] = SumFunctionOnSet(inner(i), slow)
    BY DEF SumFunction
  <2>2. \A j \in slow : fed[j] \in Int /\ inner(i)[j] = (-1) * fed[j] + fed[i]
    BY <1>3
  <2>3. fed[i] \in Int /\ -1 \in Int
    BY <1>3
  <2> DEFINE g == inner(i)
  <2> HIDE DEF g, slow, fast, outer
  <2>4. SumFunctionOnSet(g, slow) = (-1) * SumFunctionOnSet(fed, slow)
                                      + Cardinality(slow) * fed[i]
    <3>1. IsAffine(g, fed, slow, -1, fed[i])
      BY <2>2, <2>3 DEF IsAffine, g
    <3> QED BY <1>2, <3>1, SumAffine
  <2>5. SumFunctionOnSet(fed, slow) \in Int
    BY <1>2, <1>3, SumType
  <2> QED BY <1>1, <1>2, <2>1, <2>3, <2>4, <2>5 DEF g
<1>5. LeadAt(n) = SumFunctionOnSet(outer, fast)
  BY DEF LeadAt, SumFunction
<1>6. total \in Int
  <2> HIDE DEF slow
  <2> QED BY <1>2, <1>3, SumType
<1> HIDE DEF outer, fast, slow, total
<1>7. SumFunctionOnSet(outer, fast) = SlowPeriod * SumFunctionOnSet(fed, fast)
                                        + Cardinality(fast) * (-total)
  <2>1. IsAffine(outer, fed, fast, SlowPeriod, -total)
    BY <1>1, <1>3, <1>4, <1>6 DEF IsAffine
  <2> QED BY <1>2, <2>1, SumAffine
<1>8. SumFunctionOnSet(fed, fast) \in Int
  BY <1>2, <1>3, SumType
<1>9. FastPeriod * (-total) = -(FastPeriod * total)
  BY <1>1, <1>6
<1>10. SlowPeriod * SumFunctionOnSet(fed, fast) \in Int /\ FastPeriod * total \in Int
  BY <1>1, <1>6, <1>8
<1>11. LeadAt(n) = SlowPeriod * SumFunctionOnSet(fed, fast) - FastPeriod * total
  BY <1>2, <1>5, <1>7, <1>9, <1>10
<1> QED BY <1>11 DEF LeadOf, fast, slow, total

-----------------------------------------------------------------------------
(* The deque. *)

\* The deque holds the last bars of the history, slow + 1 of them as soon as
\* there are so many, and the last answer is the one for it.
DequeInv ==
    /\ fed \in Seq(Prices)
    /\ closes \in Seq(Prices)
    /\ Len(closes) = IF Len(fed) < warmup_bars THEN Len(fed) ELSE warmup_bars
    /\ IsPart(closes, fed, Len(fed) - Len(closes))
    /\ signal = Signal(closes)

\* A candle keeps the deque the end of the history.
LEMMA CandleKeepsDeque ==
    ASSUME DequeInv, NEW close \in Prices, OnCandle(close)
    PROVE  DequeInv'
<1> DEFINE m == Len(fed) - Len(closes)
           n == Len(fed)
<1>1. /\ fed' = Append(fed, close) /\ closes' = Push(closes, close)
      /\ signal' = Signal(closes')
      /\ fed \in Seq(Prices) /\ closes \in Seq(Prices)
      /\ Len(closes) = IF n < warmup_bars THEN n ELSE warmup_bars
      /\ warmup_bars \in Nat /\ warmup_bars > 1
  BY CrossoverConstants DEF DequeInv, OnCandle, warmup_bars
<1>2. fed' \in Seq(Prices) /\ Len(fed') = n + 1 /\ n \in Nat /\ fed'[n + 1] = close
      /\ \A i \in 1..n : fed'[i] = fed[i]
  BY <1>1
<1>3. m \in Nat /\ m + Len(closes) = n /\ \A i \in 1..Len(closes) : closes[i] = fed[m + i]
  <2>1. IsPart(closes, fed, m)
    BY DEF DequeInv
  <2>2. Len(closes) \in Nat /\ n \in Nat
    BY <1>1
  <2>3. m + Len(closes) = n
    BY <2>2
  <2> QED BY <2>1, <2>3 DEF IsPart
<1>4. Signal(closes)' = Signal(closes')
  OBVIOUS
<1> HIDE DEF n, m
<1>5. CASE Len(closes) < warmup_bars
  <2>1. closes' = Append(closes, close) /\ m = 0
    BY <1>1, <1>3, <1>5 DEF Push
  <2>2. /\ closes' \in Seq(Prices) /\ Len(closes') = Len(closes) + 1
        /\ closes'[Len(closes) + 1] = close /\ Len(closes) \in Nat
        /\ \A i \in 1..Len(closes) : closes'[i] = closes[i]
    BY <1>1, <2>1
  <2>3. Len(fed') - Len(closes') = 0 /\ Len(closes) = n
    BY <1>2, <1>3, <2>1, <2>2
  <2>4. Len(closes') = IF Len(fed') < warmup_bars THEN Len(fed') ELSE warmup_bars
    BY <1>1, <1>2, <1>5, <2>2, <2>3
  <2>5. ASSUME NEW i \in 1..Len(closes') PROVE closes'[i] = fed'[0 + i]
    <3>1. CASE i = n + 1
      BY <1>2, <2>2, <2>3, <3>1
    <3>2. CASE i # n + 1
      <4>1. i \in 1..n
        BY <1>2, <2>2, <2>3, <3>2
      <4> QED BY <1>2, <1>3, <2>1, <2>2, <2>3, <4>1
    <3> QED BY <3>1, <3>2
  <2>6. IsPart(closes', fed', Len(fed') - Len(closes'))
    BY <1>2, <2>2, <2>3, <2>5 DEF IsPart
  <2> QED BY <1>1, <1>2, <1>4, <2>2, <2>4, <2>6 DEF DequeInv, warmup_bars
<1>6. CASE ~(Len(closes) < warmup_bars)
  <2>1. closes' = Append(Tail(closes), close) /\ Len(closes) = warmup_bars
        /\ ~(n < warmup_bars)
    BY <1>1, <1>2, <1>6 DEF Push
  <2>2. closes # << >>
    BY <1>1, <2>1
  <2>3. /\ Tail(closes) \in Seq(Prices) /\ Len(Tail(closes)) = warmup_bars - 1
        /\ \A i \in 1..warmup_bars - 1 : Tail(closes)[i] = closes[i + 1]
    BY <1>1, <2>1, <2>2
  <2>4. /\ closes' \in Seq(Prices) /\ Len(closes') = warmup_bars
        /\ closes'[warmup_bars] = close
        /\ \A i \in 1..warmup_bars - 1 : closes'[i] = closes[i + 1]
    BY <1>1, <2>1, <2>3
  <2>5. Len(fed') - Len(closes') = m + 1
    <3>1. n = m + warmup_bars /\ Len(fed') = n + 1 /\ Len(closes') = warmup_bars
      BY <1>2, <1>3, <2>1, <2>4
    <3> QED BY <1>1, <1>3, <3>1
  <2>6. ASSUME NEW i \in 1..warmup_bars PROVE closes'[i] = fed'[(m + 1) + i]
    <3>1. CASE i = warmup_bars
      <4>1. (m + 1) + i = n + 1
        BY <1>1, <1>3, <2>1, <3>1
      <4> QED BY <1>2, <2>4, <3>1, <4>1
    <3>2. CASE i # warmup_bars
      <4>1. i \in 1..warmup_bars - 1 /\ i + 1 \in 1..Len(closes) /\ m + (i + 1) = (m + 1) + i
        BY <1>1, <1>3, <2>1, <3>2
      <4>2. closes'[i] = closes[i + 1] /\ closes[i + 1] = fed[m + (i + 1)]
        BY <1>3, <2>4, <4>1
      <4>3. m + (i + 1) \in 1..n
        BY <1>1, <1>3, <4>1
      <4> QED BY <1>2, <4>1, <4>2, <4>3
    <3> QED BY <3>1, <3>2
  <2>7. IsPart(closes', fed', Len(fed') - Len(closes'))
    <3>1. m + 1 \in Nat /\ (m + 1) + Len(closes') <= Len(fed')
      BY <1>1, <1>2, <1>3, <2>1, <2>4
    <3>2. IsPart(closes', fed', m + 1)
      BY <2>4, <2>6, <3>1 DEF IsPart
    <3> QED BY <2>5, <3>2
  <2>8. Len(closes') = IF Len(fed') < warmup_bars THEN Len(fed') ELSE warmup_bars
    BY <1>1, <1>2, <2>1, <2>4
  <2> QED BY <1>1, <1>2, <1>4, <2>4, <2>7, <2>8 DEF DequeInv, warmup_bars
<1> QED BY <1>5, <1>6

\* No signal is given before the deque is full.
LEMMA NoEarlySignal == ASSUME NEW w, Len(w) < warmup_bars PROVE Signal(w) = NoSignal
BY DEF Signal

\* The invariant behind the two theorems that follow.
THEOREM DequeInvariance == Spec => []DequeInv
<1>1. ASSUME fed = << >>, closes = << >>, signal = NoSignal PROVE DequeInv
  <2>1. warmup_bars \in Nat /\ 0 < warmup_bars /\ Len(closes) = 0 /\ Len(fed) = 0
    BY <1>1, CrossoverConstants DEF warmup_bars
  <2>2. Signal(closes) = NoSignal
    BY <2>1, NoEarlySignal
  <2> QED BY <1>1, <2>1, <2>2 DEF DequeInv, IsPart
<1>2. DequeInv /\ [Next]_vars => DequeInv'
  <2> SUFFICES ASSUME DequeInv, [Next]_vars PROVE DequeInv'
    OBVIOUS
  <2>1. ASSUME NEW close \in Prices, OnCandle(close) PROVE DequeInv'
    BY <2>1, CandleKeepsDeque
  <2>2. CASE Reset
    <3>1. fed' = << >> /\ closes' = << >> /\ signal' = NoSignal
      BY <2>2 DEF Reset
    <3>2. warmup_bars \in Nat /\ 0 < warmup_bars /\ Len(closes') = 0 /\ Len(fed') = 0
      BY <3>1, CrossoverConstants DEF warmup_bars
    <3>3. Signal(closes') = NoSignal
      BY <3>2, NoEarlySignal
    <3> QED BY <3>1, <3>2, <3>3 DEF DequeInv, IsPart, Signal, warmup_bars
  <2>3. CASE UNCHANGED vars
    BY <2>3 DEF vars, DequeInv, warmup_bars, Signal, Lead, Total
  <2> QED BY <2>1, <2>2, <2>3 DEF Next
<1> QED BY <1>1, <1>2, PTL DEF Spec, Init

-----------------------------------------------------------------------------
(* The signals. *)

\* The lead of integer prices is an integer.
LEMMA LeadType ==
    ASSUME NEW s \in Seq(Int), Len(s) = SlowPeriod
    PROVE  Lead(s) \in Int
<1> DEFINE t == SubSeq(s, Len(s) - FastPeriod + 1, Len(s))
<1>1. /\ FastPeriod \in Nat /\ SlowPeriod \in Nat /\ FastPeriod < SlowPeriod
      /\ 0 < FastPeriod
  BY CrossoverConstants
<1>2. t \in Seq(Int)
  BY <1>1
<1>3. Total(t) \in Int /\ Total(s) \in Int
  <2> HIDE DEF t
  <2> QED BY <1>2, TotalType
<1> QED BY <1>1, <1>3 DEF Lead

\* The two windows that a full deque is compared by.
LEMMA Windows ==
    ASSUME NEW w \in Seq(Int), Len(w) = SlowPeriod + 1
    PROVE  /\ Front(w) \in Seq(Int) /\ Len(Front(w)) = SlowPeriod
           /\ Tail(w) \in Seq(Int) /\ Len(Tail(w)) = SlowPeriod
           /\ \A i \in 1..SlowPeriod : Front(w)[i] = w[i] /\ Tail(w)[i] = w[i + 1]
<1>1. SlowPeriod \in Nat /\ w # << >>
  BY CrossoverConstants
<1>2. Front(w) = SubSeq(w, 1, SlowPeriod)
  BY <1>1 DEF Front
<1> QED BY <1>1, <1>2

\* Which signal a full deque gives.
LEMMA SignalOfFull ==
    ASSUME NEW w \in Seq(Int), Len(w) = SlowPeriod + 1
    PROVE  /\ Signal(w) = "CALL" <=> Lead(Front(w)) <= 0 /\ Lead(Tail(w)) > 0
           /\ Signal(w) = "PUT"  <=> Lead(Front(w)) >= 0 /\ Lead(Tail(w)) < 0
<1> DEFINE prev == Lead(Front(w))
           curr == Lead(Tail(w))
<1>1. prev \in Int /\ curr \in Int
  BY Windows, LeadType
<1>2. Signal(w) = Crossing(prev, curr)
  BY CrossoverConstants DEF Signal, warmup_bars
<1> HIDE DEF prev, curr
<1>3. /\ Crossing(prev, curr) = "CALL" <=> prev <= 0 /\ curr > 0
      /\ Crossing(prev, curr) = "PUT"  <=> prev >= 0 /\ curr < 0
  BY <1>1, CrossoverConstants DEF Crossing
<1> QED BY <1>2, <1>3 DEF prev, curr

\* A full deque that is a part of q compares the means of q at its last two bars.
LEMMA LeadsOfFull ==
    ASSUME NEW w \in Seq(Int), Len(w) = SlowPeriod + 1, NEW q \in Seq(Int), NEW m,
           IsPart(w, q, m)
    PROVE  /\ Lead(Front(w)) = LeadOf(q, m + SlowPeriod)
           /\ Lead(Tail(w)) = LeadOf(q, (m + 1) + SlowPeriod)
<1>1. SlowPeriod \in Nat /\ m \in Nat /\ m + (SlowPeriod + 1) <= Len(q) /\ Len(q) \in Nat
  BY CrossoverConstants DEF IsPart
<1>2. /\ Front(w) \in Seq(Int) /\ Len(Front(w)) = SlowPeriod
      /\ Tail(w) \in Seq(Int) /\ Len(Tail(w)) = SlowPeriod
      /\ \A i \in 1..SlowPeriod : Front(w)[i] = w[i] /\ Tail(w)[i] = w[i + 1]
  BY Windows
<1>3. ASSUME NEW i \in 1..SlowPeriod
      PROVE  Front(w)[i] = q[m + i] /\ Tail(w)[i] = q[(m + 1) + i]
  <2>1. i \in 1..Len(w) /\ i + 1 \in 1..Len(w) /\ m + (i + 1) = (m + 1) + i
    BY <1>1
  <2>2. w[i] = q[m + i] /\ w[i + 1] = q[m + (i + 1)]
    BY <2>1 DEF IsPart
  <2> QED BY <1>2, <2>1, <2>2
<1>4. m + SlowPeriod <= Len(q) /\ (m + 1) + SlowPeriod <= Len(q) /\ m + 1 \in Nat
  BY <1>1
<1>5. IsPart(Front(w), q, m) /\ IsPart(Tail(w), q, m + 1)
  BY <1>1, <1>2, <1>3, <1>4 DEF IsPart
<1>6. Lead(Front(w)) = LeadOf(q, m + SlowPeriod)
  BY <1>2, <1>5, LeadOfWindow
<1>7. Lead(Tail(w)) = LeadOf(q, (m + 1) + SlowPeriod)
  BY <1>2, <1>5, LeadOfWindow
<1> QED BY <1>6, <1>7

\* What the invariant says of the types and the length of the deque.
LEMMA DequeType ==
    ASSUME DequeInv
    PROVE  /\ fed \in Seq(Int) /\ closes \in Seq(Int)
           /\ warmup_bars = SlowPeriod + 1 /\ SlowPeriod \in Nat
           /\ Len(closes) = IF Len(fed) < SlowPeriod + 1 THEN Len(fed) ELSE SlowPeriod + 1
<1>1. fed \in Seq(Prices) /\ closes \in Seq(Prices)
  BY DEF DequeInv
<1>2. ASSUME NEW q \in Seq(Prices) PROVE q \in Seq(Int)
  <2>1. \A i \in 1..Len(q) : q[i] \in Int
    <3>1. \A i \in 1..Len(q) : q[i] \in Prices
      OBVIOUS
    <3> QED BY <3>1, BarsConstants, Zenon
  <2>2. q \in [1..Len(q) -> Int] /\ Len(q) \in Nat
    BY <2>1
  <2> QED BY <2>2
<1>3. warmup_bars = SlowPeriod + 1 /\ SlowPeriod \in Nat
  BY CrossoverConstants DEF warmup_bars
<1> QED BY <1>1, <1>2, <1>3 DEF DequeInv

\* The strategy, which forgets all but slow + 1 bars, signals exactly the
\* crossings of the means over the whole history, whatever the periods.
THEOREM SignalsAreCrossings == Spec => []SignalIsACrossing
<1>1. DequeInv => SignalIsACrossing
  <2> SUFFICES ASSUME DequeInv PROVE SignalIsACrossing
    OBVIOUS
  <2> DEFINE n == Len(fed)
             m == n - Len(closes)
  <2>1. /\ fed \in Seq(Int) /\ closes \in Seq(Int) /\ n \in Nat
        /\ warmup_bars = SlowPeriod + 1 /\ SlowPeriod \in Nat
        /\ Len(closes) = IF n < SlowPeriod + 1 THEN n ELSE SlowPeriod + 1
    BY DequeType
  <2>2. signal = Signal(closes) /\ IsPart(closes, fed, m)
    BY DEF DequeInv
  <2> HIDE DEF n
  <2>3. CASE n <= SlowPeriod
    <3>1. Len(closes) < warmup_bars /\ ~(n > SlowPeriod)
      BY <2>1, <2>3
    <3>2. signal \notin {"CALL", "PUT"}
      BY <2>2, <3>1, NoEarlySignal, CrossoverConstants
    <3> QED BY <3>1, <3>2 DEF SignalIsACrossing, n
  <2>4. CASE n > SlowPeriod
    <3>1. /\ Len(closes) = SlowPeriod + 1
          /\ m + SlowPeriod = n - 1 /\ (m + 1) + SlowPeriod = n
          /\ n - 1 \in SlowPeriod..n /\ n \in SlowPeriod..n
      BY <2>1, <2>4
    <3> HIDE DEF m
    <3>2. Lead(Front(closes)) = LeadOf(fed, n - 1) /\ Lead(Tail(closes)) = LeadOf(fed, n)
      <4>1. /\ Lead(Front(closes)) = LeadOf(fed, m + SlowPeriod)
            /\ Lead(Tail(closes)) = LeadOf(fed, (m + 1) + SlowPeriod)
        BY <2>1, <2>2, <3>1, LeadsOfFull
      <4> QED BY <3>1, <4>1
    <3>3. LeadAt(n - 1) = LeadOf(fed, n - 1) /\ LeadAt(n) = LeadOf(fed, n)
      BY <2>1, <3>1, LeadOfPairs DEF n
    <3>4. /\ Signal(closes) = "CALL" <=> LeadAt(n - 1) <= 0 /\ LeadAt(n) > 0
          /\ Signal(closes) = "PUT"  <=> LeadAt(n - 1) >= 0 /\ LeadAt(n) < 0
      BY <2>1, <3>1, <3>2, <3>3, SignalOfFull
    <3> QED BY <2>2, <2>4, <3>4 DEF SignalIsACrossing, n
  <2> QED BY <2>1, <2>3, <2>4
<1> QED BY <1>1, DequeInvariance, PTL

\* One sequence is the other reflected about zero.
IsMirror(t, s, c) ==
    /\ s \in Seq(Int) /\ t \in Seq(Int) /\ c \in Int /\ Len(t) = Len(s)
    /\ \A i \in 1..Len(s) : t[i] = c - s[i]

\* Mirrored prices have the opposite total, but for one level each,
LEMMA TotalOfMirror ==
    ASSUME NEW s, NEW t, NEW c, IsMirror(t, s, c)
    PROVE  Total(t) = Len(s) * c - Total(s)
<1> DEFINE S == 1..Len(s)
<1>1. /\ Total(s) = SumFunctionOnSet(s, S) /\ Total(t) = SumFunctionOnSet(t, S)
      /\ IsFiniteSet(S) /\ Cardinality(S) = Len(s) /\ Len(s) \in Nat
  <2>1. DOMAIN s = S /\ DOMAIN t = S /\ Len(s) \in Nat
    BY DEF IsMirror
  <2>2. IsFiniteSet(S)
    BY <2>1, FS_Interval
  <2>3. Cardinality(S) = Len(s)
    <3>1. Cardinality(1..Len(s)) = IF 1 > Len(s) THEN 0 ELSE Len(s) - 1 + 1
      BY <2>1, FS_Interval
    <3> QED BY <2>1, <3>1
  <2> HIDE DEF S
  <2> QED BY <2>1, <2>2, <2>3 DEF Total, SumFunction
<1>2. IsAffine(t, s, S, -1, c)
  BY DEF IsAffine, IsMirror
<1> HIDE DEF S
<1>3. SumFunctionOnSet(t, S) = (-1) * SumFunctionOnSet(s, S) + Cardinality(S) * c
  BY <1>1, <1>2, SumAffine
<1>4. Total(s) \in Int /\ Len(s) * c \in Int
  BY <1>1, TotalType DEF IsMirror
<1> QED BY <1>1, <1>3, <1>4

\* and so the opposite lead: the levels cancel.
LEMMA LeadOfMirror ==
    ASSUME NEW s, NEW t, NEW c, IsMirror(t, s, c), Len(s) = SlowPeriod
    PROVE  Lead(t) = -Lead(s)
<1> DEFINE k == SlowPeriod - FastPeriod
           s2 == SubSeq(s, Len(s) - FastPeriod + 1, Len(s))
           t2 == SubSeq(t, Len(t) - FastPeriod + 1, Len(t))
<1>1. /\ FastPeriod \in Nat /\ SlowPeriod \in Nat /\ k \in Nat /\ k + FastPeriod = SlowPeriod
      /\ s \in Seq(Int) /\ t \in Seq(Int) /\ Len(t) = SlowPeriod
  BY CrossoverConstants DEF IsMirror
<1>2. /\ s2 \in Seq(Int) /\ t2 \in Seq(Int) /\ Len(s2) = FastPeriod /\ Len(t2) = FastPeriod
      /\ \A i \in 1..FastPeriod : s2[i] = s[k + i] /\ t2[i] = t[k + i]
  BY <1>1
<1>3. \A i \in 1..FastPeriod : k + i \in 1..Len(s)
  BY <1>1
<1> HIDE DEF s2, t2, k
<1>4. IsMirror(t2, s2, c)
  BY <1>2, <1>3 DEF IsMirror
<1>5. /\ Total(t2) = FastPeriod * c - Total(s2)
      /\ Total(t) = SlowPeriod * c - Total(s)
  BY <1>2, <1>4, TotalOfMirror
<1>6. Total(s) \in Int /\ Total(s2) \in Int
  BY <1>1, <1>2, TotalType
<1>7. /\ Lead(s) = SlowPeriod * Total(s2) - FastPeriod * Total(s)
      /\ Lead(t) = SlowPeriod * Total(t2) - FastPeriod * Total(t)
  BY <1>1 DEF Lead, s2, t2
<1>8. c \in Int
  BY DEF IsMirror
<1> DEFINE fc == FastPeriod * c
           sc == SlowPeriod * c
           a  == Total(s2)
           b  == Total(s)
<1>9. fc \in Int /\ sc \in Int /\ SlowPeriod * fc = FastPeriod * sc
  BY <1>1, <1>8
<1>10. a \in Int /\ b \in Int
  BY <1>6
<1>11. Total(t2) = fc - a /\ Total(t) = sc - b
  BY <1>5
<1>12. Lead(s) = SlowPeriod * a - FastPeriod * b
  BY <1>7
<1> HIDE DEF fc, sc, a, b
<1>13. /\ SlowPeriod * (fc - a) = SlowPeriod * fc - SlowPeriod * a
       /\ FastPeriod * (sc - b) = FastPeriod * sc - FastPeriod * b
       /\ SlowPeriod * a \in Int /\ FastPeriod * b \in Int
       /\ SlowPeriod * fc \in Int /\ FastPeriod * sc \in Int
  BY <1>1, <1>9, <1>10
<1> QED BY <1>7, <1>9, <1>11, <1>12, <1>13

\* CALL and PUT are mirror images of each other, for any prices.
THEOREM MirrorsAlwaysMirror == Spec => []MirroredPricesMirrorSignals
<1>1. DequeInv => MirroredPricesMirrorSignals
  <2> SUFFICES ASSUME DequeInv, NEW level \in Prices
               PROVE  LET mirrored == [i \in DOMAIN closes |-> 2 * level - closes[i]]
                      IN /\ Signal(closes) = "CALL" <=> Signal(mirrored) = "PUT"
                         /\ Signal(closes) = "PUT"  <=> Signal(mirrored) = "CALL"
    BY DEF MirroredPricesMirrorSignals
  <2> DEFINE c == 2 * level
             w == [i \in DOMAIN closes |-> c - closes[i]]
  <2>1. /\ closes \in Seq(Int) /\ SlowPeriod \in Nat /\ warmup_bars = SlowPeriod + 1
        /\ Len(closes) <= warmup_bars
    BY DequeType
  <2>2. IsMirror(w, closes, c)
    <3>1. level \in Int /\ c \in Int
      BY BarsConstants
    <3> HIDE DEF c
    <3>2. Len(closes) \in Nat /\ DOMAIN closes = 1..Len(closes)
      BY <2>1
    <3>3. w \in [1..Len(closes) -> Int]
      BY <2>1, <3>1, <3>2
    <3>4. w \in Seq(Int) /\ Len(w) = Len(closes)
      BY <3>2, <3>3
    <3>5. \A i \in 1..Len(closes) : w[i] = c - closes[i]
      BY <3>2
    <3> QED BY <2>1, <3>1, <3>4, <3>5 DEF IsMirror
  <2> HIDE DEF w, c
  <2>3. w \in Seq(Int) /\ Len(w) = Len(closes)
    BY <2>2 DEF IsMirror
  <2>4. CASE Len(closes) < warmup_bars
    <3>1. Signal(closes) = NoSignal /\ Signal(w) = NoSignal
      BY <2>3, <2>4, NoEarlySignal
    <3> QED BY <3>1, CrossoverConstants DEF w, c
  <2>5. CASE Len(closes) = SlowPeriod + 1
    <3>1. IsMirror(Front(w), Front(closes), c) /\ IsMirror(Tail(w), Tail(closes), c)
      <4>1. \A i \in 1..SlowPeriod : i \in 1..Len(closes) /\ i + 1 \in 1..Len(closes)
        BY <2>1, <2>5
      <4>2. \A i \in 1..Len(closes) : w[i] = c - closes[i]
        BY <2>2 DEF IsMirror
      <4>3. /\ Front(closes) \in Seq(Int) /\ Len(Front(closes)) = SlowPeriod
            /\ Tail(closes) \in Seq(Int) /\ Len(Tail(closes)) = SlowPeriod
            /\ \A i \in 1..SlowPeriod : /\ Front(closes)[i] = closes[i]
                                        /\ Tail(closes)[i] = closes[i + 1]
        BY <2>1, <2>5, Windows
      <4>4. /\ Front(w) \in Seq(Int) /\ Len(Front(w)) = SlowPeriod
            /\ Tail(w) \in Seq(Int) /\ Len(Tail(w)) = SlowPeriod
            /\ \A i \in 1..SlowPeriod : Front(w)[i] = w[i] /\ Tail(w)[i] = w[i + 1]
        BY <2>3, <2>5, Windows
      <4>5. c \in Int
        BY <2>2 DEF IsMirror
      <4> QED BY <4>1, <4>2, <4>3, <4>4, <4>5 DEF IsMirror
    <3>2. Len(Front(closes)) = SlowPeriod /\ Len(Tail(closes)) = SlowPeriod
      BY <2>1, <2>5, Windows
    <3>3. Lead(Front(w)) = -Lead(Front(closes)) /\ Lead(Tail(w)) = -Lead(Tail(closes))
      BY <3>1, <3>2, LeadOfMirror
    <3>4. Lead(Front(closes)) \in Int /\ Lead(Tail(closes)) \in Int
      BY <2>1, <2>5, Windows, LeadType
    <3>5. /\ Signal(closes) = "CALL" <=> Lead(Front(closes)) <= 0 /\ Lead(Tail(closes)) > 0
          /\ Signal(closes) = "PUT"  <=> Lead(Front(closes)) >= 0 /\ Lead(Tail(closes)) < 0
          /\ Signal(w) = "CALL" <=> Lead(Front(w)) <= 0 /\ Lead(Tail(w)) > 0
          /\ Signal(w) = "PUT"  <=> Lead(Front(w)) >= 0 /\ Lead(Tail(w)) < 0
      BY <2>1, <2>3, <2>5, SignalOfFull
    <3>6. /\ Signal(closes) = "CALL" <=> Signal(w) = "PUT"
          /\ Signal(closes) = "PUT"  <=> Signal(w) = "CALL"
      BY <3>3, <3>4, <3>5
    <3> QED BY <3>6 DEF w, c
  <2>6. Len(closes) < warmup_bars \/ Len(closes) = SlowPeriod + 1
    BY <2>1
  <2> QED BY <2>4, <2>5, <2>6
<1> QED BY <1>1, DequeInvariance, PTL
=============================================================================
