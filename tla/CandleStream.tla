---------------------------- MODULE CandleStream ----------------------------
(***************************************************************************)
(* What MarketDataPort.stream_closed_candles promises (ports/market_data): *)
(* closed candles in order, and a GapMarker wherever slots were skipped,    *)
(* except those of which the feed itself was told nothing: an adapter that  *)
(* tells candles from what is pushed to it cannot announce them.            *)
(***************************************************************************)
EXTENDS Integers

VARIABLES
    last,      \* slot of the last candle, -1 before the first
    unbroken,  \* no GapMarker since that candle
    over,      \* the stream has ended
    silent     \* past slots in which a live connection brought no push

streamVars == <<last, unbroken, over, silent>>

Init == last = -1 /\ unbroken = FALSE /\ over = FALSE /\ silent = {}

\* The next candle's slot is later; only a GapMarker, or silence, excuses a
\* skipped one.
Deliver ==
    /\ ~over
    /\ last' \in Nat
    /\ last' > last
    /\ unbroken => \A slot \in last + 1..last' - 1 : slot \in silent
    /\ unbroken' = TRUE
    /\ over' = FALSE
    /\ UNCHANGED silent

Break ==
    /\ ~over
    /\ unbroken' = FALSE
    /\ UNCHANGED <<last, over, silent>>

End ==
    /\ over' = TRUE
    /\ UNCHANGED <<last, unbroken, silent>>

\* A slot passes in which nothing is pushed.
PassInSilence ==
    /\ silent \subseteq silent'
    /\ UNCHANGED <<last, unbroken, over>>

Next == Deliver \/ Break \/ End \/ PassInSilence

Spec == Init /\ [][Next]_streamVars
=============================================================================
