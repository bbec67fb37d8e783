----------------------------- MODULE Settlement -----------------------------
(***************************************************************************)
(* domain/settlement.py and domain/pnl.py: how one binary-option trade     *)
(* ends and what it pays.                                                  *)
(*                                                                         *)
(* The program computes with Decimal.  Amounts in the configuration        *)
(* (stake, starting balance) are integers here and rates are percentages,  *)
(* so every ledger amount is an exact integer number of hundredths.        *)
(***************************************************************************)
EXTENDS Integers

Directions == {"CALL", "PUT"}
Outcomes   == {"WIN", "LOSS", "TIE"}

\* A configured amount as a ledger amount.
Hundredths(amount) == 100 * amount

resolve_outcome(direction, entryPrice, expiryPrice) ==
    IF expiryPrice = entryPrice THEN "TIE"
    ELSE IF (direction = "CALL") = (expiryPrice > entryPrice)
         THEN "WIN" ELSE "LOSS"

\* Mutant: a losing trade costs the stake a second time.
LosesTwice(outcome, stake, payoutPct) ==
    IF outcome = "WIN" THEN stake * payoutPct
    ELSE IF outcome = "LOSS" THEN -2 * Hundredths(stake) ELSE 0

pnl_for(outcome, stake, payoutPct) ==
    CASE outcome = "WIN"  -> stake * payoutPct
      [] outcome = "LOSS" -> -Hundredths(stake)
      [] outcome = "TIE"  -> 0
=============================================================================
