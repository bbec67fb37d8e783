------------------------------- MODULE Backoff -------------------------------
(***************************************************************************)
(* adapters/exnova/reconnect.py: how long to wait before a reconnect.  The *)
(* delay is uniform between 0 and an upper bound; the bound is modelled.   *)
(* With base = 1.0 the code computes 1.0 * 2**attempt in floating point,   *)
(* which raises OverflowError once 2**attempt is no longer a float.        *)
(***************************************************************************)
EXTENDS Integers

CONSTANTS
    CapS,         \* DEFAULT_CAP_S
    FloatBits     \* 1024: the least n for which 2**n is not a float

ASSUME BackoffConstants == CapS \in 1..2^30 /\ FloatBits \in Nat \ {0}

\* base * 2**attempt is an OverflowError.
Overflows(attempt) == attempt >= FloatBits

\* Mutant: the delay does not grow.
FlatUpper(attempt) == IF CapS < 2 THEN CapS ELSE 2
\* Mutant: the cap is forgotten.
Uncapped(attempt) == IF attempt > 30 THEN CapS ELSE 2^attempt

\* min(cap, base * 2**attempt) otherwise; CapS is at most 2^30.
backoff_upper(attempt) ==
    IF attempt > 30 \/ 2^attempt > CapS THEN CapS ELSE 2^attempt
=============================================================================
