------------------------------ MODULE Backoff -------------------------------
(***************************************************************************)
(* The quadratic back-off of gix-utils, as lock_with_mode() of gix-lock    *)
(* uses it: waiting times grow with the squares up to a maximum, are       *)
(* randomised, and end once their sum exceeds the time that the caller is  *)
(* ready to wait.  Times are in milliseconds.                              *)
(***************************************************************************)
EXTENDS Integers

CONSTANTS
    Max,        \* max_multiplier
    Time,       \* how long the caller wants to wait
    Factors     \* what rng::usize(750..=1250) may return

ASSUME MaxAssumption == Max \in Nat \ {0}
ASSUME TimeAssumption == Time \in Nat
ASSUME FactorsAssumption == Factors \subseteq 750..1250

VARIABLES
    multiplier, exponent,   \* of Quadratic
    elapsed,                \* sum of all waiting times so far
    stop,                   \* stop_next_iteration
    wait,                   \* the waiting time that was yielded last, or 0
    done                    \* has the iterator ended?

vars == <<multiplier, exponent, elapsed, stop, wait, done>>

Init ==
    /\ multiplier = 1 /\ exponent = 1
    /\ elapsed = 0 /\ stop = FALSE /\ wait = 0 /\ done = FALSE

\* Mutant: a waiting time may be nothing at all.
RandomizedToZero(r, ms) == (r * ms) \div 1000

Randomized(r, ms) == IF (r * ms) \div 1000 = 0 THEN ms ELSE (r * ms) \div 1000

\* Quadratic::next(), the new multiplier.
Advance ==
    IF multiplier + 2 * exponent + 1 > Max
    THEN multiplier' = Max /\ UNCHANGED exponent
    ELSE multiplier' = multiplier + 2 * exponent + 1 /\ exponent' = exponent + 1

\* Mutant: the sum is compared before the time is added.
IsDepletedBefore(sum) == elapsed > Time

IsDepleted(sum) == sum > Time

\* until_no_remaining(): a waiting time for the caller ...
Yield(r) ==
    /\ ~done /\ ~stop
    /\ wait' = Randomized(r, multiplier)
    /\ elapsed' = elapsed + wait'
    /\ stop' = IsDepleted(elapsed')
    /\ Advance
    /\ UNCHANGED done

\* ... or the end, for which one more is computed and not used.
End ==
    /\ ~done /\ stop
    /\ done' = TRUE
    /\ Advance
    /\ UNCHANGED <<elapsed, stop, wait>>

Next == End \/ \E r \in Factors : Yield(r)

Spec == Init /\ [][Next]_vars

-----------------------------------------------------------------------------
(* Properties                                                               *)

\* Type correctness; the multiplier, and with it every waiting time, is positive.
TypeOK ==
    /\ multiplier \in 1..Max /\ exponent \in Nat \ {0}
    /\ elapsed \in Nat /\ stop \in BOOLEAN /\ wait \in Nat /\ done \in BOOLEAN

\* The multiplier runs through the squares, although it is only ever added to,
\* and stays at the maximum once the next square would exceed it.
Squares ==
    \/ multiplier = exponent * exponent
    \/ multiplier = Max /\ exponent * exponent <= Max /\ Max < (exponent + 1) * (exponent + 1)

\* The caller never waits longer in total than the time given and one waiting
\* time more, and has waited longer than the time given when the iterator ends.
WaitsAsLongAsAsked ==
    /\ 4 * elapsed <= 4 * Time + 5 * Max
    /\ done => elapsed > Time

\* Every waiting time is a positive one: with the bound above, the iterator ends.
EveryWaitCounts == [][~done' => elapsed' > elapsed]_vars
=============================================================================
