--------------------------- MODULE BackoffProofs ----------------------------
(* Proofs about Backoff, for any maximum, time and source of randomness.    *)
EXTENDS Backoff, TLAPS

\* A randomised waiting time is positive and at most a quarter longer.
LEMMA RandomizedBound ==
    ASSUME NEW r \in Nat, NEW ms \in Nat, 750 <= r, r <= 1250, ms > 0
    PROVE  Randomized(r, ms) \in Nat /\ Randomized(r, ms) > 0 /\ 4 * Randomized(r, ms) <= 5 * ms
<1> DEFINE q == (r * ms) \div 1000
<1>1. r * ms \in Nat /\ r * ms <= 1250 * ms
  OBVIOUS
<1>2. q \in Nat /\ 1000 * q <= r * ms
  BY <1>1
<1>3. 4 * q <= 5 * ms
  BY <1>1, <1>2
<1> QED
  BY <1>2, <1>3 DEF Randomized

\* What the sum of waiting times satisfies while the iterator runs.
SumOK ==
    /\ ~stop => elapsed <= Time
    /\ stop => elapsed > Time
    /\ done => stop

IInv == TypeOK /\ Squares /\ SumOK /\ 4 * elapsed <= 4 * Time + 5 * Max

\* The new multiplier is in range and a square, or the maximum.
LEMMA AdvanceOK ==
    ASSUME TypeOK, Squares, Advance
    PROVE  multiplier' \in 1..Max /\ exponent' \in Nat \ {0} /\ Squares'
<1>1. multiplier \in 1..Max /\ exponent \in Nat \ {0} /\ Max \in Nat \ {0}
  BY MaxAssumption DEF TypeOK
<1>2. (exponent + 1) * (exponent + 1) = exponent * exponent + 2 * exponent + 1
  BY <1>1
<1>3. CASE multiplier + 2 * exponent + 1 > Max
  <2>1. multiplier' = Max /\ exponent' = exponent
    BY <1>3 DEF Advance
  <2>2. exponent * exponent <= Max /\ Max < (exponent + 1) * (exponent + 1)
    BY <1>1, <1>2, <1>3 DEF Squares
  <2> QED
    BY <1>1, <2>1, <2>2 DEF Squares
<1>4. CASE ~(multiplier + 2 * exponent + 1 > Max)
  <2>1. multiplier' = multiplier + 2 * exponent + 1 /\ exponent' = exponent + 1
    BY <1>4 DEF Advance
  <2>2. multiplier = exponent * exponent
    BY <1>1, <1>2, <1>4 DEF Squares
  <2>3. multiplier' = exponent' * exponent'
    BY <1>1, <1>2, <2>1, <2>2
  <2> QED
    BY <1>1, <1>4, <2>1, <2>3 DEF Squares
<1> QED
  BY <1>3, <1>4

\* A yielded waiting time keeps the sum in its bounds.
LEMMA YieldOK ==
    ASSUME IInv, NEW r \in Factors, Yield(r)
    PROVE  IInv' /\ elapsed' > elapsed
<1>1. multiplier \in 1..Max /\ elapsed \in Nat /\ Max \in Nat /\ Time \in Nat /\ r \in 750..1250
  BY MaxAssumption, TimeAssumption, FactorsAssumption DEF IInv, TypeOK
<1>2. wait' = Randomized(r, multiplier) /\ elapsed' = elapsed + wait' /\ done' = done /\ ~stop /\ ~done
  BY DEF Yield
<1>3. wait' \in Nat /\ wait' > 0 /\ 4 * wait' <= 5 * multiplier
  <2>1. multiplier \in Nat /\ multiplier > 0 /\ r \in Nat /\ 750 <= r /\ r <= 1250
    BY <1>1
  <2> QED
    BY <1>2, <2>1, RandomizedBound
<1>4. stop' \in BOOLEAN /\ (stop' <=> elapsed' > Time)
  <2>1. stop' = (elapsed' > Time)
    BY DEF Yield, IsDepleted
  <2>2. stop' = TRUE \/ stop' = FALSE
    BY <2>1
  <2>3. CASE stop' = TRUE
    BY <2>1, <2>3
  <2>4. CASE stop' = FALSE
    BY <2>1, <2>4
  <2> QED
    BY <2>2, <2>3, <2>4
<1>5. elapsed <= Time
  BY <1>2 DEF IInv, SumOK
<1>6. elapsed' \in Nat /\ elapsed' > elapsed /\ 4 * elapsed' <= 4 * Time + 5 * Max
  BY <1>1, <1>2, <1>3, <1>5
<1>7. multiplier' \in 1..Max /\ exponent' \in Nat \ {0} /\ Squares'
  BY AdvanceOK DEF IInv, Yield
<1>8. SumOK'
  <2>1. ~(elapsed' > Time) => elapsed' <= Time
    BY <1>1, <1>6
  <2> QED
    BY <1>2, <1>4, <2>1, Zenon DEF SumOK
<1>9. TypeOK'
  <2>1. wait' \in Nat /\ done' \in BOOLEAN
    BY <1>2, <1>3 DEF IInv, TypeOK
  <2> QED
    BY <1>4, <1>6, <1>7, <2>1, Zenon DEF TypeOK
<1> QED
  BY <1>6, <1>7, <1>8, <1>9 DEF IInv

LEMMA EndOK ==
    ASSUME IInv, End
    PROVE  IInv' /\ done'
<1>1. done' = TRUE /\ stop /\ UNCHANGED <<elapsed, stop, wait>>
  BY DEF End
<1>2. multiplier' \in 1..Max /\ exponent' \in Nat \ {0} /\ Squares'
  BY AdvanceOK DEF IInv, End
<1>3. TypeOK'
  BY <1>1, <1>2 DEF IInv, TypeOK
<1>4. SumOK'
  BY <1>1 DEF IInv, SumOK
<1> QED
  BY <1>1, <1>2, <1>3, <1>4 DEF IInv

LEMMA Invariant == Spec => []IInv
<1>1. Init => IInv
  <2> SUFFICES ASSUME Init PROVE IInv
    OBVIOUS
  <2>1. TypeOK /\ Squares
    <3>1. multiplier \in 1..Max /\ exponent \in Nat \ {0} /\ elapsed \in Nat /\ wait \in Nat
      BY MaxAssumption DEF Init
    <3>2. stop \in BOOLEAN /\ done \in BOOLEAN
      BY Zenon DEF Init
    <3>3. multiplier = exponent * exponent
      BY DEF Init
    <3> QED
      BY <3>1, <3>2, <3>3, Zenon DEF TypeOK, Squares
  <2>2. SumOK
    BY TimeAssumption DEF Init, SumOK
  <2>3. 4 * elapsed <= 4 * Time + 5 * Max
    BY MaxAssumption, TimeAssumption DEF Init
  <2> QED
    BY <2>1, <2>2, <2>3 DEF IInv
<1>2. IInv /\ [Next]_vars => IInv'
  <2> SUFFICES ASSUME IInv, [Next]_vars PROVE IInv'
    OBVIOUS
  <2>1. CASE End
    BY <2>1, EndOK
  <2>2. CASE \E r \in Factors : Yield(r)
    BY <2>2, YieldOK
  <2>3. CASE UNCHANGED vars
    BY <2>3 DEF vars, IInv, TypeOK, Squares, SumOK
  <2> QED
    BY <2>1, <2>2, <2>3 DEF Next
<1> QED
  BY <1>1, <1>2, PTL DEF Spec

\* The multiplier of Quadratic::next() is a square or the maximum, for any
\* maximum: adding 2 * exponent + 1 computes the squares.
THEOREM MultiplierIsSquare == Spec => []Squares
<1>1. IInv => Squares
  BY DEF IInv
<1> QED
  BY <1>1, Invariant, PTL

\* until_no_remaining() waits longer than the time given, and by no more than one
\* waiting time of the largest kind, for any time and random numbers.
THEOREM WaitIsBounded == Spec => []WaitsAsLongAsAsked
<1>1. IInv => WaitsAsLongAsAsked
  BY DEF IInv, SumOK, WaitsAsLongAsAsked
<1> QED
  BY <1>1, Invariant, PTL

\* Every item of the iterator adds to the time waited.
THEOREM WaitsCount == Spec => EveryWaitCounts
<1>1. IInv /\ [Next]_vars => [~done' => elapsed' > elapsed]_vars
  <2> SUFFICES ASSUME IInv, Next PROVE ~done' => elapsed' > elapsed
    OBVIOUS
  <2>1. CASE End
    BY <2>1, EndOK
  <2>2. CASE \E r \in Factors : Yield(r)
    BY <2>2, YieldOK
  <2> QED
    BY <2>1, <2>2 DEF Next
<1> QED
  BY <1>1, Invariant, PTL DEF Spec, EveryWaitCounts
=============================================================================
