------------------------------ MODULE PoolMath ------------------------------
(***************************************************************************)
(* The arithmetic of one pool: SqrtPriceMath, SwapMath, and what they take  *)
(* from FullMath, UnsafeMath and TickMath (src/contracts/libraries).        *)
(*                                                                         *)
(* The code works in 96 bit fixed point with fees in millionths; here the   *)
(* scale is a parameter, and so is the price of a tick.  Every division     *)
(* rounds where the code rounds, in the direction in which it rounds, which *)
(* is what the accounts of the pool rest on and what a coarse scale brings  *)
(* out.  Numbers do not overflow: the code's overflow branches are left out.*)
(***************************************************************************)
EXTENDS Integers

CONSTANTS
    Q96,                 \* FixedPoint96.Q96, the scale of a square root price
    Pips,                \* 1e6, the scale of a fee
    Fee,                 \* the pool's fee, of Pips
    MinTick, MaxTick,    \* TickMath.MIN_TICK and MAX_TICK
    SqrtRatio            \* TickMath.getSqrtRatioAtTick, as a table

Ticks == MinTick .. MaxTick

ASSUME MathAssumption ==
    /\ Q96 \in Nat \ {0}
    /\ Pips \in Nat \ {0} /\ Fee \in 0 .. Pips - 1
    /\ MinTick \in Int /\ MaxTick \in Int /\ MinTick < MaxTick
    /\ SqrtRatio \in [Ticks -> Nat \ {0}]
    /\ \A s, t \in Ticks : s < t => SqrtRatio[s] < SqrtRatio[t]

\* FullMath.mulDiv, mulDivRoundingUp; UnsafeMath.divRoundingUp.
MulDiv(a, b, d) == (a * b) \div d
DivUp(a, d) == (a + d - 1) \div d
MulDivUp(a, b, d) == DivUp(a * b, d)

\* mutant: the least tick above
TickAboveSqrtRatio(p) ==
    CHOOSE t \in Ticks : /\ SqrtRatio[t] > p
                         /\ \A s \in Ticks : SqrtRatio[s] > p => t <= s

\* TickMath.getTickAtSqrtRatio: the greatest tick whose price is not above.
TickAtSqrtRatio(p) ==
    CHOOSE t \in Ticks : /\ SqrtRatio[t] <= p
                         /\ \A s \in Ticks : SqrtRatio[s] <= p => s <= t

(***************************************************************************)
(* SqrtPriceMath: the amounts of the two tokens between two prices, and the *)
(* price after an amount went in or out.                                    *)
(***************************************************************************)
Amount0Between(p, q, L, up) ==
    LET lo == IF p > q THEN q ELSE p
        hi == IF p > q THEN p ELSE q
    IN  IF up THEN DivUp(MulDivUp(L * Q96, hi - lo, hi), lo)
              ELSE MulDiv(L * Q96, hi - lo, hi) \div lo

Amount1Between(p, q, L, up) ==
    LET lo == IF p > q THEN q ELSE p
        hi == IF p > q THEN p ELSE q
    IN  IF up THEN MulDivUp(L, hi - lo, Q96) ELSE MulDiv(L, hi - lo, Q96)

\* The signed variants: what a position that grows owes is rounded up, what
\* one that shrinks gets is rounded down.
Amount0Delta(p, q, dL) ==
    IF dL < 0 THEN -Amount0Between(p, q, -dL, FALSE) ELSE Amount0Between(p, q, dL, TRUE)
Amount1Delta(p, q, dL) ==
    IF dL < 0 THEN -Amount1Between(p, q, -dL, FALSE) ELSE Amount1Between(p, q, dL, TRUE)

\* getNextSqrtPriceFromAmount0RoundingUp, with n token 0 more (or less).
NextPriceFromAmount0(p, L, n, add) ==
    CASE n = 0 -> p
      [] n # 0 /\ add  -> MulDivUp(L * Q96, p, L * Q96 + n * p)
      [] n # 0 /\ ~add -> MulDivUp(L * Q96, p, L * Q96 - n * p)

\* getNextSqrtPriceFromAmount1RoundingDown.
NextPriceFromAmount1(p, L, n, add) ==
    IF add THEN p + (n * Q96) \div L ELSE p - DivUp(n * Q96, L)

NextPriceFromInput(p, L, n, zeroForOne) ==
    IF zeroForOne THEN NextPriceFromAmount0(p, L, n, TRUE)
                  ELSE NextPriceFromAmount1(p, L, n, TRUE)
NextPriceFromOutput(p, L, n, zeroForOne) ==
    IF zeroForOne THEN NextPriceFromAmount1(p, L, n, FALSE)
                  ELSE NextPriceFromAmount0(p, L, n, FALSE)

(***************************************************************************)
(* SwapMath.computeSwapStep: how far the price goes towards target with     *)
(* liquidity L and `remaining' left to swap (in if positive, out if not).   *)
(***************************************************************************)
\* mutant: the input of a swap is rounded down
StepInputDown(p, q, L, zeroForOne) ==
    IF zeroForOne THEN Amount0Between(q, p, L, FALSE) ELSE Amount1Between(p, q, L, FALSE)

StepInput(p, q, L, zeroForOne) ==
    IF zeroForOne THEN Amount0Between(q, p, L, TRUE) ELSE Amount1Between(p, q, L, TRUE)
StepOutput(p, q, L, zeroForOne) ==
    IF zeroForOne THEN Amount1Between(q, p, L, FALSE) ELSE Amount0Between(p, q, L, FALSE)

\* The price the step ends at: the target, if what is left reaches it.
StepPrice(p, target, L, remaining, zeroForOne) ==
    LET lessFee == MulDiv(remaining, Pips - Fee, Pips)
    IN  IF remaining >= 0
        THEN IF lessFee >= StepInput(p, target, L, zeroForOne) THEN target
             ELSE NextPriceFromInput(p, L, lessFee, zeroForOne)
        ELSE IF -remaining >= StepOutput(p, target, L, zeroForOne) THEN target
             ELSE NextPriceFromOutput(p, L, -remaining, zeroForOne)

\* The amounts of a step from p to next; what was left and did not reach the
\* target goes to the fee whole.
StepAmounts(next, in, out, target, remaining) ==
    [price |-> next,
     in    |-> in,
     out   |-> IF remaining < 0 /\ out > -remaining THEN -remaining ELSE out,
     fee   |-> IF remaining >= 0 /\ next # target THEN remaining - in
                                                  ELSE MulDivUp(in, Fee, Pips - Fee)]

StepBetween(p, next, L, target, remaining, zeroForOne) ==
    StepAmounts(next, StepInput(p, next, L, zeroForOne), StepOutput(p, next, L, zeroForOne),
                target, remaining)

ComputeSwapStep(p, target, L, remaining) ==
    StepBetween(p, StepPrice(p, target, L, remaining, p >= target), L, target, remaining,
                p >= target)
=============================================================================
