----------------------------- MODULE PoolProofs -----------------------------
(***************************************************************************)
(* What holds of Pool for every choice of the constants.                    *)
(*                                                                         *)
(* Three invariants, kept together.  LockInv says who may be under way with *)
(* what on the books of the lock.  BookInv says that price, tick, active    *)
(* liquidity, ticks, bitmap and positions agree.  A swap changes the book   *)
(* in a loop, so BookInv rests on the invariant of that loop, LoopInv, and  *)
(* that on what SqrtPriceMath and SwapMath round in which direction.        *)
(* MoneyInv says that what is booked is backed: everything the pool could   *)
(* be asked for, each position at the exact worth of its liquidity, is no   *)
(* more than what the pool holds, or will hold once the call under way has  *)
(* been paid.                                                               *)
(***************************************************************************)
EXTENDS Pool, SumLemmas, SequenceTheorems, TLAPS

(***************************************************************************)
(* Division, rounded down and up, by what it is compared with.              *)
(***************************************************************************)
\* The quotient rounded down is the most whose multiple is not above.
LEMMA DownIsMost ==
    ASSUME NEW a \in Nat, NEW d \in Nat \ {0}
    PROVE  /\ a \div d \in Nat
           /\ (a \div d) * d <= a /\ a < (a \div d) * d + d
           /\ \A n \in Int : n <= a \div d <=> n * d <= a
<1> DEFINE q == a \div d
<1>1. q \in Nat /\ q * d <= a /\ a < q * d + d
  OBVIOUS
<1> HIDE DEF q
<1>2. ASSUME NEW n \in Int, n <= q PROVE n * d <= a
  <2>1. n * d <= q * d  BY <1>1, <1>2
  <2> QED  BY <1>1, <2>1
<1>3. ASSUME NEW n \in Int, n * d <= a PROVE n <= q
  <2>1. SUFFICES ASSUME n >= q + 1 PROVE FALSE  BY <1>1
  <2>2. n * d >= (q + 1) * d  BY <1>1, <2>1
  <2> QED  BY <1>1, <1>3, <2>2
<1> QED  BY <1>1, <1>2, <1>3 DEF q

\* The quotient rounded up is the least whose multiple is not below.
LEMMA UpIsLeast ==
    ASSUME NEW a \in Nat, NEW d \in Nat \ {0}
    PROVE  /\ DivUp(a, d) \in Nat
           /\ a <= DivUp(a, d) * d /\ DivUp(a, d) * d < a + d
           /\ \A n \in Int : DivUp(a, d) <= n <=> a <= n * d
<1> DEFINE b == a + d - 1
           q == b \div d
<1>1. b \in Nat /\ DivUp(a, d) = q  BY DEF DivUp
<1>2. q \in Nat /\ a <= q * d /\ q * d < a + d
  <2>1. q \in Nat /\ q * d <= b /\ b < q * d + d  BY <1>1, DownIsMost
  <2> HIDE DEF q
  <2>2. q * d \in Int  BY <2>1
  <2> QED  BY <2>1, <2>2
<1>3. ASSUME NEW n \in Int PROVE b \div d <= n <=> a <= n * d
  <2>1. n + 1 <= b \div d <=> (n + 1) * d <= b  BY <1>1, DownIsMost
  <2>2. (n + 1) * d <= b <=> n * d + 1 <= a  BY DEF b
  <2>3. n * d \in Int  OBVIOUS
  <2> QED  BY <1>2, <2>1, <2>2, <2>3
<1> QED  BY <1>1, <1>2, <1>3

(***************************************************************************)
(* The amounts between two prices.                                          *)
(***************************************************************************)
\* n of a token is no less, or no more, than liquidity L is worth of it
\* between two prices.
Pays0(n, lo, hi, L)   == L * Q96 * (hi - lo) <= n * lo * hi
Yields0(n, lo, hi, L) == n * lo * hi <= L * Q96 * (hi - lo)
Pays1(n, lo, hi, L)   == L * (hi - lo) <= n * Q96
Yields1(n, lo, hi, L) == n * Q96 <= L * (hi - lo)

\* Token 0, rounded up and down.
LEMMA Amount0Is ==
    ASSUME NEW lo \in Nat \ {0}, NEW hi \in Nat \ {0}, lo <= hi, NEW L \in Nat
    PROVE  /\ Amount0Between(lo, hi, L, TRUE) \in Nat
           /\ Amount0Between(lo, hi, L, FALSE) \in Nat
           /\ \A n \in Int :
                /\ Amount0Between(lo, hi, L, TRUE) <= n <=> Pays0(n, lo, hi, L)
                /\ n <= Amount0Between(lo, hi, L, FALSE) <=> Yields0(n, lo, hi, L)
<1>1. PICK a : a = L * Q96 * (hi - lo)
  OBVIOUS
<1>2. a \in Nat
  <2>1. Q96 \in Nat /\ hi - lo \in Nat  BY MathAssumption
  <2>2. L * Q96 \in Nat  BY <2>1
  <2> QED  BY <1>1, <2>1, <2>2
<1>3. /\ Amount0Between(lo, hi, L, TRUE) = DivUp(DivUp(a, hi), lo)
      /\ Amount0Between(lo, hi, L, FALSE) = (a \div hi) \div lo
  BY <1>1 DEF Amount0Between, MulDivUp, MulDiv
<1>4. DivUp(a, hi) \in Nat /\ a \div hi \in Nat
  BY <1>2, UpIsLeast, DownIsMost
<1>5. DivUp(DivUp(a, hi), lo) \in Nat /\ (a \div hi) \div lo \in Nat
  BY <1>4, UpIsLeast, DownIsMost
<1>6. ASSUME NEW n \in Int
      PROVE  /\ DivUp(DivUp(a, hi), lo) <= n <=> a <= n * lo * hi
             /\ n <= (a \div hi) \div lo <=> n * lo * hi <= a
  <2>1. n * lo \in Int  OBVIOUS
  <2>2. DivUp(DivUp(a, hi), lo) <= n <=> DivUp(a, hi) <= n * lo
    BY <1>4, UpIsLeast
  <2>3. DivUp(a, hi) <= n * lo <=> a <= (n * lo) * hi
    BY <1>2, <2>1, UpIsLeast
  <2>4. n <= (a \div hi) \div lo <=> n * lo <= a \div hi
    BY <1>4, DownIsMost
  <2>5. n * lo <= a \div hi <=> (n * lo) * hi <= a
    BY <1>2, <2>1, DownIsMost
  <2> QED  BY <2>2, <2>3, <2>4, <2>5
<1> QED  BY <1>1, <1>3, <1>5, <1>6 DEF Pays0, Yields0

\* Token 1, rounded up and down.
LEMMA Amount1Is ==
    ASSUME NEW lo \in Nat \ {0}, NEW hi \in Nat \ {0}, lo <= hi, NEW L \in Nat
    PROVE  /\ Amount1Between(lo, hi, L, TRUE) \in Nat
           /\ Amount1Between(lo, hi, L, FALSE) \in Nat
           /\ \A n \in Int :
                /\ Amount1Between(lo, hi, L, TRUE) <= n <=> Pays1(n, lo, hi, L)
                /\ n <= Amount1Between(lo, hi, L, FALSE) <=> Yields1(n, lo, hi, L)
<1>1. PICK a : a = L * (hi - lo)
  OBVIOUS
<1>2. a \in Nat /\ Q96 \in Nat \ {0}
  <2>1. hi - lo \in Nat  OBVIOUS
  <2> QED  BY <1>1, <2>1, MathAssumption
<1>3. /\ Amount1Between(lo, hi, L, TRUE) = DivUp(a, Q96)
      /\ Amount1Between(lo, hi, L, FALSE) = a \div Q96
  BY <1>1 DEF Amount1Between, MulDivUp, MulDiv
<1>4. DivUp(a, Q96) \in Nat /\ \A n \in Int : DivUp(a, Q96) <= n <=> a <= n * Q96
  BY <1>2, UpIsLeast
<1>5. a \div Q96 \in Nat /\ \A n \in Int : n <= a \div Q96 <=> n * Q96 <= a
  BY <1>2, DownIsMost
<1> QED  BY <1>1, <1>3, <1>4, <1>5 DEF Pays1, Yields1


(***************************************************************************)
(* The price a step reaches when the target is out of reach: on the way to  *)
(* the target, and within what was left to swap.                            *)
(***************************************************************************)
\* Factors compare as their products with the same number do.
LEMMA Cancel ==
    ASSUME NEW a \in Int, NEW b \in Int, NEW d \in Nat, a * d < b * d
    PROVE  a < b
<1>1. SUFFICES ASSUME b <= a PROVE FALSE  OBVIOUS
<1>2. b * d <= a * d  BY <1>1
<1>3. a * d \in Int /\ b * d \in Int  OBVIOUS
<1> QED  BY <1>2, <1>3

\* Down, for an input of token 0.
LEMMA InputDown ==
    ASSUME NEW p \in Nat \ {0}, NEW t \in Nat \ {0}, t <= p, NEW L \in Nat, NEW n \in Int, 0 <= n,
           ~ Pays0(n, t, p, L)
    PROVE  LET x == NextPriceFromInput(p, L, n, TRUE)
           IN  x \in Nat /\ t <= x /\ x <= p /\ Pays0(n, x, p, L)
<1>x. PICK x : x = NextPriceFromInput(p, L, n, TRUE)  OBVIOUS
<1>1. PICK k : k = L * Q96  OBVIOUS
<1>2. k \in Nat  BY <1>1, MathAssumption
<1>3. k * (p - t) > n * t * p
  <2>1. n * t * p \in Int /\ k * (p - t) \in Int  BY <1>2
  <2> QED  BY <1>1, <2>1 DEF Pays0
<1>4. x \in Nat /\ t <= x /\ x <= p /\ k * (p - x) <= n * x * p
  <2>1. CASE n = 0
    <3>1. x = p  BY <1>x, <2>1 DEF NextPriceFromInput, NextPriceFromAmount0
    <3> QED  BY <1>2, <2>1, <3>1
  <2>2. CASE n # 0
    <3>1. PICK d : d = k + n * p  OBVIOUS
    <3>2. d \in Nat \ {0} /\ k * p \in Nat
      <4>1. n * p > 0 /\ n * p \in Nat /\ k * p \in Nat  BY <1>2, <2>2
      <4> QED  BY <1>2, <3>1, <4>1
    <3>3. x = DivUp(k * p, d)
      BY <1>x, <1>1, <2>2, <3>1 DEF NextPriceFromInput, NextPriceFromAmount0, MulDivUp
    <3>4. x \in Nat /\ k * p <= x * d /\ x * d < k * p + d
      BY <3>2, <3>3, UpIsLeast
    <3>5. x <= p
      <4>1. x * d < (p + 1) * d  BY <1>2, <3>1, <3>2, <3>4
      <4>2. x < p + 1  BY <3>2, <3>4, <4>1, Cancel
      <4> QED  BY <3>4, <4>2
    <3>6. t <= x
      <4>1. k * p > t * d  BY <1>2, <1>3, <3>1
      <4>2. t * d < x * d  BY <3>2, <3>4, <4>1
      <4>3. t < x  BY <3>2, <3>4, <4>2, Cancel
      <4> QED  BY <3>4, <4>3
    <3> QED  BY <1>2, <3>1, <3>4, <3>5, <3>6
  <2> QED  BY <2>1, <2>2
<1>5. Pays0(n, x, p, L)  BY <1>1, <1>4 DEF Pays0
<1> QED  BY <1>x, <1>4, <1>5

\* Up, for an input of token 1.
LEMMA InputUp ==
    ASSUME NEW p \in Nat \ {0}, NEW t \in Nat \ {0}, p <= t, NEW L \in Nat, NEW n \in Int, 0 <= n,
           ~ Pays1(n, p, t, L)
    PROVE  LET x == NextPriceFromInput(p, L, n, FALSE)
           IN  x \in Nat /\ p <= x /\ x <= t /\ Pays1(n, p, x, L)
<1>x. PICK x : x = NextPriceFromInput(p, L, n, FALSE)  OBVIOUS
<1>1. PICK k : k = n * Q96  OBVIOUS
<1>2. k \in Nat  BY <1>1, MathAssumption
<1>3. L * (t - p) > k
  <2>1. L * (t - p) \in Int  OBVIOUS
  <2> QED  BY <1>1, <1>2, <2>1 DEF Pays1
<1>4. L # 0
  <2>1. SUFFICES ASSUME L = 0 PROVE FALSE  OBVIOUS
  <2> QED  BY <1>2, <1>3, <2>1
<1>5. PICK y : y = k \div L  OBVIOUS
<1>6. x = p + y
  BY <1>x, <1>1, <1>5 DEF NextPriceFromInput, NextPriceFromAmount1
<1>7. y \in Nat /\ y * L <= k
  BY <1>2, <1>4, <1>5, DownIsMost
<1>8. y < t - p
  <2>1. y * L < (t - p) * L  BY <1>2, <1>3, <1>7
  <2>2. t - p \in Int  OBVIOUS
  <2> QED  BY <1>7, <2>1, <2>2, Cancel
<1>9. x \in Nat \ {0} /\ p <= x /\ x <= t  BY <1>6, <1>7, <1>8
<1>10. Pays1(n, p, x, L)
  <2>1. L * (x - p) <= k  BY <1>6, <1>7
  <2> QED  BY <1>1, <2>1 DEF Pays1
<1> QED  BY <1>x, <1>9, <1>10

\* Down, for an output of token 1.
LEMMA OutputDown ==
    ASSUME NEW p \in Nat \ {0}, NEW t \in Nat \ {0}, t <= p, NEW L \in Nat, NEW n \in Int, 0 <= n,
           Yields1(n + 1, t, p, L)
    PROVE  LET x == NextPriceFromOutput(p, L, n, TRUE)
           IN  x \in Nat /\ t <= x /\ x <= p /\ Yields1(n, x, p, L)
<1>x. PICK x : x = NextPriceFromOutput(p, L, n, TRUE)  OBVIOUS
<1>1. PICK k : k = n * Q96  OBVIOUS
<1>2. k \in Nat  BY <1>1, MathAssumption
<1>3. L * (p - t) > k
  <2>1. (n + 1) * Q96 > n * Q96 /\ (n + 1) * Q96 \in Int  BY MathAssumption
  <2>2. L * (p - t) \in Int  OBVIOUS
  <2> QED  BY <1>1, <1>2, <2>1, <2>2 DEF Yields1
<1>4. L # 0
  <2>1. SUFFICES ASSUME L = 0 PROVE FALSE  OBVIOUS
  <2> QED  BY <1>2, <1>3, <2>1
<1>5. PICK y : y = DivUp(k, L)  OBVIOUS
<1>6. x = p - y
  BY <1>x, <1>1, <1>5 DEF NextPriceFromOutput, NextPriceFromAmount1
<1>7. y \in Nat /\ k <= y * L /\ y * L < k + L
  BY <1>2, <1>4, <1>5, UpIsLeast
<1>8. y <= p - t
  <2>1. y * L < (p - t + 1) * L  BY <1>2, <1>3, <1>7
  <2>2. p - t + 1 \in Int  OBVIOUS
  <2>3. y < p - t + 1  BY <1>7, <2>1, <2>2, Cancel
  <2> QED  BY <1>7, <2>3
<1>9. x \in Nat \ {0} /\ t <= x /\ x <= p  BY <1>6, <1>7, <1>8
<1>10. Yields1(n, x, p, L)
  <2>1. k <= L * (p - x)  BY <1>6, <1>7
  <2> QED  BY <1>1, <2>1 DEF Yields1
<1> QED  BY <1>x, <1>9, <1>10

\* Up, for an output of token 0.
LEMMA OutputUp ==
    ASSUME NEW p \in Nat \ {0}, NEW t \in Nat \ {0}, p <= t, NEW L \in Nat, NEW n \in Int, 0 <= n,
           Yields0(n + 1, p, t, L)
    PROVE  LET x == NextPriceFromOutput(p, L, n, FALSE)
           IN  x \in Nat /\ p <= x /\ x <= t /\ Yields0(n, p, x, L)
<1>x. PICK x : x = NextPriceFromOutput(p, L, n, FALSE)  OBVIOUS
<1>1. PICK k : k = L * Q96  OBVIOUS
<1>2. k \in Nat  BY <1>1, MathAssumption
<1>3. (n + 1) * p * t <= k * (t - p)
  BY <1>1 DEF Yields0
<1>4. x \in Nat /\ p <= x /\ x <= t /\ n * p * x <= k * (x - p)
  <2>1. CASE n = 0
    <3>1. x = p  BY <1>x, <2>1 DEF NextPriceFromOutput, NextPriceFromAmount0
    <3> QED  BY <1>2, <2>1, <3>1
  <2>2. CASE n # 0
    <3>1. PICK d : d = k - n * p  OBVIOUS
    <3>2. d \in Int /\ k * p \in Nat  BY <1>2, <3>1
    <3>3. t * d >= k * p + p * t
      BY <1>2, <1>3, <3>1
    <3>4. d > 0
      <4>1. p * t > 0 /\ k * p >= 0 /\ p * t \in Int  BY <1>2
      <4>2. t * d \in Int /\ t * d > 0  BY <3>2, <3>3, <4>1
      <4> QED  BY <3>2, <4>2
    <3>5. x = DivUp(k * p, d)
      BY <1>x, <1>1, <2>2, <3>1 DEF NextPriceFromOutput, NextPriceFromAmount0, MulDivUp
    <3>6. x \in Nat /\ k * p <= x * d /\ x * d < k * p + d
      <4>1. d \in Nat \ {0}  BY <3>2, <3>4
      <4> QED  BY <3>2, <3>5, <4>1, UpIsLeast
    <3>7. x <= t
      <4>1. p * t >= 0 /\ p * t \in Int  OBVIOUS
      <4>2. t * d \in Int /\ x * d \in Int  BY <3>2, <3>6
      <4>3. x * d < t * d + d  BY <3>2, <3>3, <3>6, <4>1, <4>2
      <4>4. x * d < (t + 1) * d  BY <3>2, <4>2, <4>3
      <4>5. x < t + 1  BY <3>2, <3>4, <3>6, <4>4, Cancel
      <4> QED  BY <3>6, <4>5
    <3>8. p <= x
      <4>1. n * p > 0 /\ n * p \in Int  BY <2>2
      <4>2. d < k  BY <1>2, <3>1, <4>1
      <4>3. p * d < k * p  BY <1>2, <3>2, <4>2
      <4>4. p * d < x * d  BY <3>2, <3>6, <4>3
      <4>5. p < x  BY <3>2, <3>4, <3>6, <4>4, Cancel
      <4> QED  BY <3>6, <4>5
    <3> QED  BY <1>2, <3>1, <3>6, <3>7, <3>8
  <2> QED  BY <2>1, <2>2
<1>5. Yields0(n, p, x, L)  BY <1>1, <1>4 DEF Yields0
<1> QED  BY <1>x, <1>4, <1>5

(***************************************************************************)
(* One step of a swap.                                                      *)
(***************************************************************************)
\* The amounts of a step are natural, and nothing comes out for nothing.
LEMMA AmountsAre ==
    ASSUME NEW z \in BOOLEAN, NEW p \in Nat \ {0}, NEW x \in Nat \ {0},
           IF z THEN x <= p ELSE p <= x, NEW L \in Nat
    PROVE  /\ StepInput(p, x, L, z) \in Nat /\ StepOutput(p, x, L, z) \in Nat
           /\ StepOutput(p, x, L, z) > 0 => StepInput(p, x, L, z) > 0
<1>0. Q96 \in Nat \ {0}  BY MathAssumption
<1>n. PICK n0 \in Int, n1 \in Int : n0 = 0 /\ n1 = 1  OBVIOUS
<1>1. CASE z = TRUE
  <2>0. x <= p  BY <1>1
  <2>1. PICK a \in Nat : a = Amount0Between(x, p, L, TRUE) /\ (a <= n0 <=> Pays0(n0, x, p, L))
    BY <2>0, Amount0Is
  <2>2. PICK b \in Nat : b = Amount1Between(x, p, L, FALSE) /\ (n1 <= b <=> Yields1(n1, x, p, L))
    BY <2>0, Amount1Is
  <2>3. Yields1(n1, x, p, L) => ~ Pays0(n0, x, p, L)
    <3>1. PICK w : w = L * (p - x)  OBVIOUS
    <3>2. w \in Nat /\ L * Q96 * (p - x) = w * Q96  BY <1>0, <2>0, <3>1
    <3>3. Q96 <= w => w * Q96 > 0  BY <1>0, <3>2
    <3> QED  BY <1>0, <1>n, <3>1, <3>2, <3>3 DEF Yields1, Pays0
  <2>4. StepInput(p, x, L, z) = a /\ StepOutput(p, x, L, z) = b
    BY <1>1, <2>1, <2>2 DEF StepInput, StepOutput
  <2>5. n1 <= b => ~ (a <= n0)  BY <2>1, <2>2, <2>3
  <2>6. b > 0 => a > 0  BY <1>n, <2>5
  <2> QED  BY <2>4, <2>6
<1>2. CASE z = FALSE
  <2>0. p <= x  BY <1>2
  <2>1. PICK a \in Nat : a = Amount1Between(p, x, L, TRUE) /\ (a <= n0 <=> Pays1(n0, p, x, L))
    BY <2>0, Amount1Is
  <2>2. PICK b \in Nat : b = Amount0Between(p, x, L, FALSE) /\ (n1 <= b <=> Yields0(n1, p, x, L))
    BY <2>0, Amount0Is
  <2>3. Yields0(n1, p, x, L) => ~ Pays1(n0, p, x, L)
    <3>1. PICK w : w = L * (x - p)  OBVIOUS
    <3>2. w \in Nat /\ L * Q96 * (x - p) = w * Q96  BY <1>0, <2>0, <3>1
    <3>3. p * x > 0 /\ 1 * p * x = p * x  OBVIOUS
    <3>4. p * x <= w * Q96 => w # 0
      <4>1. SUFFICES ASSUME p * x <= w * Q96, w = 0 PROVE FALSE  OBVIOUS
      <4>2. w * Q96 = 0  BY <1>0, <4>1
      <4> QED  BY <3>3, <4>1, <4>2
    <3> QED  BY <1>0, <1>n, <3>1, <3>2, <3>3, <3>4 DEF Yields0, Pays1
  <2>4. StepInput(p, x, L, z) = a /\ StepOutput(p, x, L, z) = b
    BY <1>2, <2>1, <2>2 DEF StepInput, StepOutput
  <2>5. n1 <= b => ~ (a <= n0)  BY <2>1, <2>2, <2>3
  <2>6. b > 0 => a > 0  BY <1>n, <2>5
  <2> QED  BY <2>4, <2>6
<1> QED  BY <1>1, <1>2

\* What is left to pay in, less the fee.
LessFee(remaining) == MulDiv(remaining, Pips - Fee, Pips)

\* An input within what is left less the fee leaves room for its fee.
LEMMA FeeFits ==
    ASSUME NEW r \in Nat, NEW in \in Nat, in <= LessFee(r)
    PROVE  /\ MulDivUp(in, Fee, Pips - Fee) \in Nat
           /\ in + MulDivUp(in, Fee, Pips - Fee) <= r
<1>1. PICK P, F : P = Pips /\ F = Fee  OBVIOUS
<1>2. P \in Nat \ {0} /\ F \in Nat /\ P - F \in Nat \ {0}
  BY <1>1, MathAssumption
<1>3. in * P <= r * (P - F)
  <2>1. r * (P - F) \in Nat  BY <1>2
  <2>2. in <= (r * (P - F)) \div P  BY <1>1 DEF LessFee, MulDiv
  <2> QED  BY <1>2, <2>1, <2>2, DownIsMost
<1>4. in * F \in Nat  BY <1>2
<1>5. PICK f : f = DivUp(in * F, P - F)  OBVIOUS
<1>6. /\ f \in Nat
      /\ f * (P - F) < in * F + (P - F)
  BY <1>2, <1>4, <1>5, UpIsLeast
<1>7. f <= r - in
  <2>1. in * F <= (r - in) * (P - F)  BY <1>2, <1>3
  <2>2. f * (P - F) < (r - in + 1) * (P - F)  BY <1>2, <1>6, <2>1
  <2>3. r - in + 1 \in Int /\ P - F \in Nat  BY <1>2
  <2>4. f < r - in + 1  BY <1>6, <2>2, <2>3, Cancel
  <2> QED  BY <1>6, <2>4
<1> QED  BY <1>1, <1>5, <1>6, <1>7 DEF MulDivUp

\* The fee taken from what is left makes the input no larger.
LEMMA LessFeeIs ==
    ASSUME NEW r \in Nat
    PROVE  LessFee(r) \in Int /\ 0 <= LessFee(r) /\ LessFee(r) <= r
<1>1. PICK P, F : P = Pips /\ F = Fee  OBVIOUS
<1>2. P \in Nat \ {0} /\ F \in Nat /\ P - F \in Nat
  BY <1>1, MathAssumption
<1>3. r * (P - F) \in Nat  BY <1>2
<1>4. PICK l : l = (r * (P - F)) \div P  OBVIOUS
<1>5. l \in Nat /\ l * P <= r * (P - F)  BY <1>2, <1>3, <1>4, DownIsMost
<1>6. l * P < (r + 1) * P
  <2>1. r * (P - F) <= r * P  BY <1>2
  <2>2. r * P \in Int /\ l * P \in Int /\ r * (P - F) \in Int  BY <1>2, <1>5
  <2> QED  BY <1>2, <1>5, <2>1, <2>2
<1>7. l < r + 1  BY <1>2, <1>5, <1>6, Cancel
<1> QED  BY <1>1, <1>4, <1>5, <1>7 DEF LessFee, MulDiv

\* The price of a step lies on the way to the target.  What goes in is within
\* what is left less the fee; what comes out is all that is left, unless the
\* target was reached.
LEMMA StepPriceIs ==
    ASSUME NEW p \in Nat \ {0}, NEW t \in Nat \ {0}, NEW L \in Nat, NEW r \in Int, r # 0,
           NEW z \in BOOLEAN, IF z THEN t <= p ELSE p <= t
    PROVE  LET x == StepPrice(p, t, L, r, z)
           IN  /\ x \in Nat \ {0} /\ (IF z THEN t <= x /\ x <= p ELSE p <= x /\ x <= t)
               /\ r > 0 => StepInput(p, x, L, z) <= LessFee(r)
               /\ r < 0 /\ x # t => -r <= StepOutput(p, x, L, z)
<1>x. PICK x : x = StepPrice(p, t, L, r, z)  OBVIOUS
<1> DEFINE OnTheWay == x \in Nat \ {0} /\ (IF z THEN t <= x /\ x <= p ELSE p <= x /\ x <= t)
<1>1. CASE r > 0
  <2>1. PICK n \in Int : n = LessFee(r) /\ 0 <= n  BY <1>1, LessFeeIs
  <2>2. PICK i \in Nat : i = StepInput(p, t, L, z)  BY AmountsAre
  <2>n. n \in Int  BY <2>1
  <2>3. x = IF n >= i THEN t ELSE NextPriceFromInput(p, L, n, z)
    BY <1>x, <1>1, <2>1, <2>2 DEF StepPrice, LessFee
  <2>4. CASE n >= i
    <3>1. x = t  BY <2>3, <2>4
    <3> QED  BY <1>x, <1>1, <2>1, <2>2, <2>4, <3>1
  <2>5. CASE ~ (i <= n) /\ z
    <3>0. z = TRUE /\ ~ (n >= i)  BY <2>1, <2>2, <2>n, <2>5
    <3>1. t <= p /\ i = Amount0Between(t, p, L, TRUE)  BY <2>2, <2>5 DEF StepInput
    <3>2. ~ Pays0(n, t, p, L)  BY <2>5, <3>1, Amount0Is
    <3>3. x = NextPriceFromInput(p, L, n, TRUE)  BY <2>3, <3>0
    <3>4. x \in Nat /\ t <= x /\ x <= p /\ Pays0(n, x, p, L)  BY <2>1, <3>1, <3>2, <3>3, InputDown
    <3>5. x \in Nat \ {0}  BY <3>4
    <3>6. Amount0Between(x, p, L, TRUE) <= n  BY <3>4, <3>5, Amount0Is
    <3>7. StepInput(p, x, L, z) <= LessFee(r)  BY <2>1, <2>5, <3>6 DEF StepInput
    <3>9. IF z THEN t <= x /\ x <= p ELSE p <= x /\ x <= t  BY <3>0, <3>4
    <3> QED  BY <1>x, <1>1, <3>5, <3>7, <3>9
  <2>6. CASE ~ (i <= n) /\ ~ z
    <3>0. z = FALSE /\ ~ (n >= i)  BY <2>1, <2>2, <2>n, <2>6
    <3>1. p <= t /\ i = Amount1Between(p, t, L, TRUE)  BY <2>2, <2>6 DEF StepInput
    <3>2. ~ Pays1(n, p, t, L)  BY <2>6, <3>1, Amount1Is
    <3>3. x = NextPriceFromInput(p, L, n, FALSE)  BY <2>3, <3>0
    <3>4. x \in Nat /\ p <= x /\ x <= t /\ Pays1(n, p, x, L)  BY <2>1, <3>1, <3>2, <3>3, InputUp
    <3>5. x \in Nat \ {0}  BY <3>4
    <3>6. Amount1Between(p, x, L, TRUE) <= n  BY <3>4, <3>5, Amount1Is
    <3>7. StepInput(p, x, L, z) <= LessFee(r)  BY <2>1, <2>6, <3>6 DEF StepInput
    <3>9. IF z THEN t <= x /\ x <= p ELSE p <= x /\ x <= t  BY <3>0, <3>4
    <3> QED  BY <1>x, <1>1, <3>5, <3>7, <3>9
  <2> QED  BY <2>1, <2>2, <2>4, <2>5, <2>6
<1>2. CASE r < 0
  <2>1. PICK n \in Int : n = -r /\ 0 <= n  BY <1>2
  <2>2. PICK i \in Nat : i = StepOutput(p, t, L, z)  BY AmountsAre
  <2>3. x = IF n >= i THEN t ELSE NextPriceFromOutput(p, L, n, z)
    BY <1>x, <1>2, <2>1, <2>2 DEF StepPrice
  <2>n. PICK m \in Int : m = n + 1  BY <2>1
  <2>m. m <= i => ~ (n >= i)
    <3>1. n \in Int /\ m \in Int /\ i \in Int /\ m = n + 1  BY <2>1, <2>2, <2>n
    <3> QED  BY <3>1
  <2>4. CASE n >= i
    <3>1. x = t  BY <2>3, <2>4
    <3> QED  BY <1>x, <1>2, <3>1
  <2>5. CASE m <= i /\ z
    <3>0. z = TRUE /\ ~ (n >= i)
      <4>1. z = TRUE  BY <2>5
      <4>2. ~ (n >= i)  BY <2>m, <2>5
      <4> QED  BY <4>1, <4>2
    <3>1. t <= p /\ i = Amount1Between(t, p, L, FALSE)  BY <2>2, <2>5 DEF StepOutput
    <3>2. Yields1(m, t, p, L)  BY <2>5, <3>1, Amount1Is
    <3>3. x = NextPriceFromOutput(p, L, n, TRUE)  BY <2>3, <3>0
    <3>4. Yields1(n + 1, t, p, L)  BY <2>n, <3>2
    <3>5. x \in Nat /\ t <= x /\ x <= p /\ Yields1(n, x, p, L)
      BY <2>1, <3>1, <3>3, <3>4, OutputDown
    <3>6. x \in Nat \ {0}  BY <3>5
    <3>7. n <= Amount1Between(x, p, L, FALSE)  BY <3>5, <3>6, Amount1Is
    <3>8. -r <= StepOutput(p, x, L, z)  BY <2>1, <2>5, <3>7 DEF StepOutput
    <3>9. IF z THEN t <= x /\ x <= p ELSE p <= x /\ x <= t  BY <3>0, <3>5
    <3> QED  BY <1>x, <1>2, <3>6, <3>8, <3>9
  <2>6. CASE m <= i /\ ~ z
    <3>0. z = FALSE /\ ~ (n >= i)  BY <2>m, <2>6
    <3>1. p <= t /\ i = Amount0Between(p, t, L, FALSE)  BY <2>2, <2>6 DEF StepOutput
    <3>2. Yields0(m, p, t, L)  BY <2>6, <3>1, Amount0Is
    <3>3. x = NextPriceFromOutput(p, L, n, FALSE)  BY <2>3, <3>0
    <3>4. Yields0(n + 1, p, t, L)  BY <2>n, <3>2
    <3>5. x \in Nat /\ p <= x /\ x <= t /\ Yields0(n, p, x, L)
      BY <2>1, <3>1, <3>3, <3>4, OutputUp
    <3>6. x \in Nat \ {0}  BY <3>5
    <3>7. n <= Amount0Between(p, x, L, FALSE)  BY <3>5, <3>6, Amount0Is
    <3>8. -r <= StepOutput(p, x, L, z)  BY <2>1, <2>6, <3>7 DEF StepOutput
    <3>9. IF z THEN t <= x /\ x <= p ELSE p <= x /\ x <= t  BY <3>0, <3>5
    <3> QED  BY <1>x, <1>2, <3>6, <3>8, <3>9
  <2> QED  BY <2>n, <2>1, <2>2, <2>4, <2>5, <2>6
<1> QED  BY <1>1, <1>2

\* A step towards a target: it ends on the way there, no more goes in or out
\* than was left, exactly what was left unless the target was reached, and
\* nothing comes out for nothing.
StepSound(s, p, t, r) ==
    /\ s.price \in Nat \ {0} /\ (t <= p => t <= s.price /\ s.price <= p)
                             /\ (p <= t => p <= s.price /\ s.price <= t)
    /\ s.in \in Nat /\ s.out \in Nat /\ s.fee \in Nat
    /\ s.out > 0 => s.in > 0
    /\ r > 0 => s.in + s.fee <= r /\ (s.price # t => s.in + s.fee = r)
    /\ r < 0 => s.out <= -r /\ (s.price # t => s.out = -r)

\* Every swap step is sound, whichever way it goes.
LEMMA StepIs ==
    ASSUME NEW p \in Nat \ {0}, NEW t \in Nat \ {0}, NEW L \in Nat, NEW r \in Int, r # 0
    PROVE  StepSound(ComputeSwapStep(p, t, L, r), p, t, r)
<1>0. PICK z \in BOOLEAN :
        /\ ComputeSwapStep(p, t, L, r) = StepBetween(p, StepPrice(p, t, L, r, z), L, t, r, z)
        /\ IF z THEN t <= p ELSE p <= t
  <2>1. CASE p >= t
    <3>1. (p >= t) = TRUE /\ t <= p  BY <2>1
    <3>2. ComputeSwapStep(p, t, L, r) = StepBetween(p, StepPrice(p, t, L, r, TRUE), L, t, r, TRUE)
      BY <3>1, Zenon DEF ComputeSwapStep
    <3> QED  BY <3>1, <3>2
  <2>2. CASE ~ (p >= t)
    <3>1. (p >= t) = FALSE /\ p <= t  BY <2>2
    <3>2. ComputeSwapStep(p, t, L, r) = StepBetween(p, StepPrice(p, t, L, r, FALSE), L, t, r, FALSE)
      BY <3>1, Zenon DEF ComputeSwapStep
    <3> QED  BY <3>1, <3>2
  <2> QED  BY <2>1, <2>2
<1>x. PICK x : x = StepPrice(p, t, L, r, z)  OBVIOUS
<1>1. /\ x \in Nat \ {0} /\ (IF z THEN t <= x /\ x <= p ELSE p <= x /\ x <= t)
      /\ r > 0 => StepInput(p, x, L, z) <= LessFee(r)
      /\ r < 0 /\ x # t => -r <= StepOutput(p, x, L, z)
  BY <1>0, <1>x, StepPriceIs
<1>2. IF z THEN x <= p ELSE p <= x  BY <1>1
<1>3. PICK i \in Nat, n \in Nat :
        i = StepInput(p, x, L, z) /\ n = StepOutput(p, x, L, z) /\ (n > 0 => i > 0)
  BY <1>0, <1>1, <1>2, AmountsAre
<1>4. ComputeSwapStep(p, t, L, r) = StepAmounts(x, i, n, t, r)
  BY <1>0, <1>x, <1>3 DEF StepBetween
<1>5. PICK f : f = MulDivUp(i, Fee, Pips - Fee)  OBVIOUS
<1>6. f \in Nat
  <2>1. i * Fee \in Nat /\ Pips - Fee \in Nat \ {0}
    <3>1. Fee \in Nat /\ Pips - Fee \in Nat \ {0}  BY MathAssumption
    <3> QED  BY <3>1
  <2> QED  BY <1>5, <2>1, UpIsLeast DEF MulDivUp
<1>7. r > 0 => i <= r /\ i + f <= r
  <2>1. SUFFICES ASSUME r > 0 PROVE i <= r /\ i + f <= r  OBVIOUS
  <2>2. i <= LessFee(r)  BY <1>1, <1>3, <2>1
  <2>3. LessFee(r) \in Int /\ LessFee(r) <= r  BY <2>1, LessFeeIs
  <2>4. i + f <= r  BY <1>5, <2>1, <2>2, FeeFits
  <2> QED  BY <2>2, <2>3, <2>4
<1>8. r < 0 /\ x # t => -r <= n  BY <1>1, <1>3
<1> DEFINE s == StepAmounts(x, i, n, t, r)
<1>9. /\ s.price = x /\ s.in = i
      /\ s.out = IF r < 0 /\ n > -r THEN -r ELSE n
      /\ s.fee = IF r >= 0 /\ x # t THEN r - i ELSE f
  BY <1>5 DEF StepAmounts
<1> HIDE DEF s
<1>10. StepSound(s, p, t, r)
  <2>1. /\ s.price \in Nat \ {0} /\ (t <= p => t <= s.price /\ s.price <= p)
                                 /\ (p <= t => p <= s.price /\ s.price <= t)
    BY <1>0, <1>1, <1>9
  <2>2. /\ s.in \in Nat /\ s.out \in Nat /\ s.fee \in Nat
        /\ s.out > 0 => s.in > 0
    BY <1>3, <1>6, <1>7, <1>9
  <2>3. r > 0 => s.in + s.fee <= r /\ (s.price # t => s.in + s.fee = r)
    BY <1>3, <1>6, <1>7, <1>9
  <2>4. r < 0 => s.out <= -r /\ (s.price # t => s.out = -r)
    BY <1>3, <1>8, <1>9
  <2> QED  BY <2>1, <2>2, <2>3, <2>4 DEF StepSound
<1> QED  BY <1>4, <1>10 DEF s

(***************************************************************************)
(* Ticks and prices.                                                        *)
(***************************************************************************)
LEMMA TickFacts ==
    /\ MinTick \in Int /\ MaxTick \in Int /\ MinTick < MaxTick
    /\ \A t : t \in Ticks <=> t \in Int /\ MinTick <= t /\ t <= MaxTick
    /\ \A t \in Ticks : SqrtRatio[t] \in Nat \ {0}
    /\ \A s, t \in Ticks : s <= t <=> SqrtRatio[s] <= SqrtRatio[t]
<1>1. MinTick \in Int /\ MaxTick \in Int /\ MinTick < MaxTick  BY MathAssumption
<1>2. \A t : t \in Ticks <=> t \in Int /\ MinTick <= t /\ t <= MaxTick  BY <1>1 DEF Ticks
<1>3. \A t \in Ticks : SqrtRatio[t] \in Nat \ {0}  BY MathAssumption
<1>4. ASSUME NEW s \in Ticks, NEW t \in Ticks PROVE s <= t <=> SqrtRatio[s] <= SqrtRatio[t]
  <2>1. s < t => SqrtRatio[s] < SqrtRatio[t]  BY MathAssumption
  <2>2. t < s => SqrtRatio[t] < SqrtRatio[s]  BY MathAssumption
  <2>3. PICK a \in Nat, b \in Nat : a = SqrtRatio[s] /\ b = SqrtRatio[t]  BY <1>3
  <2>4. s \in Int /\ t \in Int  BY <1>2
  <2>5. s = t => a = b  BY <2>3
  <2> QED  BY <2>1, <2>2, <2>3, <2>4, <2>5
<1> QED  BY <1>1, <1>2, <1>3, <1>4

\* A price is in a tick: from its lower end to its upper end, inclusive.
InTick(p, t) ==
    t \in MinTick .. MaxTick - 1 /\ SqrtRatio[t] <= p /\ p <= SqrtRatio[t + 1]

\* getTickAtSqrtRatio finds the tick of every price below the highest.
LEMMA TickIs ==
    ASSUME NEW p \in Nat, SqrtRatio[MinTick] <= p, p < SqrtRatio[MaxTick]
    PROVE  /\ InTick(p, TickAtSqrtRatio(p))
           /\ \A s \in Ticks : s <= TickAtSqrtRatio(p) <=> SqrtRatio[s] <= p
<1> DEFINE B == {t \in Ticks : SqrtRatio[t] <= p}
<1>1. /\ MinTick \in Ticks /\ MaxTick \in Ticks  BY TickFacts
<1>2. PICK m \in B : \A x \in B : x <= m
  <2>1. B \in SUBSET (MinTick .. MaxTick) /\ B # {}  BY <1>1 DEF Ticks
  <2>2. MinTick \in Int /\ MaxTick \in Int  BY TickFacts
  <2> HIDE DEF B
  <2> QED  BY <2>1, <2>2, LargestIndex
<1>3. PICK t : t = TickAtSqrtRatio(p)  OBVIOUS
<1>4. t \in Ticks /\ SqrtRatio[t] <= p /\ \A s \in Ticks : SqrtRatio[s] <= p => s <= t
  <2>1. \E x \in Ticks : SqrtRatio[x] <= p /\ \A s \in Ticks : SqrtRatio[s] <= p => s <= x
    BY <1>2
  <2> QED  BY <1>3, <2>1 DEF TickAtSqrtRatio
<1>5. t # MaxTick
  <2>1. SUFFICES ASSUME t = MaxTick PROVE FALSE  OBVIOUS
  <2>2. SqrtRatio[MaxTick] \in Nat  BY <1>1, TickFacts
  <2> QED  BY <1>4, <2>1, <2>2
<1>6. t \in MinTick .. MaxTick - 1 /\ t + 1 \in Ticks /\ ~ (t + 1 <= t)
  BY <1>4, <1>5, TickFacts
<1>7. p <= SqrtRatio[t + 1]
  <2>1. SqrtRatio[t + 1] \in Nat  BY <1>6, TickFacts
  <2>2. ~ (SqrtRatio[t + 1] <= p)  BY <1>4, <1>6
  <2> QED  BY <2>1, <2>2
<1>8. ASSUME NEW s \in Ticks, s <= t PROVE SqrtRatio[s] <= p
  <2>1. SqrtRatio[s] <= SqrtRatio[t] /\ SqrtRatio[s] \in Nat /\ SqrtRatio[t] \in Nat
    BY <1>4, <1>8, TickFacts
  <2> QED  BY <1>4, <2>1
<1> QED  BY <1>3, <1>4, <1>6, <1>7, <1>8 DEF InTick

(***************************************************************************)
(* The bitmap.                                                              *)
(***************************************************************************)
\* Division of any integer, as the bitmap divides ticks.
LEMMA FloorIs ==
    ASSUME NEW a \in Int, NEW d \in Nat \ {0}
    PROVE  /\ a \div d \in Int
           /\ \A n \in Int : n <= a \div d <=> n * d <= a
<1> DEFINE q == a \div d
<1>1. q \in Int /\ q * d <= a /\ a < q * d + d
  OBVIOUS
<1> HIDE DEF q
<1>2. ASSUME NEW n \in Int, n <= q PROVE n * d <= a
  <2>1. n * d <= q * d  BY <1>1, <1>2
  <2> QED  BY <1>1, <2>1
<1>3. ASSUME NEW n \in Int, n * d <= a PROVE n <= q
  <2>1. SUFFICES ASSUME n >= q + 1 PROVE FALSE  BY <1>1
  <2>2. n * d >= (q + 1) * d  BY <1>1, <2>1
  <2> QED  BY <1>1, <1>3, <2>2
<1> QED  BY <1>1, <1>2, <1>3 DEF q

\* The largest and the smallest member of a finite set of integers.
LEMMA MaxIs ==
    ASSUME NEW a \in Int, NEW b \in Int, NEW S \in SUBSET (a .. b), S # {}
    PROVE  Max(S) \in S /\ \A x \in S : x <= Max(S)
<1>1. PICK m \in S : \A x \in S : x <= m  BY LargestIndex
<1>2. \E x \in S : \A y \in S : x >= y  BY <1>1
<1>3. Max(S) \in S /\ \A y \in S : Max(S) >= y  BY <1>2 DEF Max
<1> QED  BY <1>3

\* The smallest member, likewise.
LEMMA MinIs ==
    ASSUME NEW a \in Int, NEW b \in Int, NEW S \in SUBSET (a .. b), S # {}
    PROVE  Min(S) \in S /\ \A x \in S : Min(S) <= x
<1>1. PICK m \in S : \A x \in S : m <= x  BY SmallestIndex
<1>2. \E x \in S : \A y \in S : x <= y  BY <1>1
<1>3. Min(S) \in S /\ \A y \in S : Min(S) <= y  BY <1>2 DEF Min
<1> QED  BY <1>3

\* The larger of two integers.
LEMMA MaxOfTwo ==
    ASSUME NEW a \in Int, NEW b \in Int
    PROVE  Max({a, b}) = IF a <= b THEN b ELSE a
<1> DEFINE S == {a, b}
<1>1. \E x \in S : \A y \in S : x >= y
  <2>1. CASE a <= b  BY <2>1
  <2>2. CASE b <= a  BY <2>2
  <2> QED  BY <2>1, <2>2
<1>2. Max(S) \in S /\ \A y \in S : Max(S) >= y
  <2> HIDE DEF S
  <2> QED  BY <1>1 DEF Max
<1>3. \A x \in S : x \in Int  OBVIOUS
<1>4. PICK m : m = Max(S)  OBVIOUS
<1>5. m \in {a, b} /\ m >= a /\ m >= b  BY <1>2, <1>4
<1>6. m = IF a <= b THEN b ELSE a  BY <1>5
<1> QED  BY <1>4, <1>6

\* The smaller of two integers.
LEMMA MinOfTwo ==
    ASSUME NEW a \in Int, NEW b \in Int
    PROVE  Min({a, b}) = IF a <= b THEN a ELSE b
<1> DEFINE S == {a, b}
<1>1. \E x \in S : \A y \in S : x <= y
  <2>1. CASE a <= b  BY <2>1
  <2>2. CASE b <= a  BY <2>2
  <2> QED  BY <2>1, <2>2
<1>2. Min(S) \in S /\ \A y \in S : Min(S) <= y
  <2> HIDE DEF S
  <2> QED  BY <1>1 DEF Min
<1>4. PICK m : m = Min(S)  OBVIOUS
<1>5. m \in {a, b} /\ m <= a /\ m <= b  BY <1>2, <1>4
<1>6. m = IF a <= b THEN a ELSE b  BY <1>5
<1> QED  BY <1>4, <1>6

\* Between a tick and the next one the bitmap finds, no bit is set; the next
\* one's own bit is set if it is said to be initialized.
Skips(t, lte, n) ==
    /\ n.tick \in Int /\ n.initialized \in BOOLEAN
    /\ IF lte THEN n.tick <= t ELSE n.tick > t
    /\ \A b \in bitmap :
         IF lte THEN ~ (n.tick < b * TickSpacing /\ b * TickSpacing <= t)
                ELSE ~ (t < b * TickSpacing /\ b * TickSpacing < n.tick)
    /\ ~ n.initialized => \A b \in bitmap : b * TickSpacing # n.tick

\* The search in the bitmap passes over no initialized tick.
LEMMA NextTickSkips ==
    ASSUME NEW t \in Int, NEW lte \in BOOLEAN, bitmap \subseteq Int
    PROVE  Skips(t, lte, NextTick(t, lte))
<1> DEFINE c     == t \div TickSpacing
           start == IF lte THEN c ELSE c + 1
           word  == start \div WordSize
           bits  == {b \in word * WordSize .. (word + 1) * WordSize - 1 :
                         IF lte THEN b <= start ELSE b >= start}
           hits  == bits \cap bitmap
           found == IF hits # {} THEN hits ELSE bits
           far   == (hits # {}) <=> lte
           m     == IF far THEN Max(found) ELSE Min(found)
           n     == NextTick(t, lte)
<1>0. TickSpacing \in Nat \ {0} /\ WordSize \in Nat \ {0}  BY PoolAssumption
<1>1. c \in Int /\ \A x \in Int : x <= c <=> x * TickSpacing <= t  BY <1>0, FloorIs
<1>2. n = [tick |-> TickSpacing * m, initialized |-> hits # {}]  BY DEF NextTick
<1> HIDE DEF c, n
<1>3. start \in Int  BY <1>1
<1> HIDE DEF start
<1>4. word \in Int /\ word * WordSize <= start /\ start <= (word + 1) * WordSize - 1
  BY <1>0, <1>3
<1> HIDE DEF word
<1>5. PICK lo \in Int, hi \in Int : lo = word * WordSize /\ hi = (word + 1) * WordSize - 1
  BY <1>0, <1>4
<1>6. bits = {b \in lo .. hi : IF lte THEN b <= start ELSE b >= start}  BY <1>5
<1>7. start \in bits /\ bits \in SUBSET (lo .. hi)  BY <1>3, <1>4, <1>5, <1>6
<1>8. \A b \in bits : IF lte THEN b <= c ELSE b >= c + 1
  BY <1>1, <1>6 DEF start
<1>9. IF lte THEN lo \in bits ELSE hi \in bits  BY <1>3, <1>4, <1>5, <1>6
<1>10. \A b \in Int : /\ lte /\ lo <= b /\ b <= c => b \in bits
                      /\ ~ lte /\ c + 1 <= b /\ b <= hi => b \in bits
  <2>1. lte => start = c /\ c <= hi  BY <1>4, <1>5 DEF start
  <2>2. ~ lte => start = c + 1 /\ lo <= c + 1  BY <1>4, <1>5 DEF start
  <2>3. c \in Int  BY <1>1
  <2> QED  BY <1>6, <2>1, <2>2, <2>3
<1> HIDE DEF bits
<1>11. found \in SUBSET (lo .. hi) /\ found # {} /\ hits \subseteq bits /\ found \subseteq bits
  BY <1>7
<1>12. m \in found /\ (far => \A x \in found : x <= m) /\ (~ far => \A x \in found : m <= x)
  <2> HIDE DEF found, far
  <2>1. Max(found) \in found /\ \A x \in found : x <= Max(found)  BY <1>11, MaxIs
  <2>2. Min(found) \in found /\ \A x \in found : Min(found) <= x  BY <1>11, MinIs
  <2> QED  BY <2>1, <2>2
<1>13. m \in Int /\ m \in bits  BY <1>11, <1>12
<1> HIDE DEF m
<1>14. \A b \in bitmap : IF lte THEN ~ (m < b /\ b <= c) ELSE ~ (c + 1 <= b /\ b < m)
  <2> SUFFICES ASSUME NEW b \in bitmap
               PROVE  IF lte THEN ~ (m < b /\ b <= c) ELSE ~ (c + 1 <= b /\ b < m)
    OBVIOUS
  <2>0. b \in Int  OBVIOUS
  <2>1. ASSUME lte, m < b, b <= c  PROVE FALSE
    <3>1. b \in hits
      <4>1. lo <= m  BY <1>7, <1>13
      <4>2. b \in bits  BY <1>10, <1>13, <2>0, <2>1, <4>1
      <4> QED  BY <4>2
    <3>2. b \in found /\ far  BY <2>1, <3>1
    <3> HIDE DEF found, far
    <3>3. b <= m  BY <1>12, <3>2
    <3> QED  BY <1>13, <2>0, <2>1, <3>3
  <2>2. ASSUME ~ lte, c + 1 <= b, b < m  PROVE FALSE
    <3>1. b \in hits
      <4>1. m <= hi  BY <1>7, <1>13
      <4>2. b \in bits  BY <1>10, <1>13, <2>0, <2>2, <4>1
      <4> QED  BY <4>2
    <3>2. b \in found /\ ~ far  BY <2>2, <3>1
    <3> HIDE DEF found, far
    <3>3. m <= b  BY <1>12, <3>2
    <3> QED  BY <1>13, <2>0, <2>2, <3>3
  <2> QED  BY <2>1, <2>2
<1>15. hits = {} => m \notin bitmap  BY <1>13
<1>16. n.tick = TickSpacing * m /\ n.initialized = (hits # {})  BY <1>2
<1>17. n.tick = m * TickSpacing /\ n.tick \in Int  BY <1>0, <1>13, <1>16
<1>18. IF lte THEN m <= c ELSE ~ (m <= c)  BY <1>1, <1>8, <1>13
<1>19. IF lte THEN n.tick <= t ELSE n.tick > t
  <2>1. m <= c <=> m * TickSpacing <= t  BY <1>1, <1>13
  <2> QED  BY <1>17, <1>18, <2>1
<1>20. \A b \in bitmap : /\ b * TickSpacing \in Int
                         /\ b * TickSpacing <= t <=> b <= c
                         /\ n.tick < b * TickSpacing <=> m < b
                         /\ b * TickSpacing < n.tick <=> b < m
                         /\ b * TickSpacing = n.tick <=> b = m
  <2> SUFFICES ASSUME NEW b \in bitmap
               PROVE  /\ b * TickSpacing \in Int
                      /\ b * TickSpacing <= t <=> b <= c
                      /\ n.tick < b * TickSpacing <=> m < b
                      /\ b * TickSpacing < n.tick <=> b < m
                      /\ b * TickSpacing = n.tick <=> b = m
    OBVIOUS
  <2>0. b \in Int /\ b * TickSpacing \in Int  BY <1>0
  <2>1. b * TickSpacing <= t <=> b <= c  BY <1>1, <2>0
  <2>2. m < b => m * TickSpacing < b * TickSpacing  BY <1>0, <1>13, <2>0
  <2>3. b < m => b * TickSpacing < m * TickSpacing  BY <1>0, <1>13, <2>0
  <2> QED  BY <1>13, <1>17, <2>0, <2>1, <2>2, <2>3
<1>21. \A b \in bitmap :
         IF lte THEN ~ (n.tick < b * TickSpacing /\ b * TickSpacing <= t)
                ELSE ~ (t < b * TickSpacing /\ b * TickSpacing < n.tick)
  <2> SUFFICES ASSUME NEW b \in bitmap
               PROVE  IF lte THEN ~ (n.tick < b * TickSpacing /\ b * TickSpacing <= t)
                      ELSE ~ (t < b * TickSpacing /\ b * TickSpacing < n.tick)
    OBVIOUS
  <2>1. b \in Int /\ c \in Int  BY <1>1
  <2>2. t < b * TickSpacing => c + 1 <= b  BY <1>20, <2>1
  <2> QED  BY <1>14, <1>20, <2>2
<1>22. ~ n.initialized => \A b \in bitmap : b * TickSpacing # n.tick
  BY <1>15, <1>16, <1>20
<1>23. n.initialized \in BOOLEAN  BY <1>16
<1> QED  BY <1>17, <1>19, <1>21, <1>22, <1>23 DEF Skips, n

(***************************************************************************)
(* The liquidity of the positions, the ticks and the bitmap.                *)
(***************************************************************************)
Stakes(pos) == [k \in Keys |-> pos[k].liquidity]
Stake(pos, S) == SumFunctionOnSet(Stakes(pos), S)
Around(t) == {k \in Keys : t \in k.lower .. k.upper - 1}
Lowers(t) == {k \in Keys : k.lower = t}
Uppers(t) == {k \in Keys : k.upper = t}

\* A position with liquidity lies between two ticks of the spacing.
PositionsOK(pos) ==
    /\ DOMAIN pos = Keys
    /\ \A k \in Keys :
         /\ "liquidity" \in DOMAIN pos[k] /\ pos[k].liquidity \in Nat
         /\ pos[k].liquidity # 0 =>
              k.lower < k.upper /\ k.lower % TickSpacing = 0 /\ k.upper % TickSpacing = 0

\* A tick counts the liquidity of the positions that end there.
TicksOK(tks, pos) ==
    /\ DOMAIN tks = Ticks
    /\ \A t \in Ticks :
         /\ {"gross", "net"} \subseteq DOMAIN tks[t]
         /\ tks[t].gross = Stake(pos, Lowers(t) \cup Uppers(t))
         /\ tks[t].net = Stake(pos, Lowers(t)) - Stake(pos, Uppers(t))

BitmapOK(bits, tks) == bits = {t \div TickSpacing : t \in {s \in Ticks : tks[s].gross > 0}}

\* Positions are finitely many, and end at ticks.
LEMMA KeyFacts ==
    /\ IsFiniteSet(Keys)
    /\ \A k \in Keys : k.lower \in Ticks /\ k.upper \in Ticks /\ k.lower \in Int /\ k.upper \in Int
<1>1. IsFiniteSet(Keys) /\ \A k \in Keys : k.lower \in Ticks /\ k.upper \in Ticks
  BY PoolAssumption
<1> QED  BY <1>1, TickFacts

\* Sums of the liquidity of positions are natural numbers.
LEMMA StakesAre ==
    ASSUME NEW pos, PositionsOK(pos)
    PROVE  /\ Stakes(pos) \in [Keys -> Nat] /\ Stakes(pos) \in [Keys -> Int]
           /\ \A k \in Keys : Stakes(pos)[k] = pos[k].liquidity
           /\ \A S \in SUBSET Keys : IsFiniteSet(S) /\ Stake(pos, S) \in Nat
<1>1. /\ Stakes(pos) \in [Keys -> Nat] /\ Stakes(pos) \in [Keys -> Int]
      /\ \A k \in Keys : Stakes(pos)[k] = pos[k].liquidity
  BY DEF Stakes, PositionsOK
<1>2. ASSUME NEW S \in SUBSET Keys PROVE IsFiniteSet(S) /\ Stake(pos, S) \in Nat
  <2>1. IsFiniteSet(S)  BY KeyFacts, FS_Subset
  <2> QED  BY <1>1, <2>1, SumNat DEF Stake
<1> QED  BY <1>1, <1>2

\* At a tick without liquidity no position ends that has any.
LEMMA NothingEnds ==
    ASSUME NEW tks, NEW pos, PositionsOK(pos), TicksOK(tks, pos), NEW t \in Ticks,
           tks[t].gross = 0
    PROVE  /\ \A k \in Keys : k.lower = t \/ k.upper = t => pos[k].liquidity = 0
           /\ tks[t].net = 0
<1> DEFINE S == Lowers(t) \cup Uppers(t)
<1>1. S \in SUBSET Keys /\ Lowers(t) \in SUBSET Keys /\ Uppers(t) \in SUBSET Keys
  BY DEF Lowers, Uppers
<1>2. Stake(pos, S) = 0  BY DEF TicksOK
<1>3. ASSUME NEW k \in Keys, k.lower = t \/ k.upper = t PROVE pos[k].liquidity = 0
  <2>1. k \in S  BY <1>3 DEF Lowers, Uppers
  <2> HIDE DEF S
  <2>2. IsFiniteSet(S) /\ Stakes(pos) \in [Keys -> Nat] /\ Stakes(pos)[k] = pos[k].liquidity
    BY <1>1, StakesAre
  <2>3. Stakes(pos)[k] <= 0  BY <1>1, <1>2, <2>1, <2>2, SumPartBounds DEF Stake
  <2> QED  BY <2>2, <2>3
<1>4. tks[t].net = 0
  <2> DEFINE N == {}
  <2>1. N \in SUBSET Keys /\ Stakes(pos) \in [Keys -> Int] /\ IsFiniteSet(Keys)
    BY StakesAre, KeyFacts
  <2>2. \A k \in Keys : k \in S => Stakes(pos)[k] = 0  BY <1>3, StakesAre DEF Lowers, Uppers
  <2>3. \A k \in Keys : Stakes(pos)[k] \in Int  BY <2>1
  <2>4. Stake(pos, N) = 0  BY SumNone DEF Stake
  <2>5. Stake(pos, Lowers(t)) + Stake(pos, N) = Stake(pos, Uppers(t)) + Stake(pos, N)
    <3> DEFINE f == Stakes(pos)
    <3>1. \A k \in Keys :
            (IF k \in Lowers(t) THEN f[k] ELSE 0) + (IF k \in N THEN f[k] ELSE 0)
            = (IF k \in Uppers(t) THEN f[k] ELSE 0) + (IF k \in N THEN f[k] ELSE 0)
      BY <2>2
    <3> HIDE DEF f, N
    <3>2. f \in [Keys -> Int]  BY <2>1 DEF f
    <3> QED  BY <1>1, <2>1, <3>1, <3>2, SumParts DEF Stake, f
  <2> HIDE DEF N
  <2>6. Stake(pos, Lowers(t)) \in Nat /\ Stake(pos, Uppers(t)) \in Nat  BY <1>1, StakesAre
  <2>7. Stake(pos, Lowers(t)) = Stake(pos, Uppers(t))  BY <2>4, <2>5, <2>6
  <2>8. tks[t].net = Stake(pos, Lowers(t)) - Stake(pos, Uppers(t))  BY DEF TicksOK
  <2> QED  BY <2>6, <2>7, <2>8
<1> QED  BY <1>3, <1>4

\* Crossing a tick changes the liquidity around the price by its net.
LEMMA CrossingAdds ==
    ASSUME NEW tks, NEW pos, PositionsOK(pos), TicksOK(tks, pos), NEW t \in Ticks
    PROVE  /\ tks[t].net \in Int
           /\ Stake(pos, Around(t)) = Stake(pos, Around(t - 1)) + tks[t].net
<1> DEFINE f == Stakes(pos)
<1>1. /\ Around(t) \in SUBSET Keys /\ Around(t - 1) \in SUBSET Keys
      /\ Lowers(t) \in SUBSET Keys /\ Uppers(t) \in SUBSET Keys
  BY DEF Around, Lowers, Uppers
<1>2. /\ Stake(pos, Around(t)) \in Nat /\ Stake(pos, Around(t - 1)) \in Nat
      /\ Stake(pos, Lowers(t)) \in Nat /\ Stake(pos, Uppers(t)) \in Nat
  BY <1>1, StakesAre
<1>3. \A k \in Keys :
        (IF k \in Around(t) THEN f[k] ELSE 0) + (IF k \in Uppers(t) THEN f[k] ELSE 0)
        = (IF k \in Around(t - 1) THEN f[k] ELSE 0) + (IF k \in Lowers(t) THEN f[k] ELSE 0)
  <2> SUFFICES ASSUME NEW k \in Keys
      PROVE (IF k \in Around(t) THEN f[k] ELSE 0) + (IF k \in Uppers(t) THEN f[k] ELSE 0)
            = (IF k \in Around(t - 1) THEN f[k] ELSE 0) + (IF k \in Lowers(t) THEN f[k] ELSE 0)
    OBVIOUS
  <2>1. f[k] \in Int /\ f[k] = pos[k].liquidity  BY StakesAre
  <2>2. t \in Int /\ k.lower \in Int /\ k.upper \in Int  BY KeyFacts, TickFacts
  <2>3. f[k] = 0 \/ k.lower < k.upper  BY <2>1 DEF PositionsOK
  <2>4. /\ k \in Around(t) <=> k.lower <= t /\ t < k.upper
        /\ k \in Around(t - 1) <=> k.lower <= t - 1 /\ t <= k.upper
        /\ k \in Lowers(t) <=> k.lower = t
        /\ k \in Uppers(t) <=> k.upper = t
    BY <2>2 DEF Around, Lowers, Uppers
  <2> HIDE DEF f
  <2> QED  BY <2>1, <2>2, <2>3, <2>4
<1>4. f \in [Keys -> Int] /\ IsFiniteSet(Keys)  BY StakesAre, KeyFacts
<1> HIDE DEF f
<1>5. Stake(pos, Around(t)) + Stake(pos, Uppers(t))
      = Stake(pos, Around(t - 1)) + Stake(pos, Lowers(t))
  BY <1>1, <1>3, <1>4, SumParts DEF Stake, f
<1>6. tks[t].net = Stake(pos, Lowers(t)) - Stake(pos, Uppers(t))  BY DEF TicksOK
<1> QED  BY <1>2, <1>5, <1>6

\* Between two ticks with none initialized after the first, up to the second,
\* the liquidity stays the same.
LEMMA SameBetween ==
    ASSUME NEW tks, NEW pos, PositionsOK(pos), TicksOK(tks, pos), NEW s \in Int, NEW t \in Int,
           s <= t, \A b \in Ticks : s < b /\ b <= t => tks[b].gross = 0
    PROVE  Stake(pos, Around(s)) = Stake(pos, Around(t))
<1> DEFINE f == Stakes(pos)
           N == {}
<1>1. Around(s) \in SUBSET Keys /\ Around(t) \in SUBSET Keys /\ N \in SUBSET Keys
  BY DEF Around
<1>2. \A k \in Keys :
        (IF k \in Around(s) THEN f[k] ELSE 0) + (IF k \in N THEN f[k] ELSE 0)
        = (IF k \in Around(t) THEN f[k] ELSE 0) + (IF k \in N THEN f[k] ELSE 0)
  <2> SUFFICES ASSUME NEW k \in Keys
      PROVE (IF k \in Around(s) THEN f[k] ELSE 0) + (IF k \in N THEN f[k] ELSE 0)
            = (IF k \in Around(t) THEN f[k] ELSE 0) + (IF k \in N THEN f[k] ELSE 0)
    OBVIOUS
  <2>1. f[k] \in Int /\ f[k] = pos[k].liquidity  BY StakesAre
  <2>2. k.lower \in Ticks /\ k.upper \in Ticks /\ k.lower \in Int /\ k.upper \in Int
    BY KeyFacts
  <2>3. f[k] = 0 \/ (~ (s < k.lower /\ k.lower <= t) /\ ~ (s < k.upper /\ k.upper <= t))
    <3>1. s < k.lower /\ k.lower <= t => tks[k.lower].gross = 0  BY <2>2
    <3>2. s < k.upper /\ k.upper <= t => tks[k.upper].gross = 0  BY <2>2
    <3> QED  BY <2>1, <2>2, <3>1, <3>2, NothingEnds
  <2>4. /\ k \in Around(s) <=> k.lower <= s /\ s < k.upper
        /\ k \in Around(t) <=> k.lower <= t /\ t < k.upper
    BY <2>2 DEF Around
  <2> HIDE DEF f
  <2> QED  BY <2>1, <2>2, <2>3, <2>4
<1>3. f \in [Keys -> Int] /\ IsFiniteSet(Keys)  BY StakesAre, KeyFacts
<1>4. Stake(pos, N) = 0  BY SumNone DEF Stake
<1> HIDE DEF f, N
<1>5. Stake(pos, Around(s)) + Stake(pos, N) = Stake(pos, Around(t)) + Stake(pos, N)
  BY <1>1, <1>2, <1>3, SumParts DEF Stake, f
<1>6. Stake(pos, Around(s)) \in Nat /\ Stake(pos, Around(t)) \in Nat  BY <1>1, StakesAre
<1> QED  BY <1>4, <1>5, <1>6

(***************************************************************************)
(* A round of the swap loop.                                                *)
(***************************************************************************)
\* The positions, the ticks and the bitmap agree.
BookOK(pos, tks, bits) == PositionsOK(pos) /\ TicksOK(tks, pos) /\ BitmapOK(bits, tks)

\* A tick with liquidity is one of the spacing.
LEMMA TickAligned ==
    ASSUME NEW pos, NEW tks, PositionsOK(pos), TicksOK(tks, pos), NEW t \in Ticks
    PROVE  tks[t].gross \in Nat /\ (tks[t].gross # 0 => (t \div TickSpacing) * TickSpacing = t)
<1>1. ASSUME tks[t].gross # 0 PROVE \E k \in Keys : (k.lower = t \/ k.upper = t) /\ pos[k].liquidity # 0
  <2>1. SUFFICES ASSUME \A k \in Keys : k.lower = t \/ k.upper = t => pos[k].liquidity = 0
                 PROVE  FALSE
    OBVIOUS
  <2> DEFINE S == Lowers(t) \cup Uppers(t)
             f == [k \in S |-> 0]
  <2>2. S \in SUBSET Keys /\ \A k \in S : k.lower = t \/ k.upper = t  BY DEF Lowers, Uppers
  <2>3. IsFiniteSet(S) /\ \A k \in S : Stakes(pos)[k] = 0
    BY <2>1, <2>2, StakesAre
  <2>4. SumFunctionOnSet(f, S) = 0
    <3> HIDE DEF S
    <3> QED  BY <2>3, SumZero
  <2>5. \A k \in S : Stakes(pos)[k] = f[k]  BY <2>3
  <2>6. SumFunctionOnSet(Stakes(pos), S) = SumFunctionOnSet(f, S)
    <3> HIDE DEF S, f
    <3> QED  BY <2>3, <2>5, SumSame
  <2>7. tks[t].gross = SumFunctionOnSet(Stakes(pos), S)  BY DEF TicksOK, Stake
  <2> QED  BY <1>1, <2>4, <2>6, <2>7
<1>2. tks[t].gross # 0 => t % TickSpacing = 0  BY <1>1 DEF PositionsOK
<1>3. t \in Int /\ TickSpacing \in Nat \ {0}  BY TickFacts, PoolAssumption
<1>4. tks[t].gross # 0 => (t \div TickSpacing) * TickSpacing = t  BY <1>2, <1>3
<1>5. tks[t].gross \in Nat
  <2>1. Lowers(t) \cup Uppers(t) \in SUBSET Keys  BY DEF Lowers, Uppers
  <2>2. Stake(pos, Lowers(t) \cup Uppers(t)) \in Nat  BY <2>1, StakesAre
  <2> QED  BY <2>2 DEF TicksOK
<1> QED  BY <1>4, <1>5

\* Its bit is set.
LEMMA BitIsSet ==
    ASSUME NEW pos, NEW tks, NEW bits, BookOK(pos, tks, bits), NEW t \in Ticks,
           tks[t].gross # 0
    PROVE  t \div TickSpacing \in bits /\ (t \div TickSpacing) * TickSpacing = t
<1>1. tks[t].gross \in Nat /\ (t \div TickSpacing) * TickSpacing = t
  BY TickAligned DEF BookOK
<1>2. tks[t].gross > 0  BY <1>1
<1>3. t \div TickSpacing \in bits  BY <1>2 DEF BookOK, BitmapOK
<1> QED  BY <1>1, <1>3

\* The tick a round aims at.
Aim(t, lte) == Max({MinTick, Min({MaxTick, NextTick(t, lte).tick})})

\* It is further on, there is no liquidity between, and none at it if it is
\* not found initialized.
LEMMA AimIs ==
    ASSUME NEW pos, BookOK(pos, ticks, bitmap), NEW t \in MinTick .. MaxTick - 1,
           NEW lte \in BOOLEAN
    PROVE  /\ Aim(t, lte) \in Ticks /\ (IF lte THEN Aim(t, lte) <= t ELSE Aim(t, lte) > t)
           /\ NextTick(t, lte).initialized \in BOOLEAN
           /\ \A b \in Ticks : (IF lte THEN Aim(t, lte) < b /\ b <= t ELSE t < b /\ b < Aim(t, lte))
                               => ticks[b].gross = 0
           /\ ~ NextTick(t, lte).initialized => ticks[Aim(t, lte)].gross = 0
<1>0. /\ MinTick \in Int /\ MaxTick \in Int /\ MinTick < MaxTick
      /\ t \in Int /\ MinTick <= t /\ t < MaxTick
  BY TickFacts
<1>1. bitmap \subseteq Int
  <2>1. \A b \in Ticks : b \in Int /\ TickSpacing \in Nat \ {0}  BY TickFacts, PoolAssumption
  <2> QED  BY <2>1 DEF BookOK, BitmapOK
<1>2. Skips(t, lte, NextTick(t, lte))  BY <1>0, <1>1, NextTickSkips
<1>3. PICK n, i : n = NextTick(t, lte).tick /\ i = NextTick(t, lte).initialized  OBVIOUS
<1>4. n \in Int /\ i \in BOOLEAN /\ (IF lte THEN n <= t ELSE n > t)  BY <1>2, <1>3 DEF Skips
<1>5. /\ \A b \in bitmap : IF lte THEN ~ (n < b * TickSpacing /\ b * TickSpacing <= t)
                           ELSE ~ (t < b * TickSpacing /\ b * TickSpacing < n)
      /\ ~ i => \A b \in bitmap : b * TickSpacing # n
  BY <1>2, <1>3 DEF Skips
<1>6. PICK x \in Int : x = Min({MaxTick, n}) /\ x = IF MaxTick <= n THEN MaxTick ELSE n
  <2>1. Min({MaxTick, n}) = IF MaxTick <= n THEN MaxTick ELSE n  BY <1>0, <1>4, MinOfTwo
  <2> QED  BY <1>0, <1>4, <2>1
<1>7. PICK a \in Int : a = Aim(t, lte) /\ a = IF MinTick <= x THEN x ELSE MinTick
  <2>1. Max({MinTick, x}) = IF MinTick <= x THEN x ELSE MinTick  BY <1>0, <1>6, MaxOfTwo
  <2>2. Aim(t, lte) = Max({MinTick, x})  BY <1>3, <1>6 DEF Aim
  <2> QED  BY <1>0, <1>6, <2>1, <2>2
<1>8. /\ a \in Ticks /\ (IF lte THEN a <= t ELSE a > t)
      /\ lte => a = (IF MinTick <= n THEN n ELSE MinTick)
      /\ ~ lte => a = (IF MaxTick <= n THEN MaxTick ELSE n)
  BY <1>0, <1>4, <1>6, <1>7, TickFacts
<1>9. ASSUME NEW b \in Ticks, ticks[b].gross # 0
      PROVE  /\ IF lte THEN ~ (n < b /\ b <= t) ELSE ~ (t < b /\ b < n)
             /\ ~ i => b # n
  <2>1. b \div TickSpacing \in bitmap /\ (b \div TickSpacing) * TickSpacing = b
    BY <1>9, BitIsSet
  <2> QED  BY <1>5, <2>1
<1>10. ASSUME NEW b \in Ticks, IF lte THEN a < b /\ b <= t ELSE t < b /\ b < a
       PROVE  ticks[b].gross = 0
  <2>1. b \in Int  BY TickFacts
  <2>2. IF lte THEN n < b /\ b <= t ELSE t < b /\ b < n
    BY <1>0, <1>4, <1>8, <1>10, <2>1
  <2> QED  BY <1>9, <2>2
<1>11. ASSUME ~ i PROVE ticks[a].gross = 0
  <2>1. SUFFICES ASSUME ticks[a].gross # 0 PROVE FALSE  OBVIOUS
  <2>2. a # n  BY <1>8, <1>9, <1>11, <2>1
  <2>3. IF lte THEN n < a /\ a <= t ELSE t < a /\ a < n  BY <1>0, <1>4, <1>8, <2>2
  <2> QED  BY <1>8, <1>9, <2>1, <2>3
<1> QED  BY <1>3, <1>4, <1>7, <1>8, <1>10, <1>11

\* What a swap has got and given so far: never more in or out than was asked
\* for, and nothing out while nothing is in.
Reached(s, o) ==
    /\ s.remaining \in Int /\ s.calculated \in Int
    /\ o.amount > 0 => /\ 0 <= s.remaining /\ s.remaining <= o.amount
                       /\ s.calculated <= 0 /\ (s.calculated < 0 => s.remaining < o.amount)
    /\ o.amount < 0 => /\ o.amount <= s.remaining /\ s.remaining <= 0
                       /\ s.calculated >= 0 /\ (o.amount < s.remaining => s.calculated > 0)

\* Where the price of a swap stands.
Placed(s, o) ==
    /\ s.price \in Nat \ {0} /\ InTick(s.price, s.tick)
    /\ IF o.zeroForOne THEN o.limit <= s.price ELSE s.price <= o.limit
    /\ s.liquidity = Stake(positions, Around(s.tick))
    /\ TicksOK(s.ticks, positions)

SwapFields == {"remaining", "calculated", "price", "tick", "growth", "protocolFee",
               "liquidity", "ticks"}

LoopInv(s, o) == SwapFields \subseteq DOMAIN s /\ Reached(s, o) /\ Placed(s, o)

\* An order, and a limit between the lowest and the highest price.
Limited(o) ==
    /\ o.zeroForOne \in BOOLEAN /\ o.amount \in Int /\ o.amount # 0 /\ o.limit \in Nat
    /\ SqrtRatio[MinTick] < o.limit /\ o.limit < SqrtRatio[MaxTick]

\* The amounts after a step.
LEMMA StepReaches ==
    ASSUME NEW s, NEW o, SwapFields \subseteq DOMAIN s, Reached(s, o), Limited(o),
           s.remaining # 0, NEW p, NEW t, NEW c, StepSound(c, p, t, s.remaining)
    PROVE  /\ Reached(StepTaken(s, o, c), o)
           /\ SwapFields \subseteq DOMAIN StepTaken(s, o, c)
           /\ c.price # t => StepTaken(s, o, c).remaining = 0
<1>1. PICK a : a = StepTaken(s, o, c)  OBVIOUS
<1>2. /\ SwapFields \subseteq DOMAIN a
      /\ a.remaining = IF o.amount > 0 THEN s.remaining - (c.in + c.fee) ELSE s.remaining + c.out
      /\ a.calculated = IF o.amount > 0 THEN s.calculated - c.out ELSE s.calculated + c.in + c.fee
  BY <1>1 DEF StepTaken, Accounted, SwapFields
<1>3. PICK in \in Nat, out \in Nat, fee \in Nat : in = c.in /\ out = c.out /\ fee = c.fee
  BY DEF StepSound
<1>4. PICK r \in Int, n \in Int, m \in Int : r = s.remaining /\ n = s.calculated /\ m = o.amount
  BY DEF Reached, Limited
<1>5. /\ out > 0 => in > 0
      /\ r > 0 => in + fee <= r /\ (c.price # t => in + fee = r)
      /\ r < 0 => out <= -r /\ (c.price # t => out = -r)
  BY <1>3, <1>4 DEF StepSound
<1>6. /\ m # 0 /\ r # 0
      /\ m > 0 => 0 <= r /\ r <= m /\ n <= 0 /\ (n < 0 => r < m)
      /\ m < 0 => m <= r /\ r <= 0 /\ n >= 0 /\ (m < r => n > 0)
  BY <1>4 DEF Reached, Limited
<1>7. /\ m > 0 => a.remaining = r - (in + fee) /\ a.calculated = n - out
      /\ m < 0 => a.remaining = r + out /\ a.calculated = n + in + fee
  BY <1>2, <1>3, <1>4
<1>8. CASE m > 0
  <2>1. PICK x \in Int, y \in Int : x = r - (in + fee) /\ y = n - out  OBVIOUS
  <2>2. 0 <= x /\ x <= m /\ y <= 0 /\ (y < 0 => x < m) /\ (c.price # t => x = 0)
    BY <1>5, <1>6, <1>8, <2>1
  <2>3. a.remaining = x /\ a.calculated = y  BY <1>7, <1>8, <2>1
  <2>4. Reached(a, o)  BY <1>4, <1>8, <2>2, <2>3 DEF Reached
  <2> QED  BY <1>1, <1>2, <2>2, <2>3, <2>4
<1>9. CASE m < 0
  <2>1. PICK x \in Int, y \in Int : x = r + out /\ y = n + in + fee  OBVIOUS
  <2>2. m <= x /\ x <= 0 /\ y >= 0 /\ (m < x => y > 0) /\ (c.price # t => x = 0)
    BY <1>5, <1>6, <1>9, <2>1
  <2>3. a.remaining = x /\ a.calculated = y  BY <1>7, <1>9, <2>1
  <2>4. Reached(a, o)  BY <1>4, <1>9, <2>2, <2>3 DEF Reached
  <2> QED  BY <1>1, <1>2, <2>2, <2>3, <2>4
<1> QED  BY <1>6, <1>8, <1>9

\* Turning over a tick's growth leaves what it counts.
LEMMA CrossedCounts ==
    ASSUME NEW s, NEW o, NEW t \in Ticks, TicksOK(s.ticks, positions)
    PROVE  TicksOK(Crossed(s, o, t), positions)
<1> DEFINE g == Crossed(s, o, t)
<1>1. DOMAIN g = Ticks /\ \A b \in Ticks : b # t => g[b] = s.ticks[b]
  BY DEF Crossed, TicksOK
<1>2. /\ {"gross", "net"} \subseteq DOMAIN g[t]
      /\ g[t].gross = s.ticks[t].gross /\ g[t].net = s.ticks[t].net
  BY DEF Crossed, TicksOK
<1> HIDE DEF g
<1>3. \A b \in Ticks : /\ {"gross", "net"} \subseteq DOMAIN g[b]
                       /\ g[b].gross = s.ticks[b].gross /\ g[b].net = s.ticks[b].net
  BY <1>1, <1>2 DEF TicksOK
<1>4. TicksOK(g, positions)  BY <1>1, <1>3 DEF TicksOK
<1> QED  BY <1>4 DEF g

\* The price a round aims at lies beyond the price, or at it.
LEMMA TargetIs ==
    ASSUME NEW o, Limited(o), NEW to \in Ticks
    PROVE  /\ Target(o, to) \in Nat \ {0}
           /\ o.zeroForOne => /\ SqrtRatio[to] <= Target(o, to) /\ o.limit <= Target(o, to)
           /\ ~ o.zeroForOne => /\ Target(o, to) <= SqrtRatio[to] /\ Target(o, to) <= o.limit
           /\ Target(o, to) = SqrtRatio[to] \/ Target(o, to) = o.limit
<1>1. PICK a \in Int, l \in Int : a = SqrtRatio[to] /\ l = o.limit /\ a > 0 /\ l > 0
  <2>1. SqrtRatio[to] \in Nat \ {0} /\ SqrtRatio[MinTick] \in Nat  BY TickFacts
  <2>2. o.limit \in Nat /\ SqrtRatio[MinTick] < o.limit  BY DEF Limited
  <2>3. o.limit > 0  BY <2>1, <2>2
  <2> QED  BY <2>1, <2>2, <2>3
<1>2. Max({a, l}) = (IF a <= l THEN l ELSE a) /\ Min({a, l}) = (IF a <= l THEN a ELSE l)
  BY MaxOfTwo, MinOfTwo
<1>3. Target(o, to) = IF o.zeroForOne THEN Max({a, l}) ELSE Min({a, l})
  BY <1>1 DEF Target
<1>4. PICK x : x = Target(o, to)  OBVIOUS
<1>5. x = IF o.zeroForOne THEN (IF a <= l THEN l ELSE a) ELSE (IF a <= l THEN a ELSE l)
  BY <1>2, <1>3, <1>4
<1>6. o.zeroForOne \in BOOLEAN  BY DEF Limited
<1> QED  BY <1>1, <1>4, <1>5, <1>6

\* What a round has before it looks at where it ended: s with the amounts and
\* the price of the step, which is p now, between the old price and target t.
Stepped(s, a, o, to) ==
    /\ Reached(a, o) /\ SwapFields \subseteq DOMAIN a
    /\ a.tick = s.tick /\ a.liquidity = s.liquidity /\ a.ticks = s.ticks
    /\ a.price \in Nat \ {0}
    /\ IF o.zeroForOne THEN /\ SqrtRatio[to] <= a.price /\ a.price <= s.price /\ o.limit <= a.price
                       ELSE /\ s.price <= a.price /\ a.price <= SqrtRatio[to] /\ a.price <= o.limit
    /\ a.price # SqrtRatio[to] => a.remaining = 0 \/ a.price = o.limit

\* The step of a round leaves all but price and amounts as it was.
LEMMA StepIsStepped ==
    ASSUME PositionsOK(positions), NEW s, NEW o, LoopInv(s, o), Limited(o), s.remaining # 0,
           NEW to \in Ticks, IF o.zeroForOne THEN to <= s.tick ELSE to > s.tick
    PROVE  Stepped(s, StepTaken(s, o, ComputeSwapStep(s.price, Target(o, to), s.liquidity,
                                                     s.remaining)), o, to)
<1>1. PICK t : t = Target(o, to)  OBVIOUS
<1>2. PICK c : c = ComputeSwapStep(s.price, t, s.liquidity, s.remaining)  OBVIOUS
<1>3. PICK a : a = StepTaken(s, o, c)  OBVIOUS
<1>4. /\ SwapFields \subseteq DOMAIN s /\ Reached(s, o) /\ Placed(s, o)
      /\ s.price \in Nat \ {0} /\ InTick(s.price, s.tick) /\ o.zeroForOne \in BOOLEAN
      /\ IF o.zeroForOne THEN o.limit <= s.price ELSE s.price <= o.limit
      /\ o.limit \in Nat
  BY DEF LoopInv, Placed, Limited
<1>5. s.liquidity \in Nat
  <2>1. Around(s.tick) \in SUBSET Keys  BY DEF Around
  <2> QED  BY <1>4, <2>1, StakesAre DEF Placed
<1>6. /\ t \in Nat \ {0}
      /\ o.zeroForOne => SqrtRatio[to] <= t /\ o.limit <= t
      /\ ~ o.zeroForOne => t <= SqrtRatio[to] /\ t <= o.limit
      /\ t = SqrtRatio[to] \/ t = o.limit
  BY <1>1, TargetIs
<1>7. s.remaining \in Int  BY <1>4 DEF Reached
<1>8. StepSound(c, s.price, t, s.remaining)  BY <1>2, <1>4, <1>5, <1>6, <1>7, StepIs
<1>9. /\ Reached(a, o) /\ SwapFields \subseteq DOMAIN a
      /\ c.price # t => a.remaining = 0
  <2>1. SwapFields \subseteq DOMAIN s /\ Reached(s, o)  BY <1>4
  <2>2. PICK p : p = s.price  OBVIOUS
  <2>3. StepSound(c, p, t, s.remaining)  BY <1>8, <2>2
  <2> QED  BY <1>3, <2>1, <2>3, StepReaches
<1>10. /\ a.tick = s.tick /\ a.liquidity = s.liquidity /\ a.ticks = s.ticks /\ a.price = c.price
  BY <1>3, <1>4 DEF StepTaken, Accounted, SwapFields
<1>11. PICK p \in Nat, q \in Nat, r \in Nat, l \in Nat :
         p = s.price /\ q = c.price /\ r = SqrtRatio[to] /\ l = o.limit
  BY <1>4, <1>8, TickFacts DEF StepSound
<1>12. q # 0 /\ (t <= p => t <= q /\ q <= p) /\ (p <= t => p <= q /\ q <= t)
  BY <1>8, <1>11 DEF StepSound
<1>13. CASE o.zeroForOne
  <2>1. r <= p
    <3>1. s.tick \in Ticks /\ SqrtRatio[s.tick] <= p  BY <1>4, <1>11, TickFacts DEF InTick
    <3>2. SqrtRatio[to] <= SqrtRatio[s.tick] /\ SqrtRatio[s.tick] \in Nat
      BY <1>13, <3>1, TickFacts
    <3> QED  BY <1>11, <3>1, <3>2
  <2>2. l <= p /\ r <= t /\ l <= t /\ (t = r \/ t = l)  BY <1>4, <1>6, <1>11, <1>13
  <2>3. t <= q /\ q <= p  BY <1>6, <1>12, <2>1, <2>2
  <2>4. r <= q /\ q <= p /\ l <= q  BY <1>6, <2>2, <2>3
  <2>5. q # r => a.remaining = 0 \/ q = l  BY <1>9, <1>11, <2>2
  <2> QED  BY <1>1, <1>2, <1>3, <1>9, <1>10, <1>11, <1>12, <1>13, <2>4, <2>5 DEF Stepped
<1>14. CASE ~ o.zeroForOne
  <2>1. p <= r
    <3>1. s.tick + 1 \in Ticks /\ p <= SqrtRatio[s.tick + 1] /\ s.tick + 1 <= to
      BY <1>4, <1>11, <1>14, TickFacts DEF InTick
    <3>2. SqrtRatio[s.tick + 1] <= SqrtRatio[to] /\ SqrtRatio[s.tick + 1] \in Nat
      BY <3>1, TickFacts
    <3> QED  BY <1>11, <3>1, <3>2
  <2>2. p <= l /\ t <= r /\ t <= l /\ (t = r \/ t = l)  BY <1>4, <1>6, <1>11, <1>14
  <2>3. p <= q /\ q <= t  BY <1>6, <1>12, <2>1, <2>2
  <2>4. p <= q /\ q <= r /\ q <= l  BY <1>6, <2>2, <2>3
  <2>5. q # r => a.remaining = 0 \/ q = l  BY <1>9, <1>11, <2>2
  <2> QED  BY <1>1, <1>2, <1>3, <1>9, <1>10, <1>11, <1>12, <1>14, <2>4, <2>5 DEF Stepped
<1> QED  BY <1>13, <1>14

\* Where the round leaves the swap: the loop's invariant holds again, and the
\* swap is over unless the tick was left behind.
Leaves(s, r, o) ==
    IF o.zeroForOne THEN r.tick <= s.tick - 1 ELSE r.tick >= s.tick + 1

\* A round that does not reach the tick it aims at stays before it.
Stays(s, r, o, to) ==
    IF o.zeroForOne THEN to <= r.tick /\ r.tick <= s.tick ELSE s.tick <= r.tick /\ r.tick < to

\* The loop invariant survives the end of a round: a tick crossed, passed or not reached.
LEMMA ShiftKeeps ==
    ASSUME BookOK(positions, ticks, bitmap), NEW s, NEW a, NEW o, LoopInv(s, o), Limited(o),
           NEW to \in Ticks, NEW i \in BOOLEAN, Stepped(s, a, o, to),
           IF o.zeroForOne THEN to <= s.tick ELSE to > s.tick,
           \A b \in Ticks : (IF o.zeroForOne THEN to < b /\ b <= s.tick ELSE s.tick < b /\ b < to)
                            => ticks[b].gross = 0,
           ~ i => ticks[to].gross = 0
    PROVE  /\ LoopInv(Shifted(a, s.price, o, to, i), o)
           /\ Unfinished(Shifted(a, s.price, o, to, i), o)
                => Leaves(s, Shifted(a, s.price, o, to, i), o)
           /\ a.price # SqrtRatio[to] => Stays(s, Shifted(a, s.price, o, to, i), o, to)
<1> DEFINE F(t) == Stake(positions, Around(t))
<1>1. PICK r : r = Shifted(a, s.price, o, to, i)  OBVIOUS
<1>2. /\ PositionsOK(positions) /\ TicksOK(ticks, positions)
      /\ SwapFields \subseteq DOMAIN a /\ Reached(a, o)
      /\ a.tick = s.tick /\ a.liquidity = F(s.tick) /\ TicksOK(a.ticks, positions)
      /\ InTick(s.price, s.tick) /\ o.zeroForOne \in BOOLEAN
  BY DEF LoopInv, Placed, Stepped, Limited, BookOK
<1>3. PICK p \in Nat, q \in Nat \ {0}, m \in Nat, l \in Nat, lo \in Nat, hi \in Nat :
        /\ p = s.price /\ q = a.price /\ m = SqrtRatio[to] /\ l = o.limit
        /\ lo = SqrtRatio[MinTick] /\ hi = SqrtRatio[MaxTick]
  <2>1. MinTick \in Ticks /\ MaxTick \in Ticks  BY TickFacts
  <2>2. SqrtRatio[to] \in Nat /\ SqrtRatio[MinTick] \in Nat /\ SqrtRatio[MaxTick] \in Nat
    BY <2>1, TickFacts
  <2>3. s.price \in Nat /\ a.price \in Nat \ {0} /\ o.limit \in Nat
    BY DEF LoopInv, Placed, Stepped, Limited
  <2> QED  BY <2>2, <2>3
<1>4. /\ lo < l /\ l < hi
      /\ IF o.zeroForOne THEN m <= q /\ q <= p /\ l <= q ELSE p <= q /\ q <= m /\ q <= l
      /\ q # m => a.remaining = 0 \/ q = l
  BY <1>3 DEF Limited, Stepped
<1>5. s.tick \in Int /\ to \in Int /\ s.tick \in Ticks /\ s.tick + 1 \in Ticks
      /\ SqrtRatio[s.tick] <= p /\ p <= SqrtRatio[s.tick + 1]
      /\ MinTick <= s.tick /\ s.tick <= MaxTick - 1
  BY <1>2, <1>3, TickFacts DEF InTick
<1>6. \A t \in Ticks : F(t) \in Int /\ F(t - 1) \in Int /\ F(t) = F(t - 1) + a.ticks[t].net
                       /\ a.ticks[t].net \in Int
  <2> SUFFICES ASSUME NEW t \in Ticks
               PROVE  F(t) \in Int /\ F(t - 1) \in Int /\ F(t) = F(t - 1) + a.ticks[t].net
                      /\ a.ticks[t].net \in Int
    OBVIOUS
  <2>1. Around(t) \in SUBSET Keys /\ Around(t - 1) \in SUBSET Keys  BY DEF Around
  <2> QED  BY <1>2, <2>1, StakesAre, CrossingAdds
<1>7. ~ i => a.ticks[to].net = 0
  <2>1. a.ticks[to].gross = ticks[to].gross  BY <1>2 DEF TicksOK
  <2> QED  BY <1>2, <2>1, NothingEnds
<1>8. ASSUME NEW x \in Int, NEW y \in Int, x <= y,
             \A b \in Ticks : x < b /\ b <= y => ticks[b].gross = 0
      PROVE  F(x) = F(y)
  BY <1>2, <1>8, SameBetween
<1> HIDE DEF F
<1>9. CASE q = m
  <2> DEFINE n == IF o.zeroForOne THEN to - 1 ELSE to
  <2>1. /\ r.tick = n /\ r.price = q /\ SwapFields \subseteq DOMAIN r
        /\ r.remaining = a.remaining /\ r.calculated = a.calculated
        /\ r.ticks = IF i THEN Crossed(a, o, to) ELSE a.ticks
        /\ r.liquidity = IF i THEN a.liquidity + Net(a, o, to) ELSE a.liquidity
    <3>1. CASE i
      <4>1. r = [a EXCEPT !.tick = n, !.ticks = Crossed(a, o, to), !.liquidity = @ + Net(a, o, to)]
        BY <1>1, <1>3, <1>9, <3>1 DEF Shifted
      <4> QED  BY <1>2, <1>3, <3>1, <4>1 DEF SwapFields
    <3>2. CASE ~ i
      <4>1. r = [a EXCEPT !.tick = n]  BY <1>1, <1>3, <1>9, <3>2 DEF Shifted
      <4> QED  BY <1>2, <1>3, <3>2, <4>1 DEF SwapFields
    <3> QED  BY <3>1, <3>2
  <2>2. TicksOK(r.ticks, positions)  BY <1>2, <2>1, CrossedCounts
  <2>3. Reached(r, o)  BY <1>2, <2>1 DEF Reached
  <2>4. r.liquidity = IF o.zeroForOne THEN F(s.tick) - a.ticks[to].net ELSE F(s.tick) + a.ticks[to].net
    <3>1. F(s.tick) \in Int /\ a.ticks[to].net \in Int  BY <1>5, <1>6
    <3>2. Net(a, o, to) = IF o.zeroForOne THEN -a.ticks[to].net ELSE a.ticks[to].net  BY DEF Net
    <3> QED  BY <1>2, <1>7, <2>1, <3>1, <3>2
  <2>5. CASE o.zeroForOne
    <3>1. to <= s.tick /\ n = to - 1  BY <2>5
    <3>2. F(to) = F(s.tick)
      <4>1. \A b \in Ticks : to < b /\ b <= s.tick => ticks[b].gross = 0  BY <2>5
      <4> QED  BY <1>5, <1>8, <3>1, <4>1
    <3>3. r.liquidity = F(n)  BY <1>5, <1>6, <2>4, <2>5, <3>1, <3>2
    <3>4. to # MinTick  BY <1>3, <1>4, <1>9, <2>5
    <3>5. n \in MinTick .. MaxTick - 1 /\ n \in Ticks /\ n <= to  BY <1>5, <3>1, <3>4, TickFacts
    <3>6. InTick(q, n)
      <4>1. SqrtRatio[n] <= SqrtRatio[to]  BY <3>5, TickFacts
      <4>2. n + 1 = to  BY <1>5, <3>1
      <4> QED  BY <1>3, <1>9, <3>5, <4>1, <4>2 DEF InTick
    <3>7. Leaves(s, r, o)  BY <1>5, <2>1, <2>5, <3>1 DEF Leaves
    <3>8. Placed(r, o)  BY <1>3, <1>4, <2>1, <2>2, <2>5, <3>3, <3>6 DEF Placed, F
    <3> QED  BY <1>1, <1>3, <1>9, <2>1, <2>3, <3>7, <3>8 DEF LoopInv
  <2>6. CASE ~ o.zeroForOne
    <3>1. to > s.tick /\ n = to  BY <2>6
    <3>2. F(s.tick) = F(to - 1)
      <4>1. \A b \in Ticks : s.tick < b /\ b <= to - 1 => ticks[b].gross = 0
        <5>1. \A b \in Ticks : b \in Int  BY TickFacts
        <5> QED  BY <1>5, <2>6, <5>1
      <4> QED  BY <1>5, <1>8, <3>1, <4>1
    <3>3. r.liquidity = F(n)  BY <1>5, <1>6, <2>4, <2>6, <3>1, <3>2
    <3>4. to # MaxTick  BY <1>3, <1>4, <1>9, <2>6
    <3>5. n \in MinTick .. MaxTick - 1 /\ to + 1 \in Ticks /\ to <= to + 1
      BY <1>5, <3>1, <3>4, TickFacts
    <3>6. InTick(q, n)
      <4>1. SqrtRatio[to] <= SqrtRatio[to + 1]  BY <3>5, TickFacts
      <4> QED  BY <1>3, <1>9, <3>1, <3>5, <4>1 DEF InTick
    <3>7. Leaves(s, r, o)  BY <1>5, <2>1, <2>6, <3>1 DEF Leaves
    <3>8. Placed(r, o)  BY <1>3, <1>4, <2>1, <2>2, <2>6, <3>3, <3>6 DEF Placed, F
    <3> QED  BY <1>1, <1>3, <1>9, <2>1, <2>3, <3>7, <3>8 DEF LoopInv
  <2> QED  BY <1>2, <2>5, <2>6
<1>10. CASE q # m /\ q # p
  <2>1. r = [a EXCEPT !.tick = TickAtSqrtRatio(q)]  BY <1>1, <1>3, <1>10 DEF Shifted
  <2>2. /\ r.tick = TickAtSqrtRatio(q) /\ r.price = q /\ SwapFields \subseteq DOMAIN r
        /\ r.remaining = a.remaining /\ r.calculated = a.calculated
        /\ r.ticks = a.ticks /\ r.liquidity = a.liquidity
    BY <1>2, <1>3, <2>1 DEF SwapFields
  <2>3. PICK n : n = TickAtSqrtRatio(q)  OBVIOUS
  <2>4. lo <= q /\ q < hi
    <3>1. lo <= p /\ p <= hi
      <4>1. /\ SqrtRatio[MinTick] <= SqrtRatio[s.tick] /\ SqrtRatio[s.tick + 1] <= SqrtRatio[MaxTick]
            /\ SqrtRatio[s.tick] \in Nat /\ SqrtRatio[s.tick + 1] \in Nat
        BY <1>5, TickFacts
      <4> QED  BY <1>3, <1>5, <4>1
    <3> QED  BY <1>2, <1>4, <1>10, <3>1
  <2>5. InTick(q, n) /\ \A b \in Ticks : b <= n <=> SqrtRatio[b] <= q
    BY <1>3, <2>3, <2>4, TickIs
  <2>6. n \in Int /\ n \in Ticks  BY <2>5, TickFacts DEF InTick
  <2>7. F(n) = F(s.tick) /\ Stays(s, r, o, to)
    <3>0. r.tick = n  BY <2>2, <2>3
    <3>1. CASE o.zeroForOne
      <4>1. to <= n  BY <1>3, <1>4, <2>5, <3>1
      <4>2. ~ (s.tick + 1 <= n)
        <5>1. q < p  BY <1>4, <1>10, <3>1
        <5>2. SqrtRatio[s.tick + 1] \in Nat  BY <1>5, TickFacts
        <5> QED  BY <1>5, <2>5, <5>1, <5>2
      <4>3. n <= s.tick /\ \A b \in Ticks : n < b /\ b <= s.tick => ticks[b].gross = 0
        <5>1. \A b \in Ticks : b \in Int  BY TickFacts
        <5> QED  BY <1>5, <2>6, <3>1, <4>1, <4>2, <5>1
      <4>4. F(n) = F(s.tick)  BY <1>5, <1>8, <2>6, <4>3
      <4>5. Stays(s, r, o, to)  BY <3>0, <3>1, <4>1, <4>3 DEF Stays
      <4> QED  BY <4>4, <4>5
    <3>2. CASE ~ o.zeroForOne
      <4>1. s.tick <= n
        <5>1. SqrtRatio[s.tick] \in Nat  BY <1>5, TickFacts
        <5>2. SqrtRatio[s.tick] <= q  BY <1>4, <1>5, <3>2, <5>1
        <5> QED  BY <1>5, <2>5, <5>2
      <4>2. ~ (to <= n)
        <5>1. q < m  BY <1>4, <1>10, <3>2
        <5> QED  BY <1>3, <2>5, <5>1
      <4>3. \A b \in Ticks : s.tick < b /\ b <= n => ticks[b].gross = 0
        <5>1. \A b \in Ticks : b \in Int  BY TickFacts
        <5> QED  BY <1>5, <2>6, <3>2, <4>2, <5>1
      <4>4. F(n) = F(s.tick)  BY <1>5, <1>8, <2>6, <4>1, <4>3
      <4>5. Stays(s, r, o, to)
        <5>1. n < to  BY <1>5, <2>6, <4>2
        <5> QED  BY <3>0, <3>2, <4>1, <5>1 DEF Stays
      <4> QED  BY <4>4, <4>5
    <3> QED  BY <1>2, <3>1, <3>2
  <2>8. Reached(r, o)  BY <1>2, <2>2 DEF Reached
  <2>9. IF o.zeroForOne THEN l <= q ELSE q <= l  BY <1>4
  <2>10. Placed(r, o)  BY <1>2, <1>3, <2>2, <2>3, <2>5, <2>7, <2>9 DEF Placed, F
  <2>11. ~ Unfinished(r, o)  BY <1>3, <1>4, <1>10, <2>2 DEF Unfinished
  <2> QED  BY <1>1, <2>2, <2>7, <2>8, <2>10, <2>11 DEF LoopInv
<1>11. CASE q # m /\ q = p
  <2>1. r = a  BY <1>1, <1>3, <1>11 DEF Shifted
  <2>2. IF o.zeroForOne THEN l <= q ELSE q <= l  BY <1>4
  <2>3. Placed(a, o)  BY <1>2, <1>3, <1>11, <2>2 DEF Placed, F
  <2>4. ~ Unfinished(a, o)  BY <1>3, <1>4, <1>11 DEF Unfinished
  <2>5. Stays(s, a, o, to)
    <3>1. o.zeroForOne => to <= s.tick /\ s.tick <= s.tick  BY <1>5
    <3>2. ~ o.zeroForOne => s.tick <= s.tick /\ s.tick < to  BY <1>5
    <3> QED  BY <1>2, <3>1, <3>2 DEF Stays
  <2> QED  BY <1>1, <1>2, <2>1, <2>3, <2>4, <2>5 DEF LoopInv
<1> QED  BY <1>9, <1>10, <1>11

\* A round keeps the loop's invariant.
LEMMA RoundKeeps ==
    ASSUME BookOK(positions, ticks, bitmap), NEW s, NEW o, LoopInv(s, o), Limited(o),
           Unfinished(s, o)
    PROVE  /\ LoopInv(SwapStep(s, o), o)
           /\ Unfinished(SwapStep(s, o), o) => Leaves(s, SwapStep(s, o), o)
<1>1. PICK z : z = o.zeroForOne  OBVIOUS
<1>2. PICK to : to = Aim(s.tick, z)  OBVIOUS
<1>3. PICK i : i = NextTick(s.tick, z).initialized  OBVIOUS
<1>4. z \in BOOLEAN /\ s.tick \in MinTick .. MaxTick - 1
  BY <1>1 DEF Limited, LoopInv, Placed, InTick
<1>5. /\ to \in Ticks /\ (IF z THEN to <= s.tick ELSE to > s.tick)
      /\ i \in BOOLEAN
      /\ \A b \in Ticks : (IF z THEN to < b /\ b <= s.tick ELSE s.tick < b /\ b < to)
                          => ticks[b].gross = 0
      /\ ~ i => ticks[to].gross = 0
  BY <1>2, <1>3, <1>4, AimIs
<1>6. SwapStep(s, o) = StepTowards(s, o, to, i)
  BY <1>1, <1>2, <1>3 DEF SwapStep, Aim
<1>7. PICK a : a = StepTaken(s, o, ComputeSwapStep(s.price, Target(o, to), s.liquidity,
                                                  s.remaining))
  OBVIOUS
<1>8. PositionsOK(positions) /\ s.remaining # 0  BY DEF BookOK, Unfinished
<1>9. Stepped(s, a, o, to)  BY <1>1, <1>5, <1>7, <1>8, StepIsStepped
<1>10. SwapStep(s, o) = Shifted(a, s.price, o, to, i)  BY <1>6, <1>7 DEF StepTowards
<1> QED  BY <1>1, <1>5, <1>9, <1>10, ShiftKeeps

(***************************************************************************)
(* The loop.                                                                *)
(***************************************************************************)
\* The first m rounds, and the equation they solve.
Runs(o, m, g) ==
    g = [n \in 0 .. m |-> IF n = 0 THEN SwapStart(o) ELSE SwapRound(g[n - 1], o)]

\* The recursion of the swap loop has a solution.
LEMMA RunsExist ==
    ASSUME NEW o, NEW m \in Nat
    PROVE  \E g : Runs(o, m, g)
<1> DEFINE P(k) == \E g : Runs(o, k, g)
           B == {k \in 0 .. m : ~ P(k)}
<1>1. SUFFICES ASSUME B # {} PROVE FALSE
  <2>1. m \in 0 .. m  OBVIOUS
  <2> QED  BY <2>1
<1>2. PICK k \in B : \A x \in B : k <= x
  <2>1. B \in SUBSET (0 .. m) /\ 0 \in Int /\ m \in Int  OBVIOUS
  <2> HIDE DEF B
  <2> QED  BY <1>1, <2>1, SmallestIndex
<1>3. k \in 0 .. m /\ ~ P(k)  OBVIOUS
<1>4. CASE k = 0
  <2> DEFINE g == [n \in 0 .. 0 |-> SwapStart(o)]
  <2>1. g = [n \in 0 .. 0 |-> IF n = 0 THEN SwapStart(o) ELSE SwapRound(g[n - 1], o)]
    <3>1. \A n \in 0 .. 0 : SwapStart(o) = IF n = 0 THEN SwapStart(o) ELSE SwapRound(g[n - 1], o)
      OBVIOUS
    <3> QED  BY <3>1, Zenon
  <2> HIDE DEF g
  <2>2. Runs(o, k, g)  BY <1>4, <2>1 DEF Runs
  <2> QED  BY <1>3, <2>2
<1>5. CASE k # 0
  <2>1. k - 1 \in 0 .. m /\ ~ (k <= k - 1) /\ k \in Nat  BY <1>3, <1>5
  <2>2. P(k - 1)
    <3>1. k - 1 \notin B
      <4> HIDE DEF B
      <4> QED  BY <1>2, <2>1
    <3> QED  BY <2>1, <3>1
  <2>3. PICK g : Runs(o, k - 1, g)  BY <2>2
  <2> DEFINE E(f, n) == IF n = 0 THEN SwapStart(o) ELSE SwapRound(f[n - 1], o)
             f == [n \in 0 .. k |-> IF n = k THEN SwapRound(g[k - 1], o) ELSE g[n]]
  <2>4. g = [n \in 0 .. k - 1 |-> E(g, n)]  BY <2>3 DEF Runs
  <2>5. \A n \in 0 .. k - 1 : f[n] = g[n] /\ g[n] = E(g, n)
    <3>1. \A n \in 0 .. k - 1 : n \in 0 .. k /\ n # k  BY <2>1
    <3>2. \A n \in 0 .. k - 1 : f[n] = g[n]  BY <3>1
    <3>3. \A n \in 0 .. k - 1 : g[n] = E(g, n)
      <4> HIDE DEF E
      <4> QED  BY <2>4
    <3> QED  BY <3>2, <3>3
  <2>6. \A n \in 0 .. k : f[n] = E(f, n)
    <3> SUFFICES ASSUME NEW n \in 0 .. k PROVE f[n] = E(f, n)  OBVIOUS
    <3>1. CASE n = k
      <4>1. f[n] = SwapRound(g[k - 1], o)  BY <3>1
      <4>2. k - 1 \in 0 .. k - 1  BY <1>5, <2>1
      <4>3. f[k - 1] = g[k - 1]  BY <2>5, <4>2
      <4> HIDE DEF f
      <4> QED  BY <1>5, <3>1, <4>1, <4>3
    <3>2. CASE n # k
      <4>1. n \in 0 .. k - 1 /\ (n # 0 => n - 1 \in 0 .. k - 1)  BY <2>1, <3>2
      <4> HIDE DEF f
      <4>2. f[n] = g[n] /\ g[n] = E(g, n)  BY <2>5, <4>1
      <4>3. CASE n = 0  BY <4>2, <4>3
      <4>4. CASE n # 0
        <5>1. f[n - 1] = g[n - 1]  BY <2>5, <4>1, <4>4
        <5> QED  BY <4>2, <4>4, <5>1
      <4> QED  BY <4>3, <4>4
    <3> QED  BY <3>1, <3>2
  <2>7. f = [n \in 0 .. k |-> E(f, n)]
    <3>1. f = [n \in 0 .. k |-> f[n]]  OBVIOUS
    <3> HIDE DEF f, E
    <3> QED  BY <2>6, <3>1
  <2>8. Runs(o, k, f)
    <3> HIDE DEF f
    <3> QED  BY <2>7 DEF Runs
  <2> QED  BY <1>3, <2>8
<1> QED  BY <1>4, <1>5

\* How far a swap that goes on has come after n rounds.
Advanced(s, o, n) ==
    Unfinished(s, o) => IF o.zeroForOne THEN s.tick <= tick - n ELSE s.tick >= tick + n

\* The loop ends within its rounds, and its invariant holds where it ends.
LEMMA SwapEnds ==
    ASSUME BookOK(positions, ticks, bitmap), NEW o, Limited(o), LoopInv(SwapStart(o), o)
    PROVE  LoopInv(SwapResult(o), o) /\ ~ Unfinished(SwapResult(o), o)
<1>1. Rounds \in Nat \ {0} /\ Rounds = MaxTick - MinTick  BY TickFacts DEF Rounds
<1>2. PICK g : Runs(o, Rounds, g) /\ SwapResult(o) = g[Rounds]
  <2>1. SwapResult(o) = (CHOOSE g : Runs(o, Rounds, g))[Rounds]  BY DEF SwapResult, Runs
  <2>2. \E g : Runs(o, Rounds, g)  BY <1>1, RunsExist
  <2>3. Runs(o, Rounds, CHOOSE g : Runs(o, Rounds, g))  BY <2>2, Zenon
  <2> QED  BY <2>1, <2>3
<1>3. \A n \in 0 .. Rounds : g[n] = IF n = 0 THEN SwapStart(o) ELSE SwapRound(g[n - 1], o)
  BY <1>2 DEF Runs
<1>4. PICK t \in Int : t = tick /\ MinTick <= t /\ t <= MaxTick - 1
  <2>1. SwapStart(o).tick = tick  BY DEF SwapStart
  <2>2. tick \in MinTick .. MaxTick - 1  BY <2>1 DEF LoopInv, Placed, InTick
  <2> QED  BY <2>2, TickFacts
<1> DEFINE J(n) == LoopInv(g[n], o) /\ Advanced(g[n], o, n)
           B == {n \in 0 .. Rounds : ~ J(n)}
<1>5. B = {}
  <2>1. SUFFICES ASSUME B # {} PROVE FALSE  OBVIOUS
  <2>2. PICK n \in B : \A x \in B : n <= x
    <3>1. B \in SUBSET (0 .. Rounds) /\ 0 \in Int /\ Rounds \in Int  BY <1>1
    <3> HIDE DEF B
    <3> QED  BY <2>1, <3>1, SmallestIndex
  <2>3. n \in 0 .. Rounds /\ ~ J(n) /\ n \in Nat  BY <1>1
  <2>4. CASE n = 0
    <3>1. g[n] = SwapStart(o)  BY <1>3, <2>3, <2>4
    <3>2. SwapStart(o).tick = t  BY <1>4 DEF SwapStart
    <3>3. Advanced(g[n], o, n)  BY <1>4, <2>4, <3>1, <3>2 DEF Advanced
    <3> QED  BY <2>3, <3>1, <3>3
  <2>5. CASE n # 0
    <3>1. n - 1 \in 0 .. Rounds /\ ~ (n <= n - 1)  BY <1>1, <2>3, <2>5
    <3>2. J(n - 1)
      <4>1. n - 1 \notin B
        <5> HIDE DEF B
        <5> QED  BY <2>2, <3>1
      <4> QED  BY <3>1, <4>1
    <3>3. PICK s : s = g[n - 1]  OBVIOUS
    <3>4. g[n] = SwapRound(s, o)  BY <1>3, <2>3, <2>5, <3>3
    <3>5. LoopInv(s, o) /\ Advanced(s, o, n - 1)  BY <3>2, <3>3
    <3>6. CASE ~ Unfinished(s, o)
      <4>1. g[n] = s  BY <3>4, <3>6 DEF SwapRound
      <4>2. Advanced(g[n], o, n)  BY <3>6, <4>1 DEF Advanced
      <4> QED  BY <2>3, <3>5, <4>1, <4>2
    <3>7. CASE Unfinished(s, o)
      <4>1. PICK r : r = SwapStep(s, o)  OBVIOUS
      <4>2. g[n] = r  BY <3>4, <3>7, <4>1 DEF SwapRound
      <4>3. LoopInv(r, o) /\ (Unfinished(r, o) => Leaves(s, r, o))
        BY <3>5, <3>7, <4>1, RoundKeeps
      <4>4. s.tick \in Int /\ r.tick \in Int
        BY <3>5, <4>3, TickFacts DEF LoopInv, Placed, InTick
      <4>5. IF o.zeroForOne THEN s.tick <= t - (n - 1) ELSE s.tick >= t + (n - 1)
        BY <1>4, <3>5, <3>7 DEF Advanced
      <4>6. Unfinished(r, o) => IF o.zeroForOne THEN r.tick <= t - n ELSE r.tick >= t + n
        BY <2>3, <4>3, <4>4, <4>5 DEF Leaves
      <4>7. Advanced(r, o, n)  BY <1>4, <4>6 DEF Advanced
      <4> QED  BY <2>3, <4>2, <4>3, <4>7
    <3> QED  BY <3>6, <3>7
  <2> QED  BY <2>4, <2>5
<1>6. J(Rounds)
  <2>1. Rounds \in 0 .. Rounds  BY <1>1
  <2> QED  BY <1>5, <2>1
<1>7. PICK r : r = g[Rounds]  OBVIOUS
<1>8. LoopInv(r, o) /\ Advanced(r, o, Rounds)  BY <1>6, <1>7
<1>9. ~ Unfinished(r, o)
  <2>1. SUFFICES ASSUME Unfinished(r, o) PROVE FALSE  OBVIOUS
  <2>2. r.tick \in Int /\ MinTick <= r.tick /\ r.tick <= MaxTick - 1
    BY <1>8, TickFacts DEF LoopInv, Placed, InTick
  <2>3. IF o.zeroForOne THEN r.tick <= t - (MaxTick - MinTick) ELSE r.tick >= t + (MaxTick - MinTick)
    BY <1>1, <1>4, <1>8, <2>1 DEF Advanced
  <2>4. MinTick \in Int /\ MaxTick \in Int  BY TickFacts
  <2> QED  BY <1>4, <2>2, <2>3, <2>4
<1> QED  BY <1>2, <1>7, <1>8, <1>9

(***************************************************************************)
(* The book: price, liquidity, ticks, bitmap and positions together.        *)
(***************************************************************************)
BookState(p, tk, L, tks, bits, pos) ==
    /\ BookOK(pos, tks, bits)
    /\ p \in Nat /\ tk \in Int /\ L = Stake(pos, Around(tk))
    /\ IF p = 0 THEN \A k \in Keys : pos[k].liquidity = 0 ELSE InTick(p, tk)

Book == BookState(sqrtPrice, tick, liquidity, ticks, bitmap, positions)

\* The liquidity is a natural number, and zero without a price.
LEMMA BookLiquidity ==
    ASSUME NEW p, NEW tk, NEW L, NEW tks, NEW bits, NEW pos, BookState(p, tk, L, tks, bits, pos)
    PROVE  L \in Nat /\ (p = 0 => \A t \in Int : Stake(pos, Around(t)) = 0)
<1>1. Around(tk) \in SUBSET Keys  BY DEF Around
<1>2. L \in Nat  BY <1>1, StakesAre DEF BookState, BookOK
<1>3. ASSUME p = 0, NEW t \in Int PROVE Stake(pos, Around(t)) = 0
  <2> DEFINE S == Around(t)
             f == [k \in S |-> 0]
  <2>1. S \in SUBSET Keys  BY DEF Around
  <2>2. IsFiniteSet(S) /\ \A k \in S : Stakes(pos)[k] = 0
    BY <1>3, <2>1, StakesAre DEF BookState, BookOK
  <2>3. \A k \in S : Stakes(pos)[k] = f[k]  BY <2>2
  <2> HIDE DEF S
  <2>4. SumFunctionOnSet(f, S) = 0  BY <2>2, SumZero
  <2> HIDE DEF f
  <2>5. SumFunctionOnSet(Stakes(pos), S) = 0  BY <2>2, <2>3, <2>4, SumSame
  <2> QED  BY <2>5 DEF Stake, S
<1> QED  BY <1>2, <1>3

\* Who has how much liquidity is all the book takes from the positions.
SameStakes(pos, new) ==
    /\ DOMAIN new = DOMAIN pos
    /\ \A k \in Keys : "liquidity" \in DOMAIN new[k] /\ new[k].liquidity = pos[k].liquidity

\* The book does not see what positions are owed.
LEMMA BookOfStakes ==
    ASSUME NEW p, NEW tk, NEW L, NEW tks, NEW bits, NEW pos, BookState(p, tk, L, tks, bits, pos),
           NEW new, SameStakes(pos, new)
    PROVE  BookState(p, tk, L, tks, bits, new)
<1>1. \A k \in Keys : new[k].liquidity = pos[k].liquidity  BY DEF SameStakes
<1>2. Stakes(new) = Stakes(pos)  BY <1>1 DEF Stakes
<1>3. \A S : Stake(new, S) = Stake(pos, S)  BY <1>2 DEF Stake
<1>4. PositionsOK(new)  BY <1>1 DEF PositionsOK, BookState, BookOK, SameStakes
<1>5. TicksOK(tks, new)  BY <1>3 DEF TicksOK, BookState, BookOK
<1>6. BookOK(new, tks, bits)  BY <1>4, <1>5 DEF BookState, BookOK
<1> QED  BY <1>1, <1>3, <1>6 DEF BookState

\* One position grows or shrinks by d.
Grows(pos, new, k, d) ==
    /\ DOMAIN new = Keys /\ "liquidity" \in DOMAIN new[k]
    /\ new[k].liquidity = pos[k].liquidity + d
    /\ \A j \in Keys : j # k => new[j] = pos[j]

\* A sum of liquidity grows with the one position that is modified.
LEMMA StakeGrows ==
    ASSUME NEW pos, PositionsOK(pos), NEW new, NEW k \in Keys, NEW d \in Int,
           Grows(pos, new, k, d), NEW S \in SUBSET Keys
    PROVE  Stake(new, S) = Stake(pos, S) + (IF k \in S THEN d ELSE 0)
<1>1. PICK f, g : f = Stakes(pos) /\ g = Stakes(new)  OBVIOUS
<1>2. /\ f \in [Keys -> Int] /\ f[k] = pos[k].liquidity
      /\ IsFiniteSet(S) /\ Stake(pos, S) \in Nat
  BY <1>1, StakesAre
<1>3. /\ g \in [Keys -> Int] /\ g[k] = f[k] + d
      /\ \A j \in Keys : j # k => g[j] = f[j]
  <2>1. \A j \in Keys : f[j] = pos[j].liquidity /\ g[j] = new[j].liquidity
    BY <1>1 DEF Stakes
  <2>2. g[k] = f[k] + d /\ \A j \in Keys : j # k => g[j] = f[j]  BY <2>1 DEF Grows
  <2>3. \A j \in Keys : g[j] \in Int  BY <1>2, <2>2
  <2>4. g = [j \in Keys |-> g[j]]  BY <1>1 DEF Stakes
  <2> QED  BY <2>2, <2>3, <2>4
<1>4. Stake(pos, S) = SumFunctionOnSet(f, S) /\ Stake(new, S) = SumFunctionOnSet(g, S)
  BY <1>1 DEF Stake
<1>5. CASE k \in S
  <2>1. SumFunctionOnSet(f, S) = f[k] + SumFunctionOnSet(f, S \ {k})  BY <1>2, <1>5, SumSplit
  <2>2. SumFunctionOnSet(g, S) = g[k] + SumFunctionOnSet(g, S \ {k})
    BY <1>2, <1>3, <1>5, SumSplit
  <2>3. IsFiniteSet(S \ {k}) /\ S \ {k} \in SUBSET Keys  BY <1>2, FS_Subset
  <2>4. SumFunctionOnSet(f, S \ {k}) = SumFunctionOnSet(g, S \ {k})
    <3>1. \A j \in S \ {k} : f[j] = g[j]  BY <1>3
    <3> QED  BY <2>3, <3>1, SumSame
  <2>5. SumFunctionOnSet(f, S \ {k}) \in Int  BY <1>2, <2>3, SumInt
  <2>6. f[k] \in Int  BY <1>2
  <2>7. PICK x \in Int, y \in Int : x = f[k] /\ y = SumFunctionOnSet(f, S \ {k})  BY <2>5, <2>6
  <2>8. SumFunctionOnSet(f, S) = x + y /\ SumFunctionOnSet(g, S) = x + d + y
    BY <1>3, <2>1, <2>2, <2>4, <2>7
  <2> QED  BY <1>4, <1>5, <2>8
<1>6. CASE k \notin S
  <2>1. \A j \in S : f[j] = g[j]  BY <1>3, <1>6
  <2>2. SumFunctionOnSet(f, S) = SumFunctionOnSet(g, S)  BY <1>2, <2>1, SumSame
  <2> QED  BY <1>2, <1>4, <1>6, <2>2
<1> QED  BY <1>5, <1>6

\* The ticks of a position count the change.
LEMMA TicksGrow ==
    ASSUME NEW pos, PositionsOK(pos), TicksOK(ticks, pos), NEW new, NEW k \in Keys,
           NEW d \in Int, Grows(pos, new, k, d), k.lower # k.upper
    PROVE  TicksOK(UpdatedTicks(k, d), new)
<1> DEFINE u == UpdatedTicks(k, d)
<1>1. k.lower \in Ticks /\ k.upper \in Ticks  BY KeyFacts
<1>2. /\ DOMAIN u = Ticks
      /\ u[k.lower] = TickUpdate(ticks[k.lower], k.lower, d, FALSE)
      /\ u[k.upper] = TickUpdate(ticks[k.upper], k.upper, d, TRUE)
      /\ \A t \in Ticks : t # k.lower /\ t # k.upper => u[t] = ticks[t]
  BY <1>1 DEF UpdatedTicks, TicksOK
<1> HIDE DEF u
<1>3. ASSUME NEW t \in Ticks
      PROVE  /\ {"gross", "net"} \subseteq DOMAIN u[t]
             /\ u[t].gross = ticks[t].gross + (IF t = k.lower \/ t = k.upper THEN d ELSE 0)
             /\ u[t].net = ticks[t].net + (IF t = k.lower THEN d ELSE 0)
                                        - (IF t = k.upper THEN d ELSE 0)
  <2>0. ticks[t].gross \in Int /\ ticks[t].net \in Int
    BY TickAligned, CrossingAdds
  <2>1. CASE t = k.lower
    <3>1. /\ u[t].gross = ticks[t].gross + d /\ u[t].net = ticks[t].net + d
          /\ {"gross", "net"} \subseteq DOMAIN u[t]
      BY <1>2, <2>1 DEF TickUpdate
    <3> QED  BY <2>0, <2>1, <3>1
  <2>2. CASE t = k.upper
    <3>1. /\ u[t].gross = ticks[t].gross + d /\ u[t].net = ticks[t].net - d
          /\ {"gross", "net"} \subseteq DOMAIN u[t]
      BY <1>2, <2>2 DEF TickUpdate
    <3> QED  BY <2>0, <2>2, <3>1
  <2>3. CASE t # k.lower /\ t # k.upper
    <3>1. u[t] = ticks[t]  BY <1>2, <2>3
    <3>2. PICK a \in Int, b \in Int : a = ticks[t].gross /\ b = ticks[t].net  BY <2>0
    <3>3. {"gross", "net"} \subseteq DOMAIN ticks[t]  BY DEF TicksOK
    <3> QED  BY <2>3, <3>1, <3>2, <3>3
  <2> QED  BY <2>1, <2>2, <2>3
<1>4. ASSUME NEW t \in Ticks
      PROVE  /\ u[t].gross = Stake(new, Lowers(t) \cup Uppers(t))
             /\ u[t].net = Stake(new, Lowers(t)) - Stake(new, Uppers(t))
  <2>1. /\ Lowers(t) \cup Uppers(t) \in SUBSET Keys
        /\ Lowers(t) \in SUBSET Keys /\ Uppers(t) \in SUBSET Keys
    BY DEF Lowers, Uppers
  <2>3. PICK a \in Int, b \in Int, c \in Int :
          /\ a = Stake(pos, Lowers(t) \cup Uppers(t))
          /\ b = Stake(pos, Lowers(t)) /\ c = Stake(pos, Uppers(t))
    <3>1. /\ Stake(pos, Lowers(t) \cup Uppers(t)) \in Nat
          /\ Stake(pos, Lowers(t)) \in Nat /\ Stake(pos, Uppers(t)) \in Nat
      BY <2>1, StakesAre
    <3> QED  BY <3>1
  <2>4. /\ Stake(new, Lowers(t) \cup Uppers(t)) = a + (IF t = k.lower \/ t = k.upper THEN d ELSE 0)
        /\ Stake(new, Lowers(t)) = b + (IF t = k.lower THEN d ELSE 0)
        /\ Stake(new, Uppers(t)) = c + (IF t = k.upper THEN d ELSE 0)
    <3>1. k \in Lowers(t) \cup Uppers(t) <=> t = k.lower \/ t = k.upper
      BY DEF Lowers, Uppers
    <3>2. k \in Lowers(t) <=> t = k.lower  BY DEF Lowers
    <3>3. k \in Uppers(t) <=> t = k.upper  BY DEF Uppers
    <3>4. Stake(new, Lowers(t) \cup Uppers(t))
          = a + (IF k \in Lowers(t) \cup Uppers(t) THEN d ELSE 0)
      BY <2>1, <2>3, StakeGrows
    <3>5. Stake(new, Lowers(t)) = b + (IF k \in Lowers(t) THEN d ELSE 0)
      BY <2>1, <2>3, StakeGrows
    <3>6. Stake(new, Uppers(t)) = c + (IF k \in Uppers(t) THEN d ELSE 0)
      BY <2>1, <2>3, StakeGrows
    <3> QED  BY <3>1, <3>2, <3>3, <3>4, <3>5, <3>6
  <2>5. ticks[t].gross = a /\ ticks[t].net = b - c  BY <2>3 DEF TicksOK
  <2> QED  BY <1>3, <2>4, <2>5
<1>5. TicksOK(u, new)  BY <1>2, <1>3, <1>4 DEF TicksOK
<1> QED  BY <1>5 DEF u
\* Which bits change with a position's ticks: those of the ticks that had
\* liquidity and have none now, or have now and had none.
LEMMA BitsFlip ==
    ASSUME NEW pos, BookOK(pos, ticks, bitmap), NEW new, NEW tks, PositionsOK(new),
           TicksOK(tks, new)
    PROVE  BitmapOK(SymDiff(bitmap, {t \div TickSpacing : t \in Flipped(tks)}), tks)
<1> DEFINE F == {t \div TickSpacing : t \in Flipped(tks)}
           N == {t \div TickSpacing : t \in {s \in Ticks : tks[s].gross > 0}}
           O == {t \div TickSpacing : t \in {s \in Ticks : ticks[s].gross > 0}}
           Start(b) == b * TickSpacing
<1>1. ASSUME NEW t \in Ticks
      PROVE  /\ tks[t].gross \in Nat /\ ticks[t].gross \in Nat
             /\ tks[t].gross # 0 \/ ticks[t].gross # 0 => Start(t \div TickSpacing) = t
  BY TickAligned DEF BookOK
<1>2. ASSUME NEW b
      PROVE  /\ b \in O <=> Start(b) \in Ticks /\ Start(b) \div TickSpacing = b /\ ticks[Start(b)].gross > 0
             /\ b \in N <=> Start(b) \in Ticks /\ Start(b) \div TickSpacing = b /\ tks[Start(b)].gross > 0
             /\ b \in F <=> /\ Start(b) \in Ticks /\ Start(b) \div TickSpacing = b
                            /\ (tks[Start(b)].gross = 0) # (ticks[Start(b)].gross = 0)
  <2>1. ASSUME NEW t \in Ticks, t \div TickSpacing = b, tks[t].gross # 0 \/ ticks[t].gross # 0
        PROVE  Start(b) = t
    BY <1>1, <2>1
  <2>2. \A t \in Ticks : /\ tks[t].gross > 0 => tks[t].gross # 0
                         /\ ticks[t].gross > 0 => ticks[t].gross # 0
    BY <1>1
  <2> HIDE DEF Start
  <2>3. b \in O <=> Start(b) \in Ticks /\ Start(b) \div TickSpacing = b /\ ticks[Start(b)].gross > 0
    BY <2>1, <2>2
  <2>4. b \in N <=> Start(b) \in Ticks /\ Start(b) \div TickSpacing = b /\ tks[Start(b)].gross > 0
    BY <2>1, <2>2
  <2>5. b \in F <=> /\ Start(b) \in Ticks /\ Start(b) \div TickSpacing = b
                    /\ (tks[Start(b)].gross = 0) # (ticks[Start(b)].gross = 0)
    <3>1. \A t \in Flipped(tks) : t \in Ticks /\ (tks[t].gross # 0 \/ ticks[t].gross # 0)
      BY DEF Flipped
    <3>2. ASSUME b \in F
          PROVE  /\ Start(b) \in Ticks /\ Start(b) \div TickSpacing = b
                 /\ (tks[Start(b)].gross = 0) # (ticks[Start(b)].gross = 0)
      <4>1. PICK t \in Flipped(tks) : b = t \div TickSpacing  BY <3>2
      <4>2. Start(b) = t  BY <2>1, <3>1, <4>1
      <4> QED  BY <4>1, <4>2 DEF Flipped
    <3>3. ASSUME Start(b) \in Ticks, Start(b) \div TickSpacing = b,
                 (tks[Start(b)].gross = 0) # (ticks[Start(b)].gross = 0)
          PROVE  b \in F
      <4>1. Start(b) \in Flipped(tks)  BY <3>3 DEF Flipped
      <4> QED  BY <3>3, <4>1
    <3> QED  BY <3>2, <3>3
  <2> QED  BY <2>3, <2>4, <2>5
<1> HIDE DEF F, N, O, Start
<1>3. ASSUME NEW b PROVE b \in N <=> b \in (O \ F) \cup (F \ O)
  <2>1. CASE Start(b) \in Ticks /\ Start(b) \div TickSpacing = b
    <3>1. /\ tks[Start(b)].gross > 0 <=> tks[Start(b)].gross # 0
          /\ ticks[Start(b)].gross > 0 <=> ticks[Start(b)].gross # 0
      BY <1>1, <2>1
    <3> QED  BY <1>2, <2>1, <3>1
  <2>2. CASE ~ (Start(b) \in Ticks /\ Start(b) \div TickSpacing = b)  BY <1>2, <2>2
  <2> QED  BY <2>1, <2>2
<1>4. N = SymDiff(O, F)  BY <1>3 DEF SymDiff
<1>5. bitmap = O  BY DEF BookOK, BitmapOK, O
<1> QED  BY <1>4, <1>5 DEF BitmapOK, F, N

\* What modifying a position does to the book.
LEMMA ModifyKeepsBook ==
    ASSUME Book, sqrtPrice # 0, NEW k \in Keys, NEW d \in Int, NEW gain,
           ModifyPosition(k, d, gain)
    PROVE  Book'
<1> DEFINE tks == IF d = 0 THEN ticks ELSE UpdatedTicks(k, d)
           p   == UpdatedPosition(k, d, tks)
           q   == [p EXCEPT !.owed = [t \in Token |-> p.owed[t] + gain[t + 1]]]
<1>1. /\ Modifiable(k, d)
      /\ positions' = [positions EXCEPT ![k] = q]
      /\ bitmap' = SymDiff(bitmap, {t \div TickSpacing : t \in Flipped(tks)})
      /\ ticks' = IF d < 0
                  THEN [t \in Ticks |-> IF t \in Flipped(tks) THEN EmptyTick ELSE tks[t]]
                  ELSE tks
      /\ liquidity' = IF tick \in k.lower .. k.upper - 1 THEN liquidity + d ELSE liquidity
      /\ sqrtPrice' = sqrtPrice /\ tick' = tick
  BY DEF ModifyPosition
<1>2. "liquidity" \in DOMAIN q /\ q.liquidity = positions[k].liquidity + d
  BY DEF UpdatedPosition
<1> HIDE DEF p, q
<1>3. BookOK(positions, ticks, bitmap) /\ PositionsOK(positions) /\ TicksOK(ticks, positions)
  BY DEF Book, BookState, BookOK
<1>4. Grows(positions, positions', k, d)  BY <1>1, <1>2, <1>3 DEF Grows, PositionsOK
<1>5. /\ k.lower < k.upper /\ k.lower # k.upper /\ k.lower \in Int /\ k.upper \in Int
      /\ k.lower % TickSpacing = 0 /\ k.upper % TickSpacing = 0
      /\ positions[k].liquidity + d >= 0
  <2>1. k.lower \in Int /\ k.upper \in Int /\ k.lower < k.upper  BY <1>1, KeyFacts DEF Modifiable
  <2> QED  BY <1>1, <2>1 DEF Modifiable
<1>6. PositionsOK(positions')
  <2>1. positions[k].liquidity \in Nat  BY <1>3 DEF PositionsOK
  <2>2. positions'[k].liquidity \in Nat  BY <1>4, <1>5, <2>1 DEF Grows
  <2> QED  BY <1>3, <1>4, <1>5, <2>2 DEF PositionsOK, Grows
<1>7. TicksOK(tks, positions')
  <2>1. CASE d # 0
    BY <1>3, <1>4, <1>5, <2>1, TicksGrow
  <2>2. CASE d = 0
    <3>1. \A S \in SUBSET Keys : Stake(positions', S) = Stake(positions, S)
      <4> SUFFICES ASSUME NEW S \in SUBSET Keys
                   PROVE  Stake(positions', S) = Stake(positions, S)
        OBVIOUS
      <4>1. Stake(positions', S) = Stake(positions, S) + (IF k \in S THEN d ELSE 0)
        BY <1>3, <1>4, StakeGrows
      <4>2. Stake(positions, S) \in Nat  BY <1>3, StakesAre
      <4> QED  BY <2>2, <4>1, <4>2
    <3>2. \A t : /\ Lowers(t) \in SUBSET Keys /\ Uppers(t) \in SUBSET Keys
                 /\ Lowers(t) \cup Uppers(t) \in SUBSET Keys
      BY DEF Lowers, Uppers
    <3>3. TicksOK(ticks, positions')  BY <1>3, <3>1, <3>2 DEF TicksOK
    <3> QED  BY <2>2, <3>3
  <2> QED  BY <2>1, <2>2
<1>8. BitmapOK(bitmap', tks)
  <2> HIDE DEF tks
  <2> QED  BY <1>1, <1>3, <1>6, <1>7, BitsFlip
<1>9. \A t \in Ticks : d < 0 /\ t \in Flipped(tks) => tks[t].gross = 0
  <2> SUFFICES ASSUME NEW t \in Ticks, d < 0, t \in Flipped(tks), tks[t].gross # 0
               PROVE  FALSE
    OBVIOUS
  <2>1. ticks[t].gross = 0  BY DEF Flipped
  <2>2. tks = UpdatedTicks(k, d)  OBVIOUS
  <2>3. k.lower \in Ticks /\ k.upper \in Ticks /\ DOMAIN ticks = Ticks
    BY <1>3, KeyFacts DEF TicksOK
  <2>4. t \in {k.lower, k.upper}  BY <2>1, <2>2, <2>3 DEF UpdatedTicks
  <2>5. ticks[t].gross + d \in 0 .. MaxLiquidityPerTick  BY <1>1, <2>4 DEF Modifiable
  <2> QED  BY <2>1, <2>5
<1>10. BookOK(positions', ticks', bitmap')
  <2> HIDE DEF tks
  <2>1. CASE d < 0
    <3>1. /\ DOMAIN ticks' = Ticks
          /\ \A t \in Ticks : ticks'[t] = IF t \in Flipped(tks) THEN EmptyTick ELSE tks[t]
      BY <1>1, <2>1
    <3>2. ASSUME NEW t \in Ticks
          PROVE  /\ {"gross", "net"} \subseteq DOMAIN ticks'[t]
                 /\ ticks'[t].gross = tks[t].gross /\ ticks'[t].net = tks[t].net
      <4>1. CASE t \in Flipped(tks)
        <5>1. tks[t].gross = 0 /\ tks[t].net = 0
          BY <1>6, <1>7, <1>9, <2>1, <4>1, NothingEnds
        <5>2. ticks'[t] = EmptyTick  BY <3>1, <4>1
        <5> QED  BY <5>1, <5>2 DEF EmptyTick
      <4>2. CASE t \notin Flipped(tks)  BY <1>7, <3>1, <4>2 DEF TicksOK
      <4> QED  BY <4>1, <4>2
    <3>3. TicksOK(ticks', positions')  BY <1>7, <3>1, <3>2 DEF TicksOK
    <3>4. BitmapOK(bitmap', ticks')
      <4>1. {t \in Ticks : ticks'[t].gross > 0} = {t \in Ticks : tks[t].gross > 0}  BY <3>2
      <4> QED  BY <1>8, <4>1 DEF BitmapOK
    <3> QED  BY <1>6, <3>3, <3>4 DEF BookOK
  <2>2. CASE ~ (d < 0)
    <3>1. ticks' = tks  BY <1>1, <2>2
    <3> QED  BY <1>6, <1>7, <1>8, <3>1 DEF BookOK
  <2> QED  BY <2>1, <2>2
<1>11. liquidity' = Stake(positions', Around(tick))
  <2>1. Around(tick) \in SUBSET Keys /\ (k \in Around(tick) <=> tick \in k.lower .. k.upper - 1)
    BY DEF Around
  <2>2. liquidity = Stake(positions, Around(tick))  BY DEF Book, BookState
  <2>3. Stake(positions', Around(tick)) = liquidity + (IF k \in Around(tick) THEN d ELSE 0)
    BY <1>3, <1>4, <2>1, <2>2, StakeGrows
  <2>4. liquidity \in Nat  BY <1>3, <2>1, <2>2, StakesAre
  <2> QED  BY <1>1, <2>1, <2>3, <2>4
<1> QED  BY <1>1, <1>10, <1>11 DEF Book, BookState

(***************************************************************************)
(* The stack of calls.                                                      *)
(***************************************************************************)
\* A frame has the fields every call has.
Frame(f) == {"op", "phase", "unlocks"} \subseteq DOMAIN f
One(c) == c = <<c[1]>> /\ Frame(c[1])
Two(c) == c = <<c[1], c[2]>> /\ Frame(c[1]) /\ Frame(c[2])

Plain == {"mint", "collect", "collectProtocol"}

NoDeposit == swapSender = NoOne /\ ~permit /\ deposit = NoDeposits

\* The snapshot of a transaction was taken between transactions.
SavedSettled ==
    /\ saved.unlocked \in BOOLEAN
    /\ saved.permit = FALSE /\ saved.swapSender = NoOne /\ saved.deposit = NoDeposits

\* The only deposit on the books is the one of frame f.
DepositOf(f) ==
    /\ {"from", "token"} \subseteq DOMAIN f
    /\ f.from \in Users /\ f.token \in Token
    /\ \A u \in Users, t \in Token : deposit[u][t] # 0 => u = f.from /\ t = f.token

\* The state of the lock and of the deposit, by the calls under way.
PlainCall ==
    One(calls) /\ calls[1].op \in Plain /\ calls[1].unlocks = TRUE /\ NoDeposit

SwapCall ==
    /\ One(calls) /\ calls[1].op = "swap" /\ calls[1].unlocks = TRUE
    /\ ~permit /\ deposit = NoDeposits

Received ==
    /\ One(calls) /\ calls[1].op = "tokenReceived" /\ calls[1].unlocks = TRUE
    /\ DepositOf(calls[1])
    /\ \/ calls[1].phase = "dispatch" /\ permit /\ swapSender = calls[1].from
       \/ calls[1].phase = "refund"
       \/ calls[1].phase \in {"refunded", "end"} /\ NoDeposit

DispatchedSwap ==
    /\ Two(calls) /\ ~permit
    /\ calls[1].op = "tokenReceived" /\ calls[1].unlocks = TRUE /\ calls[1].phase = "refund"
    /\ DepositOf(calls[1])
    /\ calls[2].op = "swap" /\ calls[2].unlocks = FALSE

LockTypes ==
    /\ unlocked \in BOOLEAN /\ permit \in BOOLEAN
    /\ deposit \in [Users -> [Token -> Nat]]

\* While a call is under way the pool is locked, and the permit is out only
\* between a deposit and the call it brings along.
LockInv ==
    /\ LockTypes
    /\ \/ calls = Idle /\ NoDeposit
       \/ /\ calls # Idle /\ ~unlocked /\ SavedSettled
          /\ PlainCall \/ SwapCall \/ Received \/ DispatchedSwap

(***************************************************************************)
(* How the stack changes.                                                   *)
(***************************************************************************)
\* A single call is on top, and nothing is below it.
LEMMA OneCall ==
    ASSUME NEW c, One(c)
    PROVE  /\ Len(c) = 1 /\ c # <<>> /\ SubSeq(c, 1, Len(c) - 1) = <<>>
<1>1. Len(c) = 1 /\ c # <<>>  BY DEF One
<1>2. SubSeq(c, 1, 0) = <<>>  BY SubSeqEmpty
<1> QED  BY <1>1, <1>2

\* Of two calls, the second is on top of the first.
LEMMA TwoCalls ==
    ASSUME NEW c, Two(c)
    PROVE  /\ Len(c) = 2 /\ c # <<>> /\ SubSeq(c, 1, Len(c) - 1) = <<c[1]>>
<1> DEFINE S == {c[1]}
           b == SubSeq(c, 1, 1)
<1>1. Len(c) = 2 /\ c # <<>>  BY DEF Two
<1>2. /\ b \in Seq(S) /\ Len(b) = 1
      /\ \A i \in 1 .. 1 : b[i] = c[1 + i - 1]
  <2>1. \A i \in 1 .. 1 : c[i] \in S  OBVIOUS
  <2> HIDE DEF S
  <2>2. /\ b \in Seq(S)
        /\ Len(b) = IF 1 <= 1 THEN 1 - 1 + 1 ELSE 0
        /\ \A i \in 1 .. 1 - 1 + 1 : b[i] = c[1 + i - 1]
    BY <2>1, SubSeqProperties
  <2> QED  BY <2>2
<1>3. b = <<c[1]>>
  <2>1. b[1] = c[1]  BY <1>2
  <2> HIDE DEF b
  <2>2. b = [i \in 1 .. 1 |-> b[i]]  BY <1>2
  <2> QED  BY <2>1, <2>2
<1> QED  BY <1>1, <1>3

\* The first call of a transaction is the only one.
LEMMA FirstCall ==
    ASSUME NEW f, Frame(f)
    PROVE  /\ Append(<<>>, f) = <<f>> /\ One(<<f>>)
BY DEF One

\* A second call is put on top of the first.
LEMMA SecondCall ==
    ASSUME NEW f, NEW g
    PROVE  Append(<<f>>, g) = <<f, g>>
<1> DEFINE S == {f, g}
<1>1. <<f>> \in Seq(S) /\ g \in S /\ <<f, g>> \in Seq(S)  OBVIOUS
<1>2. Len(<<f>>) = 1 /\ Len(<<f, g>>) = 2  OBVIOUS
<1> HIDE DEF S
<1>3. /\ Append(<<f>>, g) \in Seq(S) /\ Len(Append(<<f>>, g)) = 2
      /\ Append(<<f>>, g)[1] = f /\ Append(<<f>>, g)[2] = g
  BY <1>1, <1>2, AppendProperties
<1>4. <<f, g>>[1] = f /\ <<f, g>>[2] = g  OBVIOUS
<1> DEFINE a == Append(<<f>>, g)
           b == <<f, g>>
<1>5. /\ a \in Seq(S) /\ b \in Seq(S) /\ Len(a) = 2 /\ Len(b) = 2
      /\ \A i \in 1 .. 2 : a[i] = b[i]
  BY <1>1, <1>2, <1>3, <1>4
<1> HIDE DEF a, b
<1>6. a = b  BY <1>5, SeqEqual
<1> QED  BY <1>6 DEF a, b

\* Changing the top of a single call leaves a single call.
LEMMA ChangeOne ==
    ASSUME NEW c, NEW g, One(c), Frame(g)
    PROVE  /\ [c EXCEPT ![Len(c)] = g] = <<g>> /\ One([c EXCEPT ![Len(c)] = g])
BY OneCall DEF One

\* Changing the top of two calls leaves the one below alone.
LEMMA ChangeTwo ==
    ASSUME NEW c, NEW g, Two(c), Frame(g)
    PROVE  /\ [c EXCEPT ![Len(c)] = g] = <<c[1], g>> /\ Two([c EXCEPT ![Len(c)] = g])
BY TwoCalls DEF Two

(***************************************************************************)
(* What holds of the calls under way.                                       *)
(***************************************************************************)
\* The innermost call is a frame.
LEMMA TopIsFrame ==
    ASSUME LockInv, calls # Idle
    PROVE  Frame(Top)
<1>1. CASE One(calls)  BY <1>1, OneCall DEF One, Top
<1>2. CASE Two(calls)  BY <1>2, TwoCalls DEF Two, Top
<1> QED  BY <1>1, <1>2 DEF LockInv, PlainCall, SwapCall, Received, DispatchedSwap

\* Others get past the head of the lock between transactions only.
LEMMA LockKeepsOthersOut ==
    ASSUME LockInv, Outside, permit \/ unlocked
    PROVE  calls = Idle /\ NoDeposit /\ unlocked
<1>1. CASE calls = Idle  BY <1>1 DEF LockInv, NoDeposit
<1>2. CASE calls # Idle
  <2>1. permit /\ ~unlocked  BY <1>2 DEF LockInv
  <2>2. Received  BY <1>2, <2>1 DEF LockInv, PlainCall, SwapCall, DispatchedSwap, NoDeposit
  <2>3. Top = calls[1]  BY <2>2, OneCall DEF Received, Top
  <2>4. Top.phase \in {"dispatch", "refund"}  BY <2>1, <2>2, <2>3 DEF Received, NoDeposit
  <2> QED  BY <1>2, <2>4 DEF Outside
<1> QED  BY <1>1, <1>2

\* A transaction that begins under the lock with a frame f.
LEMMA TransactionBegins ==
    ASSUME LockInv, Outside, Save, Lock, NEW f, calls' = Append(calls, f), Frame(f)
    PROVE  /\ calls = Idle /\ NoDeposit /\ ~unlocked' /\ ~permit' /\ permit' \in BOOLEAN
           /\ unlocked' \in BOOLEAN /\ SavedSettled'
           /\ calls' = <<f>> /\ calls' # Idle /\ One(calls') /\ calls'[1] = f
           /\ (~permit) = TRUE
<1>1. calls = Idle /\ NoDeposit /\ unlocked  BY LockKeepsOthersOut DEF Lock
<1>2. permit = FALSE /\ (~permit) = TRUE  BY <1>1 DEF NoDeposit, LockInv, LockTypes
<1>3. permit' = FALSE /\ unlocked' = FALSE  BY <1>2 DEF Lock
<1>4. SavedSettled'
  <2>1. saved' = State  BY <1>1 DEF Save
  <2>2. /\ saved'.unlocked = unlocked /\ saved'.permit = permit
        /\ saved'.swapSender = swapSender /\ saved'.deposit = deposit
    BY <2>1 DEF State
  <2> QED  BY <1>1, <1>2, <2>2 DEF SavedSettled, NoDeposit, LockInv, LockTypes
<1>5. calls' = <<f>> /\ One(calls')  BY <1>1, FirstCall DEF Idle
<1>6. calls' # Idle /\ calls'[1] = f  BY <1>5 DEF Idle
<1> QED  BY <1>1, <1>2, <1>3, <1>4, <1>5, <1>6

\* A mint or a collection begins.
LEMMA PlainBegins ==
    ASSUME LockInv, Outside, Save, Lock, NEW f, calls' = Append(calls, f), Frame(f),
           f.op \in Plain, f.unlocks = ~permit, UNCHANGED <<swapSender, deposit>>
    PROVE  LockInv'
<1>1. /\ calls = Idle /\ NoDeposit /\ ~unlocked' /\ ~permit' /\ permit' \in BOOLEAN
      /\ unlocked' \in BOOLEAN /\ SavedSettled'
      /\ calls' # Idle /\ One(calls') /\ calls'[1] = f /\ f.unlocks = TRUE
  BY TransactionBegins
<1>2. PlainCall'  BY <1>1 DEF PlainCall, NoDeposit
<1> QED  BY <1>1, <1>2 DEF LockInv, LockTypes

\* A call other than a deposit goes on.
LEMMA CallGoesOn ==
    ASSUME LockInv, calls # Idle, Top.op \in Plain \cup {"swap"},
           NEW g, calls' = [calls EXCEPT ![Len(calls)] = g],
           Frame(g), g.op = Top.op, g.unlocks = Top.unlocks,
           UNCHANGED <<unlocked, permit, swapSender, deposit, saved>>
    PROVE  LockInv'
<1>1. LockTypes' /\ ~unlocked' /\ SavedSettled'  BY DEF LockInv, LockTypes, SavedSettled
<1>2. CASE One(calls)
  <2>1. /\ Top = calls[1] /\ calls' = <<g>> /\ One(calls')
    BY <1>2, OneCall, ChangeOne DEF Top
  <2>2. PlainCall \/ SwapCall
    BY <1>2, <2>1, OneCall, TwoCalls DEF LockInv, Received, DispatchedSwap, Plain
  <2>3. PlainCall' \/ SwapCall'
    BY <2>1, <2>2 DEF PlainCall, SwapCall, NoDeposit
  <2> QED  BY <1>1, <2>1, <2>3 DEF LockInv, Idle
<1>3. CASE Two(calls)
  <2>1. /\ Top = calls[2] /\ calls' = <<calls[1], g>> /\ Two(calls')
    BY <1>3, TwoCalls, ChangeTwo DEF Top
  <2>2. DispatchedSwap
    BY <1>3, OneCall, TwoCalls DEF LockInv, PlainCall, SwapCall, Received
  <2>3. calls'[1] = calls[1] /\ calls'[2] = g  BY <2>1
  <2>4. DepositOf(calls[1])'  BY <2>2, <2>3 DEF DispatchedSwap, DepositOf
  <2>5. g.op = "swap" /\ g.unlocks = FALSE  BY <2>1, <2>2 DEF DispatchedSwap
  <2>6. DispatchedSwap'  BY <2>1, <2>2, <2>3, <2>4, <2>5 DEF DispatchedSwap
  <2> QED  BY <1>1, <2>1, <2>6 DEF LockInv, Idle
<1> QED  BY <1>2, <1>3 DEF LockInv, PlainCall, SwapCall, Received, DispatchedSwap

(***************************************************************************)
(* What a swap does to the stack and to the deposits.                       *)
(***************************************************************************)
\* The payer of a swap, and the frame it leaves.
LEMMA SwapLeaves ==
    ASSUME LockTypes, NEW sender, NEW o, NEW stack, SwapBody(sender, o, stack),
           (IF swapSender = NoOne THEN sender ELSE swapSender) \in Users
    PROVE  /\ \E f : /\ Frame(f) /\ f.op = "swap" /\ f.unlocks = ~permit
                     /\ calls' = Append(stack, f)
           /\ deposit' \in [Users -> [Token -> Nat]]
           /\ \A u \in Users, t \in Token : deposit[u][t] = 0 => deposit'[u][t] = 0
<1> DEFINE payer == IF swapSender = NoOne THEN sender ELSE swapSender
           due(s) == IF o.amount > 0 THEN o.amount - s.remaining ELSE s.calculated
           out(s) == IF o.amount > 0 THEN -s.calculated ELSE s.remaining - o.amount
           frame(s) == [op |-> "swap", phase |-> "pay", unlocks |-> ~permit, order |-> o,
                        due |-> due(s), out |-> out(s), before |-> Held(balance, In(o))]
<1>1. PICK s : IF due(s) \in 0 .. deposit[payer][In(o)]
               THEN /\ deposit' = [deposit EXCEPT ![payer][In(o)] = @ - due(s)]
                    /\ calls' = Append(stack, [frame(s) EXCEPT
                                                 !.phase = AfterDelivery(out(s), "end")])
               ELSE calls' = Append(stack, frame(s)) /\ deposit' = deposit
  BY DEF SwapBody
<1>2. In(o) \in Token  BY DEF In, Token
<1> HIDE DEF payer, due, out
<1>3. payer \in Users  BY DEF payer
<1>4. CASE due(s) \in 0 .. deposit[payer][In(o)]
  <2> DEFINE f == [frame(s) EXCEPT !.phase = AfterDelivery(out(s), "end")]
             d == deposit[payer][In(o)] - due(s)
  <2>1. Frame(f) /\ f.op = "swap" /\ f.unlocks = ~permit  BY DEF Frame
  <2>2. calls' = Append(stack, f)  BY <1>1, <1>4
  <2>3. deposit' = [deposit EXCEPT ![payer][In(o)] = d]  BY <1>1, <1>4
  <2>4. deposit[payer][In(o)] \in Nat  BY <1>2, <1>3 DEF LockTypes
  <2>5. d \in Nat /\ (deposit[payer][In(o)] = 0 => d = 0)  BY <1>4, <2>4
  <2> HIDE DEF d, f
  <2>6. deposit' \in [Users -> [Token -> Nat]]  BY <1>2, <1>3, <2>3, <2>5 DEF LockTypes
  <2>7. \A u \in Users, t \in Token :
          deposit'[u][t] = IF u = payer /\ t = In(o) THEN d ELSE deposit[u][t]
    BY <1>2, <1>3, <2>3 DEF LockTypes
  <2> QED  BY <2>1, <2>2, <2>5, <2>6, <2>7
<1>5. CASE ~(due(s) \in 0 .. deposit[payer][In(o)])
  <2>1. Frame(frame(s)) /\ frame(s).op = "swap" /\ frame(s).unlocks = ~permit  BY DEF Frame
  <2>2. calls' = Append(stack, frame(s)) /\ deposit' = deposit  BY <1>1, <1>5
  <2> HIDE DEF frame
  <2> QED  BY <2>1, <2>2 DEF LockTypes
<1> QED  BY <1>4, <1>5

\* A swap called directly.
LEMMA SwapKeeps ==
    ASSUME LockInv, NEW u \in Users, NEW o, Swap(u, o)
    PROVE  LockInv'
<1>1. Outside /\ Save /\ Lock /\ SwapBody(u, o, calls)  BY DEF Swap, Begin
<1>2. NoDeposit  BY <1>1, LockKeepsOthersOut DEF Lock
<1>3. (IF swapSender = NoOne THEN u ELSE swapSender) \in Users  BY <1>2 DEF NoDeposit
<1>4. LockTypes  BY DEF LockInv
<1>5. PICK f : Frame(f) /\ f.op = "swap" /\ f.unlocks = ~permit /\ calls' = Append(calls, f)
  BY <1>1, <1>3, <1>4, SwapLeaves
<1>6. /\ deposit' \in [Users -> [Token -> Nat]]
      /\ \A v \in Users, t \in Token : deposit[v][t] = 0 => deposit'[v][t] = 0
  BY <1>1, <1>3, <1>4, SwapLeaves
<1>7. deposit' = NoDeposits  BY <1>2, <1>6 DEF NoDeposit, NoDeposits
<1>8. /\ ~unlocked' /\ ~permit' /\ permit' \in BOOLEAN /\ unlocked' \in BOOLEAN
      /\ SavedSettled' /\ calls' # Idle /\ One(calls') /\ calls'[1] = f /\ (~permit) = TRUE
  BY <1>1, <1>5, TransactionBegins
<1>9. SwapCall'  BY <1>5, <1>7, <1>8 DEF SwapCall
<1> QED  BY <1>6, <1>8, <1>9 DEF LockInv, LockTypes

(***************************************************************************)
(* The steps of a deposit.                                                  *)
(***************************************************************************)
\* A deposit under way, by its phase.
LEMMA DepositOnTop ==
    ASSUME LockInv, calls # Idle, Top.op = "tokenReceived"
    PROVE  Received /\ Top = calls[1] /\ One(calls)
<1>1. CASE One(calls)
  <2>1. Top = calls[1]  BY <1>1, OneCall DEF Top
  <2>2. ~DispatchedSwap  BY <1>1, OneCall, TwoCalls DEF DispatchedSwap
  <2> QED  BY <1>1, <2>1, <2>2 DEF LockInv, PlainCall, SwapCall, Plain
<1>2. CASE Two(calls)
  <2>1. Top = calls[2]  BY <1>2, TwoCalls DEF Top
  <2>2. DispatchedSwap
    BY <1>2, OneCall, TwoCalls DEF LockInv, PlainCall, SwapCall, Received
  <2> QED  BY <2>1, <2>2 DEF DispatchedSwap
<1> QED  BY <1>1, <1>2 DEF LockInv, PlainCall, SwapCall, Received, DispatchedSwap

\* A deposit takes the lock and is the only one on the books.
LEMMA DepositBegins ==
    ASSUME LockInv, NEW u \in Users, NEW t \in Token, NEW n \in Nat, NEW payload,
           TokenReceived(u, t, n, payload)
    PROVE  LockInv'
<1> DEFINE f == [op |-> "tokenReceived", unlocks |-> TRUE, from |-> u, token |-> t,
                 payload |-> payload,
                 phase |-> IF payload.kind = "swap" THEN "dispatch" ELSE "refund"]
<1>1. /\ Outside /\ Save /\ unlocked /\ unlocked' = FALSE /\ swapSender' = u
      /\ deposit' = [deposit EXCEPT ![u][t] = @ + n]
      /\ permit' = IF payload.kind = "none" THEN permit ELSE TRUE
      /\ calls' = Append(calls, f)
  BY DEF TokenReceived, Begin
<1>2. calls = Idle /\ NoDeposit  BY <1>1, LockKeepsOthersOut
<1>3. SavedSettled'
  <2>1. saved' = State  BY <1>1, <1>2 DEF Save
  <2>2. /\ saved'.unlocked = unlocked /\ saved'.permit = permit
        /\ saved'.swapSender = swapSender /\ saved'.deposit = deposit
    BY <2>1 DEF State
  <2> QED  BY <1>2, <2>2 DEF SavedSettled, NoDeposit, LockInv, LockTypes
<1>4. Frame(f) /\ {"from", "token"} \subseteq DOMAIN f  BY DEF Frame
<1>5. /\ f.op = "tokenReceived" /\ f.unlocks = TRUE /\ f.from = u /\ f.token = t
      /\ f.phase = IF payload.kind = "swap" THEN "dispatch" ELSE "refund"
  OBVIOUS
<1> HIDE DEF f
<1>6. calls' = <<f>> /\ One(calls')  BY <1>1, <1>2, <1>4, FirstCall DEF Idle
<1>7. calls' # Idle /\ calls'[1] = f  BY <1>6 DEF Idle
<1>8. /\ deposit' \in [Users -> [Token -> Nat]]
      /\ \A v \in Users, s \in Token : deposit'[v][s] # 0 => v = u /\ s = t
  <2>1. deposit = NoDeposits  BY <1>2 DEF NoDeposit
  <2>2. deposit[u][t] = 0 /\ deposit \in [Users -> [Token -> Nat]]
    BY <2>1 DEF NoDeposits
  <2>3. deposit' = [deposit EXCEPT ![u][t] = n]  BY <1>1, <2>2
  <2> QED  BY <2>1, <2>2, <2>3 DEF NoDeposits
<1>9. permit' \in BOOLEAN /\ (payload.kind = "swap" => permit')
  BY <1>1, <1>2 DEF LockInv, LockTypes
<1>10. DepositOf(calls[1])'  BY <1>4, <1>5, <1>7, <1>8 DEF DepositOf
<1>11. Received'  BY <1>1, <1>5, <1>6, <1>7, <1>9, <1>10 DEF Received
<1> QED  BY <1>1, <1>3, <1>7, <1>8, <1>9, <1>11 DEF LockInv, LockTypes

\* The payload's swap uses up the permit and is put on top of the deposit.
LEMMA DispatchKeeps ==
    ASSUME LockInv, Dispatch
    PROVE  LockInv'
<1> USE PoolAssumption
<1> DEFINE o == Top.payload.order
           below == [Top EXCEPT !.phase = "refund"]
<1>1. /\ calls # Idle /\ Top.op = "tokenReceived" /\ Top.phase = "dispatch"
      /\ Lock /\ SwapBody(NoOne, o, AtPhase("refund")) /\ saved' = saved
  BY DEF Dispatch, At
<1>2. Received /\ Top = calls[1] /\ One(calls)  BY <1>1, DepositOnTop
<1>3. permit /\ swapSender = calls[1].from /\ calls[1].from \in Users
  BY <1>1, <1>2 DEF Received, DepositOf
<1>4. (~permit) = FALSE /\ permit' = FALSE /\ unlocked' = FALSE
  BY <1>1, <1>3 DEF Lock, LockInv, LockTypes
<1>5. (IF swapSender = NoOne THEN NoOne ELSE swapSender) \in Users  BY <1>3
<1>6. LockTypes  BY DEF LockInv
<1> HIDE DEF o
<1>7. PICK f : /\ Frame(f) /\ f.op = "swap" /\ f.unlocks = ~permit
               /\ calls' = Append(AtPhase("refund"), f)
  BY <1>1, <1>5, <1>6, SwapLeaves
<1>8. /\ deposit' \in [Users -> [Token -> Nat]]
      /\ \A v \in Users, t \in Token : deposit[v][t] = 0 => deposit'[v][t] = 0
  BY <1>1, <1>5, <1>6, SwapLeaves
<1>9. Frame(below) /\ DOMAIN below = DOMAIN Top  BY <1>2 DEF Frame, One
<1>10. /\ below.op = "tokenReceived" /\ below.unlocks = TRUE /\ below.phase = "refund"
       /\ DepositOf(below) /\ below.from = Top.from /\ below.token = Top.token
  BY <1>2, <1>9 DEF Received, DepositOf, Frame, One
<1> HIDE DEF below
<1>11. AtPhase("refund") = <<below>>
  <2>1. AtPhase("refund") = [calls EXCEPT ![Len(calls)] = below]  BY DEF AtPhase, Top, below
  <2> QED  BY <1>2, <1>9, <2>1, ChangeOne
<1>12. calls' = <<below, f>>  BY <1>7, <1>11, SecondCall
<1>13. calls'[1] = below /\ calls'[2] = f /\ calls' # Idle  BY <1>12 DEF Idle
<1>14. Two(calls')  BY <1>7, <1>9, <1>12, <1>13 DEF Two
<1>15. DepositOf(calls[1])'
  <2>1. \A v \in Users, t \in Token : deposit'[v][t] # 0 => v = below.from /\ t = below.token
    BY <1>8, <1>10 DEF DepositOf
  <2> QED  BY <1>10, <1>13, <2>1 DEF DepositOf
<1>16. DispatchedSwap'  BY <1>4, <1>7, <1>10, <1>13, <1>14, <1>15 DEF DispatchedSwap
<1>17. SavedSettled'  BY <1>1 DEF LockInv, SavedSettled
<1> QED  BY <1>4, <1>8, <1>13, <1>16, <1>17 DEF LockInv, LockTypes

\* The refund clears the deposit, its sender and an unused permit.
LEMMA RefundKeeps ==
    ASSUME LockInv, Refund
    PROVE  LockInv'
<1> DEFINE u == Top.from
           t == Top.token
           p == IF deposit[u][t] > 0 THEN "refunded" ELSE "end"
           g == [Top EXCEPT !.phase = p]
<1>1. /\ calls # Idle /\ Top.op = "tokenReceived"
      /\ permit' = FALSE /\ swapSender' = NoOne
      /\ deposit' = [deposit EXCEPT ![u][t] = 0]
      /\ calls' = AtPhase(p) /\ unlocked' = unlocked /\ saved' = saved
  BY DEF Refund, At
<1>2. Received /\ Top = calls[1] /\ One(calls)  BY <1>1, DepositOnTop
<1>3. u \in Users /\ t \in Token  BY <1>2 DEF Received, DepositOf
<1>4. p \in {"refunded", "end"}  OBVIOUS
<1>5. Frame(g) /\ DOMAIN g = DOMAIN Top  BY <1>2 DEF Frame, One
<1>6. /\ g.op = "tokenReceived" /\ g.unlocks = TRUE /\ g.phase = p
      /\ {"from", "token"} \subseteq DOMAIN g /\ g.from = u /\ g.token = t
  BY <1>2, <1>5 DEF Received, DepositOf, Frame, One
<1>7. calls' = [calls EXCEPT ![Len(calls)] = g]  BY <1>1 DEF AtPhase, Top
<1> HIDE DEF g, p
<1>8. calls' = <<g>> /\ One(calls')  BY <1>2, <1>5, <1>7, ChangeOne
<1>9. calls'[1] = g /\ calls' # Idle  BY <1>8 DEF Idle
<1>10. deposit' = NoDeposits
  <2>1. /\ deposit \in [Users -> [Token -> Nat]]
        /\ \A v \in Users, s \in Token : deposit[v][s] # 0 => v = u /\ s = t
    BY <1>2 DEF LockInv, LockTypes, Received, DepositOf
  <2> HIDE DEF u, t
  <2>2. \A v \in Users, s \in Token : deposit'[v][s] = 0  BY <1>1, <1>3, <2>1
  <2>3. deposit' \in [Users -> [Token -> Nat]]  BY <1>1, <1>3, <2>1
  <2> QED  BY <2>2, <2>3 DEF NoDeposits
<1>11. NoDeposit' /\ deposit' \in [Users -> [Token -> Nat]]
  <2>1. NoDeposit'  BY <1>1, <1>10 DEF NoDeposit
  <2>2. NoDeposits \in [Users -> [Token -> Nat]]  BY DEF NoDeposits
  <2> QED  BY <1>10, <2>1, <2>2
<1>12. DepositOf(calls[1])'  BY <1>3, <1>6, <1>9, <1>10 DEF DepositOf, NoDeposits
<1>13. Received'  BY <1>4, <1>6, <1>8, <1>9, <1>11, <1>12 DEF Received
<1>14. ~unlocked' /\ unlocked' \in BOOLEAN /\ SavedSettled'
  BY <1>1 DEF LockInv, LockTypes, SavedSettled
<1> QED  BY <1>1, <1>9, <1>11, <1>13, <1>14 DEF LockInv, LockTypes

(***************************************************************************)
(* The end of a call, and of a transaction that fails.                      *)
(***************************************************************************)
\* The end of a call gives the lock back only if that call had taken it.
LEMMA ReturnKeeps ==
    ASSUME LockInv, calls # Idle, Return, UNCHANGED <<permit, deposit>>,
           \/ Top.op \in Plain /\ swapSender' = swapSender
           \/ Top.op = "swap" /\ swapSender' = NoOne
           \/ /\ Top.op = "tokenReceived" /\ Top.phase \in {"refunded", "end"}
              /\ swapSender' = swapSender
    PROVE  LockInv'
<1>1. CASE One(calls)
  <2>1. Top = calls[1] /\ calls' = Idle
    BY <1>1, OneCall DEF Return, Top, Below, Idle
  <2>2. ~DispatchedSwap  BY <1>1, OneCall, TwoCalls DEF DispatchedSwap
  <2>3. NoDeposit'
    BY <2>1, <2>2 DEF LockInv, PlainCall, SwapCall, Received, NoDeposit, Plain
  <2>4. unlocked' = TRUE
    BY <2>1, <2>2 DEF Return, LockInv, PlainCall, SwapCall, Received
  <2> QED  BY <2>1, <2>3, <2>4 DEF LockInv, LockTypes
<1>2. CASE Two(calls)
  <2>1. DispatchedSwap
    BY <1>2, OneCall, TwoCalls DEF LockInv, PlainCall, SwapCall, Received
  <2>2. Top = calls[2] /\ Below = <<calls[1]>>  BY <1>2, TwoCalls DEF Top, Below
  <2>3. calls' = <<calls[1]>> /\ calls'[1] = calls[1] /\ calls' # Idle
    BY <2>2 DEF Return, Idle
  <2>4. One(calls')  BY <2>1, <2>3, FirstCall DEF DispatchedSwap, Two
  <2>5. saved' = saved  BY <2>3 DEF Return
  <2>6. unlocked' = FALSE  BY <2>1, <2>2 DEF Return, LockInv, LockTypes, DispatchedSwap
  <2>7. DepositOf(calls[1])'  BY <2>1, <2>3 DEF DispatchedSwap, DepositOf
  <2>8. Received'  BY <2>1, <2>3, <2>4, <2>7 DEF DispatchedSwap, Received
  <2>9. SavedSettled'  BY <2>5 DEF LockInv, SavedSettled
  <2> QED  BY <2>3, <2>6, <2>8, <2>9 DEF LockInv, LockTypes
<1> QED  BY <1>1, <1>2 DEF LockInv, PlainCall, SwapCall, Received, DispatchedSwap

\* A failed transaction leaves what was there between transactions.
LEMMA RevertKeeps ==
    ASSUME LockInv, Revert
    PROVE  LockInv'
<1>1. /\ calls # Idle /\ calls' = Idle /\ unlocked' = saved.unlocked /\ permit' = saved.permit
      /\ swapSender' = saved.swapSender /\ deposit' = saved.deposit
  BY DEF Revert
<1>2. SavedSettled  BY <1>1 DEF LockInv
<1>3. NoDeposits \in [Users -> [Token -> Nat]]  BY DEF NoDeposits
<1> QED  BY <1>1, <1>2, <1>3 DEF LockInv, LockTypes, NoDeposit, SavedSettled

(***************************************************************************)
(* The lock, step by step.                                                  *)
(***************************************************************************)
\* A new pool has no call under way.
LEMMA LockInvInit ==
    ASSUME Init
    PROVE  LockInv
BY DEF Init, LockInv, LockTypes, NoDeposit, NoDeposits, Idle

\* A call other than a deposit that changes its phase, and maybe that there
\* is more to collect.
LEMMA PhaseKeeps ==
    ASSUME LockInv, calls # Idle, Top.op \in Plain \cup {"swap"}, NEW p, NEW b,
           \/ calls' = AtPhase(p)
           \/ calls' = [calls EXCEPT ![Len(calls)].phase = p, ![Len(calls)].next = b],
           UNCHANGED <<unlocked, permit, swapSender, deposit, saved>>
    PROVE  LockInv'
<1>1. Frame(Top)  BY TopIsFrame
<1>2. CASE calls' = AtPhase(p)
  <2> DEFINE g == [Top EXCEPT !.phase = p]
  <2>1. Frame(g) /\ g.op = Top.op /\ g.unlocks = Top.unlocks  BY <1>1 DEF Frame
  <2>2. calls' = [calls EXCEPT ![Len(calls)] = g]  BY <1>2 DEF AtPhase, Top
  <2> HIDE DEF g
  <2> QED  BY <2>1, <2>2, CallGoesOn
<1>3. CASE calls' = [calls EXCEPT ![Len(calls)].phase = p, ![Len(calls)].next = b]
  <2> DEFINE h == [Top EXCEPT !.phase = p]
             g == [h EXCEPT !.next = b]
             c == [calls EXCEPT ![Len(calls)] = h]
  <2>1. Frame(h) /\ h.op = Top.op /\ h.unlocks = Top.unlocks  BY <1>1 DEF Frame
  <2>2. Frame(g) /\ g.op = Top.op /\ g.unlocks = Top.unlocks  BY <2>1 DEF Frame
  <2>3. calls' = [c EXCEPT ![Len(calls)] = [c[Len(calls)] EXCEPT !.next = b]]
    BY <1>3 DEF Top
  <2>4. c[Len(calls)] = h /\ calls' = [calls EXCEPT ![Len(calls)] = g]
    <3>1. One(calls) \/ Two(calls)
      BY DEF LockInv, PlainCall, SwapCall, Received, DispatchedSwap
    <3>2. Len(calls) \in DOMAIN calls  BY <3>1, OneCall, TwoCalls DEF One, Two
    <3> HIDE DEF h
    <3>3. c[Len(calls)] = h  BY <3>2
    <3>4. calls' = [c EXCEPT ![Len(calls)] = g]  BY <2>3, <3>3
    <3> HIDE DEF g
    <3> QED  BY <3>2, <3>3, <3>4
  <2> HIDE DEF g, h, c
  <2> QED  BY <2>2, <2>4, CallGoesOn
<1> QED  BY <1>2, <1>3

\* Every step of the pool and of those it calls keeps LockInv.
LEMMA LockInvStep ==
    ASSUME LockInv, PriceInTick, [Next]_vars
    PROVE  LockInv'
<1> USE PoolAssumption
<1>1. ASSUME NEW p, Initialize(p)  PROVE LockInv'
  <2>1. calls = Idle /\ NoDeposit  BY <1>1 DEF Initialize, PriceInTick, LockInv
  <2>2. /\ unlocked' = TRUE
        /\ UNCHANGED <<permit, swapSender, deposit, calls>>
    BY <1>1 DEF Initialize
  <2> QED  BY <2>1, <2>2 DEF LockInv, LockTypes, NoDeposit
<1>2. ASSUME NEW f0, NEW f1, SetFeeProtocol(f0, f1)  PROVE LockInv'
  <2>1. /\ Outside /\ LockAndRelease /\ UNCHANGED <<swapSender, deposit, calls>>
    BY <1>2 DEF SetFeeProtocol
  <2>2. calls = Idle /\ NoDeposit  BY <2>1, LockKeepsOthersOut DEF LockAndRelease
  <2> QED  BY <2>1, <2>2 DEF LockInv, LockTypes, NoDeposit, LockAndRelease
<1>3. ASSUME NEW k, NEW dL, Mint(k, dL)  PROVE LockInv'
  <2> DEFINE f == [op |-> "mint", phase |-> "pay", unlocks |-> ~permit,
                   due |-> PositionAmounts(k, dL),
                   before |-> <<Held(balance, 0), Held(balance, 1)>>]
  <2>1. /\ Outside /\ Save /\ Lock /\ calls' = Append(calls, f)
        /\ UNCHANGED <<swapSender, deposit>>
    BY <1>3 DEF Mint, Begin
  <2>2. Frame(f) /\ f.op \in Plain /\ f.unlocks = ~permit  BY DEF Frame, Plain
  <2> HIDE DEF f
  <2> QED  BY <2>1, <2>2, PlainBegins
<1>4. ASSUME NEW paid, MintCallback(paid)  PROVE LockInv'
  BY <1>4, PhaseKeeps DEF MintCallback, At, Plain
<1>5. CASE MintEnd
  BY <1>5, ReturnKeeps DEF MintEnd, At, Plain
<1>6. ASSUME NEW k, NEW dL, Burn(k, dL)  PROVE LockInv'
  <2>1. /\ Outside /\ LockAndRelease /\ UNCHANGED <<swapSender, deposit, calls>>
    BY <1>6 DEF Burn, Begin
  <2>2. calls = Idle /\ NoDeposit  BY <2>1, LockKeepsOthersOut DEF LockAndRelease
  <2> QED  BY <2>1, <2>2 DEF LockInv, LockTypes, NoDeposit, LockAndRelease
<1>7. ASSUME NEW k, NEW req, NEW vers, Collect(k, req, vers)  PROVE LockInv'
  <2> DEFINE due == [t \in Token |-> AtMost(req[t], positions[k].owed[t])]
             f == [op |-> "collect", phase |-> AfterDelivery(due[0], "next"),
                   unlocks |-> ~permit, key |-> k, due |-> due, vers |-> vers, next |-> TRUE]
  <2>1. /\ Outside /\ Save /\ Lock /\ calls' = Append(calls, f)
        /\ UNCHANGED <<swapSender, deposit>>
    BY <1>7 DEF Collect, Begin
  <2> HIDE DEF due
  <2>2. Frame(f) /\ f.op \in Plain /\ f.unlocks = ~permit  BY DEF Frame, Plain
  <2> HIDE DEF f
  <2> QED  BY <2>1, <2>2, PlainBegins
<1>8. CASE CollectNext
  BY <1>8, PhaseKeeps DEF CollectNext, Plain
<1>9. ASSUME NEW req, NEW vers, CollectProtocol(req, vers)  PROVE LockInv'
  <2> DEFINE due == [t \in Token |-> AtMost(req[t], protocolFees[t])]
             f == [op |-> "collectProtocol",
                   phase |-> AfterDelivery(LeaveOne(0, due[0]), "next"),
                   unlocks |-> ~permit, due |-> due, vers |-> vers, next |-> TRUE]
  <2>1. /\ Outside /\ Save /\ Lock /\ calls' = Append(calls, f)
        /\ UNCHANGED <<swapSender, deposit>>
    BY <1>9 DEF CollectProtocol, Begin
  <2> HIDE DEF due
  <2>2. Frame(f) /\ f.op \in Plain /\ f.unlocks = ~permit  BY DEF Frame, Plain
  <2> HIDE DEF f
  <2> QED  BY <2>1, <2>2, PlainBegins
<1>10. CASE CollectProtocolNext
  BY <1>10, PhaseKeeps DEF CollectProtocolNext, Plain
<1>11. CASE CollectEnd
  BY <1>11, ReturnKeeps DEF CollectEnd, Plain
<1>12. ASSUME NEW u \in Users, NEW o, Swap(u, o)  PROVE LockInv'
  BY <1>12, SwapKeeps
<1>13. ASSUME NEW pays, SwapCallback(pays)  PROVE LockInv'
  BY <1>13, PhaseKeeps DEF SwapCallback, At
<1>14. CASE SwapDeliver
  BY <1>14, PhaseKeeps DEF SwapDeliver, At
<1>15. CASE SwapEnd
  BY <1>15, ReturnKeeps DEF SwapEnd, At
<1>16. ASSUME NEW u \in Users, NEW t \in Token, NEW n \in Values, NEW payload,
              TokenReceived(u, t, n, payload)
       PROVE LockInv'
  BY <1>16, DepositBegins
<1>17. CASE Dispatch  BY <1>17, DispatchKeeps
<1>18. CASE Refund  BY <1>18, RefundKeeps
<1>19. CASE ReceivedEnd
  BY <1>19, ReturnKeeps DEF ReceivedEnd, At
<1>20. CASE Revert  BY <1>20, RevertKeeps
<1>21. CASE UNCHANGED vars
  <2>1. UNCHANGED <<unlocked, permit, swapSender, deposit, calls, saved>>  BY <1>21 DEF vars
  <2> QED  BY <2>1 DEF LockInv, LockTypes, NoDeposit, SavedSettled, PlainCall, SwapCall,
                       Received, DispatchedSwap, DepositOf
<1> QED
  BY <1>1, <1>2, <1>3, <1>4, <1>5, <1>6, <1>7, <1>8, <1>9, <1>10, <1>11, <1>12, <1>13,
     <1>14, <1>15, <1>16, <1>17, <1>18, <1>19, <1>20, <1>21 DEF Next

(***************************************************************************)
(* The invariant of the book, and the calls that go with it.                *)
(***************************************************************************)
\* No swap gives anything for nothing, and a deposit to be dispatched brings
\* one of the orders.
FrameOK(f) ==
    /\ f.op = "swap" /\ f.out > 0 => f.due > 0
    /\ f.op = "tokenReceived" /\ f.phase = "dispatch" => f.payload.order \in Orders

FramesOK(c) == \A i \in DOMAIN c : FrameOK(c[i])

SavedBook ==
    /\ saved.sqrtPrice # 0
    /\ BookState(saved.sqrtPrice, saved.tick, saved.liquidity, saved.ticks, saved.bitmap,
                 saved.positions)

\* The book is right now and was when the transaction began; a pool that is
\* unlocked or in use has a price.
BookInv ==
    /\ Book /\ FramesOK(calls)
    /\ calls # Idle => SavedBook
    /\ unlocked \/ permit \/ calls # Idle => sqrtPrice # 0

\* An order whose limit is allowed can be swapped from here.
LEMMA SwapBegins ==
    ASSUME Book, sqrtPrice # 0, NEW o \in Orders, LimitAllowed(o)
    PROVE  Limited(o) /\ LoopInv(SwapStart(o), o)
<1>1. /\ BookOK(positions, ticks, bitmap) /\ TicksOK(ticks, positions)
      /\ sqrtPrice \in Nat \ {0} /\ InTick(sqrtPrice, tick)
      /\ liquidity = Stake(positions, Around(tick))
  BY DEF Book, BookState, BookOK
<1>2. o.zeroForOne \in BOOLEAN /\ o.amount \in Int \ {0} /\ o.limit \in Nat
  BY PoolAssumption
<1>3. PICK lo \in Nat, hi \in Nat :
        lo = SqrtRatio[MinTick] /\ hi = SqrtRatio[MaxTick] /\ lo <= sqrtPrice /\ sqrtPrice <= hi
  <2>1. /\ MinTick \in Ticks /\ MaxTick \in Ticks /\ tick \in Ticks /\ tick + 1 \in Ticks
        /\ MinTick <= tick /\ tick + 1 <= MaxTick
    BY <1>1, TickFacts DEF InTick
  <2>2. SqrtRatio[MinTick] <= SqrtRatio[tick] /\ SqrtRatio[tick + 1] <= SqrtRatio[MaxTick]
    BY <2>1, TickFacts
  <2>3. /\ SqrtRatio[MinTick] \in Nat /\ SqrtRatio[MaxTick] \in Nat
        /\ SqrtRatio[tick] \in Nat /\ SqrtRatio[tick + 1] \in Nat
    BY <2>1, TickFacts
  <2>4. SqrtRatio[tick] <= sqrtPrice /\ sqrtPrice <= SqrtRatio[tick + 1]  BY <1>1 DEF InTick
  <2> QED  BY <1>1, <2>2, <2>3, <2>4
<1>4. /\ IF o.zeroForOne THEN o.limit < sqrtPrice /\ o.limit > lo
                         ELSE o.limit > sqrtPrice /\ o.limit < hi
  BY <1>3 DEF LimitAllowed
<1>5. Limited(o)  BY <1>1, <1>2, <1>3, <1>4 DEF Limited
<1>6. LoopInv(SwapStart(o), o)
  <2> DEFINE s == SwapStart(o)
  <2>1. /\ s.remaining = o.amount /\ s.calculated = 0 /\ s.price = sqrtPrice /\ s.tick = tick
        /\ s.liquidity = liquidity /\ s.ticks = ticks /\ SwapFields \subseteq DOMAIN s
    BY DEF SwapStart, SwapFields
  <2> HIDE DEF s
  <2>2. Reached(s, o)  BY <1>2, <2>1 DEF Reached
  <2>3. IF o.zeroForOne THEN o.limit <= sqrtPrice ELSE sqrtPrice <= o.limit
    BY <1>1, <1>2, <1>4
  <2>4. Placed(s, o)  BY <1>1, <2>1, <2>3 DEF Placed
  <2>5. LoopInv(s, o)  BY <2>1, <2>2, <2>4 DEF LoopInv
  <2> QED  BY <2>5 DEF s
<1> QED  BY <1>5, <1>6

\* What a swap computes, from a book that is right.
LEMMA SwapIs ==
    ASSUME Book, sqrtPrice # 0, NEW o \in Orders, LimitAllowed(o)
    PROVE  LoopInv(SwapResult(o), o) /\ ~ Unfinished(SwapResult(o), o)
<1>1. BookOK(positions, ticks, bitmap)  BY DEF Book, BookState
<1>2. Limited(o) /\ LoopInv(SwapStart(o), o)  BY SwapBegins
<1> QED  BY <1>1, <1>2, SwapEnds

\* A swap keeps the book, and its frame asks for something if it gives anything.
LEMMA SwapKeepsBook ==
    ASSUME Book, sqrtPrice # 0, NEW o \in Orders, NEW sender, NEW stack,
           SwapBody(sender, o, stack)
    PROVE  /\ Book' /\ sqrtPrice' # 0
           /\ \E f : FrameOK(f) /\ calls' = Append(stack, f)
<1> DEFINE due(s) == IF o.amount > 0 THEN o.amount - s.remaining ELSE s.calculated
           out(s) == IF o.amount > 0 THEN -s.calculated ELSE s.remaining - o.amount
           frame(s) == [op |-> "swap", phase |-> "pay", unlocks |-> ~permit, order |-> o,
                        due |-> due(s), out |-> out(s), before |-> Held(balance, In(o))]
<1>1. PICK s : /\ s = SwapResult(o) /\ LimitAllowed(o)
               /\ sqrtPrice' = s.price /\ tick' = s.tick
               /\ liquidity' = s.liquidity /\ ticks' = s.ticks
               /\ UNCHANGED <<bitmap, positions>>
               /\ \/ calls' = Append(stack, [frame(s) EXCEPT !.phase = AfterDelivery(out(s), "end")])
                  \/ calls' = Append(stack, frame(s))
  BY DEF SwapBody
<1>2. LoopInv(s, o)  BY <1>1, SwapIs
<1>3. PICK r \in Int, n \in Int, m \in Int : r = s.remaining /\ n = s.calculated /\ m = o.amount
  <2>1. o.amount \in Int  BY PoolAssumption
  <2> QED  BY <1>2, <2>1 DEF LoopInv, Reached
<1>4. m # 0  BY <1>3, PoolAssumption
<1>5. out(s) > 0 => due(s) > 0
  <2>1. out(s) = (IF m > 0 THEN -n ELSE r - m) /\ due(s) = (IF m > 0 THEN m - r ELSE n)
    BY <1>3
  <2>2. /\ m > 0 => n <= 0 /\ (n < 0 => r < m)
        /\ m < 0 => (m < r => n > 0)
    BY <1>2, <1>3 DEF LoopInv, Reached
  <2> HIDE DEF out, due
  <2> QED  BY <1>3, <1>4, <2>1, <2>2
<1>6. \E f : FrameOK(f) /\ calls' = Append(stack, f)
  <2> HIDE DEF due, out
  <2>1. FrameOK(frame(s)) /\ FrameOK([frame(s) EXCEPT !.phase = AfterDelivery(out(s), "end")])
    BY <1>5 DEF FrameOK
  <2> HIDE DEF frame
  <2> QED  BY <1>1, <2>1
<1>7. /\ s.price \in Nat \ {0} /\ InTick(s.price, s.tick) /\ s.tick \in Int
      /\ s.liquidity = Stake(positions, Around(s.tick)) /\ TicksOK(s.ticks, positions)
  BY <1>2, TickFacts DEF LoopInv, Placed, InTick
<1>8. BookOK(positions, ticks', bitmap)
  <2>1. BookOK(positions, ticks, bitmap) /\ TicksOK(ticks, positions)
    BY DEF Book, BookState, BookOK
  <2>2. \A t \in Ticks : ticks'[t].gross = ticks[t].gross  BY <1>1, <1>7, <2>1 DEF TicksOK
  <2>3. {t \in Ticks : ticks'[t].gross > 0} = {t \in Ticks : ticks[t].gross > 0}  BY <2>2
  <2> QED  BY <1>1, <1>7, <2>1, <2>3 DEF BookOK, BitmapOK
<1>9. Book'  BY <1>1, <1>7, <1>8 DEF Book, BookState
<1> QED  BY <1>1, <1>6, <1>7, <1>9

(***************************************************************************)
(* How the calls change.                                                    *)
(***************************************************************************)
LEMMA FramesGoOn ==
    ASSUME FramesOK(calls), NEW g, FrameOK(g), calls' = [calls EXCEPT ![Len(calls)] = g]
    PROVE  FramesOK(calls')
<1>1. DOMAIN calls' = DOMAIN calls /\ \A i \in DOMAIN calls : calls'[i] = g \/ calls'[i] = calls[i]
  OBVIOUS
<1> QED  BY <1>1 DEF FramesOK

\* What holds of every call under way holds of those below the top.
LEMMA FramesBelow ==
    ASSUME LockInv, calls # Idle, FramesOK(calls)
    PROVE  FramesOK(Below)
<1>1. CASE One(calls)
  <2>1. Below = <<>>  BY <1>1, OneCall DEF Below
  <2> QED  BY <2>1 DEF FramesOK
<1>2. CASE Two(calls)
  <2>1. Below = <<calls[1]>>  BY <1>2, TwoCalls DEF Below
  <2>2. 1 \in DOMAIN calls  BY <1>2 DEF Two
  <2>3. FrameOK(calls[1])  BY <2>2 DEF FramesOK
  <2> QED  BY <2>1, <2>3 DEF FramesOK
<1> QED  BY <1>1, <1>2 DEF LockInv, PlainCall, SwapCall, Received, DispatchedSwap

\* The phase of the innermost call, other than to dispatch, and whether there
\* is more to collect.
LEMMA FramesPhase ==
    ASSUME LockInv, calls # Idle, FramesOK(calls), NEW p, p # "dispatch", NEW b,
           \/ calls' = AtPhase(p)
           \/ calls' = [calls EXCEPT ![Len(calls)].phase = p, ![Len(calls)].next = b]
    PROVE  FramesOK(calls')
<1>1. Frame(Top) /\ FrameOK(Top)
  <2>1. CASE One(calls)
    <3>1. Top = calls[1]  BY <2>1, OneCall DEF Top
    <3>2. DOMAIN calls = DOMAIN <<calls[1]>>  BY <2>1 DEF One
    <3>3. 1 \in DOMAIN calls  BY <3>2
    <3> QED  BY <3>1, <3>3, TopIsFrame DEF FramesOK
  <2>2. CASE Two(calls)
    <3>1. Top = calls[2] /\ 2 \in DOMAIN calls  BY <2>2, TwoCalls DEF Two, Top
    <3> QED  BY <3>1, TopIsFrame DEF FramesOK
  <2> QED  BY <2>1, <2>2 DEF LockInv, PlainCall, SwapCall, Received, DispatchedSwap
<1> DEFINE h == [Top EXCEPT !.phase = p]
<1>2. FrameOK(h)  BY <1>1 DEF FrameOK, Frame
<1>3. CASE calls' = AtPhase(p)
  <2>1. calls' = [calls EXCEPT ![Len(calls)] = h]  BY <1>3 DEF AtPhase, Top
  <2> HIDE DEF h
  <2> QED  BY <1>2, <2>1, FramesGoOn
<1>4. CASE calls' = [calls EXCEPT ![Len(calls)].phase = p, ![Len(calls)].next = b]
  <2> DEFINE g == [h EXCEPT !.next = b]
             c == [calls EXCEPT ![Len(calls)] = h]
  <2>1. FrameOK(g)  BY <1>1, <1>2 DEF FrameOK, Frame
  <2>2. calls' = [c EXCEPT ![Len(calls)] = [c[Len(calls)] EXCEPT !.next = b]]
    BY <1>4 DEF Top
  <2>3. One(calls) \/ Two(calls)
    BY DEF LockInv, PlainCall, SwapCall, Received, DispatchedSwap
  <2>4. Len(calls) \in DOMAIN calls  BY <2>3, OneCall, TwoCalls DEF One, Two
  <2> HIDE DEF h
  <2>5. c[Len(calls)] = h  BY <2>4
  <2>6. calls' = [c EXCEPT ![Len(calls)] = g]  BY <2>2, <2>5
  <2> HIDE DEF g
  <2>7. calls' = [calls EXCEPT ![Len(calls)] = g]  BY <2>4, <2>6
  <2> HIDE DEF c
  <2> QED  BY <2>1, <2>7, FramesGoOn
<1> QED  BY <1>3, <1>4

\* A step that leaves the book alone, but for what positions are owed.
LEMMA BookSame ==
    ASSUME BookInv, UNCHANGED price, SameStakes(positions, positions'), FramesOK(calls'),
           calls' # Idle => calls # Idle /\ saved' = saved, sqrtPrice # 0
    PROVE  BookInv'
<1>1. UNCHANGED <<sqrtPrice, tick, liquidity, ticks, bitmap>>  BY DEF price
<1>2. Book'
  <2>1. BookState(sqrtPrice, tick, liquidity, ticks, bitmap, positions')
    BY BookOfStakes DEF BookInv, Book
  <2> QED  BY <1>1, <2>1 DEF Book
<1>3. calls' # Idle => SavedBook'  BY DEF BookInv, SavedBook
<1> QED  BY <1>1, <1>2, <1>3 DEF BookInv

\* A transaction begins, with the book as it is or changed by its first step.
LEMMA BookBegins ==
    ASSUME BookInv, LockInv, Outside, Save, permit \/ unlocked, NEW f, FrameOK(f),
           calls' = Append(calls, f), Book', sqrtPrice' # 0
    PROVE  BookInv'
<1>1. calls = Idle /\ unlocked  BY LockKeepsOthersOut
<1>2. saved' = State  BY <1>1 DEF Save
<1>3. sqrtPrice # 0  BY <1>1 DEF BookInv
<1>4. SavedBook'
  <2>1. /\ saved'.sqrtPrice = sqrtPrice /\ saved'.tick = tick /\ saved'.liquidity = liquidity
        /\ saved'.ticks = ticks /\ saved'.bitmap = bitmap /\ saved'.positions = positions
    BY <1>2 DEF State
  <2>2. BookState(sqrtPrice, tick, liquidity, ticks, bitmap, positions)  BY DEF BookInv, Book
  <2> QED  BY <1>3, <2>1, <2>2 DEF SavedBook
<1>5. FramesOK(calls')
  <2>1. calls' = <<f>>  BY <1>1 DEF Idle
  <2> QED  BY <2>1 DEF FramesOK
<1> QED  BY <1>4, <1>5 DEF BookInv

\* A position that is owed something else has the same liquidity.
LEMMA OwedKeepsStakes ==
    ASSUME Book, NEW k, NEW t, NEW x, positions' = [positions EXCEPT ![k].owed[t] = x]
    PROVE  SameStakes(positions, positions')
<1>1. PositionsOK(positions)  BY DEF Book, BookState, BookOK
<1> QED  BY <1>1 DEF SameStakes, PositionsOK

\* Nothing changed, nobody has more or less liquidity.
LEMMA BookStays ==
    ASSUME Book
    PROVE  SameStakes(positions, positions)
BY DEF Book, BookState, BookOK, PositionsOK, SameStakes

\* A new pool has an empty book.
LEMMA BookInvInit ==
    ASSUME Init
    PROVE  BookInv
<1>1. /\ sqrtPrice = 0 /\ tick = 0 /\ liquidity = 0 /\ unlocked = FALSE /\ permit = FALSE
      /\ ticks = [t \in Ticks |-> EmptyTick] /\ bitmap = {}
      /\ positions = [k \in Keys |-> EmptyPosition] /\ calls = Idle
  BY DEF Init
<1>2. PositionsOK(positions) /\ \A k \in Keys : positions[k].liquidity = 0
  BY <1>1 DEF PositionsOK, EmptyPosition
<1>3. \A S \in SUBSET Keys : Stake(positions, S) = 0
  <2> SUFFICES ASSUME NEW S \in SUBSET Keys PROVE Stake(positions, S) = 0  OBVIOUS
  <2> DEFINE f == [k \in S |-> 0]
  <2>1. IsFiniteSet(S) /\ \A k \in S : Stakes(positions)[k] = 0  BY <1>2, StakesAre
  <2>2. \A k \in S : Stakes(positions)[k] = f[k]  BY <2>1
  <2>3. SumFunctionOnSet(f, S) = 0  BY <2>1, SumZero
  <2> HIDE DEF f
  <2> QED  BY <2>1, <2>2, <2>3, SumSame DEF Stake
<1>4. \A t : /\ Around(t) \in SUBSET Keys /\ Lowers(t) \in SUBSET Keys /\ Uppers(t) \in SUBSET Keys
             /\ Lowers(t) \cup Uppers(t) \in SUBSET Keys
  BY DEF Around, Lowers, Uppers
<1>5. TicksOK(ticks, positions)
  <2>1. ASSUME NEW t \in Ticks
        PROVE  /\ Stake(positions, Lowers(t) \cup Uppers(t)) = 0
               /\ Stake(positions, Lowers(t)) = 0 /\ Stake(positions, Uppers(t)) = 0
    BY <1>3, <1>4
  <2> QED  BY <1>1, <2>1 DEF TicksOK, EmptyTick
<1>6. BitmapOK(bitmap, ticks)  BY <1>1 DEF BitmapOK, EmptyTick
<1>7. Book
  <2>1. liquidity = Stake(positions, Around(tick))  BY <1>1, <1>3, <1>4
  <2> QED  BY <1>1, <1>2, <1>5, <1>6, <2>1 DEF Book, BookState, BookOK
<1> QED  BY <1>1, <1>7 DEF BookInv, FramesOK, Idle

\* A pool gets its price once, and the tick of the price.
LEMMA InitializeKeepsBook ==
    ASSUME BookInv, NEW p \in InitialPrices, Initialize(p)
    PROVE  BookInv'
<1>1. /\ sqrtPrice = 0 /\ p \in SqrtRatio[MinTick] .. SqrtRatio[MaxTick] - 1
      /\ sqrtPrice' = p /\ tick' = TickAtSqrtRatio(p)
      /\ UNCHANGED <<liquidity, ticks, bitmap, positions, calls, saved>>
  BY DEF Initialize
<1>2. calls = Idle  BY <1>1 DEF BookInv
<1>3. p \in Nat /\ p # 0  BY PoolAssumption
<1>4. InTick(p, TickAtSqrtRatio(p))
  <2>1. MinTick \in Ticks /\ MaxTick \in Ticks  BY TickFacts
  <2>2. SqrtRatio[MinTick] \in Nat /\ SqrtRatio[MaxTick] \in Nat  BY <2>1, TickFacts
  <2>3. SqrtRatio[MinTick] <= p /\ p < SqrtRatio[MaxTick]  BY <1>1, <1>3, <2>2
  <2> QED  BY <1>3, <2>3, TickIs
<1>5. tick' \in Int  BY <1>1, <1>4, TickFacts DEF InTick
<1>6. liquidity = Stake(positions, Around(tick')) /\ BookOK(positions, ticks, bitmap)
  <2>1. BookState(sqrtPrice, tick, liquidity, ticks, bitmap, positions)  BY DEF BookInv, Book
  <2>2. tick \in Int /\ liquidity = Stake(positions, Around(tick))
        /\ BookOK(positions, ticks, bitmap)
    BY <2>1 DEF BookState
  <2>3. \A t \in Int : Stake(positions, Around(t)) = 0  BY <1>1, <2>1, BookLiquidity
  <2> QED  BY <1>5, <2>2, <2>3
<1>7. Book'  BY <1>1, <1>3, <1>4, <1>5, <1>6 DEF Book, BookState
<1> QED  BY <1>1, <1>2, <1>3, <1>7 DEF BookInv

\* Every step of the pool and of those it calls keeps the book.
LEMMA BookInvStep ==
    ASSUME LockInv, BookInv, [Next]_vars
    PROVE  BookInv'
<1>0. Book /\ FramesOK(calls) /\ SameStakes(positions, positions)
  BY BookStays DEF BookInv
<1>1. ASSUME NEW p \in InitialPrices, Initialize(p)  PROVE BookInv'
  BY <1>1, InitializeKeepsBook
<1>2. ASSUME NEW f0, NEW f1, SetFeeProtocol(f0, f1)  PROVE BookInv'
  <2>1. Outside /\ LockAndRelease /\ UNCHANGED <<price, positions, calls, saved>>
    BY <1>2 DEF SetFeeProtocol
  <2>2. calls = Idle /\ unlocked  BY <2>1, LockKeepsOthersOut DEF LockAndRelease
  <2>3. sqrtPrice # 0  BY <2>2 DEF BookInv
  <2> QED  BY <1>0, <2>1, <2>2, <2>3, BookSame
<1>3. ASSUME NEW k \in Keys, NEW dL \in Liquidities, Mint(k, dL)  PROVE BookInv'
  <2> DEFINE f == [op |-> "mint", phase |-> "pay", unlocks |-> ~permit,
                   due |-> PositionAmounts(k, dL),
                   before |-> <<Held(balance, 0), Held(balance, 1)>>]
  <2>1. /\ Outside /\ Save /\ Lock /\ calls' = Append(calls, f)
        /\ ModifyPosition(k, dL, <<0, 0>>)
    BY <1>3 DEF Mint, Begin
  <2>2. FrameOK(f)  BY DEF FrameOK
  <2> HIDE DEF f
  <2>3. permit \/ unlocked  BY <2>1 DEF Lock
  <2>4. unlocked  BY <2>1, <2>3, LockKeepsOthersOut
  <2>5. sqrtPrice # 0 /\ sqrtPrice' = sqrtPrice  BY <2>1, <2>4 DEF BookInv, ModifyPosition
  <2>6. dL \in Int  BY PoolAssumption
  <2>7. Book'  BY <1>0, <2>1, <2>5, <2>6, ModifyKeepsBook
  <2> QED  BY <2>1, <2>2, <2>3, <2>5, <2>7, BookBegins
<1>4. ASSUME NEW paid, MintCallback(paid)  PROVE BookInv'
  <2>1. calls # Idle /\ calls' = AtPhase("paid") /\ UNCHANGED <<price, positions, saved>>
    BY <1>4 DEF MintCallback, At
  <2>2. FramesOK(calls')  BY <1>0, <2>1, FramesPhase
  <2>3. sqrtPrice # 0  BY <2>1 DEF BookInv
  <2> QED  BY <1>0, <2>1, <2>2, <2>3, BookSame
<1>5. ASSUME calls # Idle, Return, UNCHANGED <<price, positions>>  PROVE BookInv'
  <2>1. calls' = Below /\ saved' = (IF Below = Idle THEN Idle ELSE saved)  BY <1>5 DEF Return
  <2>2. FramesOK(calls')  BY <1>0, <1>5, <2>1, FramesBelow
  <2>3. sqrtPrice # 0  BY <1>5 DEF BookInv
  <2> QED  BY <1>0, <1>5, <2>1, <2>2, <2>3, BookSame
<1>6. ASSUME NEW k \in Keys, NEW dL \in Liquidities \cup {0}, Burn(k, dL)  PROVE BookInv'
  <2>1. PICK gain : /\ Outside /\ LockAndRelease /\ ModifyPosition(k, -dL, gain)
                    /\ UNCHANGED <<calls, saved>>
    BY <1>6 DEF Burn, Begin
  <2>2. calls = Idle /\ unlocked  BY <2>1, LockKeepsOthersOut DEF LockAndRelease
  <2>3. sqrtPrice # 0 /\ sqrtPrice' = sqrtPrice  BY <2>1, <2>2 DEF BookInv, ModifyPosition
  <2>4. -dL \in Int
    <3>1. dL \in Nat  BY PoolAssumption
    <3> QED  BY <3>1
  <2>5. Book'  BY <1>0, <2>1, <2>3, <2>4, ModifyKeepsBook
  <2> QED  BY <1>0, <2>1, <2>2, <2>3, <2>5 DEF BookInv
<1>7. ASSUME NEW k, NEW req, NEW vers, Collect(k, req, vers)  PROVE BookInv'
  <2> DEFINE due == [t \in Token |-> AtMost(req[t], positions[k].owed[t])]
             f == [op |-> "collect", phase |-> AfterDelivery(due[0], "next"),
                   unlocks |-> ~permit, key |-> k, due |-> due, vers |-> vers, next |-> TRUE]
  <2>1. /\ Outside /\ Save /\ Lock /\ calls' = Append(calls, f) /\ UNCHANGED price
        /\ positions' = [positions EXCEPT ![k].owed[0] = @ - due[0]]
    BY <1>7 DEF Collect, Begin
  <2> HIDE DEF due
  <2>2. FrameOK(f)  BY DEF FrameOK
  <2> HIDE DEF f
  <2>3. permit \/ unlocked  BY <2>1 DEF Lock
  <2>4. unlocked  BY <2>1, <2>3, LockKeepsOthersOut
  <2>5. sqrtPrice # 0 /\ sqrtPrice' = sqrtPrice  BY <2>1, <2>4 DEF BookInv, price
  <2>6. SameStakes(positions, positions')  BY <1>0, <2>1, OwedKeepsStakes
  <2>7. BookState(sqrtPrice, tick, liquidity, ticks, bitmap, positions')
    BY <1>0, <2>6, BookOfStakes DEF Book
  <2>8. Book'  BY <2>1, <2>7 DEF Book, price
  <2> QED  BY <2>1, <2>2, <2>3, <2>5, <2>8, BookBegins
<1>8. CASE CollectNext
  <2>1. PICK p, b : /\ calls # Idle /\ UNCHANGED <<price, saved>>
                    /\ positions' = [positions EXCEPT ![Top.key].owed[1] = @ - Top.due[1]]
                    /\ p = AfterDelivery(Top.due[1], "end")
                    /\ calls' = [calls EXCEPT ![Len(calls)].phase = p, ![Len(calls)].next = b]
    BY <1>8 DEF CollectNext
  <2>2. p # "dispatch"  BY <2>1 DEF AfterDelivery
  <2>3. FramesOK(calls')  BY <1>0, <2>1, <2>2, FramesPhase
  <2>4. SameStakes(positions, positions')  BY <1>0, <2>1, OwedKeepsStakes
  <2>5. sqrtPrice # 0  BY <2>1 DEF BookInv
  <2> QED  BY <2>1, <2>3, <2>4, <2>5, BookSame
<1>9. ASSUME NEW req, NEW vers, CollectProtocol(req, vers)  PROVE BookInv'
  <2> DEFINE due == [t \in Token |-> AtMost(req[t], protocolFees[t])]
             f == [op |-> "collectProtocol",
                   phase |-> AfterDelivery(LeaveOne(0, due[0]), "next"),
                   unlocks |-> ~permit, due |-> due, vers |-> vers, next |-> TRUE]
  <2>1. /\ Outside /\ Save /\ Lock /\ calls' = Append(calls, f)
        /\ UNCHANGED <<price, positions>>
    BY <1>9 DEF CollectProtocol, Begin
  <2> HIDE DEF due
  <2>2. FrameOK(f)  BY DEF FrameOK
  <2> HIDE DEF f
  <2>3. permit \/ unlocked  BY <2>1 DEF Lock
  <2>4. unlocked  BY <2>1, <2>3, LockKeepsOthersOut
  <2>5. sqrtPrice # 0 /\ sqrtPrice' = sqrtPrice  BY <2>1, <2>4 DEF BookInv, price
  <2>6. Book'  BY <1>0, <2>1 DEF Book, price
  <2> QED  BY <2>1, <2>2, <2>3, <2>5, <2>6, BookBegins
<1>10. CASE CollectProtocolNext
  <2>1. PICK p, b : /\ calls # Idle /\ UNCHANGED <<price, positions, saved>>
                    /\ p \in {"out", "end"}
                    /\ calls' = [calls EXCEPT ![Len(calls)].phase = p, ![Len(calls)].next = b]
    BY <1>10 DEF CollectProtocolNext, AfterDelivery
  <2>2. p # "dispatch"  BY <2>1
  <2>3. FramesOK(calls')  BY <1>0, <2>1, <2>2, FramesPhase
  <2>4. sqrtPrice # 0  BY <2>1 DEF BookInv
  <2> QED  BY <1>0, <2>1, <2>3, <2>4, BookSame
<1>12. ASSUME NEW u \in Users, NEW o \in Orders, Swap(u, o)  PROVE BookInv'
  <2>1. Outside /\ Save /\ Lock /\ SwapBody(u, o, calls)  BY <1>12 DEF Swap, Begin
  <2>2. permit \/ unlocked  BY <2>1 DEF Lock
  <2>3. unlocked  BY <2>1, <2>2, LockKeepsOthersOut
  <2>4. sqrtPrice # 0  BY <2>3 DEF BookInv
  <2>5. Book' /\ sqrtPrice' # 0 /\ \E f : FrameOK(f) /\ calls' = Append(calls, f)
    BY <1>0, <2>1, <2>4, SwapKeepsBook
  <2>6. PICK f : FrameOK(f) /\ calls' = Append(calls, f)  BY <2>5
  <2> QED  BY <2>1, <2>2, <2>5, <2>6, BookBegins
<1>13. ASSUME NEW pays, SwapCallback(pays)  PROVE BookInv'
  <2>1. calls # Idle /\ calls' = AtPhase("paid") /\ UNCHANGED <<price, positions, saved>>
    BY <1>13 DEF SwapCallback, At
  <2>2. FramesOK(calls')  BY <1>0, <2>1, FramesPhase
  <2>3. sqrtPrice # 0  BY <2>1 DEF BookInv
  <2> QED  BY <1>0, <2>1, <2>2, <2>3, BookSame
<1>14. CASE SwapDeliver
  <2>1. PICK p : /\ calls # Idle /\ UNCHANGED <<price, positions, saved>>
                 /\ calls' = AtPhase(p) /\ p \in {"out", "end"}
    BY <1>14 DEF SwapDeliver, At, AfterDelivery
  <2>2. FramesOK(calls')  BY <1>0, <2>1, FramesPhase
  <2>3. sqrtPrice # 0  BY <2>1 DEF BookInv
  <2> QED  BY <1>0, <2>1, <2>2, <2>3, BookSame
<1>16. ASSUME NEW u \in Users, NEW t \in Token, NEW n \in Values, NEW payload \in Payloads,
              TokenReceived(u, t, n, payload)
       PROVE  BookInv'
  <2> DEFINE f == [op |-> "tokenReceived", unlocks |-> TRUE, from |-> u, token |-> t,
                   payload |-> payload,
                   phase |-> IF payload.kind = "swap" THEN "dispatch" ELSE "refund"]
  <2>1. /\ Outside /\ Save /\ unlocked /\ calls' = Append(calls, f)
        /\ UNCHANGED <<price, positions>>
    BY <1>16 DEF TokenReceived, Begin
  <2>2. payload.kind = "swap" => payload.order \in Orders
    <3>1. CASE payload \in [kind : {"swap"}, order : Orders]  BY <3>1
    <3>2. CASE payload \in [kind : {"none", "view"}]
      <4>1. payload.kind \in {"none", "view"}  BY <3>2
      <4> QED  BY <4>1
    <3> QED  BY <3>1, <3>2 DEF Payloads
  <2>3. FrameOK(f)  BY <2>2 DEF FrameOK
  <2> HIDE DEF f
  <2>4. sqrtPrice # 0 /\ sqrtPrice' = sqrtPrice  BY <2>1 DEF BookInv, price
  <2>5. Book'  BY <1>0, <2>1 DEF Book, price
  <2> QED  BY <2>1, <2>3, <2>4, <2>5, BookBegins
<1>17. CASE Dispatch
  <2>1. /\ calls # Idle /\ Top.op = "tokenReceived" /\ Top.phase = "dispatch"
        /\ Lock /\ SwapBody(NoOne, Top.payload.order, AtPhase("refund")) /\ saved' = saved
    BY <1>17 DEF Dispatch, At
  <2>2. sqrtPrice # 0  BY <2>1 DEF BookInv
  <2>3. Received /\ Top = calls[1] /\ One(calls)  BY <2>1, DepositOnTop
  <2>4. Top.payload.order \in Orders
    <3>1. DOMAIN calls = DOMAIN <<calls[1]>>  BY <2>3 DEF One
    <3>2. 1 \in DOMAIN calls  BY <3>1
    <3> QED  BY <1>0, <2>1, <2>3, <3>2 DEF FramesOK, FrameOK
  <2>5. Book' /\ sqrtPrice' # 0
    BY <1>0, <2>1, <2>2, <2>4, SwapKeepsBook
  <2>6. PICK f : FrameOK(f) /\ calls' = Append(AtPhase("refund"), f)
    BY <1>0, <2>1, <2>2, <2>4, SwapKeepsBook
  <2> DEFINE below == [Top EXCEPT !.phase = "refund"]
  <2>7. Frame(below) /\ below.op = "tokenReceived" /\ below.phase = "refund"
    BY <2>1, <2>3 DEF Frame, One
  <2>8. FrameOK(below)  BY <2>7 DEF FrameOK
  <2> HIDE DEF below
  <2>9. AtPhase("refund") = <<below>>
    <3>1. AtPhase("refund") = [calls EXCEPT ![Len(calls)] = below]  BY DEF AtPhase, Top, below
    <3> QED  BY <2>3, <2>7, <3>1, ChangeOne
  <2>10. calls' = <<below, f>>  BY <2>6, <2>9, SecondCall
  <2>11. FramesOK(calls')
    <3>1. DOMAIN calls' = 1 .. 2 /\ calls'[1] = below /\ calls'[2] = f  BY <2>10
    <3> QED  BY <2>6, <2>8, <3>1 DEF FramesOK
  <2>12. SavedBook'  BY <2>1 DEF BookInv, SavedBook
  <2> QED  BY <2>5, <2>11, <2>12 DEF BookInv
<1>18. CASE Refund
  <2>1. PICK p : /\ calls # Idle /\ UNCHANGED <<price, positions, saved>>
                 /\ calls' = AtPhase(p) /\ p \in {"refunded", "end"}
    BY <1>18 DEF Refund, At
  <2>2. FramesOK(calls')  BY <1>0, <2>1, FramesPhase
  <2>3. sqrtPrice # 0  BY <2>1 DEF BookInv
  <2> QED  BY <1>0, <2>1, <2>2, <2>3, BookSame
<1>20. CASE Revert
  <2>1. /\ calls # Idle /\ calls' = Idle
        /\ sqrtPrice' = saved.sqrtPrice /\ tick' = saved.tick /\ liquidity' = saved.liquidity
        /\ ticks' = saved.ticks /\ bitmap' = saved.bitmap /\ positions' = saved.positions
    BY <1>20 DEF Revert
  <2>2. SavedBook  BY <2>1 DEF BookInv
  <2>3. Book' /\ sqrtPrice' # 0  BY <2>1, <2>2 DEF Book, SavedBook
  <2> QED  BY <2>1, <2>3 DEF BookInv, FramesOK, Idle
<1>21. CASE UNCHANGED vars
  <2>1. UNCHANGED <<sqrtPrice, tick, liquidity, ticks, bitmap, positions, unlocked, permit,
                    calls, saved>>
    BY <1>21 DEF vars
  <2> QED  BY <2>1 DEF BookInv, Book, SavedBook
<1>22. CASE MintEnd \/ CollectEnd \/ SwapEnd \/ ReceivedEnd
  <2>1. calls # Idle /\ Return /\ UNCHANGED <<price, positions>>
    BY <1>22 DEF MintEnd, CollectEnd, SwapEnd, ReceivedEnd, At
  <2> QED  BY <1>5, <2>1
<1> QED
  BY <1>1, <1>2, <1>3, <1>4, <1>6, <1>7, <1>8, <1>9, <1>10, <1>12, <1>13, <1>14, <1>16,
     <1>17, <1>18, <1>20, <1>21, <1>22 DEF Next

(***************************************************************************)
(* The theorems.                                                            *)
(***************************************************************************)
\* The inductive invariant of the pool.
PoolInv == LockInv /\ BookInv

\* The price of a book lies in its tick.
LEMMA BookHasPrice ==
    ASSUME BookInv
    PROVE  PriceInTick
<1>1. BookState(sqrtPrice, tick, liquidity, ticks, bitmap, positions)  BY DEF BookInv, Book
<1>2. CASE sqrtPrice = 0
  <2>1. calls = Idle  BY <1>2 DEF BookInv
  <2>2. tick \in Int /\ liquidity = Stake(positions, Around(tick))  BY <1>1 DEF BookState
  <2>3. liquidity = 0  BY <1>1, <1>2, <2>2, BookLiquidity
  <2> QED  BY <1>2, <2>1, <2>3 DEF PriceInTick
<1>3. CASE sqrtPrice # 0
  <2>1. InTick(sqrtPrice, tick)  BY <1>1, <1>3 DEF BookState
  <2> QED  BY <1>3, <2>1 DEF PriceInTick, InTick
<1> QED  BY <1>2, <1>3

\* No step breaks the lock or the book.
LEMMA PoolInvStep ==
    ASSUME PoolInv, [Next]_vars
    PROVE  PoolInv'
<1>1. BookInv'  BY BookInvStep DEF PoolInv
<1>2. LockInv'  BY BookHasPrice, LockInvStep DEF PoolInv
<1> QED  BY <1>1, <1>2 DEF PoolInv

\* Both hold throughout.
LEMMA PoolInvAlways ==
    Spec => []PoolInv
<1>1. Init => PoolInv  BY LockInvInit, BookInvInit DEF PoolInv
<1>2. PoolInv /\ [Next]_vars => PoolInv'  BY PoolInvStep
<1> QED  BY <1>1, <1>2, PTL DEF Spec

\* However swaps move the price, slot0.tick is the tick whose prices slot0's
\* price is among, and only a pool in which nothing happened has no price:
\* initialize can be called once, and mint, burn and swap find the pool
\* initialized.
THEOREM PoolPriceInTick ==
    Spec => []PriceInTick
<1>1. PoolInv => PriceInTick  BY BookHasPrice DEF PoolInv
<1> QED  BY <1>1, PoolInvAlways, PTL

\* Mint, burn, every tick a swap crosses and every failed transaction leave the
\* active liquidity, the liquidity of each tick, gross and net, and the bitmap
\* equal to what the positions add up to.
THEOREM PoolLiquidityAgrees ==
    Spec => []LiquidityAgrees
<1>1. PoolInv => LiquidityAgrees
  <2> SUFFICES ASSUME PoolInv PROVE LiquidityAgrees  OBVIOUS
  <2>1. /\ TicksOK(ticks, positions) /\ BitmapOK(bitmap, ticks)
        /\ liquidity = Stake(positions, Around(tick))
    BY DEF PoolInv, BookInv, Book, BookState, BookOK
  <2>2. liquidity = SumFunctionOnSet([k \in Keys |-> positions[k].liquidity],
                                     {k \in Keys : tick \in k.lower .. k.upper - 1})
    BY <2>1 DEF Stake, Stakes, Around
  <2>3. ASSUME NEW t \in Ticks
        PROVE  /\ ticks[t].gross = SumFunctionOnSet([k \in Keys |-> positions[k].liquidity],
                                     {k \in Keys : k.lower = t} \cup {k \in Keys : k.upper = t})
               /\ ticks[t].net = SumFunctionOnSet([k \in Keys |-> positions[k].liquidity],
                                                  {k \in Keys : k.lower = t})
                                 - SumFunctionOnSet([k \in Keys |-> positions[k].liquidity],
                                                    {k \in Keys : k.upper = t})
    BY <2>1 DEF TicksOK, Stake, Stakes, Lowers, Uppers
  <2>4. bitmap = {t \div TickSpacing : t \in {s \in Ticks : ticks[s].gross > 0}}
    BY <2>1 DEF BitmapOK
  <2> QED  BY <2>2, <2>3, <2>4, Zenon DEF LiquidityAgrees
<1> QED  BY <1>1, PoolInvAlways, PTL

\* No swap, in whichever direction, for whatever amount and across whatever
\* ticks, has output to deliver and no input to ask for: the roundings of
\* computeSwapStep never give the last unit away.
THEOREM PoolNothingForFree ==
    Spec => []NothingForFree
<1>1. PoolInv => NothingForFree
  BY DEF PoolInv, BookInv, FramesOK, FrameOK, NothingForFree
<1> QED  BY <1>1, PoolInvAlways, PTL

\* An unlocked pool has no call under way, names no swap sender, and holds no
\* permit and no deposit: nothing of a deposit or of the call it brought along
\* outlives the lock, whatever callbacks and recipients do meanwhile.
THEOREM PoolSettledWhenUnlocked ==
    Spec => []SettledWhenUnlocked
<1>1. PoolInv => SettledWhenUnlocked
  BY DEF PoolInv, LockInv, NoDeposit, SettledWhenUnlocked
<1> QED  BY <1>1, PoolInvAlways, PTL

\* The loop of a swap is over within the rounds there are ticks, whatever is
\* asked for: what SwapResult returns has nothing left to swap, or is at the
\* price limit.
SwapsEnd ==
    sqrtPrice # 0 => \A o \in Orders : LimitAllowed(o) => ~ Unfinished(SwapResult(o), o)

\* The while loop of swap ends in every state of the pool: a round either is
\* the last or leaves the tick it began in, in the direction of the swap.
THEOREM PoolSwapsEnd ==
    Spec => []SwapsEnd
<1>1. PoolInv => SwapsEnd
  BY SwapIs DEF PoolInv, BookInv, SwapsEnd
<1> QED  BY <1>1, PoolInvAlways, PTL

(***************************************************************************)
(* What liquidity is worth, exactly: a number every price up to the highest *)
(* divides makes a common scale for the prices and their inverses.          *)
(***************************************************************************)
Divisible(D, n) == D \in Nat \ {0} /\ \A p \in 1 .. n : \E m \in Nat \ {0} : D = p * m
Common == CHOOSE D : Divisible(D, SqrtRatio[MaxTick])

\* Some number is a multiple of all numbers up to n.
LEMMA DivisibleExists ==
    ASSUME NEW n \in Nat
    PROVE  \E D : Divisible(D, n)
<1> DEFINE B == {k \in 0 .. n : ~ \E D : Divisible(D, k)}
<1>1. SUFFICES ASSUME B # {} PROVE FALSE
  <2>1. n \in 0 .. n  OBVIOUS
  <2> QED  BY <2>1
<1>2. PICK k \in B : \A x \in B : k <= x
  <2>1. B \in SUBSET (0 .. n) /\ 0 \in Int /\ n \in Int  OBVIOUS
  <2> HIDE DEF B
  <2> QED  BY <1>1, <2>1, SmallestIndex
<1>3. k \in 0 .. n /\ ~ \E D : Divisible(D, k)  OBVIOUS
<1>4. CASE k = 0
  <2>1. Divisible(1, k)  BY <1>4 DEF Divisible
  <2> QED  BY <1>3, <2>1
<1>5. CASE k # 0
  <2>1. k - 1 \in 0 .. n /\ ~ (k <= k - 1) /\ k \in Nat \ {0}  BY <1>3, <1>5
  <2>2. PICK D : Divisible(D, k - 1)
    <3>1. k - 1 \notin B
      <4> HIDE DEF B
      <4> QED  BY <1>2, <2>1
    <3> QED  BY <2>1, <3>1
  <2>3. D \in Nat \ {0} /\ D * k \in Nat \ {0}
    <3>1. D \in Nat \ {0}  BY <2>2 DEF Divisible
    <3> QED  BY <2>1, <3>1
  <2>4. ASSUME NEW p \in 1 .. k PROVE \E m \in Nat \ {0} : D * k = p * m
    <3>1. CASE p = k
      <4>1. D * k = p * D  BY <2>3, <3>1
      <4> QED  BY <2>3, <4>1
    <3>2. CASE p # k
      <4>1. p \in 1 .. k - 1  BY <2>1, <3>2
      <4>2. PICK m \in Nat \ {0} : D = p * m  BY <2>2, <4>1 DEF Divisible
      <4>3. D * k = p * (m * k) /\ m * k \in Nat \ {0}  BY <2>1, <4>1, <4>2
      <4> QED  BY <4>3
    <3> QED  BY <3>1, <3>2
  <2>5. Divisible(D * k, k)  BY <2>3, <2>4 DEF Divisible
  <2> QED  BY <1>3, <2>5
<1> QED  BY <1>4, <1>5

\* The inverse of a price on that scale.
Part(p) == Common \div p

Prices == 1 .. SqrtRatio[MaxTick]

\* Common is a multiple of every price.
LEMMA PartIs ==
    /\ Common \in Nat \ {0}
    /\ \A p \in Prices : Part(p) \in Nat \ {0} /\ p * Part(p) = Common
<1>1. SqrtRatio[MaxTick] \in Nat
  <2>1. MaxTick \in Ticks  BY TickFacts
  <2> QED  BY <2>1, TickFacts
<1>2. Divisible(Common, SqrtRatio[MaxTick])
  <2>1. \E D : Divisible(D, SqrtRatio[MaxTick])  BY <1>1, DivisibleExists
  <2> QED  BY <2>1, Zenon DEF Common
<1>3. ASSUME NEW p \in Prices PROVE Part(p) \in Nat \ {0} /\ p * Part(p) = Common
  <2>1. PICK m \in Nat \ {0} : Common = p * m  BY <1>2 DEF Divisible, Prices
  <2>2. p \in Nat \ {0}  BY <1>1 DEF Prices
  <2>3. PICK a, q : a = p * m /\ q = a \div p  OBVIOUS
  <2>4. a \in Nat  BY <2>2, <2>3
  <2>5. q \in Nat /\ \A n \in Int : n <= q <=> n * p <= a  BY <2>2, <2>3, <2>4, DownIsMost
  <2>6. q = m
    <3>1. m <= q
      <4>1. m * p <= a  BY <2>2, <2>3
      <4> QED  BY <2>5, <4>1
    <3>2. ~ (m + 1 <= q)
      <4>1. (m + 1) * p = a + p  BY <2>2, <2>3
      <4>2. ~ ((m + 1) * p <= a)  BY <2>2, <2>4, <4>1
      <4> QED  BY <2>5, <4>2
    <3> QED  BY <2>5, <3>1, <3>2
  <2> QED  BY <2>1, <2>2, <2>3, <2>6 DEF Part
<1> QED  BY <1>2, <1>3 DEF Divisible

\* The level of a price, for one token or the other, and its scale: liquidity L
\* is worth L * (Level(t, q) - Level(t, p)) / Unit(t) between prices p and q.
Unit(t) == IF t = 1 THEN Q96 ELSE Common
Level(t, p) == IF t = 1 THEN p ELSE -(Q96 * Part(p))

\* Units are positive, levels are integers.
LEMMA LevelFacts ==
    ASSUME NEW t \in Token
    PROVE  /\ Unit(t) \in Nat \ {0}
           /\ \A p \in Prices : Level(t, p) \in Int
<1>1. Q96 \in Nat \ {0}  BY MathAssumption
<1>2. ASSUME NEW p \in Prices PROVE Level(t, p) \in Int
  <2>1. Part(p) \in Nat /\ p \in Int  BY PartIs DEF Prices
  <2>2. Q96 * Part(p) \in Int  BY <1>1, <2>1
  <2> QED  BY <2>1, <2>2 DEF Level
<1> QED  BY <1>1, <1>2, PartIs DEF Unit, Token

AmountBetween(t, p, q, L, up) ==
    IF t = 1 THEN Amount1Between(p, q, L, up) ELSE Amount0Between(p, q, L, up)

\* What the pool asks for is no less, and what it gives no more, than that.
LEMMA AmountBounds ==
    ASSUME NEW t \in Token, NEW lo \in Prices, NEW hi \in Prices, lo <= hi, NEW L \in Nat
    PROVE  /\ AmountBetween(t, lo, hi, L, TRUE) \in Nat
           /\ AmountBetween(t, lo, hi, L, FALSE) \in Nat
           /\ L * (Level(t, hi) - Level(t, lo)) <= Unit(t) * AmountBetween(t, lo, hi, L, TRUE)
           /\ Unit(t) * AmountBetween(t, lo, hi, L, FALSE) <= L * (Level(t, hi) - Level(t, lo))
<1>1. lo \in Nat \ {0} /\ hi \in Nat \ {0} /\ Q96 \in Nat \ {0}
  <2>1. MaxTick \in Ticks  BY TickFacts
  <2>2. SqrtRatio[MaxTick] \in Nat  BY <2>1, TickFacts
  <2> QED  BY <2>2, MathAssumption DEF Prices
<1>2. CASE t = 1
  <2>1. PICK a \in Nat, b \in Nat :
          a = Amount1Between(lo, hi, L, TRUE) /\ b = Amount1Between(lo, hi, L, FALSE)
    BY <1>1, Amount1Is
  <2>2. L * (hi - lo) <= a * Q96
    <3>1. a <= a /\ a \in Int  OBVIOUS
    <3>2. Pays1(a, lo, hi, L)  BY <1>1, <2>1, <3>1, Amount1Is
    <3> QED  BY <3>2 DEF Pays1
  <2>3. b * Q96 <= L * (hi - lo)
    <3>1. b <= b /\ b \in Int  OBVIOUS
    <3>2. Yields1(b, lo, hi, L)  BY <1>1, <2>1, <3>1, Amount1Is
    <3> QED  BY <3>2 DEF Yields1
  <2>4. Q96 * a = a * Q96 /\ Q96 * b = b * Q96  BY <1>1
  <2> QED  BY <1>2, <2>1, <2>2, <2>3, <2>4 DEF AmountBetween, Level, Unit
<1>3. CASE t # 1
  <2>1. PICK a \in Nat, b \in Nat :
          a = Amount0Between(lo, hi, L, TRUE) /\ b = Amount0Between(lo, hi, L, FALSE)
    BY <1>1, Amount0Is
  <2>2. PICK D \in Nat \ {0}, x \in Nat \ {0}, y \in Nat \ {0} :
          D = Common /\ x = Part(lo) /\ y = Part(hi) /\ lo * x = D /\ hi * y = D
    BY PartIs
  <2>3. PICK w, v : w = L * Q96 /\ v = x - y  OBVIOUS
  <2>4. w \in Nat /\ v \in Int  BY <1>1, <2>2, <2>3
  <2>5. PICK u \in Nat \ {0} : u = x * y  BY <2>2
  \* Both sides of what Amount0Is says, times x * y.
  <2>6. (hi - lo) * u = D * v
    <3>1. hi * u = D * x  BY <1>1, <2>2, <2>5
    <3>2. lo * u = D * y  BY <1>1, <2>2, <2>5
    <3>3. (hi - lo) * u = hi * u - lo * u  BY <1>1, <2>5
    <3>4. D * v = D * x - D * y  BY <2>2, <2>3
    <3> QED  BY <3>1, <3>2, <3>3, <3>4
  <2>7. (lo * hi) * u = D * D
    <3>1. (lo * hi) * u = (lo * x) * (hi * y)  BY <1>1, <2>2, <2>5
    <3> QED  BY <2>2, <3>1
  <2>8. \A n \in Int : (n * lo * hi) * u = (n * D) * D
    <3> SUFFICES ASSUME NEW n \in Int PROVE (n * lo * hi) * u = (n * D) * D  OBVIOUS
    <3>1. (n * lo * hi) * u = n * ((lo * hi) * u)  BY <1>1, <2>5
    <3>2. n * (D * D) = (n * D) * D  BY <2>2
    <3> QED  BY <2>7, <3>1, <3>2
  <2>9. (w * (hi - lo)) * u = (w * v) * D
    <3>1. (w * (hi - lo)) * u = w * ((hi - lo) * u)  BY <1>1, <2>4, <2>5
    <3>2. w * (D * v) = (w * v) * D  BY <2>2, <2>4
    <3> QED  BY <2>6, <3>1, <3>2
  <2>10. \A m \in Int, n \in Int : m <= n => m * u <= n * u  BY <2>5
  <2>11. \A m \in Int, n \in Int : m * D <= n * D => m <= n
    <3> SUFFICES ASSUME NEW m \in Int, NEW n \in Int, m * D <= n * D, n < m PROVE FALSE
      OBVIOUS
    <3>1. n + 1 <= m  OBVIOUS
    <3>2. (n + 1) * D <= m * D  BY <2>2, <3>1
    <3>3. (n + 1) * D = n * D + D  BY <2>2
    <3>4. n * D \in Int /\ m * D \in Int  BY <2>2
    <3> QED  BY <2>2, <3>2, <3>3, <3>4
  <2>12. w * v <= a * D
    <3>1. Pays0(a, lo, hi, L)
      <4>1. a <= a /\ a \in Int  OBVIOUS
      <4> QED  BY <1>1, <2>1, <4>1, Amount0Is
    <3>2. w * (hi - lo) <= a * lo * hi  BY <2>3, <3>1 DEF Pays0
    <3>3. w * (hi - lo) \in Int /\ a * lo * hi \in Int  BY <1>1, <2>4
    <3>4. (w * v) * D <= (a * D) * D  BY <2>8, <2>9, <2>10, <3>2, <3>3
    <3>5. w * v \in Int /\ a * D \in Int  BY <2>2, <2>4
    <3> QED  BY <2>11, <3>4, <3>5
  <2>13. b * D <= w * v
    <3>1. Yields0(b, lo, hi, L)
      <4>1. b <= b /\ b \in Int  OBVIOUS
      <4> QED  BY <1>1, <2>1, <4>1, Amount0Is
    <3>2. b * lo * hi <= w * (hi - lo)  BY <2>3, <3>1 DEF Yields0
    <3>3. w * (hi - lo) \in Int /\ b * lo * hi \in Int  BY <1>1, <2>4
    <3>4. (b * lo * hi) * u <= (w * (hi - lo)) * u  BY <2>10, <3>2, <3>3
    <3>6. (b * D) * D <= (w * v) * D
      <4>1. b \in Int  OBVIOUS
      <4>2. (b * lo * hi) * u = (b * D) * D  BY <2>8, <4>1
      <4> QED  BY <2>9, <3>4, <4>2
    <3>5. w * v \in Int /\ b * D \in Int  BY <2>2, <2>4
    <3> QED  BY <2>11, <3>5, <3>6
  <2>14. L * (Level(t, hi) - Level(t, lo)) = w * v
    <3>1. Level(t, hi) = -(Q96 * y) /\ Level(t, lo) = -(Q96 * x)  BY <1>3, <2>2 DEF Level
    <3>2. Level(t, hi) - Level(t, lo) = Q96 * v  BY <1>1, <2>2, <2>3, <3>1
    <3>3. L * (Q96 * v) = w * v  BY <1>1, <2>3, <2>4
    <3> QED  BY <3>2, <3>3
  <2>15. Unit(t) = D  BY <1>3, <2>2 DEF Unit
  <2>16. D * a = a * D /\ D * b = b * D  BY <2>2
  <2> QED  BY <1>3, <2>1, <2>12, <2>13, <2>14, <2>15, <2>16 DEF AmountBetween
<1> QED  BY <1>2, <1>3

\* What the pool holds for one unit of active liquidity changes by this much
\* when the price moves from p to q.
Moved(t, p, q) == IF t = 1 THEN Level(1, q) - Level(1, p) ELSE Level(0, p) - Level(0, q)

\* Prices are positive integers, those between two prices included.
LEMMA PriceFacts ==
    /\ \A p : p \in Prices <=> p \in Int /\ 1 <= p /\ p <= SqrtRatio[MaxTick]
    /\ \A t \in Ticks : SqrtRatio[t] \in Prices
<1>1. MaxTick \in Ticks /\ SqrtRatio[MaxTick] \in Nat  BY TickFacts
<1>2. \A t \in Ticks : t <= MaxTick  BY TickFacts
<1>3. \A t \in Ticks : SqrtRatio[t] \in Nat \ {0} /\ SqrtRatio[t] <= SqrtRatio[MaxTick]
  BY <1>1, <1>2, TickFacts
<1>4. \A p : p \in Prices <=> p \in Int /\ 1 <= p /\ p <= SqrtRatio[MaxTick]
  BY <1>1 DEF Prices
<1> QED  BY <1>3, <1>4

\* What a unit of liquidity takes in from one price to the next is an integer.
LEMMA MovedIs ==
    ASSUME NEW t \in Token, NEW p \in Prices, NEW q \in Prices
    PROVE  /\ Moved(t, p, q) \in Int
           /\ p = q => Moved(t, p, q) = 0
<1>1. /\ Level(1, p) \in Int /\ Level(1, q) \in Int
      /\ Level(0, p) \in Int /\ Level(0, q) \in Int
  BY LevelFacts DEF Token
<1>2. PICK a \in Int, b \in Int, c \in Int, d \in Int :
        a = Level(1, p) /\ b = Level(1, q) /\ c = Level(0, p) /\ d = Level(0, q)
  BY <1>1
<1>3. Moved(t, p, q) = IF t = 1 THEN b - a ELSE c - d  BY <1>2 DEF Moved
<1>4. p = q => a = b /\ c = d  BY <1>2
<1> QED  BY <1>3, <1>4

\* What a step takes in pays for what the liquidity is worth more of that
\* token, and what it lets out is no more than it is worth less of the other.
Costs(c, z, p, L) ==
    LET i == IF z THEN 0 ELSE 1
    IN  /\ L * Moved(i, p, c.price) <= Unit(i) * c.in
        /\ Unit(1 - i) * c.out + L * Moved(1 - i, p, c.price) <= 0

\* A swap step takes at least, and gives at most, what the liquidity moves by.
LEMMA StepCosts ==
    ASSUME NEW z \in BOOLEAN, NEW p \in Prices, NEW t \in Prices, IF z THEN t <= p ELSE p <= t,
           NEW L \in Nat, NEW r \in Int, r # 0
    PROVE  /\ ComputeSwapStep(p, t, L, r).price \in Prices
           /\ Costs(ComputeSwapStep(p, t, L, r), z, p, L)
<1>0. p \in Nat \ {0} /\ t \in Nat \ {0} /\ p \in Int /\ t \in Int  BY PriceFacts
<1>1. PICK y \in BOOLEAN :
        /\ ComputeSwapStep(p, t, L, r) = StepBetween(p, StepPrice(p, t, L, r, y), L, t, r, y)
        /\ IF y THEN t <= p ELSE p <= t
  <2>1. CASE p >= t
    <3>1. (p >= t) = TRUE /\ t <= p  BY <2>1
    <3>2. ComputeSwapStep(p, t, L, r) = StepBetween(p, StepPrice(p, t, L, r, TRUE), L, t, r, TRUE)
      BY <3>1, Zenon DEF ComputeSwapStep
    <3> QED  BY <3>1, <3>2
  <2>2. CASE ~ (p >= t)
    <3>1. (p >= t) = FALSE /\ p <= t  BY <1>0, <2>2
    <3>2. ComputeSwapStep(p, t, L, r) = StepBetween(p, StepPrice(p, t, L, r, FALSE), L, t, r, FALSE)
      BY <3>1, Zenon DEF ComputeSwapStep
    <3> QED  BY <3>1, <3>2
  <2> QED  BY <2>1, <2>2
<1>2. PICK x : x = StepPrice(p, t, L, r, y)  OBVIOUS
<1>3. x \in Nat \ {0} /\ (IF y THEN t <= x /\ x <= p ELSE p <= x /\ x <= t)
  BY <1>0, <1>1, <1>2, StepPriceIs
<1>4. x \in Prices
  <2>1. x \in Int /\ 1 <= x /\ (x <= p \/ x <= t)  BY <1>3
  <2>2. p <= SqrtRatio[MaxTick] /\ t <= SqrtRatio[MaxTick] /\ SqrtRatio[MaxTick] \in Int
    <3>1. SqrtRatio[MaxTick] \in Int  BY TickFacts
    <3> QED  BY <3>1, PriceFacts
  <2>3. x <= SqrtRatio[MaxTick]  BY <1>0, <2>1, <2>2
  <2> QED  BY <2>1, <2>3, PriceFacts
<1>5. PICK i, n : i = StepInput(p, x, L, y) /\ n = StepOutput(p, x, L, y)  OBVIOUS
<1>6. PICK c : c = ComputeSwapStep(p, t, L, r)  OBVIOUS
<1>7. /\ c.price = x /\ c.in = i
      /\ c.out = IF r < 0 /\ n > -r THEN -r ELSE n
  BY <1>1, <1>2, <1>5, <1>6 DEF StepBetween, StepAmounts
<1>8. /\ Unit(0) \in Nat \ {0} /\ Unit(1) \in Nat \ {0}
      /\ Level(0, p) \in Int /\ Level(0, x) \in Int /\ Level(1, p) \in Int /\ Level(1, x) \in Int
  BY <1>4, LevelFacts DEF Token
<1>9. 0 \in Token /\ 1 \in Token  BY DEF Token
<1>10. \A u \in Nat : n \in Nat => u * c.out <= u * n /\ c.out \in Int
  BY <1>7
<1>11. CASE y = TRUE /\ z = TRUE
  <2>1. x <= p /\ i = AmountBetween(0, x, p, L, TRUE) /\ n = AmountBetween(1, x, p, L, FALSE)
    BY <1>3, <1>5, <1>11 DEF StepInput, StepOutput, AmountBetween
  <2>2. i \in Nat /\ L * (Level(0, p) - Level(0, x)) <= Unit(0) * i
    BY <1>4, <1>9, <2>1, AmountBounds
  <2>3. n \in Nat /\ Unit(1) * n <= L * (Level(1, p) - Level(1, x))
    BY <1>4, <1>9, <2>1, AmountBounds
  <2>4. /\ Moved(0, p, x) = Level(0, p) - Level(0, x)
        /\ Moved(1, p, x) = Level(1, x) - Level(1, p)
    BY DEF Moved
  <2>5. L * (Level(1, p) - Level(1, x)) + L * (Level(1, x) - Level(1, p)) = 0  BY <1>8
  <2>6. Unit(1) * c.out <= Unit(1) * n /\ c.out \in Int  BY <1>8, <1>10, <2>3
  <2>7. Unit(1) * c.out + L * Moved(1, p, x) <= 0
    <3>1. PICK a \in Int, b \in Int, d \in Int, e \in Int :
            /\ a = L * (Level(1, p) - Level(1, x)) /\ b = L * (Level(1, x) - Level(1, p))
            /\ d = Unit(1) * c.out /\ e = Unit(1) * n
      BY <1>8, <2>3, <2>6
    <3> QED  BY <2>3, <2>4, <2>5, <2>6, <3>1
  <2> QED  BY <1>4, <1>6, <1>7, <1>11, <2>2, <2>4, <2>7 DEF Costs
<1>12. CASE y = FALSE /\ z = FALSE
  <2>1. p <= x /\ i = AmountBetween(1, p, x, L, TRUE) /\ n = AmountBetween(0, p, x, L, FALSE)
    BY <1>3, <1>5, <1>12 DEF StepInput, StepOutput, AmountBetween
  <2>2. i \in Nat /\ L * (Level(1, x) - Level(1, p)) <= Unit(1) * i
    BY <1>4, <1>9, <2>1, AmountBounds
  <2>3. n \in Nat /\ Unit(0) * n <= L * (Level(0, x) - Level(0, p))
    BY <1>4, <1>9, <2>1, AmountBounds
  <2>4. /\ Moved(0, p, x) = Level(0, p) - Level(0, x)
        /\ Moved(1, p, x) = Level(1, x) - Level(1, p)
    BY DEF Moved
  <2>5. L * (Level(0, x) - Level(0, p)) + L * (Level(0, p) - Level(0, x)) = 0  BY <1>8
  <2>6. Unit(0) * c.out <= Unit(0) * n /\ c.out \in Int  BY <1>8, <1>10, <2>3
  <2>7. Unit(0) * c.out + L * Moved(0, p, x) <= 0
    <3>1. PICK a \in Int, b \in Int, d \in Int, e \in Int :
            /\ a = L * (Level(0, x) - Level(0, p)) /\ b = L * (Level(0, p) - Level(0, x))
            /\ d = Unit(0) * c.out /\ e = Unit(0) * n
      BY <1>8, <2>3, <2>6
    <3> QED  BY <2>3, <2>4, <2>5, <2>6, <3>1
  <2> QED  BY <1>4, <1>6, <1>7, <1>12, <2>2, <2>4, <2>7 DEF Costs
<1>13. CASE y # z
  <2>1. p = t /\ x = p  BY <1>0, <1>1, <1>3, <1>13
  <2>2. i \in Nat /\ n \in Nat  BY <1>0, <1>5, <2>1, AmountsAre
  <2>3. n = 0
    <3>1. PICK s \in Token : n = AmountBetween(s, p, p, L, FALSE)
      <4>1. n = IF y THEN AmountBetween(1, p, p, L, FALSE) ELSE AmountBetween(0, p, p, L, FALSE)
        BY <1>5, <2>1 DEF StepOutput, AmountBetween
      <4> QED  BY <1>9, <4>1
    <3>2. Unit(s) * n <= L * (Level(s, p) - Level(s, p))
      <4>1. p <= p  BY <1>0
      <4> QED  BY <3>1, <4>1, AmountBounds
    <3>3. Unit(s) \in Nat \ {0} /\ Level(s, p) \in Int  BY LevelFacts
    <3>4. Unit(s) * n <= 0  BY <3>2, <3>3
    <3> QED  BY <2>2, <3>3, <3>4
  <2>4. c.out = 0  BY <1>7, <2>3
  <2>5. Moved(0, p, x) = 0 /\ Moved(1, p, x) = 0  BY <1>9, <2>1, MovedIs
  <2>6. /\ L * 0 <= Unit(0) * i /\ L * 0 <= Unit(1) * i
        /\ Unit(0) * 0 + L * 0 <= 0 /\ Unit(1) * 0 + L * 0 <= 0
    BY <1>8, <2>2
  <2>7. 1 - 0 = 0 + 1 /\ 1 - 1 = 0  OBVIOUS
  <2> QED  BY <1>4, <1>6, <1>7, <2>4, <2>5, <2>6, <2>7 DEF Costs
<1> QED  BY <1>11, <1>12, <1>13

\* The price a position's liquidity is worth its amounts at: the price, kept
\* within the position's range.
Clamp(k, p) == IF p < SqrtRatio[k.lower] THEN SqrtRatio[k.lower]
               ELSE IF SqrtRatio[k.upper] < p THEN SqrtRatio[k.upper] ELSE p

\* What one unit of liquidity of position k is worth of token t at price p.
Stock(k, t, p) ==
    IF t = 1 THEN Level(1, Clamp(k, p)) - Level(1, SqrtRatio[k.lower])
             ELSE Level(0, SqrtRatio[k.upper]) - Level(0, Clamp(k, p))

\* The prices of a position's ends are prices, in order.
LEMMA KeyPrices ==
    ASSUME NEW k \in Keys
    PROVE  /\ SqrtRatio[k.lower] \in Prices /\ SqrtRatio[k.upper] \in Prices
           /\ SqrtRatio[k.lower] \in Nat \ {0} /\ SqrtRatio[k.upper] \in Nat \ {0}
           /\ k.lower < k.upper => SqrtRatio[k.lower] <= SqrtRatio[k.upper]
<1>1. k.lower \in Ticks /\ k.upper \in Ticks /\ k.lower \in Int /\ k.upper \in Int  BY KeyFacts
<1>2. k.lower < k.upper => k.lower <= k.upper  BY <1>1
<1> QED  BY <1>1, <1>2, TickFacts, PriceFacts

\* What a position stocks is an integer.
LEMMA StockIs ==
    ASSUME NEW k \in Keys, NEW t \in Token, NEW p \in Nat
    PROVE  /\ Clamp(k, p) \in Prices
           /\ Stock(k, t, p) \in Int
<1>1. PICK lo \in Nat, hi \in Nat :
        /\ lo = SqrtRatio[k.lower] /\ hi = SqrtRatio[k.upper]
        /\ lo \in Prices /\ hi \in Prices
  BY KeyPrices
<1>2. SqrtRatio[MaxTick] \in Int /\ hi <= SqrtRatio[MaxTick] /\ 1 <= lo
  BY <1>1, TickFacts, PriceFacts
<1>3. Clamp(k, p) = IF p < lo THEN lo ELSE IF hi < p THEN hi ELSE p  BY <1>1 DEF Clamp
<1>4. ~ (p < lo) /\ ~ (hi < p) => 1 <= p /\ p <= SqrtRatio[MaxTick]  BY <1>2
<1>5. Clamp(k, p) \in Prices  BY <1>1, <1>3, <1>4, PriceFacts
<1>6. PICK c \in Prices : c = Clamp(k, p)  BY <1>5
<1>7. /\ Level(1, c) \in Int /\ Level(0, c) \in Int
      /\ Level(1, lo) \in Int /\ Level(0, hi) \in Int
  BY <1>1, LevelFacts DEF Token
<1> QED  BY <1>1, <1>5, <1>6, <1>7 DEF Stock

\* The stock of a position moves with the price inside its range and not outside.
LEMMA StockMoves ==
    ASSUME NEW k \in Keys, NEW t \in Token, NEW p \in Nat, NEW q \in Nat, k.lower < k.upper
    PROVE  /\ /\ SqrtRatio[k.lower] <= p /\ p <= SqrtRatio[k.upper]
              /\ SqrtRatio[k.lower] <= q /\ q <= SqrtRatio[k.upper]
              => Stock(k, t, q) = Stock(k, t, p) + Moved(t, p, q)
           /\ \/ p <= SqrtRatio[k.lower] /\ q <= SqrtRatio[k.lower]
              \/ p >= SqrtRatio[k.upper] /\ q >= SqrtRatio[k.upper]
              => Stock(k, t, q) = Stock(k, t, p)
<1> DEFINE lo == SqrtRatio[k.lower]
           hi == SqrtRatio[k.upper]
<1>1. lo \in Nat /\ hi \in Nat /\ lo \in Prices /\ hi \in Prices /\ lo <= hi
  BY KeyPrices
<1>2. /\ Clamp(k, p) = IF p < lo THEN lo ELSE IF hi < p THEN hi ELSE p
      /\ Clamp(k, q) = IF q < lo THEN lo ELSE IF hi < q THEN hi ELSE q
  BY DEF Clamp
<1>s. /\ Stock(k, t, p) = IF t = 1 THEN Level(1, Clamp(k, p)) - Level(1, lo)
                                   ELSE Level(0, hi) - Level(0, Clamp(k, p))
      /\ Stock(k, t, q) = IF t = 1 THEN Level(1, Clamp(k, q)) - Level(1, lo)
                                   ELSE Level(0, hi) - Level(0, Clamp(k, q))
  BY DEF Stock
<1> HIDE DEF lo, hi
<1>3. PICK c \in Prices, d \in Prices : c = Clamp(k, p) /\ d = Clamp(k, q)  BY StockIs
<1>4. PICK a0 \in Int, a1 \in Int, b0 \in Int, b1 \in Int, e0 \in Int, e1 \in Int :
        /\ a0 = Level(0, c) /\ a1 = Level(1, c) /\ b0 = Level(0, d) /\ b1 = Level(1, d)
        /\ e0 = Level(0, hi) /\ e1 = Level(1, lo)
  BY <1>1, LevelFacts DEF Token
<1>5. /\ Stock(k, t, p) = IF t = 1 THEN a1 - e1 ELSE e0 - a0
      /\ Stock(k, t, q) = IF t = 1 THEN b1 - e1 ELSE e0 - b0
  BY <1>3, <1>4, <1>s
<1>6. ASSUME lo <= p, p <= hi, lo <= q, q <= hi
      PROVE  Stock(k, t, q) = Stock(k, t, p) + Moved(t, p, q)
  <2>1. c = p /\ d = q  BY <1>1, <1>2, <1>3, <1>6
  <2>2. Moved(t, p, q) = IF t = 1 THEN b1 - a1 ELSE a0 - b0  BY <1>4, <2>1 DEF Moved
  <2> QED  BY <1>5, <2>2
<1>7. ASSUME (p <= lo /\ q <= lo) \/ (p >= hi /\ q >= hi)
      PROVE  Stock(k, t, q) = Stock(k, t, p)
  <2>1. c = d  BY <1>1, <1>2, <1>3, <1>7
  <2>2. a0 = b0 /\ a1 = b1  BY <1>4, <2>1
  <2> QED  BY <1>5, <2>2
<1>8. /\ lo <= p /\ p <= hi /\ lo <= q /\ q <= hi
         => Stock(k, t, q) = Stock(k, t, p) + Moved(t, p, q)
      /\ (p <= lo /\ q <= lo) \/ (p >= hi /\ q >= hi) => Stock(k, t, q) = Stock(k, t, p)
  BY <1>6, <1>7
<1> QED  BY <1>8 DEF lo, hi

(***************************************************************************)
(* What a position pays or gets is never less than its liquidity is worth.  *)
(***************************************************************************)
AmountDelta(t, p, q, d) == IF t = 1 THEN Amount1Delta(p, q, d) ELSE Amount0Delta(p, q, d)

\* Added liquidity is charged at least, and released liquidity paid at most, its worth.
LEMMA DeltaBounds ==
    ASSUME NEW t \in Token, NEW lo \in Prices, NEW hi \in Prices, lo <= hi, NEW d \in Int
    PROVE  /\ AmountDelta(t, lo, hi, d) \in Int
           /\ d >= 0 => AmountDelta(t, lo, hi, d) >= 0
           /\ d <= 0 => AmountDelta(t, lo, hi, d) <= 0
           /\ d * (Level(t, hi) - Level(t, lo)) <= Unit(t) * AmountDelta(t, lo, hi, d)
<1>1. PICK w \in Int : w = Level(t, hi) - Level(t, lo)
  <2>1. Level(t, hi) \in Int /\ Level(t, lo) \in Int  BY LevelFacts
  <2> QED  BY <2>1
<1>2. PICK u \in Nat \ {0} : u = Unit(t)  BY LevelFacts
<1>3. CASE d < 0
  <2>1. PICK L \in Nat : L = -d  BY <1>3
  <2>2. PICK b \in Nat : b = AmountBetween(t, lo, hi, L, FALSE) /\ u * b <= L * w
    BY <1>1, <1>2, AmountBounds
  <2>3. AmountDelta(t, lo, hi, d) = -b
    BY <1>3, <2>1, <2>2 DEF AmountDelta, Amount0Delta, Amount1Delta, AmountBetween
  <2>4. PICK x \in Int, y \in Int : x = L * w /\ y = u * b  OBVIOUS
  <2>5. d * w = -x /\ u * (-b) = -y  BY <2>1, <2>4
  <2>6. d * w <= u * (-b)
    <3>1. y <= x  BY <2>2, <2>4
    <3>2. -x <= -y  BY <3>1
    <3> QED  BY <2>5, <3>2
  <2> QED  BY <1>1, <1>2, <1>3, <2>3, <2>6
<1>4. CASE ~ (d < 0)
  <2>1. d \in Nat  BY <1>4
  <2>2. PICK a \in Nat : a = AmountBetween(t, lo, hi, d, TRUE) /\ d * w <= u * a
    BY <1>1, <1>2, <2>1, AmountBounds
  <2>3. AmountDelta(t, lo, hi, d) = a
    BY <1>4, <2>2 DEF AmountDelta, Amount0Delta, Amount1Delta, AmountBetween
  <2>4. d <= 0 => a <= 0
    <3>1. SUFFICES ASSUME d = 0 PROVE a <= 0  BY <2>1
    <3>2. lo \in Nat \ {0} /\ hi \in Nat \ {0}  BY PriceFacts
    <3>3. PICK z \in Int, m \in Nat : z = 0 /\ m = 0  OBVIOUS
    <3>4. PICK Q \in Nat : Q = Q96  BY MathAssumption
    <3>5. Pays0(z, lo, hi, m) /\ Pays1(z, lo, hi, m)
      <4>1. m * Q * (hi - lo) <= z * lo * hi  BY <3>2, <3>3
      <4>2. m * (hi - lo) <= z * Q  BY <3>2, <3>3
      <4> QED  BY <3>4, <4>1, <4>2 DEF Pays0, Pays1
    <3>6. Amount0Between(lo, hi, m, TRUE) <= z  BY <3>2, <3>5, Amount0Is
    <3>7. Amount1Between(lo, hi, m, TRUE) <= z  BY <3>2, <3>5, Amount1Is
    <3> QED  BY <2>2, <3>1, <3>3, <3>6, <3>7 DEF AmountBetween
  <2>5. a \in Int /\ a >= 0 /\ (d >= 0 => a >= 0)  OBVIOUS
  <2> QED  BY <1>1, <1>2, <2>2, <2>3, <2>4, <2>5
<1> QED  BY <1>3, <1>4

\* So are the amounts of a position, wherever its range lies.
LEMMA AmountsCover ==
    ASSUME NEW k \in Keys, k.lower < k.upper, NEW d \in Int, sqrtPrice \in Nat,
           InTick(sqrtPrice, tick), NEW t \in Token
    PROVE  LET n == PositionAmounts(k, d)[t + 1]
           IN  /\ n \in Int /\ (d >= 0 => n >= 0) /\ (d <= 0 => n <= 0)
               /\ d * Stock(k, t, sqrtPrice) <= Unit(t) * n
<1>0. PICK amounts : amounts = PositionAmounts(k, d)  OBVIOUS
<1>1. PICK lo, hi : lo = SqrtRatio[k.lower] /\ hi = SqrtRatio[k.upper]  OBVIOUS
<1>2. /\ lo \in Prices /\ hi \in Prices /\ lo \in Nat /\ hi \in Nat /\ lo <= hi
  BY <1>1, KeyPrices
<1>3. /\ k.lower \in Ticks /\ k.upper \in Ticks /\ k.lower \in Int /\ k.upper \in Int
      /\ tick \in Int /\ tick \in Ticks /\ tick + 1 \in Ticks
      /\ SqrtRatio[tick] <= sqrtPrice /\ sqrtPrice <= SqrtRatio[tick + 1]
      /\ SqrtRatio[tick] \in Nat /\ SqrtRatio[tick + 1] \in Nat
  BY KeyFacts, TickFacts DEF InTick
<1>4. PICK c \in Prices : c = Clamp(k, sqrtPrice)  BY StockIs
<1>5. c = IF sqrtPrice < lo THEN lo ELSE IF hi < sqrtPrice THEN hi ELSE sqrtPrice
  BY <1>1, <1>4 DEF Clamp
<1>6. Stock(k, t, sqrtPrice) = IF t = 1 THEN Level(1, c) - Level(1, lo)
                                        ELSE Level(0, hi) - Level(0, c)
  BY <1>1, <1>4 DEF Stock
<1>7. lo <= c /\ c <= hi  BY <1>2, <1>5
<1>8. Level(1, lo) \in Int /\ Level(0, hi) \in Int /\ 0 \in Token /\ 1 \in Token
  BY <1>2, LevelFacts DEF Token
<1>9. amounts[1] = Amount0Delta(c, hi, d) \/ (c = hi /\ amounts[1] = 0)
  <2>1. CASE tick < k.lower
    <3>0. ~ (tick \in k.lower .. k.upper - 1)  BY <1>3, <2>1
    <3>1. amounts = <<Amount0Delta(lo, hi, d), 0>>  BY <1>0, <1>1, <2>1, <3>0 DEF PositionAmounts
    <3>2. sqrtPrice <= lo
      <4>1. tick + 1 <= k.lower  BY <1>3, <2>1
      <4>2. SqrtRatio[tick + 1] <= lo  BY <1>1, <1>3, <4>1, TickFacts
      <4> QED  BY <1>2, <1>3, <4>2
    <3>3. c = lo  BY <1>2, <1>5, <3>2
    <3> QED  BY <3>1, <3>3
  <2>2. CASE tick >= k.upper
    <3>1. ~ (tick < k.lower) /\ ~ (tick \in k.lower .. k.upper - 1)  BY <1>3, <2>2
    <3>2. amounts = <<0, Amount1Delta(lo, hi, d)>>  BY <1>0, <1>1, <2>2, <3>1 DEF PositionAmounts
    <3>3. hi <= sqrtPrice
      <4>1. hi <= SqrtRatio[tick]  BY <1>1, <1>3, <2>2, TickFacts
      <4> QED  BY <1>2, <1>3, <4>1
    <3>4. c = hi  BY <1>2, <1>5, <3>3
    <3> QED  BY <3>2, <3>4
  <2>3. CASE ~ (tick < k.lower) /\ ~ (tick >= k.upper)
    <3>0. tick \in k.lower .. k.upper - 1  BY <1>3, <2>3
    <3>1. amounts = <<Amount0Delta(sqrtPrice, hi, d), Amount1Delta(lo, sqrtPrice, d)>>
      BY <1>0, <1>1, <2>3, <3>0 DEF PositionAmounts
    <3>2. lo <= sqrtPrice /\ sqrtPrice <= hi
      <4>1. k.lower <= tick /\ tick + 1 <= k.upper  BY <1>3, <2>3
      <4>2. lo <= SqrtRatio[tick] /\ SqrtRatio[tick + 1] <= hi
        BY <1>1, <1>3, <4>1, TickFacts
      <4> QED  BY <1>2, <1>3, <4>2
    <3>3. c = sqrtPrice  BY <1>2, <1>5, <3>2
    <3> QED  BY <3>1, <3>3
  <2> QED  BY <2>1, <2>2, <2>3
<1>10. amounts[2] = Amount1Delta(lo, c, d) \/ (c = lo /\ amounts[2] = 0)
  <2>1. CASE tick < k.lower
    <3>0. ~ (tick \in k.lower .. k.upper - 1)  BY <1>3, <2>1
    <3>1. amounts = <<Amount0Delta(lo, hi, d), 0>>  BY <1>0, <1>1, <2>1, <3>0 DEF PositionAmounts
    <3>2. sqrtPrice <= lo
      <4>1. tick + 1 <= k.lower  BY <1>3, <2>1
      <4>2. SqrtRatio[tick + 1] <= lo  BY <1>1, <1>3, <4>1, TickFacts
      <4> QED  BY <1>2, <1>3, <4>2
    <3>3. c = lo  BY <1>2, <1>5, <3>2
    <3> QED  BY <3>1, <3>3
  <2>2. CASE tick >= k.upper
    <3>1. ~ (tick < k.lower) /\ ~ (tick \in k.lower .. k.upper - 1)  BY <1>3, <2>2
    <3>2. amounts = <<0, Amount1Delta(lo, hi, d)>>  BY <1>0, <1>1, <2>2, <3>1 DEF PositionAmounts
    <3>3. hi <= sqrtPrice
      <4>1. hi <= SqrtRatio[tick]  BY <1>1, <1>3, <2>2, TickFacts
      <4> QED  BY <1>2, <1>3, <4>1
    <3>4. c = hi  BY <1>2, <1>5, <3>3
    <3> QED  BY <3>2, <3>4
  <2>3. CASE ~ (tick < k.lower) /\ ~ (tick >= k.upper)
    <3>0. tick \in k.lower .. k.upper - 1  BY <1>3, <2>3
    <3>1. amounts = <<Amount0Delta(sqrtPrice, hi, d), Amount1Delta(lo, sqrtPrice, d)>>
      BY <1>0, <1>1, <2>3, <3>0 DEF PositionAmounts
    <3>2. lo <= sqrtPrice /\ sqrtPrice <= hi
      <4>1. k.lower <= tick /\ tick + 1 <= k.upper  BY <1>3, <2>3
      <4>2. lo <= SqrtRatio[tick] /\ SqrtRatio[tick + 1] <= hi
        BY <1>1, <1>3, <4>1, TickFacts
      <4> QED  BY <1>2, <1>3, <4>2
    <3>3. c = sqrtPrice  BY <1>2, <1>5, <3>2
    <3> QED  BY <3>1, <3>3
  <2> QED  BY <2>1, <2>2, <2>3
<1> DEFINE Covers(n) == /\ n \in Int /\ (d >= 0 => n >= 0) /\ (d <= 0 => n <= 0)
                        /\ d * Stock(k, t, sqrtPrice) <= Unit(t) * n
<1>11. ASSUME t = 0 PROVE Covers(amounts[1])
  <2>2. Stock(k, t, sqrtPrice) = Level(t, hi) - Level(t, c)  BY <1>6, <1>11
  <2>3. CASE amounts[1] = Amount0Delta(c, hi, d)
    <3>1. amounts[1] = AmountDelta(t, c, hi, d)  BY <1>11, <2>3 DEF AmountDelta
    <3> QED  BY <1>2, <1>7, <2>2, <3>1, DeltaBounds
  <2>4. CASE c = hi /\ amounts[1] = 0
    <3>1. Stock(k, t, sqrtPrice) = 0  BY <1>8, <1>11, <2>2, <2>4
    <3>2. d * 0 = 0 /\ Unit(t) * 0 = 0  BY LevelFacts
    <3> QED  BY <2>4, <3>1, <3>2
  <2> QED  BY <1>9, <2>3, <2>4
<1>12. ASSUME t = 1 PROVE Covers(amounts[2])
  <2>2. Stock(k, t, sqrtPrice) = Level(t, c) - Level(t, lo)  BY <1>6, <1>12
  <2>3. CASE amounts[2] = Amount1Delta(lo, c, d)
    <3>1. amounts[2] = AmountDelta(t, lo, c, d)  BY <1>12, <2>3 DEF AmountDelta
    <3> QED  BY <1>2, <1>7, <2>2, <3>1, DeltaBounds
  <2>4. CASE c = lo /\ amounts[2] = 0
    <3>1. Stock(k, t, sqrtPrice) = 0  BY <1>8, <1>12, <2>2, <2>4
    <3>2. d * 0 = 0 /\ Unit(t) * 0 = 0  BY LevelFacts
    <3> QED  BY <2>4, <3>1, <3>2
  <2> QED  BY <1>10, <2>3, <2>4
<1>13. Covers(amounts[t + 1])
  <2> HIDE DEF Covers
  <2>1. CASE t = 0
    <3>1. t + 1 = 1  BY <2>1
    <3> QED  BY <1>11, <2>1, <3>1
  <2>2. CASE t = 1
    <3>1. t + 1 = 2  BY <2>2
    <3> QED  BY <1>12, <2>2, <3>1
  <2> QED  BY <2>1, <2>2 DEF Token
<1> QED  BY <1>0, <1>13

\* A position without liquidity is due nothing, and pays nothing.
LEMMA NothingDue ==
    ASSUME NEW k \in Keys, sqrtPrice \in Nat, InTick(sqrtPrice, tick), NEW t \in Token
    PROVE  PositionAmounts(k, 0)[t + 1] \in Int /\ PositionAmounts(k, 0)[t + 1] >= 0
<1>0. k.lower \in Int /\ k.upper \in Int /\ tick \in Int  BY KeyFacts, TickFacts DEF InTick
<1>1. PICK n : n = PositionAmounts(k, 0)[t + 1]  OBVIOUS
<1>2. CASE k.lower < k.upper
  <2>1. PICK d \in Int : d = 0  OBVIOUS
  <2>2. n \in Int /\ (d >= 0 => n >= 0)  BY <1>1, <1>2, <2>1, AmountsCover
  <2> QED  BY <1>1, <2>1, <2>2
<1>3. CASE ~ (k.lower < k.upper)
  <2>1. PICK lo \in Prices, hi \in Prices : lo = SqrtRatio[k.lower] /\ hi = SqrtRatio[k.upper]
    BY KeyPrices
  <2>2. PICK amounts : amounts = PositionAmounts(k, 0)  OBVIOUS
  <2>3. ~ (tick \in k.lower .. k.upper - 1)  BY <1>0, <1>3
  <2>4. amounts = <<Amount0Delta(lo, hi, 0), 0>> \/ amounts = <<0, Amount1Delta(lo, hi, 0)>>
    BY <2>1, <2>2, <2>3 DEF PositionAmounts
  <2>5. \A i \in Token : AmountDelta(i, lo, hi, 0) \in Int /\ AmountDelta(i, lo, hi, 0) >= 0
    <3> SUFFICES ASSUME NEW i \in Token
                 PROVE  AmountDelta(i, lo, hi, 0) \in Int /\ AmountDelta(i, lo, hi, 0) >= 0
      OBVIOUS
    <3>0. lo \in Int /\ hi \in Int  BY PriceFacts
    <3>1. PICK d \in Int : d = 0  OBVIOUS
    <3>2. CASE lo <= hi
      <4>1. AmountDelta(i, lo, hi, d) \in Int /\ AmountDelta(i, lo, hi, d) >= 0
        BY <3>1, <3>2, DeltaBounds
      <4> QED  BY <3>1, <4>1
    <3>3. CASE hi < lo
      <4>1. AmountDelta(i, hi, lo, d) \in Int /\ AmountDelta(i, hi, lo, d) >= 0
        BY <3>0, <3>1, <3>3, DeltaBounds
      <4>2. lo > hi /\ ~ (hi > lo)  BY <3>0, <3>3
      <4>3. AmountDelta(i, lo, hi, d) = AmountDelta(i, hi, lo, d)
        BY <4>2 DEF AmountDelta, Amount0Delta, Amount1Delta, Amount0Between, Amount1Between
      <4> QED  BY <3>1, <4>1, <4>3
    <3> QED  BY <3>0, <3>2, <3>3
  <2>6. /\ Amount0Delta(lo, hi, 0) = AmountDelta(0, lo, hi, 0)
        /\ Amount1Delta(lo, hi, 0) = AmountDelta(1, lo, hi, 0)
    BY DEF AmountDelta
  <2>7. 0 \in Token /\ 1 \in Token /\ (t = 0 \/ t = 1)  BY DEF Token
  <2>8. PICK a \in Int, b \in Int : a = Amount0Delta(lo, hi, 0) /\ b = Amount1Delta(lo, hi, 0)
                                 /\ a >= 0 /\ b >= 0
    BY <2>5, <2>6, <2>7
  <2>9. amounts = <<a, 0>> \/ amounts = <<0, b>>  BY <2>4, <2>8
  <2> QED  BY <1>1, <2>2, <2>7, <2>8, <2>9
<1> QED  BY <1>1, <1>2, <1>3

(***************************************************************************)
(* Fee growth.                                                              *)
(***************************************************************************)
\* The growth G of token t that fell below tick e, seen from tick tk, and the
\* growth within a position's range.
Beneath(tk, G, tks, e, t) ==
    IF e <= tk THEN tks[e].outside[t] ELSE G - tks[e].outside[t]
Within(tk, G, tks, k, t) == Beneath(tk, G, tks, k.upper, t) - Beneath(tk, G, tks, k.lower, t)

OutsideOK(tks) ==
    /\ DOMAIN tks = Ticks
    /\ \A e \in Ticks : "outside" \in DOMAIN tks[e] /\ tks[e].outside \in [Token -> Int]

\* Fee growth beneath a tick, and within a range, is an integer.
LEMMA WithinIs ==
    ASSUME NEW tk \in Int, NEW G \in Int, NEW tks, OutsideOK(tks), NEW t \in Token
    PROVE  /\ \A e \in Ticks : Beneath(tk, G, tks, e, t) \in Int
           /\ \A k \in Keys : Within(tk, G, tks, k, t) \in Int
<1>1. ASSUME NEW e \in Ticks PROVE Beneath(tk, G, tks, e, t) \in Int
  <2>1. tks[e].outside[t] \in Int  BY DEF OutsideOK
  <2> QED  BY <2>1 DEF Beneath
<1>2. ASSUME NEW k \in Keys PROVE Within(tk, G, tks, k, t) \in Int
  <2>1. k.lower \in Ticks /\ k.upper \in Ticks  BY KeyFacts
  <2> QED  BY <1>1, <2>1 DEF Within
<1> QED  BY <1>1, <1>2

\* Tick.getFeeGrowthInside is the growth within.
LEMMA InsideIs ==
    ASSUME NEW tks, OutsideOK(tks), tick \in Int, NEW t \in Token, feeGrowthGlobal[t] \in Int,
           NEW k \in Keys
    PROVE  FeeGrowthInside(tks, k.lower, k.upper, t)
           = Within(tick, feeGrowthGlobal[t], tks, k, t)
<1>1. /\ k.lower \in Int /\ k.upper \in Int /\ k.lower \in Ticks /\ k.upper \in Ticks
  BY KeyFacts
<1>2. PICK l \in Int, u \in Int, G \in Int :
        /\ l = tks[k.lower].outside[t] /\ u = tks[k.upper].outside[t] /\ G = feeGrowthGlobal[t]
  BY <1>1 DEF OutsideOK
<1>3. FeeGrowthInside(tks, k.lower, k.upper, t)
      = G - (IF tick >= k.lower THEN l ELSE G - l) - (IF tick < k.upper THEN u ELSE G - u)
  BY <1>2 DEF FeeGrowthInside
<1>4. Within(tick, feeGrowthGlobal[t], tks, k, t)
      = (IF k.upper <= tick THEN u ELSE G - u) - (IF k.lower <= tick THEN l ELSE G - l)
  BY <1>2 DEF Within, Beneath
<1> QED  BY <1>1, <1>2, <1>3, <1>4

\* Growth falls to the positions around the tick.
Spreads(tk, G, d, tks, k, t) ==
    Within(tk, G + d, tks, k, t)
    = Within(tk, G, tks, k, t) + (IF k \in Around(tk) THEN d ELSE 0)

\* Growth of the global counter falls to the positions around the tick alone.
LEMMA WithinGrows ==
    ASSUME NEW tk \in Int, NEW G \in Int, NEW d \in Int, NEW tks, OutsideOK(tks),
           NEW t \in Token, NEW k \in Keys, k.lower < k.upper
    PROVE  Spreads(tk, G, d, tks, k, t)
<1>1. /\ k.lower \in Int /\ k.upper \in Int /\ k.lower \in Ticks /\ k.upper \in Ticks
  BY KeyFacts
<1>2. PICK l \in Int, u \in Int : l = tks[k.lower].outside[t] /\ u = tks[k.upper].outside[t]
  BY <1>1 DEF OutsideOK
<1>3. \A H : Within(tk, H, tks, k, t)
             = (IF k.upper <= tk THEN u ELSE H - u) - (IF k.lower <= tk THEN l ELSE H - l)
  BY <1>2 DEF Within, Beneath
<1>4. k \in Around(tk) <=> k.lower <= tk /\ tk < k.upper  BY <1>1 DEF Around
<1>5. CASE k.upper <= tk  BY <1>1, <1>2, <1>3, <1>4, <1>5 DEF Spreads
<1>6. CASE k.lower <= tk /\ tk < k.upper  BY <1>1, <1>2, <1>3, <1>4, <1>6 DEF Spreads
<1>7. CASE tk < k.lower  BY <1>1, <1>2, <1>3, <1>4, <1>7 DEF Spreads
<1> QED  BY <1>1, <1>5, <1>6, <1>7 DEF Spreads

\* The growth of each token as a swap has it.
SwapGrowth(s, o, t) == IF t = In(o) THEN s.growth ELSE feeGrowthGlobal[t]

\* The ends of the positions that have liquidity turn over as the price crosses
\* them, so that what is beneath them stays what it was.
LEMMA ShiftTurns ==
    ASSUME BookOK(positions, ticks, bitmap), NEW s, NEW a, NEW o, LoopInv(s, o), Limited(o),
           NEW to \in Ticks, NEW i \in BOOLEAN, Stepped(s, a, o, to),
           IF o.zeroForOne THEN to <= s.tick ELSE to > s.tick,
           \A b \in Ticks : (IF o.zeroForOne THEN to < b /\ b <= s.tick ELSE s.tick < b /\ b < to)
                            => ticks[b].gross = 0,
           ~ i => ticks[to].gross = 0,
           a.growth \in Int, feeGrowthGlobal \in [Token -> Int], OutsideOK(a.ticks)
    PROVE  LET r == Shifted(a, s.price, o, to, i)
           IN  /\ r.growth = a.growth /\ r.protocolFee = a.protocolFee /\ r.price = a.price
               /\ r.remaining = a.remaining /\ r.calculated = a.calculated
               /\ OutsideOK(r.ticks)
               /\ \A e \in Ticks, t \in Token : ticks[e].gross # 0 =>
                    Beneath(r.tick, SwapGrowth(r, o, t), r.ticks, e, t)
                    = Beneath(s.tick, SwapGrowth(a, o, t), s.ticks, e, t)
<1>1. PICK r : r = Shifted(a, s.price, o, to, i)  OBVIOUS
<1>2. /\ SwapFields \subseteq DOMAIN a /\ a.tick = s.tick /\ a.ticks = s.ticks
      /\ o.zeroForOne \in BOOLEAN /\ s.tick \in Int /\ to \in Int
  BY TickFacts DEF LoopInv, Placed, Stepped, Limited, InTick
<1>3. LoopInv(r, o) /\ (a.price # SqrtRatio[to] => Stays(s, r, o, to))
  BY <1>1, ShiftKeeps
<1>4. r.tick \in Int  BY <1>3, TickFacts DEF LoopInv, Placed, InTick
<1>5. \A e \in Ticks : e \in Int /\ a.ticks[e].outside \in [Token -> Int]
  BY TickFacts DEF OutsideOK
<1>6. In(o) \in Token /\ Out(o) \in Token /\ In(o) # Out(o)
      /\ \A t \in Token : t = In(o) \/ t = Out(o)
  BY <1>2 DEF In, Out, Token
<1> DEFINE Same == /\ r.growth = a.growth /\ r.protocolFee = a.protocolFee /\ r.price = a.price
                   /\ r.remaining = a.remaining /\ r.calculated = a.calculated
           Turned == \A e \in Ticks, t \in Token : ticks[e].gross # 0 =>
                    Beneath(r.tick, SwapGrowth(r, o, t), r.ticks, e, t)
                    = Beneath(s.tick, SwapGrowth(a, o, t), s.ticks, e, t)
<1>7. CASE a.price = SqrtRatio[to] /\ i
  <2> DEFINE n == IF o.zeroForOne THEN to - 1 ELSE to
  <2>1. r = [a EXCEPT !.tick = n, !.ticks = Crossed(a, o, to), !.liquidity = @ + Net(a, o, to)]
    BY <1>1, <1>7 DEF Shifted
  <2>2. Same /\ r.tick = n /\ r.ticks = Crossed(a, o, to)
    BY <1>2, <2>1 DEF SwapFields
  <2>3. DOMAIN r.ticks = Ticks /\ \A e \in Ticks : e # to => r.ticks[e] = a.ticks[e]
    BY <2>2 DEF Crossed, OutsideOK
  <2>4. /\ "outside" \in DOMAIN r.ticks[to]
        /\ r.ticks[to].outside = [a.ticks[to].outside EXCEPT
             ![In(o)] = a.growth - @, ![Out(o)] = feeGrowthGlobal[Out(o)] - @]
    BY <2>2 DEF Crossed, OutsideOK
  <2>5. /\ r.ticks[to].outside \in [Token -> Int]
        /\ \A t \in Token : r.ticks[to].outside[t] = SwapGrowth(a, o, t) - a.ticks[to].outside[t]
    <3>1. PICK f \in [Token -> Int] : f = a.ticks[to].outside  BY <1>5
    <3>2. r.ticks[to].outside = [f EXCEPT ![In(o)] = a.growth - @,
                                          ![Out(o)] = feeGrowthGlobal[Out(o)] - @]
      BY <2>4, <3>1
    <3> QED  BY <1>6, <3>1, <3>2 DEF SwapGrowth
  <2>6. OutsideOK(r.ticks)  BY <1>5, <2>3, <2>4, <2>5 DEF OutsideOK
  <2>7. ASSUME NEW e \in Ticks, NEW t \in Token, ticks[e].gross # 0
        PROVE  Beneath(r.tick, SwapGrowth(r, o, t), r.ticks, e, t)
               = Beneath(s.tick, SwapGrowth(a, o, t), s.ticks, e, t)
    <3>1. PICK G \in Int : G = SwapGrowth(r, o, t) /\ G = SwapGrowth(a, o, t)
      BY <2>2 DEF SwapGrowth
    <3>2. PICK x \in Int : x = a.ticks[e].outside[t] /\ x = s.ticks[e].outside[t]
      BY <1>2, <1>5
    <3>3. CASE e = to
      <4>1. r.ticks[e].outside[t] = G - x  BY <2>5, <3>1, <3>2, <3>3
      <4>2. (e <= r.tick) <=> ~ (e <= s.tick)  BY <1>2, <2>2, <3>3
      <4> QED  BY <1>2, <3>1, <3>2, <4>1, <4>2 DEF Beneath
    <3>4. CASE e # to
      <4>1. r.ticks[e].outside[t] = x  BY <2>3, <3>2, <3>4
      <4>2. (e <= r.tick) <=> (e <= s.tick)
        <5>1. ~ (IF o.zeroForOne THEN to < e /\ e <= s.tick ELSE s.tick < e /\ e < to)
          BY <2>7
        <5> QED  BY <1>2, <1>5, <2>2, <3>4, <5>1
      <4> QED  BY <1>2, <3>1, <3>2, <4>1, <4>2 DEF Beneath
    <3> QED  BY <3>3, <3>4
  <2> QED  BY <1>1, <2>2, <2>6, <2>7
<1>8. CASE ~ (a.price = SqrtRatio[to] /\ i)
  <2>1. /\ Same /\ r.ticks = a.ticks
        /\ a.price = SqrtRatio[to] => r.tick = IF o.zeroForOne THEN to - 1 ELSE to
    <3>1. CASE a.price = SqrtRatio[to]
      <4>1. r = [a EXCEPT !.tick = IF o.zeroForOne THEN to - 1 ELSE to]
        BY <1>1, <1>8, <3>1 DEF Shifted
      <4> QED  BY <1>2, <4>1 DEF SwapFields
    <3>2. CASE a.price # SqrtRatio[to] /\ a.price # s.price
      <4>1. r = [a EXCEPT !.tick = TickAtSqrtRatio(a.price)]  BY <1>1, <3>2 DEF Shifted
      <4> QED  BY <1>2, <3>2, <4>1 DEF SwapFields
    <3>3. CASE a.price # SqrtRatio[to] /\ a.price = s.price
      <4>1. r = a  BY <1>1, <3>3 DEF Shifted
      <4> QED  BY <3>3, <4>1
    <3> QED  BY <3>1, <3>2, <3>3
  <2>2. ASSUME NEW e \in Ticks, ticks[e].gross # 0
        PROVE  (e <= r.tick) <=> (e <= s.tick)
    <3>1. ~ (IF o.zeroForOne THEN to < e /\ e <= s.tick ELSE s.tick < e /\ e < to)
      BY <2>2
    <3>2. CASE a.price = SqrtRatio[to]
      <4>1. e # to  BY <1>8, <2>2, <3>2
      <4> QED  BY <1>2, <1>5, <2>1, <3>1, <3>2, <4>1
    <3>3. CASE a.price # SqrtRatio[to]
      <4>1. Stays(s, r, o, to)  BY <1>3, <3>3
      <4> QED  BY <1>2, <1>4, <1>5, <3>1, <4>1 DEF Stays
    <3> QED  BY <3>2, <3>3
  <2>3. ASSUME NEW e \in Ticks, NEW t \in Token, ticks[e].gross # 0
        PROVE  Beneath(r.tick, SwapGrowth(r, o, t), r.ticks, e, t)
               = Beneath(s.tick, SwapGrowth(a, o, t), s.ticks, e, t)
    <3>1. SwapGrowth(r, o, t) = SwapGrowth(a, o, t)  BY <2>1 DEF SwapGrowth
    <3>2. (e <= r.tick) <=> (e <= s.tick)  BY <2>2, <2>3
    <3> QED  BY <1>2, <2>1, <3>1, <3>2 DEF Beneath
  <2> QED  BY <1>1, <2>1, <2>3
<1> QED  BY <1>7, <1>8

\* A position with liquidity has a range, and ticks with liquidity at its ends.
LEMMA LiveEnds ==
    ASSUME NEW tks, NEW pos, PositionsOK(pos), TicksOK(tks, pos), NEW k \in Keys,
           pos[k].liquidity # 0
    PROVE  k.lower < k.upper /\ tks[k.lower].gross # 0 /\ tks[k.upper].gross # 0
<1>1. k.lower \in Ticks /\ k.upper \in Ticks  BY KeyFacts
<1>2. k.lower < k.upper  BY DEF PositionsOK
<1> QED  BY <1>1, <1>2, NothingEnds

\* A round changes what a position's liquidity is worth by what the move of the
\* price is worth if the position is around the tick, and not otherwise: no
\* position ends on the way.
LEMMA StockTurns ==
    ASSUME PositionsOK(positions), TicksOK(ticks, positions), NEW tk, NEW p \in Nat, InTick(p, tk),
           NEW q \in Nat, NEW z \in BOOLEAN, NEW to \in Ticks,
           IF z THEN to <= tk ELSE to > tk,
           IF z THEN SqrtRatio[to] <= q /\ q <= p ELSE p <= q /\ q <= SqrtRatio[to],
           \A b \in Ticks : (IF z THEN to < b /\ b <= tk ELSE tk < b /\ b < to)
                            => ticks[b].gross = 0,
           NEW k \in Keys, positions[k].liquidity # 0, NEW t \in Token
    PROVE  Stock(k, t, q) = Stock(k, t, p) + (IF k \in Around(tk) THEN Moved(t, p, q) ELSE 0)
<1>1. /\ k.lower \in Ticks /\ k.upper \in Ticks /\ k.lower \in Int /\ k.upper \in Int
      /\ tk \in Int /\ to \in Int /\ tk \in Ticks /\ tk + 1 \in Ticks
      /\ SqrtRatio[tk] <= p /\ p <= SqrtRatio[tk + 1]
  BY KeyFacts, TickFacts DEF InTick
<1>2. k.lower < k.upper /\ ticks[k.lower].gross # 0 /\ ticks[k.upper].gross # 0
  BY LiveEnds
<1>3. /\ ~ (IF z THEN to < k.lower /\ k.lower <= tk ELSE tk < k.lower /\ k.lower < to)
      /\ ~ (IF z THEN to < k.upper /\ k.upper <= tk ELSE tk < k.upper /\ k.upper < to)
  BY <1>1, <1>2
<1>4. PICK lo \in Nat, hi \in Nat, m \in Nat, below \in Nat, above \in Nat :
        /\ lo = SqrtRatio[k.lower] /\ hi = SqrtRatio[k.upper] /\ m = SqrtRatio[to]
        /\ below = SqrtRatio[tk] /\ above = SqrtRatio[tk + 1]
  BY <1>1, TickFacts
<1>5. /\ k.lower <= to => lo <= m
      /\ to <= k.lower => m <= lo
      /\ k.upper <= to => hi <= m
      /\ to <= k.upper => m <= hi
      /\ k.lower <= tk => lo <= below
      /\ k.upper <= tk => hi <= below
      /\ tk + 1 <= k.lower => above <= lo
      /\ tk + 1 <= k.upper => above <= hi
  BY <1>1, <1>4, TickFacts
<1>6. below <= p /\ p <= above /\ (IF z THEN m <= q /\ q <= p ELSE p <= q /\ q <= m)
  BY <1>1, <1>4
<1>7. k \in Around(tk) <=> k.lower <= tk /\ tk < k.upper  BY <1>1 DEF Around
<1>8. Stock(k, t, p) \in Int /\ Stock(k, t, q) \in Int  BY StockIs
<1>9. CASE k.lower <= tk /\ tk < k.upper
  <2>1. lo <= p /\ p <= hi /\ lo <= q /\ q <= hi
    <3>1. lo <= below /\ above <= hi  BY <1>1, <1>5, <1>9
    <3>2. z => lo <= m  BY <1>1, <1>3, <1>5, <1>9
    <3>3. ~ z => m <= hi  BY <1>1, <1>3, <1>5, <1>9
    <3> QED  BY <1>6, <3>1, <3>2, <3>3
  <2>2. Stock(k, t, q) = Stock(k, t, p) + Moved(t, p, q)
    BY <1>2, <1>4, <2>1, StockMoves
  <2> QED  BY <1>7, <1>9, <2>2
<1>10. CASE k.upper <= tk
  <2>1. hi <= p /\ hi <= q
    <3>1. hi <= below  BY <1>5, <1>10
    <3>2. z => hi <= m  BY <1>1, <1>3, <1>5, <1>10
    <3> QED  BY <1>6, <3>1, <3>2
  <2>2. Stock(k, t, q) = Stock(k, t, p)  BY <1>2, <1>4, <2>1, StockMoves
  <2> QED  BY <1>1, <1>7, <1>8, <1>10, <2>2
<1>11. CASE tk < k.lower
  <2>1. p <= lo /\ q <= lo
    <3>1. above <= lo  BY <1>1, <1>5, <1>11
    <3>2. ~ z => m <= lo  BY <1>1, <1>3, <1>5, <1>11
    <3> QED  BY <1>6, <3>1, <3>2
  <2>2. Stock(k, t, q) = Stock(k, t, p)  BY <1>2, <1>4, <2>1, StockMoves
  <2> QED  BY <1>1, <1>7, <1>8, <1>11, <2>2
<1> QED  BY <1>1, <1>9, <1>10, <1>11

(***************************************************************************)
(* A round is fair: what the positions' liquidity is worth and has earned,  *)
(* with the protocol's part, grows by no more than the input, and falls by  *)
(* no less than the output.                                                 *)
(***************************************************************************)
\* What one unit of a position's liquidity is worth and has earned, in units of
\* 1 / (Q128 * Unit(t)).
Rate(tk, G, tks, p, k, t) == Unit(t) * Within(tk, G, tks, k, t) + Q128 * Stock(k, t, p)

SwapWithin(s, o, k, t) == Within(s.tick, SwapGrowth(s, o, t), s.ticks, k, t)
SwapRate(s, o, k, t) == Rate(s.tick, SwapGrowth(s, o, t), s.ticks, s.price, k, t)
Rates(s, o, t) ==
    SumFunctionOnSet([k \in Keys |-> positions[k].liquidity * SwapRate(s, o, k, t)], Keys)

\* What a swap has taken and given so far.
Taken(s, o) == IF o.amount > 0 THEN o.amount - s.remaining ELSE s.calculated
Given(s, o) == IF o.amount > 0 THEN -s.calculated ELSE s.remaining - o.amount

\* What a swap has to pay for so far.
Bill(s, o, t) ==
    Rates(s, o, t) + Q128 * Unit(t) * (IF t = In(o) THEN s.protocolFee - Taken(s, o) ELSE Given(s, o))

GrowthKept(s) == s.growth \in Int /\ s.protocolFee \in Int /\ OutsideOK(s.ticks)

\* From s to r, nothing is owed that was not paid for, and no position with
\* liquidity loses fees.
Fair(s, r, o) ==
    /\ \A t \in Token : Bill(r, o, t) <= Bill(s, o, t)
    /\ \A k \in Keys, t \in Token : positions[k].liquidity # 0 =>
         SwapWithin(s, o, k, t) <= SwapWithin(r, o, k, t)

\* The rate of a position is an integer.
LEMMA RateIs ==
    ASSUME NEW tk \in Int, NEW G \in Int, NEW tks, OutsideOK(tks), NEW p \in Nat,
           NEW k \in Keys, NEW t \in Token
    PROVE  Rate(tk, G, tks, p, k, t) \in Int
<1>1. Within(tk, G, tks, k, t) \in Int  BY WithinIs
<1>2. Stock(k, t, p) \in Int  BY StockIs
<1>3. Unit(t) \in Int /\ Q128 \in Int  BY LevelFacts, PoolAssumption
<1>4. \A a, b \in Int : a * b \in Int  OBVIOUS
<1>5. PICK a \in Int, b \in Int : a = Unit(t) * Within(tk, G, tks, k, t) /\ b = Q128 * Stock(k, t, p)
  BY <1>1, <1>2, <1>3, <1>4
<1> QED  BY <1>5 DEF Rate

\* The fees of a step are divided: the protocol's cut, and no more growth than
\* the rest pays for.
LEMMA FeesDivide ==
    ASSUME NEW s, NEW o, SwapFields \subseteq DOMAIN s, s.growth \in Int, s.protocolFee \in Int,
           s.liquidity \in Nat, NEW c, c.fee \in Nat, feeProtocol[In(o)] \in Nat
    PROVE  \E dg \in Nat, cut \in Nat :
             /\ cut <= c.fee /\ dg * s.liquidity <= (c.fee - cut) * Q128
             /\ StepTaken(s, o, c).growth = s.growth + dg
             /\ StepTaken(s, o, c).protocolFee = s.protocolFee + cut
<1>1. PICK cut \in Nat : cut = Cut(o, c.fee) /\ cut <= c.fee
  <2>1. CASE feeProtocol[In(o)] > 0
    <3>1. PICK d \in Nat \ {0}, f \in Nat : d = feeProtocol[In(o)] /\ f = c.fee  BY <2>1
    <3>2. PICK n \in Nat : n = f \div d /\ n * d <= f  BY <3>1, DownIsMost
    <3>3. n <= n * d
      <4>1. n * (d - 1) \in Nat /\ n * d = n * (d - 1) + n  BY <3>1
      <4> QED  BY <4>1
    <3>4. n * d \in Nat  BY <3>1
    <3>5. n <= f  BY <3>1, <3>2, <3>3, <3>4
    <3>6. Cut(o, c.fee) = n  BY <2>1, <3>1, <3>2 DEF Cut
    <3> QED  BY <3>1, <3>5, <3>6
  <2>2. CASE ~ (feeProtocol[In(o)] > 0)
    <3>1. Cut(o, c.fee) = 0  BY <2>2 DEF Cut
    <3> QED  BY <3>1
  <2> QED  BY <2>1, <2>2
<1>2. PICK a : a = StepTaken(s, o, c)  OBVIOUS
<1>3. /\ a.growth = IF s.liquidity > 0 THEN s.growth + MulDiv(c.fee - cut, Q128, s.liquidity)
                    ELSE s.growth
      /\ a.protocolFee = s.protocolFee + cut
  BY <1>1, <1>2 DEF StepTaken, Accounted, SwapFields
<1>4. PICK n \in Nat : n = (c.fee - cut) * Q128
  <2>1. c.fee - cut \in Nat /\ Q128 \in Nat  BY <1>1, PoolAssumption
  <2>2. \A x, y \in Nat : x * y \in Nat  OBVIOUS
  <2> QED  BY <2>1, <2>2
<1>5. CASE s.liquidity > 0
  <2>1. PICK L \in Nat \ {0} : L = s.liquidity  BY <1>5
  <2>2. PICK dg \in Nat : dg = n \div L /\ dg * L <= n  BY <1>4, <2>1, DownIsMost
  <2>3. a.growth = s.growth + dg  BY <1>3, <1>4, <1>5, <2>1, <2>2 DEF MulDiv
  <2> QED  BY <1>1, <1>2, <1>3, <1>4, <2>1, <2>2, <2>3
<1>6. CASE s.liquidity = 0
  <2>1. a.growth = s.growth + 0  BY <1>3, <1>6
  <2>2. 0 * s.liquidity <= n  BY <1>4, <1>6
  <2> QED  BY <1>1, <1>2, <1>3, <1>4, <2>1, <2>2
<1> QED  BY <1>5, <1>6

\* The rates of the positions around the tick change together, and so the sum by
\* as much for each unit of active liquidity.
Shifts(s, r, o, t, tk, c) ==
    \A k \in Keys :
      /\ SwapRate(s, o, k, t) \in Int /\ SwapRate(r, o, k, t) \in Int
      /\ positions[k].liquidity # 0 =>
           SwapRate(r, o, k, t) = SwapRate(s, o, k, t) + (IF k \in Around(tk) THEN c ELSE 0)

\* When all positions around the tick move by c, their sum moves by c for each unit of active liquidity.
LEMMA RatesShift ==
    ASSUME PositionsOK(positions), NEW s, NEW r, NEW o, NEW t, NEW tk \in Int, NEW c \in Int,
           Shifts(s, r, o, t, tk, c)
    PROVE  /\ Rates(r, o, t) = Rates(s, o, t) + c * Stake(positions, Around(tk))
           /\ Rates(s, o, t) \in Int
<1> DEFINE f == [k \in Keys |-> positions[k].liquidity * SwapRate(s, o, k, t)]
           h == [k \in Keys |-> positions[k].liquidity * SwapRate(r, o, k, t)]
           g == [k \in Keys |-> IF k \in Around(tk) THEN Stakes(positions)[k] ELSE 0]
<1>1. IsFiniteSet(Keys) /\ Around(tk) \in SUBSET Keys  BY KeyFacts DEF Around
<1>2. /\ Stakes(positions) \in [Keys -> Int]
      /\ \A k \in Keys : Stakes(positions)[k] = positions[k].liquidity
      /\ \A k \in Keys : positions[k].liquidity \in Nat
  BY StakesAre DEF PositionsOK
<1>3. g \in [Keys -> Int]  BY <1>2
<1>4. ASSUME NEW k \in Keys
      PROVE  f[k] \in Int /\ h[k] \in Int /\ h[k] = f[k] + c * g[k]
  <2>1. PICK l \in Nat, x \in Int, y \in Int :
          l = positions[k].liquidity /\ x = SwapRate(s, o, k, t) /\ y = SwapRate(r, o, k, t)
    BY <1>2 DEF Shifts
  <2>2. f[k] = l * x /\ h[k] = l * y /\ g[k] = IF k \in Around(tk) THEN l ELSE 0
    BY <1>2, <2>1
  <2>3. l # 0 => y = x + (IF k \in Around(tk) THEN c ELSE 0)  BY <2>1 DEF Shifts
  <2> HIDE DEF f, g, h
  <2>4. CASE l = 0
    <3>1. g[k] = 0  BY <2>2, <2>4
    <3>2. 0 * x = 0 /\ 0 * y = 0 /\ c * 0 = 0  OBVIOUS
    <3>3. f[k] = 0 /\ h[k] = 0  BY <2>2, <2>4, <3>2
    <3> QED  BY <3>1, <3>2, <3>3
  <2>5. CASE l # 0 /\ k \in Around(tk)
    <3>1. y = x + c /\ g[k] = l  BY <2>2, <2>3, <2>5
    <3>2. l * y = l * x + c * l  BY <3>1
    <3>3. l * x \in Int /\ l * y \in Int  BY <2>1
    <3> QED  BY <2>2, <3>1, <3>2, <3>3
  <2>6. CASE l # 0 /\ k \notin Around(tk)
    <3>1. y = x /\ g[k] = 0 /\ c * 0 = 0  BY <2>2, <2>3, <2>6
    <3>2. l * x \in Int  BY <2>1
    <3> QED  BY <2>2, <3>1, <3>2
  <2> QED  BY <2>4, <2>5, <2>6
<1>5. f \in [Keys -> Int] /\ h \in [Keys -> Int]
  <2>1. f = [k \in Keys |-> f[k]] /\ h = [k \in Keys |-> h[k]]  OBVIOUS
  <2> HIDE DEF f, g, h
  <2> QED  BY <1>4, <2>1
<1> HIDE DEF f, g, h
<1>6. SumFunctionOnSet(h, Keys) = SumFunctionOnSet(f, Keys) + c * SumFunctionOnSet(g, Keys)
  BY <1>1, <1>3, <1>4, <1>5, SumScaled
<1>7. SumFunctionOnSet(g, Keys) = Stake(positions, Around(tk))
  BY <1>1, <1>2, SumPart DEF g, Stake
<1>8. SumFunctionOnSet(f, Keys) \in Int  BY <1>1, <1>5, SumInt
<1> QED  BY <1>6, <1>7, <1>8 DEF Rates, f, h

\* What a step takes in pays for its growth, its cut and the move of the price,
LEMMA BillIn ==
    ASSUME NEW L \in Nat, NEW dg \in Nat, NEW M \in Int, NEW U \in Nat, NEW Q \in Nat,
           NEW in \in Nat, NEW fee \in Nat, NEW cut \in Nat, NEW R \in Int, NEW x \in Int,
           dg * L <= (fee - cut) * Q, L * M <= U * in
    PROVE  (R + (U * dg + Q * M) * L) + Q * U * (x + cut - (in + fee)) <= R + Q * U * x
<1>1. PICK a \in Int, b \in Int, e \in Int, f \in Int :
        a = dg * L /\ b = L * M /\ e = (fee - cut) * Q /\ f = U * in
  <2>1. dg * L \in Int /\ L * M \in Int /\ (fee - cut) * Q \in Int /\ U * in \in Int  OBVIOUS
  <2> QED  BY <2>1
<1>2. a <= e /\ b <= f  BY <1>1
<1>3. U * a <= U * e  BY <1>2
<1>4. Q * b <= Q * f  BY <1>2
<1>5. (U * dg + Q * M) * L = U * a + Q * b  BY <1>1
<1>6. PICK W \in Int : W = Q * U
  <2>1. Q * U \in Int  OBVIOUS
  <2> QED  BY <2>1
<1>7. U * e = W * (fee - cut)  BY <1>1, <1>6
<1>8. Q * f = W * in  BY <1>1, <1>6
<1>9. W * (x + cut - (in + fee)) = W * x - W * (fee - cut) - W * in  OBVIOUS
<1>10. /\ U * a \in Int /\ Q * b \in Int /\ W * (fee - cut) \in Int /\ W * in \in Int
       /\ W * x \in Int /\ W * (x + cut - (in + fee)) \in Int
  OBVIOUS
<1>11. PICK g, h, i, j, k \in Int :
         g = U * a /\ h = Q * b /\ i = W * (fee - cut) /\ j = W * in /\ k = W * x
  BY <1>10
<1>12. g <= i /\ h <= j  BY <1>3, <1>4, <1>7, <1>8, <1>11
<1>13. (R + (U * dg + Q * M) * L) + W * (x + cut - (in + fee)) = (R + (g + h)) + (k - i - j)
  BY <1>5, <1>9, <1>11
<1> QED  BY <1>6, <1>11, <1>12, <1>13

\* and the move of the price pays for what it lets out.
LEMMA BillOut ==
    ASSUME NEW L \in Nat, NEW M \in Int, NEW U \in Nat, NEW Q \in Nat,
           NEW out \in Nat, NEW R \in Int, NEW x \in Int, U * out + L * M <= 0
    PROVE  (R + (U * 0 + Q * M) * L) + Q * U * (x + out) <= R + Q * U * x
<1>1. PICK a \in Int, b \in Int : a = U * out /\ b = L * M
  <2>1. U * out \in Int /\ L * M \in Int  OBVIOUS
  <2> QED  BY <2>1
<1>2. a + b <= 0  BY <1>1
<1>3. Q * (a + b) <= 0  BY <1>2
<1>4. (U * 0 + Q * M) * L = Q * b  BY <1>1
<1>5. Q * U * (x + out) = Q * U * x + Q * a  BY <1>1
<1>6. Q * b \in Int /\ Q * a \in Int /\ Q * U * x \in Int /\ Q * (a + b) = Q * a + Q * b  OBVIOUS
<1> QED  BY <1>3, <1>4, <1>5, <1>6

\* The price a round aims at is ahead.
LEMMA TargetAhead ==
    ASSUME NEW s, NEW o, LoopInv(s, o), Limited(o), NEW to \in Ticks,
           IF o.zeroForOne THEN to <= s.tick ELSE to > s.tick
    PROVE  /\ s.price \in Prices /\ Target(o, to) \in Prices
           /\ IF o.zeroForOne THEN Target(o, to) <= s.price ELSE s.price <= Target(o, to)
<1>1. /\ o.zeroForOne \in BOOLEAN /\ o.limit \in Nat
      /\ IF o.zeroForOne THEN o.limit <= s.price ELSE s.price <= o.limit
      /\ s.price \in Nat \ {0} /\ InTick(s.price, s.tick)
  BY DEF LoopInv, Placed, Limited
<1>2. /\ s.tick \in Int /\ to \in Int /\ s.tick \in Ticks /\ s.tick + 1 \in Ticks
      /\ SqrtRatio[s.tick] <= s.price /\ s.price <= SqrtRatio[s.tick + 1]
      /\ SqrtRatio[s.tick] \in Prices /\ SqrtRatio[s.tick + 1] \in Prices
      /\ SqrtRatio[to] \in Prices
  BY <1>1, TickFacts, PriceFacts DEF InTick
<1>3. PICK p \in Nat, l \in Nat, m \in Nat, below \in Nat, above \in Nat, top \in Nat :
        /\ p = s.price /\ l = o.limit /\ m = SqrtRatio[to]
        /\ below = SqrtRatio[s.tick] /\ above = SqrtRatio[s.tick + 1] /\ top = SqrtRatio[MaxTick]
  <2>1. MaxTick \in Ticks  BY TickFacts
  <2> QED  BY <1>1, <1>2, <2>1, TickFacts
<1>4. l < top /\ 1 <= l
  <2>1. MinTick \in Ticks /\ SqrtRatio[MinTick] \in Nat \ {0}  BY TickFacts
  <2>2. SqrtRatio[MinTick] < l /\ l < top  BY <1>3 DEF Limited
  <2> QED  BY <1>3, <2>1, <2>2
<1>5. l \in Prices /\ p \in Prices
  <2>1. p <= top /\ 1 <= p
    <3>1. above <= top  BY <1>2, <1>3, PriceFacts
    <3> QED  BY <1>1, <1>2, <1>3, <3>1
  <2> QED  BY <1>3, <1>4, <2>1, PriceFacts
<1>6. Target(o, to) = m \/ Target(o, to) = l  BY <1>3, TargetIs
<1>7. Target(o, to) \in Prices  BY <1>2, <1>3, <1>5, <1>6
<1>8. o.zeroForOne => m <= p /\ l <= p
  <2>1. SUFFICES ASSUME o.zeroForOne PROVE m <= p /\ l <= p  OBVIOUS
  <2>2. m <= below  BY <1>2, <1>3, <2>1, TickFacts
  <2> QED  BY <1>1, <1>2, <1>3, <2>1, <2>2
<1>9. ~ o.zeroForOne => p <= m /\ p <= l
  <2>1. SUFFICES ASSUME ~ o.zeroForOne PROVE p <= m /\ p <= l  OBVIOUS
  <2>2. s.tick + 1 <= to  BY <1>2, <2>1
  <2>3. above <= m  BY <1>2, <1>3, <2>2, TickFacts
  <2> QED  BY <1>1, <1>2, <1>3, <2>1, <2>3
<1>10. IF o.zeroForOne THEN Target(o, to) <= p ELSE p <= Target(o, to)
  BY <1>1, <1>3, <1>6, <1>8, <1>9
<1> QED  BY <1>3, <1>5, <1>7, <1>10

\* What a step has cost so far is what it had cost before and the step's amounts.
LEMMA AmountsAdd ==
    ASSUME NEW s, NEW o, SwapFields \subseteq DOMAIN s, Reached(s, o), Limited(o), NEW c,
           c.in \in Nat, c.out \in Nat, c.fee \in Nat
    PROVE  /\ Taken(s, o) \in Int /\ Given(s, o) \in Int
           /\ Taken(StepTaken(s, o, c), o) = Taken(s, o) + (c.in + c.fee)
           /\ Given(StepTaken(s, o, c), o) = Given(s, o) + c.out
<1>1. PICK a : a = StepTaken(s, o, c)  OBVIOUS
<1>2. /\ a.remaining = IF o.amount > 0 THEN s.remaining - (c.in + c.fee) ELSE s.remaining + c.out
      /\ a.calculated = IF o.amount > 0 THEN s.calculated - c.out ELSE s.calculated + c.in + c.fee
  BY <1>1 DEF StepTaken, Accounted, SwapFields
<1>3. PICK in \in Nat, out \in Nat, fee \in Nat : in = c.in /\ out = c.out /\ fee = c.fee
  OBVIOUS
<1>4. PICK r \in Int, n \in Int, m \in Int : r = s.remaining /\ n = s.calculated /\ m = o.amount
  BY DEF Reached, Limited
<1>5. CASE m > 0  BY <1>1, <1>2, <1>3, <1>4, <1>5 DEF Taken, Given
<1>6. CASE ~ (m > 0)
  <2>1. a.remaining = r + out /\ a.calculated = n + in + fee  BY <1>2, <1>3, <1>4, <1>6
  <2>2. /\ Taken(s, o) = n /\ Given(s, o) = r - m
        /\ Taken(a, o) = n + in + fee /\ Given(a, o) = (r + out) - m
    BY <1>4, <1>6, <2>1 DEF Taken, Given
  <2>3. Taken(s, o) \in Int /\ Given(s, o) \in Int  BY <1>4, <2>2
  <2>4. Taken(a, o) = Taken(s, o) + (c.in + c.fee)
    <3>1. n + in + fee = n + (in + fee)  OBVIOUS
    <3> QED  BY <1>3, <2>2, <3>1
  <2>5. Given(a, o) = Given(s, o) + c.out
    <3>1. (r + out) - m = (r - m) + out  OBVIOUS
    <3> QED  BY <1>3, <2>2, <3>1
  <2> QED  BY <1>1, <2>3, <2>4, <2>5
<1> QED  BY <1>5, <1>6

\* A round is fair.
LEMMA RoundIsFair ==
    ASSUME BookOK(positions, ticks, bitmap), NEW s, NEW o, LoopInv(s, o), Limited(o),
           Unfinished(s, o), GrowthKept(s), feeProtocol \in [Token -> Nat],
           feeGrowthGlobal \in [Token -> Int]
    PROVE  GrowthKept(SwapStep(s, o)) /\ Fair(s, SwapStep(s, o), o)
<1>1. PICK z : z = o.zeroForOne  OBVIOUS
<1>2. PICK to : to = Aim(s.tick, z)  OBVIOUS
<1>3. PICK i : i = NextTick(s.tick, z).initialized  OBVIOUS
<1>4. /\ z \in BOOLEAN /\ s.tick \in MinTick .. MaxTick - 1 /\ InTick(s.price, s.tick)
      /\ s.tick \in Int
  BY <1>1, TickFacts DEF Limited, LoopInv, Placed, InTick
<1>5. /\ to \in Ticks /\ (IF z THEN to <= s.tick ELSE to > s.tick)
      /\ i \in BOOLEAN
      /\ \A b \in Ticks : (IF z THEN to < b /\ b <= s.tick ELSE s.tick < b /\ b < to)
                          => ticks[b].gross = 0
      /\ ~ i => ticks[to].gross = 0
  BY <1>2, <1>3, <1>4, AimIs
<1>6. SwapStep(s, o) = StepTowards(s, o, to, i)
  BY <1>1, <1>2, <1>3 DEF SwapStep, Aim
<1>7. PICK t : t = Target(o, to)  OBVIOUS
<1>8. PICK c : c = ComputeSwapStep(s.price, t, s.liquidity, s.remaining)  OBVIOUS
<1>9. PICK a : a = StepTaken(s, o, c)  OBVIOUS
<1>10. PositionsOK(positions) /\ TicksOK(ticks, positions) /\ s.remaining # 0
  BY DEF BookOK, Unfinished
<1>11. Stepped(s, a, o, to)  BY <1>1, <1>5, <1>7, <1>8, <1>9, <1>10, StepIsStepped
<1>12. PICK r : r = SwapStep(s, o) /\ r = Shifted(a, s.price, o, to, i)
  BY <1>6, <1>7, <1>8, <1>9 DEF StepTowards
<1>13. /\ s.price \in Prices /\ t \in Prices
       /\ IF z THEN t <= s.price ELSE s.price <= t
  BY <1>1, <1>5, <1>7, TargetAhead
<1>14. PICK L \in Nat : L = s.liquidity /\ L = Stake(positions, Around(s.tick))
  <2>1. Around(s.tick) \in SUBSET Keys  BY DEF Around
  <2> QED  BY <1>10, <2>1, StakesAre DEF LoopInv, Placed
<1>15. s.remaining \in Int /\ SwapFields \subseteq DOMAIN s /\ Reached(s, o)
  BY DEF LoopInv, Reached
<1>16. PICK p \in Prices : p = s.price  BY <1>13
<1>17. p \in Nat \ {0} /\ t \in Nat \ {0} /\ p \in Nat  BY <1>13, PriceFacts
<1>18. /\ c.price \in Prices /\ Costs(c, z, p, L)
       /\ c.in \in Nat /\ c.out \in Nat /\ c.fee \in Nat
  <2>1. PICK d \in Int : d = s.remaining /\ d # 0  BY <1>10, <1>15
  <2>2. c = ComputeSwapStep(p, t, L, d)  BY <1>8, <1>14, <1>16, <2>1
  <2>3. c.price \in Prices /\ Costs(c, z, p, L)
    BY <1>4, <1>13, <1>16, <2>1, <2>2, StepCosts
  <2>4. StepSound(c, p, t, d)  BY <1>17, <2>1, <2>2, StepIs
  <2> QED  BY <2>3, <2>4 DEF StepSound
<1>19. In(o) \in Token /\ Out(o) \in Token /\ In(o) # Out(o)
       /\ (\A x \in Token : x = In(o) \/ x = Out(o))
       /\ In(o) = (IF z THEN 0 ELSE 1) /\ Out(o) = 1 - (IF z THEN 0 ELSE 1)
  BY <1>1, <1>4 DEF In, Out, Token
<1>20. PICK dg \in Nat, cut \in Nat :
         /\ cut <= c.fee /\ dg * L <= (c.fee - cut) * Q128
         /\ a.growth = s.growth + dg /\ a.protocolFee = s.protocolFee + cut
  <2>1. s.liquidity \in Nat /\ feeProtocol[In(o)] \in Nat  BY <1>14, <1>19
  <2>2. s.growth \in Int /\ s.protocolFee \in Int  BY DEF GrowthKept
  <2>3. PICK n \in Nat, m \in Nat :
          /\ m <= c.fee /\ n * s.liquidity <= (c.fee - m) * Q128
          /\ StepTaken(s, o, c).growth = s.growth + n
          /\ StepTaken(s, o, c).protocolFee = s.protocolFee + m
    BY <1>15, <1>18, <2>1, <2>2, FeesDivide
  <2> QED  BY <1>9, <1>14, <2>3
<1>21. a.price = c.price /\ a.ticks = s.ticks /\ SwapFields \subseteq DOMAIN a
  <2>1. a.price = c.price  BY <1>9, <1>15 DEF StepTaken, Accounted, SwapFields
  <2> QED  BY <1>11, <2>1 DEF Stepped
<1>22. s.growth \in Int /\ s.protocolFee \in Int /\ OutsideOK(s.ticks)  BY DEF GrowthKept
<1>23. a.growth \in Int /\ a.protocolFee \in Int /\ OutsideOK(a.ticks)
  BY <1>20, <1>21, <1>22
<1>24. /\ r.growth = a.growth /\ r.protocolFee = a.protocolFee /\ r.price = a.price
       /\ r.remaining = a.remaining /\ r.calculated = a.calculated
       /\ OutsideOK(r.ticks)
       /\ \A e \in Ticks, x \in Token : ticks[e].gross # 0 =>
            Beneath(r.tick, SwapGrowth(r, o, x), r.ticks, e, x)
            = Beneath(s.tick, SwapGrowth(a, o, x), s.ticks, e, x)
  BY <1>1, <1>5, <1>11, <1>12, <1>23, ShiftTurns
<1>25. GrowthKept(r)  BY <1>23, <1>24 DEF GrowthKept
<1>26. r.tick \in Int /\ r.price \in Nat
  <2>1. LoopInv(r, o)  BY <1>12, RoundKeeps
  <2> QED  BY <2>1, TickFacts DEF LoopInv, Placed, InTick
<1>27. PICK q \in Prices : q = c.price /\ q = r.price /\ q \in Nat
  BY <1>18, <1>21, <1>24, PriceFacts
<1> DEFINE d(x) == IF x = In(o) THEN dg ELSE 0
<1>28. \A x \in Token : /\ SwapGrowth(s, o, x) \in Int /\ SwapGrowth(r, o, x) \in Int
                        /\ SwapGrowth(a, o, x) = SwapGrowth(s, o, x) + d(x)
                        /\ d(x) \in Nat
  BY <1>20, <1>22, <1>23, <1>24 DEF SwapGrowth
<1> HIDE DEF d
<1>29. ASSUME NEW k \in Keys, NEW x \in Token, positions[k].liquidity # 0
       PROVE  /\ SwapWithin(r, o, k, x)
                 = SwapWithin(s, o, k, x) + (IF k \in Around(s.tick) THEN d(x) ELSE 0)
              /\ Stock(k, x, q)
                 = Stock(k, x, p) + (IF k \in Around(s.tick) THEN Moved(x, p, q) ELSE 0)
  <2>1. /\ k.lower < k.upper /\ ticks[k.lower].gross # 0 /\ ticks[k.upper].gross # 0
        /\ k.lower \in Ticks /\ k.upper \in Ticks
    BY <1>10, <1>29, LiveEnds, KeyFacts
  <2>2. SwapWithin(r, o, k, x) = Within(s.tick, SwapGrowth(a, o, x), s.ticks, k, x)
    BY <1>24, <2>1 DEF SwapWithin, Within
  <2>3. PICK G \in Int, n \in Int : G = SwapGrowth(s, o, x) /\ n = d(x)  BY <1>28
  <2>4. SwapGrowth(a, o, x) = G + n  BY <1>28, <2>3
  <2>5. Within(s.tick, G + n, s.ticks, k, x)
        = Within(s.tick, G, s.ticks, k, x) + (IF k \in Around(s.tick) THEN n ELSE 0)
    <3>1. PICK tk, tks : tk \in Int /\ tk = s.tick /\ tks = s.ticks /\ OutsideOK(tks)
      BY <1>4, <1>22
    <3>2. Spreads(tk, G, n, tks, k, x)  BY <2>1, <2>3, <3>1, WithinGrows
    <3> QED  BY <3>1, <3>2 DEF Spreads
  <2>6. SwapWithin(r, o, k, x)
        = SwapWithin(s, o, k, x) + (IF k \in Around(s.tick) THEN d(x) ELSE 0)
    BY <2>2, <2>3, <2>4, <2>5 DEF SwapWithin
  <2>7. IF z THEN SqrtRatio[to] <= q /\ q <= p ELSE p <= q /\ q <= SqrtRatio[to]
    BY <1>1, <1>11, <1>16, <1>21, <1>27 DEF Stepped
  <2>8. Stock(k, x, q)
        = Stock(k, x, p) + (IF k \in Around(s.tick) THEN Moved(x, p, q) ELSE 0)
    BY <1>4, <1>5, <1>10, <1>16, <1>17, <1>27, <1>29, <2>7, StockTurns
  <2> QED  BY <2>6, <2>8
<1> DEFINE e(x) == Unit(x) * d(x) + Q128 * Moved(x, p, q)
<1>30. ASSUME NEW x \in Token
       PROVE  /\ Rates(r, o, x) = Rates(s, o, x) + e(x) * L
              /\ Rates(s, o, x) \in Int
  <2>1. PICK U \in Nat, Q \in Nat, M \in Int, n \in Nat :
          U = Unit(x) /\ Q = Q128 /\ M = Moved(x, p, q) /\ n = d(x)
    BY <1>28, LevelFacts, MovedIs, PoolAssumption
  <2>2. PICK ex \in Int : ex = e(x)
    <3>1. U * n + Q * M \in Int  OBVIOUS
    <3> QED  BY <2>1, <3>1
  <2>3. ASSUME NEW k \in Keys
        PROVE  SwapRate(s, o, k, x) \in Int /\ SwapRate(r, o, k, x) \in Int
    BY <1>4, <1>16, <1>17, <1>22, <1>24, <1>26, <1>28, RateIs DEF SwapRate
  <2>4. ASSUME NEW k \in Keys, positions[k].liquidity # 0
        PROVE  SwapRate(r, o, k, x)
               = SwapRate(s, o, k, x) + (IF k \in Around(s.tick) THEN ex ELSE 0)
    <3>1. PICK w \in Int, v \in Int : w = SwapWithin(s, o, k, x) /\ v = Stock(k, x, p)
      BY <1>4, <1>17, <1>22, <1>28, WithinIs, StockIs DEF SwapWithin
    <3>2. SwapRate(s, o, k, x) = U * w + Q * v
      BY <1>16, <2>1, <3>1 DEF SwapRate, Rate, SwapWithin
    <3>3. SwapRate(r, o, k, x)
          = U * (w + (IF k \in Around(s.tick) THEN n ELSE 0))
            + Q * (v + (IF k \in Around(s.tick) THEN M ELSE 0))
      BY <1>27, <1>29, <2>1, <2>4, <3>1 DEF SwapRate, Rate, SwapWithin
    <3>4. ex = U * n + Q * M  BY <2>1, <2>2
    <3>5. CASE k \in Around(s.tick)
      <4>1. U * (w + n) + Q * (v + M) = (U * w + Q * v) + (U * n + Q * M)  OBVIOUS
      <4> QED  BY <3>2, <3>3, <3>4, <3>5, <4>1
    <3>6. CASE k \notin Around(s.tick)
      <4>1. U * (w + 0) + Q * (v + 0) = (U * w + Q * v) + 0  OBVIOUS
      <4> QED  BY <3>2, <3>3, <3>6, <4>1
    <3> QED  BY <3>5, <3>6
  <2> HIDE DEF e
  <2>5. PICK tk \in Int : tk = s.tick  BY <1>4
  <2>6. Shifts(s, r, o, x, tk, ex)  BY <2>3, <2>4, <2>5 DEF Shifts
  <2>7. /\ Rates(r, o, x) = Rates(s, o, x) + ex * Stake(positions, Around(tk))
        /\ Rates(s, o, x) \in Int
    BY <1>10, <2>6, RatesShift
  <2> QED  BY <1>14, <2>2, <2>5, <2>7
<1>31. /\ Taken(s, o) \in Int /\ Given(s, o) \in Int
       /\ Taken(r, o) = Taken(s, o) + (c.in + c.fee)
       /\ Given(r, o) = Given(s, o) + c.out
  <2>1. /\ Taken(a, o) = Taken(s, o) + (c.in + c.fee) /\ Given(a, o) = Given(s, o) + c.out
        /\ Taken(s, o) \in Int /\ Given(s, o) \in Int
    BY <1>9, <1>15, <1>18, AmountsAdd
  <2> QED  BY <1>24, <2>1 DEF Taken, Given
<1>32. Bill(r, o, In(o)) <= Bill(s, o, In(o))
  <2>1. PICK U \in Nat, Q \in Nat, M \in Int :
          U = Unit(In(o)) /\ Q = Q128 /\ M = Moved(In(o), p, q)
    BY <1>19, LevelFacts, MovedIs, PoolAssumption
  <2>2. PICK in \in Nat, fee \in Nat : in = c.in /\ fee = c.fee  BY <1>18
  <2>3. PICK x \in Int : x = s.protocolFee - Taken(s, o)  BY <1>22, <1>31
  <2>4. PICK R \in Int : R = Rates(s, o, In(o))  BY <1>19, <1>30
  <2>5. L * M <= U * in  BY <1>18, <1>19, <1>27, <2>1, <2>2 DEF Costs
  <2>6. (R + (U * dg + Q * M) * L) + Q * U * (x + cut - (in + fee)) <= R + Q * U * x
    BY <1>20, <2>1, <2>2, <2>5, BillIn
  <2>7. Bill(s, o, In(o)) = R + Q * U * x  BY <2>1, <2>3, <2>4 DEF Bill
  <2>8. r.protocolFee - Taken(r, o) = x + cut - (in + fee)
    BY <1>20, <1>22, <1>24, <1>31, <2>2, <2>3
  <2>9. Rates(r, o, In(o)) = R + (U * dg + Q * M) * L
    BY <1>19, <1>30, <2>1, <2>4 DEF d
  <2>10. Bill(r, o, In(o)) = (R + (U * dg + Q * M) * L) + Q * U * (x + cut - (in + fee))
    BY <2>1, <2>8, <2>9 DEF Bill
  <2> QED  BY <2>6, <2>7, <2>10
<1>33. Bill(r, o, Out(o)) <= Bill(s, o, Out(o))
  <2>1. PICK U \in Nat, Q \in Nat, M \in Int :
          U = Unit(Out(o)) /\ Q = Q128 /\ M = Moved(Out(o), p, q)
    BY <1>19, LevelFacts, MovedIs, PoolAssumption
  <2>2. PICK out \in Nat : out = c.out  BY <1>18
  <2>3. PICK x \in Int : x = Given(s, o)  BY <1>31
  <2>4. PICK R \in Int : R = Rates(s, o, Out(o))  BY <1>19, <1>30
  <2>5. U * out + L * M <= 0  BY <1>18, <1>19, <1>27, <2>1, <2>2 DEF Costs
  <2>6. (R + (U * 0 + Q * M) * L) + Q * U * (x + out) <= R + Q * U * x
    BY <2>1, <2>2, <2>5, BillOut
  <2>7. Bill(s, o, Out(o)) = R + Q * U * x  BY <1>19, <2>1, <2>3, <2>4 DEF Bill
  <2>8. Given(r, o) = x + out  BY <1>31, <2>2, <2>3
  <2>9. Rates(r, o, Out(o)) = R + (U * 0 + Q * M) * L
    BY <1>19, <1>30, <2>1, <2>4 DEF d
  <2>10. Bill(r, o, Out(o)) = (R + (U * 0 + Q * M) * L) + Q * U * (x + out)
    BY <1>19, <2>1, <2>8, <2>9 DEF Bill
  <2> QED  BY <2>6, <2>7, <2>10
<1>34. ASSUME NEW k \in Keys, NEW x \in Token, positions[k].liquidity # 0
       PROVE  SwapWithin(s, o, k, x) <= SwapWithin(r, o, k, x)
  <2>1. SwapWithin(s, o, k, x) \in Int  BY <1>4, <1>22, <1>28, WithinIs DEF SwapWithin
  <2>2. d(x) \in Nat  BY <1>28
  <2> QED  BY <1>29, <1>34, <2>1, <2>2
<1>35. Fair(s, r, o)  BY <1>19, <1>32, <1>33, <1>34 DEF Fair
<1> QED  BY <1>12, <1>25, <1>35

\* What a swap has to pay for is a number, and so is the growth within a range.
LEMMA BillIs ==
    ASSUME PositionsOK(positions), NEW s, NEW o, LoopInv(s, o), Limited(o), GrowthKept(s),
           feeGrowthGlobal \in [Token -> Int], NEW t \in Token
    PROVE  /\ Bill(s, o, t) \in Int
           /\ \A k \in Keys : SwapWithin(s, o, k, t) \in Int
<1>1. s.tick \in Int /\ s.price \in Nat /\ SwapGrowth(s, o, t) \in Int /\ OutsideOK(s.ticks)
      /\ s.protocolFee \in Int
  <2>1. SwapGrowth(s, o, t) \in Int /\ OutsideOK(s.ticks) /\ s.protocolFee \in Int
    BY DEF GrowthKept, SwapGrowth
  <2> QED  BY <2>1, TickFacts DEF LoopInv, Placed, InTick
<1>2. \A k \in Keys : SwapWithin(s, o, k, t) \in Int  BY <1>1, WithinIs DEF SwapWithin
<1>3. \A k \in Keys : SwapRate(s, o, k, t) \in Int  BY <1>1, RateIs DEF SwapRate
<1>4. Rates(s, o, t) \in Int
  <2> DEFINE f == [k \in Keys |-> positions[k].liquidity * SwapRate(s, o, k, t)]
  <2>1. ASSUME NEW k \in Keys PROVE positions[k].liquidity * SwapRate(s, o, k, t) \in Int
    <3>1. PICK l \in Nat, x \in Int : l = positions[k].liquidity /\ x = SwapRate(s, o, k, t)
      BY <1>3 DEF PositionsOK
    <3>2. l * x \in Int  OBVIOUS
    <3> QED  BY <3>1, <3>2
  <2>2. f \in [Keys -> Int]  BY <2>1
  <2> HIDE DEF f
  <2>3. SumFunctionOnSet(f, Keys) \in Int  BY <2>2, KeyFacts, SumInt
  <2> QED  BY <2>3 DEF Rates, f
<1>5. Taken(s, o) \in Int /\ Given(s, o) \in Int  BY DEF Taken, Given, LoopInv, Reached, Limited
<1>6. PICK R \in Int, Q \in Nat, U \in Nat, x \in Int :
        /\ R = Rates(s, o, t) /\ Q = Q128 /\ U = Unit(t)
        /\ x = IF t = In(o) THEN s.protocolFee - Taken(s, o) ELSE Given(s, o)
  BY <1>1, <1>4, <1>5, LevelFacts, PoolAssumption
<1>7. R + Q * U * x \in Int  OBVIOUS
<1>8. Bill(s, o, t) = R + Q * U * x  BY <1>6 DEF Bill
<1> QED  BY <1>2, <1>7, <1>8

\* A swap is fair: all its rounds are.
LEMMA SwapIsFair ==
    ASSUME BookOK(positions, ticks, bitmap), NEW o, Limited(o), LoopInv(SwapStart(o), o),
           GrowthKept(SwapStart(o)), feeProtocol \in [Token -> Nat],
           feeGrowthGlobal \in [Token -> Int]
    PROVE  /\ GrowthKept(SwapResult(o))
           /\ Fair(SwapStart(o), SwapResult(o), o)
<1>1. Rounds \in Nat \ {0}  BY TickFacts DEF Rounds
<1>2. PICK g : Runs(o, Rounds, g) /\ SwapResult(o) = g[Rounds]
  <2>1. SwapResult(o) = (CHOOSE g : Runs(o, Rounds, g))[Rounds]  BY DEF SwapResult, Runs
  <2>2. \E g : Runs(o, Rounds, g)  BY <1>1, RunsExist
  <2>3. Runs(o, Rounds, CHOOSE g : Runs(o, Rounds, g))  BY <2>2, Zenon
  <2> QED  BY <2>1, <2>3
<1>3. \A n \in 0 .. Rounds : g[n] = IF n = 0 THEN SwapStart(o) ELSE SwapRound(g[n - 1], o)
  BY <1>2 DEF Runs
<1>4. PICK a : a = SwapStart(o)  OBVIOUS
<1>5. LoopInv(a, o) /\ GrowthKept(a) /\ PositionsOK(positions)  BY <1>4 DEF BookOK
<1>6. \A t \in Token : Bill(a, o, t) \in Int /\ \A k \in Keys : SwapWithin(a, o, k, t) \in Int
  BY <1>5, BillIs
<1> DEFINE J(n) == LoopInv(g[n], o) /\ GrowthKept(g[n]) /\ Fair(a, g[n], o)
           B == {n \in 0 .. Rounds : ~ J(n)}
<1>7. B = {}
  <2>1. SUFFICES ASSUME B # {} PROVE FALSE  OBVIOUS
  <2>2. PICK n \in B : \A x \in B : n <= x
    <3>1. B \in SUBSET (0 .. Rounds) /\ 0 \in Int /\ Rounds \in Int  BY <1>1
    <3> HIDE DEF B
    <3> QED  BY <2>1, <3>1, SmallestIndex
  <2>3. n \in 0 .. Rounds /\ ~ J(n) /\ n \in Nat  BY <1>1
  <2>4. CASE n = 0
    <3>1. g[n] = a  BY <1>3, <1>4, <2>3, <2>4
    <3>2. Fair(a, a, o)  BY <1>6 DEF Fair
    <3> QED  BY <1>5, <2>3, <3>1, <3>2
  <2>5. CASE n # 0
    <3>1. n - 1 \in 0 .. Rounds /\ ~ (n <= n - 1)  BY <1>1, <2>3, <2>5
    <3>2. J(n - 1)
      <4>1. n - 1 \notin B
        <5> HIDE DEF B
        <5> QED  BY <2>2, <3>1
      <4> QED  BY <3>1, <4>1
    <3>3. PICK s : s = g[n - 1]  OBVIOUS
    <3>4. g[n] = SwapRound(s, o)  BY <1>3, <2>3, <2>5, <3>3
    <3>5. LoopInv(s, o) /\ GrowthKept(s) /\ Fair(a, s, o)  BY <3>2, <3>3
    <3>6. CASE ~ Unfinished(s, o)
      <4>1. g[n] = s  BY <3>4, <3>6 DEF SwapRound
      <4> QED  BY <2>3, <3>5, <4>1
    <3>7. CASE Unfinished(s, o)
      <4>1. PICK r : r = SwapStep(s, o)  OBVIOUS
      <4>2. g[n] = r  BY <3>4, <3>7, <4>1 DEF SwapRound
      <4>3. LoopInv(r, o)  BY <3>5, <3>7, <4>1, RoundKeeps
      <4>4. GrowthKept(r) /\ Fair(s, r, o)  BY <3>5, <3>7, <4>1, RoundIsFair
      <4>5. \A t \in Token : /\ Bill(s, o, t) \in Int /\ Bill(r, o, t) \in Int
                             /\ \A k \in Keys : SwapWithin(s, o, k, t) \in Int
                                                /\ SwapWithin(r, o, k, t) \in Int
        BY <1>5, <3>5, <4>3, <4>4, BillIs
      <4>6. \A t \in Token : Bill(r, o, t) <= Bill(a, o, t)
        <5> SUFFICES ASSUME NEW t \in Token PROVE Bill(r, o, t) <= Bill(a, o, t)  OBVIOUS
        <5>1. Bill(r, o, t) <= Bill(s, o, t) /\ Bill(s, o, t) <= Bill(a, o, t)
          BY <3>5, <4>4 DEF Fair
        <5> QED  BY <1>6, <4>5, <5>1
      <4>7. \A k \in Keys, t \in Token : positions[k].liquidity # 0 =>
              SwapWithin(a, o, k, t) <= SwapWithin(r, o, k, t)
        <5> SUFFICES ASSUME NEW k \in Keys, NEW t \in Token, positions[k].liquidity # 0
                     PROVE  SwapWithin(a, o, k, t) <= SwapWithin(r, o, k, t)
          OBVIOUS
        <5>1. /\ SwapWithin(a, o, k, t) <= SwapWithin(s, o, k, t)
              /\ SwapWithin(s, o, k, t) <= SwapWithin(r, o, k, t)
          BY <3>5, <4>4 DEF Fair
        <5> QED  BY <1>6, <4>5, <5>1
      <4>8. Fair(a, r, o)  BY <4>6, <4>7 DEF Fair
      <4> QED  BY <2>3, <4>2, <4>3, <4>4, <4>8
    <3> QED  BY <3>6, <3>7
  <2> QED  BY <2>4, <2>5
<1>8. J(Rounds)
  <2>1. Rounds \in 0 .. Rounds  BY <1>1
  <2> QED  BY <1>7, <2>1
<1> QED  BY <1>2, <1>4, <1>8

(***************************************************************************)
(* What the pool owes, exactly, in units of 1 / Scale(t).                   *)
(***************************************************************************)
Scale(t) == Q128 * Unit(t)

\* What a position is owed, has earned since and its liquidity is worth.
Claim(tk, fgg, tks, p, pos, k, t) ==
    Scale(t) * pos[k].owed[t]
    + pos[k].liquidity * (Rate(tk, fgg[t], tks, p, k, t) - Unit(t) * pos[k].last[t])
Claims(tk, fgg, tks, p, pos, t) ==
    SumFunctionOnSet([k \in Keys |-> Claim(tk, fgg, tks, p, pos, k, t)], Keys)
Deposits(dep, t) == SumFunctionOnSet([u \in Users |-> dep[u][t]], Users)
Booked(tk, fgg, tks, p, pos, pf, dep, t) ==
    Claims(tk, fgg, tks, p, pos, t) + Scale(t) * (pf[t] + Deposits(dep, t))

OwedOK(pos) ==
    \A k \in Keys : /\ {"last", "owed"} \subseteq DOMAIN pos[k]
                    /\ pos[k].last \in [Token -> Int] /\ pos[k].owed \in [Token -> Int]

Sound(tk, fgg, tks, p, pos) ==
    /\ tk \in Int /\ fgg \in [Token -> Int] /\ OutsideOK(tks) /\ p \in Nat
    /\ PositionsOK(pos) /\ OwedOK(pos)

\* The scale of the accounts is positive.
LEMMA ScaleIs ==
    ASSUME NEW t \in Token
    PROVE  Scale(t) \in Nat \ {0}
<1>1. PICK u \in Nat \ {0}, q \in Nat \ {0} : u = Unit(t) /\ q = Q128
  BY LevelFacts, PoolAssumption
<1>2. q * u \in Nat /\ q * u # 0  OBVIOUS
<1> QED  BY <1>1, <1>2 DEF Scale

\* Claims are numbers.
LEMMA ClaimIs ==
    ASSUME NEW tk, NEW fgg, NEW tks, NEW p, NEW pos, Sound(tk, fgg, tks, p, pos),
           NEW t \in Token
    PROVE  /\ \A k \in Keys : Claim(tk, fgg, tks, p, pos, k, t) \in Int
           /\ Claims(tk, fgg, tks, p, pos, t) \in Int
<1>1. ASSUME NEW k \in Keys PROVE Claim(tk, fgg, tks, p, pos, k, t) \in Int
  <2>1. fgg[t] \in Int /\ pos[k].owed[t] \in Int /\ pos[k].last[t] \in Int
        /\ pos[k].liquidity \in Nat
    BY DEF Sound, OwedOK, PositionsOK
  <2>2. Rate(tk, fgg[t], tks, p, k, t) \in Int  BY <2>1, RateIs DEF Sound
  <2>3. PICK S \in Nat, w \in Int, l \in Nat, r \in Int, U \in Nat, x \in Int :
          /\ S = Scale(t) /\ w = pos[k].owed[t] /\ l = pos[k].liquidity
          /\ r = Rate(tk, fgg[t], tks, p, k, t) /\ U = Unit(t) /\ x = pos[k].last[t]
    BY <2>1, <2>2, ScaleIs, LevelFacts
  <2>4. S * w + l * (r - U * x) \in Int  OBVIOUS
  <2> QED  BY <2>3, <2>4 DEF Claim
<1> DEFINE f == [k \in Keys |-> Claim(tk, fgg, tks, p, pos, k, t)]
<1>2. f \in [Keys -> Int]  BY <1>1
<1> HIDE DEF f
<1>3. SumFunctionOnSet(f, Keys) \in Int  BY <1>2, KeyFacts, SumInt
<1> QED  BY <1>1, <1>3 DEF Claims, f

\* Deposits add up to a natural number.
LEMMA DepositsAre ==
    ASSUME NEW dep \in [Users -> [Token -> Nat]], NEW t \in Token
    PROVE  Deposits(dep, t) \in Nat
<1> DEFINE f == [u \in Users |-> dep[u][t]]
<1>1. f \in [Users -> Nat] /\ IsFiniteSet(Users)  BY PoolAssumption
<1> HIDE DEF f
<1>2. SumFunctionOnSet(f, Users) \in Nat  BY <1>1, SumNat
<1> QED  BY <1>2 DEF Deposits, f

\* What is booked is a number.
LEMMA BookedIs ==
    ASSUME NEW tk, NEW fgg, NEW tks, NEW p, NEW pos, Sound(tk, fgg, tks, p, pos),
           NEW pf, NEW dep \in [Users -> [Token -> Nat]], NEW t \in Token, pf[t] \in Int
    PROVE  Booked(tk, fgg, tks, p, pos, pf, dep, t) \in Int
<1>1. PICK c \in Int, S \in Nat, d \in Nat, x \in Int :
        /\ c = Claims(tk, fgg, tks, p, pos, t) /\ S = Scale(t) /\ d = Deposits(dep, t)
        /\ x = pf[t]
  BY ClaimIs, ScaleIs, DepositsAre
<1>2. c + S * (x + d) \in Int  OBVIOUS
<1> QED  BY <1>1, <1>2 DEF Booked

\* One claim changes.
LEMMA OneClaim ==
    ASSUME NEW tk, NEW fgg, NEW tks, NEW p, NEW pos, Sound(tk, fgg, tks, p, pos),
           NEW tk2, NEW fgg2, NEW tks2, NEW p2, NEW pos2, Sound(tk2, fgg2, tks2, p2, pos2),
           NEW t \in Token, NEW k \in Keys,
           \A j \in Keys \ {k} : Claim(tk2, fgg2, tks2, p2, pos2, j, t)
                                 = Claim(tk, fgg, tks, p, pos, j, t)
    PROVE  Claims(tk2, fgg2, tks2, p2, pos2, t)
           = Claims(tk, fgg, tks, p, pos, t)
             + Claim(tk2, fgg2, tks2, p2, pos2, k, t) - Claim(tk, fgg, tks, p, pos, k, t)
<1> DEFINE f == [j \in Keys |-> Claim(tk, fgg, tks, p, pos, j, t)]
           g == [j \in Keys |-> Claim(tk2, fgg2, tks2, p2, pos2, j, t)]
<1>1. f \in [Keys -> Int] /\ g \in [Keys -> Int]  BY ClaimIs
<1>2. \A j \in Keys \ {k} : f[j] = g[j]  OBVIOUS
<1>3. f[k] = Claim(tk, fgg, tks, p, pos, k, t) /\ g[k] = Claim(tk2, fgg2, tks2, p2, pos2, k, t)
  OBVIOUS
<1> HIDE DEF f, g
<1>4. SumFunctionOnSet(g, Keys) = SumFunctionOnSet(f, Keys) + g[k] - f[k]
  BY <1>1, <1>2, KeyFacts, SumChange
<1> QED  BY <1>3, <1>4 DEF Claims, f, g

\* No claim changes.
LEMMA SameClaims ==
    ASSUME NEW tk, NEW fgg, NEW tks, NEW p, NEW pos,
           NEW tk2, NEW fgg2, NEW tks2, NEW p2, NEW pos2, NEW t,
           \A j \in Keys : Claim(tk2, fgg2, tks2, p2, pos2, j, t)
                           = Claim(tk, fgg, tks, p, pos, j, t)
    PROVE  Claims(tk2, fgg2, tks2, p2, pos2, t) = Claims(tk, fgg, tks, p, pos, t)
<1>1. [j \in Keys |-> Claim(tk2, fgg2, tks2, p2, pos2, j, t)]
      = [j \in Keys |-> Claim(tk, fgg, tks, p, pos, j, t)]
  OBVIOUS
<1> QED  BY <1>1 DEF Claims

\* Deposits change as one of them does.
Changed(dep, new, u, t, x) == new = [dep EXCEPT ![u][t] = x]

\* One deposit changes, and the sum with it.
LEMMA OneDeposit ==
    ASSUME NEW dep \in [Users -> [Token -> Nat]], NEW u \in Users, NEW t \in Token, NEW x \in Nat,
           NEW new, Changed(dep, new, u, t, x), NEW i \in Token
    PROVE  Deposits(new, i)
           = Deposits(dep, i) + (IF i = t THEN x - dep[u][t] ELSE 0)
<1> DEFINE f == [v \in Users |-> dep[v][i]]
           g == [v \in Users |-> new[v][i]]
<1>1. \A v \in Users : new[v][i] = IF v = u /\ i = t THEN x ELSE dep[v][i]  BY DEF Changed
<1>2. f \in [Users -> Int] /\ IsFiniteSet(Users)  BY PoolAssumption
<1>3. g \in [Users -> Int]  BY <1>1
<1>4. \A v \in Users \ {u} : f[v] = g[v]  BY <1>1
<1>5. f[u] = dep[u][i] /\ g[u] = (IF i = t THEN x ELSE dep[u][i]) /\ dep[u][i] \in Int
  BY <1>1
<1> HIDE DEF f, g
<1>6. SumFunctionOnSet(g, Users) = SumFunctionOnSet(f, Users) + g[u] - f[u]
  BY <1>2, <1>3, <1>4, SumChange
<1>7. SumFunctionOnSet(f, Users) \in Int  BY <1>2, SumInt
<1>8. SumFunctionOnSet(g, Users)
      = SumFunctionOnSet(f, Users) + (IF i = t THEN x - dep[u][t] ELSE 0)
  BY <1>5, <1>6, <1>7
<1> QED  BY <1>8 DEF Deposits, f, g

\* The claims, split in what the state of a swap decides and the rest.
Rest(t) ==
    SumFunctionOnSet([k \in Keys |-> Scale(t) * positions[k].owed[t]
                                     - positions[k].liquidity * (Unit(t) * positions[k].last[t])],
                     Keys)

\* Claims are the part a swap moves and the part it does not.
LEMMA ClaimsSplit ==
    ASSUME NEW fgg, NEW s, NEW o, NEW t \in Token,
           Sound(s.tick, fgg, s.ticks, s.price, positions), SwapGrowth(s, o, t) = fgg[t]
    PROVE  /\ Claims(s.tick, fgg, s.ticks, s.price, positions, t) = Rates(s, o, t) + Rest(t)
           /\ Rates(s, o, t) \in Int /\ Rest(t) \in Int
<1> DEFINE f == [k \in Keys |-> positions[k].liquidity * SwapRate(s, o, k, t)]
           g == [k \in Keys |-> Scale(t) * positions[k].owed[t]
                                - positions[k].liquidity * (Unit(t) * positions[k].last[t])]
           h == [k \in Keys |-> Claim(s.tick, fgg, s.ticks, s.price, positions, k, t)]
<1>1. ASSUME NEW k \in Keys
      PROVE  f[k] \in Int /\ g[k] \in Int /\ h[k] \in Int /\ h[k] = f[k] + 1 * g[k]
  <2>1. /\ fgg[t] \in Int /\ positions[k].owed[t] \in Int /\ positions[k].last[t] \in Int
        /\ positions[k].liquidity \in Nat
    BY DEF Sound, OwedOK, PositionsOK
  <2>2. Rate(s.tick, fgg[t], s.ticks, s.price, k, t) \in Int  BY <2>1, RateIs DEF Sound
  <2>3. PICK S \in Nat, w \in Int, l \in Nat, r \in Int, U \in Nat, x \in Int :
          /\ S = Scale(t) /\ w = positions[k].owed[t] /\ l = positions[k].liquidity
          /\ r = Rate(s.tick, fgg[t], s.ticks, s.price, k, t) /\ U = Unit(t)
          /\ x = positions[k].last[t]
    BY <2>1, <2>2, ScaleIs, LevelFacts
  <2>4. SwapRate(s, o, k, t) = r  BY <2>3 DEF SwapRate
  <2>5. f[k] = l * r /\ g[k] = S * w - l * (U * x)  BY <2>3, <2>4
  <2>6. h[k] = S * w + l * (r - U * x)  BY <2>3 DEF Claim
  <2>7. PICK a \in Int, b \in Int, c \in Int : a = l * r /\ b = S * w /\ c = l * (U * x)
    <3>1. l * r \in Int /\ S * w \in Int /\ l * (U * x) \in Int  OBVIOUS
    <3> QED  BY <3>1
  <2>8. l * (r - U * x) = a - c  BY <2>7
  <2> HIDE DEF f, g, h
  <2> QED  BY <2>5, <2>6, <2>7, <2>8
<1>2. f \in [Keys -> Int] /\ g \in [Keys -> Int] /\ h \in [Keys -> Int]
  <2>1. f = [k \in Keys |-> f[k]] /\ g = [k \in Keys |-> g[k]] /\ h = [k \in Keys |-> h[k]]
    OBVIOUS
  <2> HIDE DEF f, g, h
  <2> QED  BY <1>1, <2>1
<1> HIDE DEF f, g, h
<1>3. SumFunctionOnSet(h, Keys) = SumFunctionOnSet(f, Keys) + 1 * SumFunctionOnSet(g, Keys)
  BY <1>1, <1>2, KeyFacts, SumScaled
<1>4. SumFunctionOnSet(f, Keys) \in Int /\ SumFunctionOnSet(g, Keys) \in Int
  BY <1>2, KeyFacts, SumInt
<1>5. SumFunctionOnSet(h, Keys) = SumFunctionOnSet(f, Keys) + SumFunctionOnSet(g, Keys)
  BY <1>3, <1>4
<1> QED  BY <1>4, <1>5 DEF Claims, Rates, Rest, f, g, h

\* What a swap has computed when it is done: what it takes in covers what the
\* claims on that token and the protocol's part have grown by, and what it
\* gives out is no more than the claims on the other have fallen by.
SwapGrowths(s, o) == [feeGrowthGlobal EXCEPT ![In(o)] = s.growth]

SwapCovers(s, o) ==
    /\ Sound(s.tick, SwapGrowths(s, o), s.ticks, s.price, positions)
    /\ s.protocolFee \in Int /\ Taken(s, o) \in Int /\ Given(s, o) \in Int
    /\ Claims(s.tick, SwapGrowths(s, o), s.ticks, s.price, positions, In(o))
       + Scale(In(o)) * s.protocolFee
       <= Claims(tick, feeGrowthGlobal, ticks, sqrtPrice, positions, In(o))
          + Scale(In(o)) * Taken(s, o)
    /\ Claims(s.tick, SwapGrowths(s, o), s.ticks, s.price, positions, Out(o))
       + Scale(Out(o)) * Given(s, o)
       <= Claims(tick, feeGrowthGlobal, ticks, sqrtPrice, positions, Out(o))
    /\ \A k \in Keys, t \in Token : positions[k].liquidity # 0 =>
         Within(tick, feeGrowthGlobal[t], ticks, k, t)
         <= Within(s.tick, SwapGrowths(s, o)[t], s.ticks, k, t)

\* Every swap the pool lets through is covered by what it asks for.
LEMMA SwapIsCovered ==
    ASSUME Book, sqrtPrice # 0, NEW o \in Orders, LimitAllowed(o),
           Sound(tick, feeGrowthGlobal, ticks, sqrtPrice, positions),
           feeProtocol \in [Token -> Nat]
    PROVE  SwapCovers(SwapResult(o), o)
<1>1. PICK s, a : s = SwapResult(o) /\ a = SwapStart(o)  OBVIOUS
<1>2. BookOK(positions, ticks, bitmap) /\ PositionsOK(positions)
  BY DEF Book, BookState, BookOK
<1>3. Limited(o) /\ LoopInv(a, o)  BY <1>1, SwapBegins
<1>4. LoopInv(s, o)  BY <1>1, SwapIs
<1>5. o.zeroForOne \in BOOLEAN  BY PoolAssumption
<1>6. /\ In(o) \in Token /\ Out(o) \in Token /\ In(o) # Out(o)
      /\ \A x \in Token : x = In(o) \/ x = Out(o)
  BY <1>5 DEF In, Out, Token
<1>7. feeGrowthGlobal \in [Token -> Int] /\ OutsideOK(ticks) /\ OwedOK(positions)
  BY DEF Sound
<1>8. /\ a.tick = tick /\ a.price = sqrtPrice /\ a.ticks = ticks
      /\ a.growth = feeGrowthGlobal[In(o)] /\ a.protocolFee = 0
      /\ a.remaining = o.amount /\ a.calculated = 0
  BY <1>1 DEF SwapStart
<1>9. GrowthKept(a)  BY <1>6, <1>7, <1>8 DEF GrowthKept
<1>10. GrowthKept(s) /\ Fair(a, s, o)
  BY <1>1, <1>2, <1>3, <1>7, <1>9, SwapIsFair
<1>11. \A t \in Token : SwapGrowth(a, o, t) = feeGrowthGlobal[t]
                        /\ SwapGrowth(s, o, t) = SwapGrowths(s, o)[t]
  BY <1>6, <1>7, <1>8 DEF SwapGrowth, SwapGrowths
<1>12. Sound(s.tick, SwapGrowths(s, o), s.ticks, s.price, positions)
  <2>1. s.tick \in Int /\ s.price \in Nat  BY <1>4, TickFacts DEF LoopInv, Placed, InTick
  <2>2. SwapGrowths(s, o) \in [Token -> Int]  BY <1>6, <1>7, <1>10 DEF SwapGrowths, GrowthKept
  <2> QED  BY <1>2, <1>7, <1>10, <2>1, <2>2 DEF Sound, GrowthKept
<1>13. Sound(a.tick, feeGrowthGlobal, a.ticks, a.price, positions)  BY <1>8
<1>14. ASSUME NEW t \in Token
       PROVE  /\ Claims(s.tick, SwapGrowths(s, o), s.ticks, s.price, positions, t)
                 = Rates(s, o, t) + Rest(t)
              /\ Claims(tick, feeGrowthGlobal, ticks, sqrtPrice, positions, t)
                 = Rates(a, o, t) + Rest(t)
              /\ Rates(s, o, t) \in Int /\ Rates(a, o, t) \in Int /\ Rest(t) \in Int
  <2>1. /\ Claims(s.tick, SwapGrowths(s, o), s.ticks, s.price, positions, t)
           = Rates(s, o, t) + Rest(t)
        /\ Rates(s, o, t) \in Int /\ Rest(t) \in Int
    BY <1>11, <1>12, ClaimsSplit
  <2>2. /\ Claims(a.tick, feeGrowthGlobal, a.ticks, a.price, positions, t)
           = Rates(a, o, t) + Rest(t)
        /\ Rates(a, o, t) \in Int
    BY <1>11, <1>13, ClaimsSplit
  <2> QED  BY <1>8, <2>1, <2>2
<1>15. /\ s.protocolFee \in Int /\ Taken(s, o) \in Int /\ Given(s, o) \in Int
       /\ Taken(a, o) = 0 /\ Given(a, o) = 0
  <2>1. Taken(s, o) \in Int /\ Given(s, o) \in Int
    BY <1>3, <1>4 DEF Taken, Given, LoopInv, Reached, Limited
  <2>2. PICK m \in Int : m = o.amount  BY PoolAssumption
  <2>3. PICK n \in Int : n = a.calculated /\ 0 <= n /\ n <= 0  BY <1>8
  <2>4. Taken(a, o) = (IF m > 0 THEN m - m ELSE n) /\ Given(a, o) = (IF m > 0 THEN -n ELSE m - m)
    BY <1>8, <2>2, <2>3 DEF Taken, Given
  <2>9. n = 0  BY <2>3
  <2>10. -n = n  BY <2>3
  <2>7. -n = 0 /\ m - m = 0  BY <2>9, <2>10, <2>2
  <2>8. Taken(a, o) = 0 /\ Given(a, o) = 0  BY <2>3, <2>4, <2>7
  <2>6. s.protocolFee \in Int  BY <1>10 DEF GrowthKept
  <2> QED  BY <2>1, <2>6, <2>8
<1>16. Claims(s.tick, SwapGrowths(s, o), s.ticks, s.price, positions, In(o))
       + Scale(In(o)) * s.protocolFee
       <= Claims(tick, feeGrowthGlobal, ticks, sqrtPrice, positions, In(o))
          + Scale(In(o)) * Taken(s, o)
  <2>1. PICK R \in Int, A \in Int, E \in Int, S \in Nat, f \in Int, n \in Int :
          /\ R = Rates(s, o, In(o)) /\ A = Rates(a, o, In(o)) /\ E = Rest(In(o))
          /\ S = Scale(In(o)) /\ f = s.protocolFee /\ n = Taken(s, o)
    BY <1>6, <1>14, <1>15, ScaleIs
  <2>2. Bill(s, o, In(o)) <= Bill(a, o, In(o))  BY <1>6, <1>10 DEF Fair
  <2>3. Bill(s, o, In(o)) = R + S * (f - n)  BY <2>1 DEF Bill, Scale
  <2>4. Bill(a, o, In(o)) = A + S * 0  BY <1>8, <1>15, <2>1 DEF Bill, Scale
  <2>5. PICK x \in Int, y \in Int : x = S * f /\ y = S * n
    <3>1. S * f \in Int /\ S * n \in Int  OBVIOUS
    <3> QED  BY <3>1
  <2>6. S * (f - n) = x - y /\ S * 0 = 0  BY <2>5
  <2>7. R + (x - y) <= A  BY <2>2, <2>3, <2>4, <2>6
  <2>8. (R + E) + x <= (A + E) + y  BY <2>7
  <2> QED  BY <1>6, <1>14, <2>1, <2>5, <2>8
<1>17. Claims(s.tick, SwapGrowths(s, o), s.ticks, s.price, positions, Out(o))
       + Scale(Out(o)) * Given(s, o)
       <= Claims(tick, feeGrowthGlobal, ticks, sqrtPrice, positions, Out(o))
  <2>1. PICK R \in Int, A \in Int, E \in Int, S \in Nat, n \in Int :
          /\ R = Rates(s, o, Out(o)) /\ A = Rates(a, o, Out(o)) /\ E = Rest(Out(o))
          /\ S = Scale(Out(o)) /\ n = Given(s, o)
    BY <1>6, <1>14, <1>15, ScaleIs
  <2>2. Bill(s, o, Out(o)) <= Bill(a, o, Out(o))  BY <1>6, <1>10 DEF Fair
  <2>3. Bill(s, o, Out(o)) = R + S * n  BY <1>6, <2>1 DEF Bill, Scale
  <2>4. Bill(a, o, Out(o)) = A + S * 0  BY <1>6, <1>15, <2>1 DEF Bill, Scale
  <2>5. PICK x \in Int : x = S * n
    <3>1. S * n \in Int  OBVIOUS
    <3> QED  BY <3>1
  <2>6. R + x <= A
    <3>1. S * 0 = 0  OBVIOUS
    <3> QED  BY <2>2, <2>3, <2>4, <2>5, <3>1
  <2>7. (R + E) + x <= A + E  BY <2>6
  <2> QED  BY <1>6, <1>14, <2>1, <2>5, <2>7
<1>18. \A k \in Keys, t \in Token : positions[k].liquidity # 0 =>
         Within(tick, feeGrowthGlobal[t], ticks, k, t)
         <= Within(s.tick, SwapGrowths(s, o)[t], s.ticks, k, t)
  BY <1>8, <1>10, <1>11 DEF Fair, SwapWithin
<1> QED  BY <1>1, <1>12, <1>15, <1>16, <1>17, <1>18 DEF SwapCovers

(***************************************************************************)
(* Positions modified.                                                      *)
(***************************************************************************)
\* Ticks that keep liquidity keep what they have outside.
LEMMA OutsideStays ==
    ASSUME Book, Sound(tick, feeGrowthGlobal, ticks, sqrtPrice, positions), NEW k \in Keys,
           NEW d \in Int, k.lower # k.upper, NEW tks,
           tks = IF d = 0 THEN ticks ELSE UpdatedTicks(k, d),
           ticks' = IF d < 0
                    THEN [t \in Ticks |-> IF t \in Flipped(tks) THEN EmptyTick ELSE tks[t]]
                    ELSE tks
    PROVE  /\ OutsideOK(tks) /\ OutsideOK(ticks')
           /\ \A e \in Ticks : /\ ticks[e].gross # 0 => tks[e].outside = ticks[e].outside
                               /\ ticks'[e].gross # 0 => ticks'[e].outside = tks[e].outside
<1>1. OutsideOK(ticks) /\ DOMAIN ticks = Ticks /\ feeGrowthGlobal \in [Token -> Int]
  BY DEF Sound, OutsideOK
<1>2. k.lower \in Ticks /\ k.upper \in Ticks  BY KeyFacts
<1>3. /\ DOMAIN tks = Ticks
      /\ \A e \in Ticks : /\ "outside" \in DOMAIN tks[e] /\ tks[e].outside \in [Token -> Int]
                          /\ ticks[e].gross # 0 => tks[e].outside = ticks[e].outside
  <2>1. CASE d = 0  BY <1>1, <2>1 DEF OutsideOK
  <2>2. CASE d # 0
    <3>1. /\ DOMAIN tks = Ticks
          /\ tks[k.lower] = TickUpdate(ticks[k.lower], k.lower, d, FALSE)
          /\ tks[k.upper] = TickUpdate(ticks[k.upper], k.upper, d, TRUE)
          /\ \A e \in Ticks : e # k.lower /\ e # k.upper => tks[e] = ticks[e]
      BY <1>1, <1>2, <2>2 DEF UpdatedTicks
    <3> SUFFICES ASSUME NEW e \in Ticks
                 PROVE  /\ "outside" \in DOMAIN tks[e] /\ tks[e].outside \in [Token -> Int]
                        /\ ticks[e].gross # 0 => tks[e].outside = ticks[e].outside
      BY <3>1
    <3>2. "outside" \in DOMAIN ticks[e] /\ ticks[e].outside \in [Token -> Int]
      BY <1>1 DEF OutsideOK
    <3>3. CASE e # k.lower /\ e # k.upper  BY <3>1, <3>2, <3>3
    <3>4. CASE e = k.lower \/ e = k.upper
      <4>1. PICK u \in BOOLEAN : tks[e] = TickUpdate(ticks[e], e, d, u)  BY <3>1, <3>4
      <4>2. /\ "outside" \in DOMAIN tks[e]
            /\ tks[e].outside = IF ticks[e].gross = 0 /\ e <= tick THEN feeGrowthGlobal
                                ELSE ticks[e].outside
        BY <4>1 DEF TickUpdate
      <4> QED  BY <1>1, <3>2, <4>2
    <3> QED  BY <3>3, <3>4
  <2> QED  BY <2>1, <2>2
<1>4. OutsideOK(tks)  BY <1>3 DEF OutsideOK
<1>5. ASSUME NEW e \in Ticks
      PROVE  /\ "outside" \in DOMAIN ticks'[e] /\ ticks'[e].outside \in [Token -> Int]
             /\ ticks'[e].gross # 0 => ticks'[e].outside = tks[e].outside
  <2>1. CASE d < 0 /\ e \in Flipped(tks)
    <3>1. ticks'[e] = EmptyTick  BY <2>1
    <3> QED  BY <3>1 DEF EmptyTick
  <2>2. CASE ~ (d < 0 /\ e \in Flipped(tks))
    <3>1. ticks'[e] = tks[e]  BY <2>2
    <3> QED  BY <1>3, <3>1
  <2> QED  BY <2>1, <2>2
<1>6. DOMAIN ticks' = Ticks  BY <1>3
<1>7. OutsideOK(ticks')  BY <1>5, <1>6 DEF OutsideOK
<1> QED  BY <1>3, <1>4, <1>5, <1>7

\* What modifying a position does to its fees and to those of the others.
Modified(k, d, gain) ==
    /\ Sound(tick, feeGrowthGlobal, ticks', sqrtPrice, positions')
    /\ UNCHANGED <<tick, feeGrowthGlobal, sqrtPrice>>
    /\ k.lower < k.upper /\ positions'[k].liquidity = positions[k].liquidity + d
    /\ \A j \in Keys \ {k} : positions'[j] = positions[j]
    /\ \A t \in Token :
         /\ \A j \in Keys \ {k} : positions[j].liquidity # 0 =>
              Within(tick, feeGrowthGlobal[t], ticks', j, t)
              = Within(tick, feeGrowthGlobal[t], ticks, j, t)
         /\ positions'[k].liquidity # 0 =>
              Within(tick, feeGrowthGlobal[t], ticks', k, t) = positions'[k].last[t]
         /\ positions[k].liquidity # 0 =>
              positions'[k].last[t] = Within(tick, feeGrowthGlobal[t], ticks, k, t)
         /\ positions'[k].owed[t]
            = positions[k].owed[t]
              + MulDiv(positions'[k].last[t] - positions[k].last[t], positions[k].liquidity, Q128)
              + gain[t + 1]

\* _modifyPosition writes down what the position has earned, and leaves the others alone.
LEMMA ModifyIs ==
    ASSUME Book, Book', Sound(tick, feeGrowthGlobal, ticks, sqrtPrice, positions),
           NEW k \in Keys, NEW d \in Int, NEW gain, gain[1] \in Int, gain[2] \in Int,
           ModifyPosition(k, d, gain)
    PROVE  Modified(k, d, gain)
<1> DEFINE tks == IF d = 0 THEN ticks ELSE UpdatedTicks(k, d)
           p   == UpdatedPosition(k, d, tks)
           q   == [p EXCEPT !.owed = [t \in Token |-> p.owed[t] + gain[t + 1]]]
<1>1. /\ Modifiable(k, d)
      /\ positions' = [positions EXCEPT ![k] = q]
      /\ ticks' = IF d < 0
                  THEN [t \in Ticks |-> IF t \in Flipped(tks) THEN EmptyTick ELSE tks[t]]
                  ELSE tks
      /\ UNCHANGED <<sqrtPrice, tick, feeGrowthGlobal>>
  BY DEF ModifyPosition
<1>2. /\ k.lower < k.upper /\ k.lower # k.upper
      /\ k.lower \in Ticks /\ k.upper \in Ticks
  <2>1. k.lower \in Int /\ k.upper \in Int /\ k.lower < k.upper  BY <1>1, KeyFacts DEF Modifiable
  <2> QED  BY <2>1, KeyFacts
<1>3. PICK T : T = tks  OBVIOUS
<1>4. /\ OutsideOK(T) /\ OutsideOK(ticks')
      /\ \A e \in Ticks : /\ ticks[e].gross # 0 => T[e].outside = ticks[e].outside
                          /\ ticks'[e].gross # 0 => ticks'[e].outside = T[e].outside
  <2> HIDE DEF q
  <2> QED  BY <1>1, <1>2, <1>3, OutsideStays
<1>5. /\ PositionsOK(positions) /\ TicksOK(ticks, positions)
      /\ PositionsOK(positions') /\ TicksOK(ticks', positions')
  BY DEF Book, BookState, BookOK
<1>6. /\ tick \in Int /\ feeGrowthGlobal \in [Token -> Int] /\ OutsideOK(ticks)
      /\ sqrtPrice \in Nat /\ OwedOK(positions)
  BY DEF Sound
<1>7. /\ {"last", "owed"} \subseteq DOMAIN q /\ q.liquidity = positions[k].liquidity + d
      /\ q.last = [t \in Token |-> FeeGrowthInside(T, k.lower, k.upper, t)]
      /\ q.owed = [t \in Token |->
                     positions[k].owed[t]
                     + MulDiv(FeeGrowthInside(T, k.lower, k.upper, t) - positions[k].last[t],
                              positions[k].liquidity, Q128)
                     + gain[t + 1]]
  BY <1>3 DEF UpdatedPosition
<1> HIDE DEF p, q
<1>8. /\ positions'[k] = q /\ \A j \in Keys \ {k} : positions'[j] = positions[j]
  BY <1>1, <1>5 DEF PositionsOK
<1> HIDE DEF tks
<1>9. \A t \in Token : FeeGrowthInside(T, k.lower, k.upper, t)
                       = Within(tick, feeGrowthGlobal[t], T, k, t)
                       /\ Within(tick, feeGrowthGlobal[t], T, k, t) \in Int
  BY <1>4, <1>6, InsideIs, WithinIs
<1>10. ASSUME NEW t \in Token
       PROVE  /\ q.last[t] = Within(tick, feeGrowthGlobal[t], T, k, t)
              /\ q.owed[t] = positions[k].owed[t]
                             + MulDiv(q.last[t] - positions[k].last[t], positions[k].liquidity, Q128)
                             + gain[t + 1]
              /\ q.last[t] \in Int /\ q.owed[t] \in Int
  <2>1. /\ q.last[t] = Within(tick, feeGrowthGlobal[t], T, k, t)
        /\ q.owed[t] = positions[k].owed[t]
                       + MulDiv(q.last[t] - positions[k].last[t], positions[k].liquidity, Q128)
                       + gain[t + 1]
    BY <1>7, <1>9
  <2>2. PICK w \in Int, l \in Nat, x \in Int, c \in Nat \ {0}, v \in Int :
          /\ w = q.last[t] /\ l = positions[k].liquidity /\ x = positions[k].last[t]
          /\ c = Q128 /\ v = positions[k].owed[t]
    BY <1>5, <1>6, <1>9, <2>1, PoolAssumption DEF OwedOK, PositionsOK
  <2>3. PICK n \in Int : n = (w - x) * l
    <3>1. (w - x) * l \in Int  OBVIOUS
    <3> QED  BY <3>1
  <2>4. n \div c \in Int  BY FloorIs
  <2>5. gain[t + 1] \in Int
    <3>1. t = 0 \/ t = 1  BY DEF Token
    <3>2. t = 0 => gain[t + 1] = gain[1]  OBVIOUS
    <3>3. t = 1 => gain[t + 1] = gain[2]  OBVIOUS
    <3> QED  BY <3>1, <3>2, <3>3
  <2>6. q.owed[t] = v + (n \div c) + gain[t + 1]  BY <2>1, <2>2, <2>3 DEF MulDiv
  <2> QED  BY <2>1, <2>2, <2>4, <2>5, <2>6
<1>11. OwedOK(positions')
  <2>1. q.last \in [Token -> Int]
    <3>1. q.last = [t \in Token |-> q.last[t]]  BY <1>7
    <3> QED  BY <1>10, <3>1
  <2>2. q.owed \in [Token -> Int]
    <3>1. q.owed = [t \in Token |-> q.owed[t]]  BY <1>7
    <3> QED  BY <1>10, <3>1
  <2> QED  BY <1>6, <1>7, <1>8, <2>1, <2>2 DEF OwedOK
<1>12. Sound(tick, feeGrowthGlobal, ticks', sqrtPrice, positions')
  BY <1>4, <1>5, <1>6, <1>11 DEF Sound
<1>13. ASSUME NEW t \in Token, NEW j \in Keys \ {k}, positions[j].liquidity # 0
       PROVE  Within(tick, feeGrowthGlobal[t], ticks', j, t)
              = Within(tick, feeGrowthGlobal[t], ticks, j, t)
  <2>1. /\ ticks[j.lower].gross # 0 /\ ticks[j.upper].gross # 0
        /\ ticks'[j.lower].gross # 0 /\ ticks'[j.upper].gross # 0
    BY <1>5, <1>8, <1>13, LiveEnds
  <2>2. j.lower \in Ticks /\ j.upper \in Ticks  BY KeyFacts
  <2>3. /\ ticks'[j.lower].outside = ticks[j.lower].outside
        /\ ticks'[j.upper].outside = ticks[j.upper].outside
    BY <1>4, <2>1, <2>2
  <2> QED  BY <2>3 DEF Within, Beneath
<1>14. ASSUME NEW t \in Token, positions'[k].liquidity # 0
       PROVE  Within(tick, feeGrowthGlobal[t], ticks', k, t) = positions'[k].last[t]
  <2>1. ticks'[k.lower].gross # 0 /\ ticks'[k.upper].gross # 0  BY <1>5, <1>14, LiveEnds
  <2>2. /\ ticks'[k.lower].outside = T[k.lower].outside
        /\ ticks'[k.upper].outside = T[k.upper].outside
    BY <1>2, <1>4, <2>1
  <2>3. Within(tick, feeGrowthGlobal[t], ticks', k, t) = Within(tick, feeGrowthGlobal[t], T, k, t)
    BY <2>2 DEF Within, Beneath
  <2> QED  BY <1>8, <1>10, <2>3
<1>15. ASSUME NEW t \in Token, positions[k].liquidity # 0
       PROVE  positions'[k].last[t] = Within(tick, feeGrowthGlobal[t], ticks, k, t)
  <2>1. ticks[k.lower].gross # 0 /\ ticks[k.upper].gross # 0  BY <1>5, <1>15, LiveEnds
  <2>2. /\ T[k.lower].outside = ticks[k.lower].outside
        /\ T[k.upper].outside = ticks[k.upper].outside
    BY <1>2, <1>4, <2>1
  <2>3. Within(tick, feeGrowthGlobal[t], T, k, t) = Within(tick, feeGrowthGlobal[t], ticks, k, t)
    BY <2>2 DEF Within, Beneath
  <2> QED  BY <1>8, <1>10, <2>3
<1>16. positions'[k].liquidity = positions[k].liquidity + d  BY <1>7, <1>8
<1>17. \A t \in Token :
         positions'[k].owed[t]
         = positions[k].owed[t]
           + MulDiv(positions'[k].last[t] - positions[k].last[t], positions[k].liquidity, Q128)
           + gain[t + 1]
  BY <1>8, <1>10
<1> QED  BY <1>1, <1>2, <1>8, <1>12, <1>13, <1>14, <1>15, <1>16, <1>17 DEF Modified

\* What is asked for a position's change covers what its claim changes by.
LEMMA ChangePays ==
    ASSUME NEW L \in Nat, NEW d \in Int, NEW Q \in Nat \ {0}, NEW U \in Nat, NEW st \in Int,
           NEW n \in Int, NEW w \in Int, NEW x \in Int, NEW o \in Int, NEW g \in Int,
           d * st <= U * n
    PROVE  LET M == ((w - x) * L) \div Q
           IN  /\ M \in Int
               /\ (Q * U) * (o + M + g) + (L + d) * (Q * st)
                  <= ((Q * U) * o + L * ((U * w + Q * st) - U * x)) + (Q * U) * (n + g)
<1>1. PICK f \in Int : f = (w - x) * L
  <2>1. (w - x) * L \in Int  OBVIOUS
  <2> QED  BY <2>1
<1>2. PICK M \in Int : M = f \div Q  BY FloorIs
<1>3. M * Q <= f  BY <1>2, FloorIs
<1>4. U * (M * Q) <= U * f
  <2>1. M * Q \in Int  OBVIOUS
  <2> QED  BY <1>3, <2>1
<1>5. Q * (d * st) <= Q * (U * n)
  <2>1. d * st \in Int /\ U * n \in Int  OBVIOUS
  <2> QED  BY <2>1
<1>6. PICK a, b, c, e, h, i, j :
        /\ a \in Int /\ b \in Int /\ c \in Int /\ e \in Int /\ h \in Int /\ i \in Int /\ j \in Int
        /\ a = (Q * U) * o /\ b = U * (M * Q) /\ c = (Q * U) * g /\ e = U * f
        /\ h = Q * (d * st) /\ i = Q * (U * n) /\ j = L * (Q * st)
  <2>1. /\ (Q * U) * o \in Int /\ U * (M * Q) \in Int /\ (Q * U) * g \in Int /\ U * f \in Int
        /\ Q * (d * st) \in Int /\ Q * (U * n) \in Int /\ L * (Q * st) \in Int
    OBVIOUS
  <2> QED  BY <2>1
<1>7. (Q * U) * (o + M + g) = a + b + c
  <2>1. (Q * U) * (o + M + g) = (Q * U) * o + (Q * U) * M + (Q * U) * g  OBVIOUS
  <2>2. (Q * U) * M = U * (M * Q)  OBVIOUS
  <2> QED  BY <1>6, <2>1, <2>2
<1>8. (L + d) * (Q * st) = j + h  BY <1>6
<1>9. L * ((U * w + Q * st) - U * x) = e + j
  <2>1. L * ((U * w + Q * st) - U * x) = U * ((w - x) * L) + L * (Q * st)  OBVIOUS
  <2> QED  BY <1>1, <1>6, <2>1
<1>10. (Q * U) * (n + g) = i + c  BY <1>6
<1>11. b <= e /\ h <= i  BY <1>4, <1>5, <1>6
<1>12. a + b + c + (j + h) <= (a + (e + j)) + (i + c)  BY <1>6, <1>11
<1> QED  BY <1>1, <1>2, <1>6, <1>7, <1>8, <1>9, <1>10, <1>12

\* Claims grow by no more than the amounts and the gain of the position modified.
LEMMA ModifyCovers ==
    ASSUME Book, sqrtPrice # 0, Sound(tick, feeGrowthGlobal, ticks, sqrtPrice, positions),
           NEW k \in Keys, NEW d \in Int, NEW gain, Modified(k, d, gain), NEW t \in Token,
           gain[t + 1] \in Int
    PROVE  /\ PositionAmounts(k, d)[t + 1] \in Int
           /\ Claims(tick, feeGrowthGlobal, ticks', sqrtPrice, positions', t)
              <= Claims(tick, feeGrowthGlobal, ticks, sqrtPrice, positions, t)
                 + Scale(t) * (PositionAmounts(k, d)[t + 1] + gain[t + 1])
<1>1. /\ Sound(tick, feeGrowthGlobal, ticks', sqrtPrice, positions')
      /\ k.lower < k.upper /\ positions'[k].liquidity = positions[k].liquidity + d
  BY DEF Modified
<1>2. PICK n \in Int : n = PositionAmounts(k, d)[t + 1]
                       /\ d * Stock(k, t, sqrtPrice) <= Unit(t) * n
  <2>1. sqrtPrice \in Nat /\ InTick(sqrtPrice, tick)  BY DEF Book, BookState
  <2> QED  BY <1>1, <2>1, AmountsCover
<1>3. ASSUME NEW j \in Keys \ {k}
      PROVE  Claim(tick, feeGrowthGlobal, ticks', sqrtPrice, positions', j, t)
             = Claim(tick, feeGrowthGlobal, ticks, sqrtPrice, positions, j, t)
  <2>1. positions'[j] = positions[j]  BY DEF Modified
  <2>2. CASE positions[j].liquidity # 0
    <3>1. Within(tick, feeGrowthGlobal[t], ticks', j, t)
          = Within(tick, feeGrowthGlobal[t], ticks, j, t)
      BY <2>2 DEF Modified
    <3> QED  BY <2>1, <3>1 DEF Claim, Rate
  <2>3. CASE positions[j].liquidity = 0
    <3>1. /\ feeGrowthGlobal[t] \in Int /\ OutsideOK(ticks) /\ OutsideOK(ticks')
          /\ tick \in Int /\ sqrtPrice \in Nat /\ positions[j].last[t] \in Int
      BY <1>1 DEF Sound, OwedOK
    <3>2. PICK r \in Int, u \in Int, y \in Int :
            /\ r = Rate(tick, feeGrowthGlobal[t], ticks, sqrtPrice, j, t)
            /\ u = Rate(tick, feeGrowthGlobal[t], ticks', sqrtPrice, j, t)
            /\ y = Unit(t) * positions[j].last[t]
      <4>1. PICK U \in Nat, x \in Int : U = Unit(t) /\ x = positions[j].last[t]
        BY <3>1, LevelFacts
      <4>2. U * x \in Int  OBVIOUS
      <4> QED  BY <3>1, <4>1, <4>2, RateIs
    <3>3. 0 * (r - y) = 0 /\ 0 * (u - y) = 0  OBVIOUS
    <3> QED  BY <2>1, <2>3, <3>2, <3>3 DEF Claim
  <2>4. positions[j].liquidity \in Nat  BY DEF Book, BookState, BookOK, PositionsOK
  <2> QED  BY <2>2, <2>3
<1>4. Claims(tick, feeGrowthGlobal, ticks', sqrtPrice, positions', t)
      = Claims(tick, feeGrowthGlobal, ticks, sqrtPrice, positions, t)
        + Claim(tick, feeGrowthGlobal, ticks', sqrtPrice, positions', k, t)
        - Claim(tick, feeGrowthGlobal, ticks, sqrtPrice, positions, k, t)
  BY <1>1, <1>3, OneClaim
<1>5. PICK L \in Nat, Q \in Nat \ {0}, U \in Nat, st \in Int, w \in Int, x \in Int, o \in Int,
           g \in Int, W \in Int, W2 \in Int :
        /\ L = positions[k].liquidity /\ Q = Q128 /\ U = Unit(t) /\ st = Stock(k, t, sqrtPrice)
        /\ w = positions'[k].last[t] /\ x = positions[k].last[t] /\ o = positions[k].owed[t]
        /\ g = gain[t + 1] /\ W = Within(tick, feeGrowthGlobal[t], ticks, k, t)
        /\ W2 = Within(tick, feeGrowthGlobal[t], ticks', k, t)
  <2>1. /\ feeGrowthGlobal[t] \in Int /\ OutsideOK(ticks) /\ OutsideOK(ticks')
        /\ tick \in Int /\ sqrtPrice \in Nat /\ positions[k].last[t] \in Int
        /\ positions[k].owed[t] \in Int /\ positions'[k].last[t] \in Int
        /\ positions[k].liquidity \in Nat
    BY <1>1 DEF Sound, OwedOK, PositionsOK
  <2>2. /\ Within(tick, feeGrowthGlobal[t], ticks, k, t) \in Int
        /\ Within(tick, feeGrowthGlobal[t], ticks', k, t) \in Int
        /\ Stock(k, t, sqrtPrice) \in Int
    BY <2>1, WithinIs, StockIs
  <2>3. Unit(t) \in Nat /\ Q128 \in Nat \ {0}  BY LevelFacts, PoolAssumption
  <2> QED  BY <2>1, <2>2, <2>3
<1>6. PICK M : M = ((w - x) * L) \div Q  OBVIOUS
<1>7. M \in Int /\ (Q * U) * (o + M + g) + (L + d) * (Q * st)
                   <= ((Q * U) * o + L * ((U * w + Q * st) - U * x)) + (Q * U) * (n + g)
  BY <1>2, <1>5, <1>6, ChangePays
<1>8. Claim(tick, feeGrowthGlobal, ticks, sqrtPrice, positions, k, t)
      = (Q * U) * o + L * ((U * w + Q * st) - U * x)
  <2>1. Claim(tick, feeGrowthGlobal, ticks, sqrtPrice, positions, k, t)
        = (Q * U) * o + L * ((U * W + Q * st) - U * x)
    BY <1>5 DEF Claim, Rate, Scale
  <2>2. CASE L # 0
    <3>1. w = W  BY <1>5, <2>2 DEF Modified
    <3> QED  BY <2>1, <3>1
  <2>3. CASE L = 0
    <3>1. PICK a \in Int, b \in Int : a = (U * W + Q * st) - U * x /\ b = (U * w + Q * st) - U * x
      <4>1. (U * W + Q * st) - U * x \in Int /\ (U * w + Q * st) - U * x \in Int  OBVIOUS
      <4> QED  BY <4>1
    <3>2. 0 * a = 0 /\ 0 * b = 0  OBVIOUS
    <3> QED  BY <2>1, <2>3, <3>1, <3>2
  <2> QED  BY <2>2, <2>3
<1>9. Claim(tick, feeGrowthGlobal, ticks', sqrtPrice, positions', k, t)
      = (Q * U) * (o + M + g) + (L + d) * (Q * st)
  <2>1. positions'[k].owed[t] = o + M + g  BY <1>5, <1>6 DEF Modified, MulDiv
  <2>2. Claim(tick, feeGrowthGlobal, ticks', sqrtPrice, positions', k, t)
        = (Q * U) * (o + M + g) + (L + d) * ((U * W2 + Q * st) - U * w)
    BY <1>1, <1>5, <2>1 DEF Claim, Rate, Scale
  <2>3. CASE L + d # 0
    <3>1. W2 = w  BY <1>1, <1>5, <2>3 DEF Modified
    <3>2. (U * w + Q * st) - U * w = Q * st
      <4>1. PICK a \in Int, b \in Int : a = U * w /\ b = Q * st
        <5>1. U * w \in Int /\ Q * st \in Int  OBVIOUS
        <5> QED  BY <5>1
      <4> QED  BY <4>1
    <3> QED  BY <2>2, <3>1, <3>2
  <2>4. CASE L + d = 0
    <3>1. PICK a \in Int, b \in Int : a = (U * W2 + Q * st) - U * w /\ b = Q * st
      <4>1. (U * W2 + Q * st) - U * w \in Int /\ Q * st \in Int  OBVIOUS
      <4> QED  BY <4>1
    <3>2. 0 * a = 0 /\ 0 * b = 0  OBVIOUS
    <3> QED  BY <2>2, <2>4, <3>1, <3>2
  <2> QED  BY <2>3, <2>4
<1>10. /\ Claims(tick, feeGrowthGlobal, ticks', sqrtPrice, positions', t) \in Int
       /\ Claims(tick, feeGrowthGlobal, ticks, sqrtPrice, positions, t) \in Int
       /\ Claim(tick, feeGrowthGlobal, ticks', sqrtPrice, positions', k, t) \in Int
       /\ Claim(tick, feeGrowthGlobal, ticks, sqrtPrice, positions, k, t) \in Int
  BY <1>1, ClaimIs
<1>11. Scale(t) * (PositionAmounts(k, d)[t + 1] + gain[t + 1]) = (Q * U) * (n + g)
  BY <1>2, <1>5 DEF Scale
<1>12. (Q * U) * (n + g) \in Int  OBVIOUS
<1>13. Claim(tick, feeGrowthGlobal, ticks', sqrtPrice, positions', k, t)
       <= Claim(tick, feeGrowthGlobal, ticks, sqrtPrice, positions, k, t) + (Q * U) * (n + g)
  BY <1>7, <1>8, <1>9
<1>14. PICK a \in Int, b \in Int, c \in Int, e \in Int, h \in Int :
         /\ a = Claims(tick, feeGrowthGlobal, ticks', sqrtPrice, positions', t)
         /\ b = Claims(tick, feeGrowthGlobal, ticks, sqrtPrice, positions, t)
         /\ c = Claim(tick, feeGrowthGlobal, ticks', sqrtPrice, positions', k, t)
         /\ e = Claim(tick, feeGrowthGlobal, ticks, sqrtPrice, positions, k, t)
         /\ h = (Q * U) * (n + g)
  BY <1>10, <1>12
<1>15. a <= b + h  BY <1>4, <1>13, <1>14
<1> QED  BY <1>2, <1>11, <1>14, <1>15

\* What is collected is taken from the claim.
Collected(pos, new, k, i, n) == new = [pos EXCEPT ![k].owed[i] = @ - n]

\* Claims fall by what is collected.
LEMMA OwedFalls ==
    ASSUME NEW tk, NEW fgg, NEW tks, NEW p, NEW pos, Sound(tk, fgg, tks, p, pos),
           NEW k \in Keys, NEW i \in Token, NEW n \in Int, NEW pos2,
           Collected(pos, pos2, k, i, n), NEW t \in Token
    PROVE  /\ Sound(tk, fgg, tks, p, pos2)
           /\ Claims(tk, fgg, tks, p, pos2, t)
              = Claims(tk, fgg, tks, p, pos, t) + Scale(t) * (IF t = i THEN -n ELSE 0)
<1>1. /\ DOMAIN pos = Keys
      /\ \A j \in Keys : /\ {"liquidity", "last", "owed"} \subseteq DOMAIN pos[j]
                         /\ pos[j].last \in [Token -> Int] /\ pos[j].owed \in [Token -> Int]
  BY DEF Sound, PositionsOK, OwedOK
<1> DEFINE q == [pos[k] EXCEPT !.owed[i] = @ - n]
<1>2. pos2[k] = q /\ DOMAIN pos2 = Keys /\ \A j \in Keys \ {k} : pos2[j] = pos[j]
  BY <1>1 DEF Collected
<1>3. /\ {"liquidity", "last", "owed"} \subseteq DOMAIN q
      /\ q.liquidity = pos[k].liquidity /\ q.last = pos[k].last
      /\ q.owed = [pos[k].owed EXCEPT ![i] = @ - n]
  BY <1>1
<1> HIDE DEF q
<1>4. /\ q.owed \in [Token -> Int]
      /\ q.owed[t] = pos[k].owed[t] + (IF t = i THEN -n ELSE 0)
  <2>1. pos[k].owed \in [Token -> Int]  BY <1>1
  <2>2. PICK w : w = pos[k].owed  OBVIOUS
  <2>3. w \in [Token -> Int] /\ q.owed = [w EXCEPT ![i] = w[i] - n]  BY <1>3, <2>1, <2>2
  <2>4. w[i] - n \in Int  BY <2>3
  <2>5. q.owed \in [Token -> Int]  BY <2>3, <2>4
  <2>6. q.owed[t] = IF t = i THEN w[t] - n ELSE w[t]  BY <2>3
  <2>7. w[t] \in Int  BY <2>3
  <2>8. q.owed[t] = w[t] + (IF t = i THEN -n ELSE 0)  BY <2>6, <2>7
  <2> QED  BY <2>2, <2>5, <2>8
<1>5. PositionsOK(pos2)  BY <1>2, <1>3 DEF Sound, PositionsOK
<1>6. OwedOK(pos2)  BY <1>1, <1>2, <1>3, <1>4 DEF OwedOK
<1>7. Sound(tk, fgg, tks, p, pos2)  BY <1>5, <1>6 DEF Sound
<1>8. \A j \in Keys \ {k} : Claim(tk, fgg, tks, p, pos2, j, t) = Claim(tk, fgg, tks, p, pos, j, t)
  BY <1>2 DEF Claim
<1>9. Claims(tk, fgg, tks, p, pos2, t)
      = Claims(tk, fgg, tks, p, pos, t)
        + Claim(tk, fgg, tks, p, pos2, k, t) - Claim(tk, fgg, tks, p, pos, k, t)
  BY <1>7, <1>8, OneClaim
<1>10. PICK S \in Nat, w \in Int, x \in Int, c \in Int :
         /\ S = Scale(t) /\ w = pos[k].owed[t] /\ x = (IF t = i THEN -n ELSE 0)
         /\ c = Claims(tk, fgg, tks, p, pos, t)
  <2>1. pos[k].owed[t] \in Int /\ (IF t = i THEN -n ELSE 0) \in Int  BY <1>1
  <2> QED  BY <2>1, ScaleIs, ClaimIs
<1>11. PICK r : r = pos[k].liquidity * (Rate(tk, fgg[t], tks, p, k, t) - Unit(t) * pos[k].last[t])
  OBVIOUS
<1>12. /\ Claim(tk, fgg, tks, p, pos, k, t) = S * w + r
       /\ Claim(tk, fgg, tks, p, pos2, k, t) = S * (w + x) + r
  BY <1>2, <1>3, <1>4, <1>10, <1>11 DEF Claim
<1>13. S * (w + x) = S * w + S * x  OBVIOUS
<1>14. PICK a \in Int, b \in Int, e \in Int :
         a = Claim(tk, fgg, tks, p, pos, k, t) /\ b = S * x /\ e = S * w
  <2>1. S * x \in Int /\ S * w \in Int  OBVIOUS
  <2> QED  BY <2>1, ClaimIs
<1>15. Claim(tk, fgg, tks, p, pos2, k, t) \in Int  BY <1>7, ClaimIs
<1>16. r \in Int
  <2>1. /\ pos[k].liquidity \in Nat /\ fgg[t] \in Int /\ pos[k].last[t] \in Int
    BY DEF Sound, PositionsOK, OwedOK
  <2>2. PICK l \in Nat, y \in Int, U \in Nat, z \in Int :
          /\ l = pos[k].liquidity /\ y = Rate(tk, fgg[t], tks, p, k, t)
          /\ U = Unit(t) /\ z = pos[k].last[t]
    BY <2>1, RateIs, LevelFacts DEF Sound
  <2>3. l * (y - U * z) \in Int  OBVIOUS
  <2> QED  BY <1>11, <2>2, <2>3
<1>17. Claim(tk, fgg, tks, p, pos2, k, t) = a + b  BY <1>12, <1>13, <1>14, <1>16
<1>18. c + (a + b) - a = c + b  OBVIOUS
<1>19. Claims(tk, fgg, tks, p, pos2, t) = c + b  BY <1>9, <1>10, <1>14, <1>17, <1>18
<1> QED  BY <1>7, <1>10, <1>14, <1>19

\* A delivery takes from what the pool holds, in whichever versions.
BalanceOK(bal) == bal \in [Token -> [Version -> Int]]

\* What the pool holds is a number.
LEMMA HeldIs ==
    ASSUME NEW bal, BalanceOK(bal), NEW t \in Token
    PROVE  Held(bal, t) \in Int
BY DEF BalanceOK, Held, Version

\* A delivery takes what it delivers, in whichever versions.
LEMMA DeliverTakes ==
    ASSUME BalanceOK(balance), NEW t \in Token, NEW v \in Version, NEW n \in Int, Deliver(t, v, n)
    PROVE  /\ BalanceOK(balance')
           /\ \A i \in Token : Held(balance', i) = Held(balance, i) + (IF i = t THEN -n ELSE 0)
<1>1. \A i \in Token : Held(balance, i) \in Int  BY HeldIs
<1>2. CASE n = 0
  <2>1. balance' = balance  BY <1>2 DEF Deliver
  <2>2. \A h \in Int : h = h + 0 /\ h = h + (-n)  BY <1>2
  <2> QED  BY <1>1, <2>1, <2>2
<1>3. CASE n # 0
  <2>1. PICK d \in Int : /\ balance' = [balance EXCEPT ![t][v] = @ + d - n,
                                                       ![t][Other(v)] = @ - d]
    <3>1. balance[t][v] \in Int  BY DEF BalanceOK
    <3>2. (IF n > balance[t][v] THEN n - balance[t][v] ELSE 0) \in Int  BY <3>1
    <3> QED  BY <1>3, <3>2 DEF Deliver, Delivered
  <2>2. PICK b, w : b = balance[t] /\ w = Other(v)  OBVIOUS
  <2>3. w \in Version /\ w # v /\ Version = {v, w} /\ b \in [Version -> Int]
    BY <2>2 DEF Other, Version, BalanceOK
  <2>4. PICK c : c = [b EXCEPT ![v] = b[v] + d - n, ![w] = b[w] - d]  OBVIOUS
  <2>5. balance' = [balance EXCEPT ![t] = c]  BY <2>1, <2>2, <2>3, <2>4 DEF BalanceOK
  <2>6. /\ c \in [Version -> Int] /\ c[v] = b[v] + d - n /\ c[w] = b[w] - d
    <3>1. b[v] + d - n \in Int /\ b[w] - d \in Int  BY <2>3
    <3> QED  BY <2>3, <2>4, <3>1
  <2>7. BalanceOK(balance')  BY <2>5, <2>6 DEF BalanceOK
  <2>8. c["erc20"] + c["erc223"] = b["erc20"] + b["erc223"] - n
    <3>1. b[v] \in Int /\ b[w] \in Int  BY <2>3
    <3>2. \/ v = "erc20" /\ w = "erc223"
          \/ v = "erc223" /\ w = "erc20"
      BY <2>3 DEF Version
    <3>3. c[v] + c[w] = b[v] + b[w] - n /\ c[w] + c[v] = b[w] + b[v] - n  BY <2>6, <3>1
    <3> QED  BY <3>2, <3>3
  <2>9. ASSUME NEW i \in Token
        PROVE  Held(balance', i) = Held(balance, i) + (IF i = t THEN -n ELSE 0)
    <3>1. CASE i = t
      <4>1. balance'[t] = c  BY <2>5 DEF BalanceOK
      <4>2. /\ Held(balance', i) = c["erc20"] + c["erc223"]
            /\ Held(balance, i) = b["erc20"] + b["erc223"]
        BY <2>2, <3>1, <4>1 DEF Held
      <4>3. PICK h \in Int : h = Held(balance, i)  BY <1>1
      <4>6. PICK x \in Int, y \in Int : x = b["erc20"] /\ y = b["erc223"]
        BY <2>3 DEF Version
      <4>7. h = x + y  BY <4>2, <4>3, <4>6
      <4>8. c["erc20"] + c["erc223"] = x + y - n  BY <2>8, <4>6
      <4>9. Held(balance', i) = x + y - n  BY <4>2, <4>8
      <4>4. Held(balance', i) = h - n  BY <4>7, <4>9
      <4>5. h - n = h + (-n)  OBVIOUS
      <4> QED  BY <3>1, <4>3, <4>4, <4>5
    <3>2. CASE i # t
      <4>1. balance'[i] = balance[i]  BY <2>5, <3>2 DEF BalanceOK
      <4> QED  BY <1>1, <3>2, <4>1 DEF Held
    <3> QED  BY <3>1, <3>2
  <2> QED  BY <2>7, <2>9
<1> QED  BY <1>2, <1>3

\* A payment adds to it.
Paid(bal, new, t, v, n) == new = [bal EXCEPT ![t][v] = @ + n]

\* A payment adds what is paid.
LEMMA PaymentAdds ==
    ASSUME NEW bal, BalanceOK(bal), NEW t \in Token, NEW v \in Version, NEW n \in Int, NEW new,
           Paid(bal, new, t, v, n)
    PROVE  /\ BalanceOK(new)
           /\ \A i \in Token : Held(new, i) = Held(bal, i) + (IF i = t THEN n ELSE 0)
<1>1. \A i \in Token : Held(bal, i) \in Int  BY HeldIs
<1>2. PICK b : b = bal[t] /\ b \in [Version -> Int]  BY DEF BalanceOK
<1>3. PICK c : c = [b EXCEPT ![v] = b[v] + n]  OBVIOUS
<1>4. new = [bal EXCEPT ![t] = c]  BY <1>2, <1>3 DEF BalanceOK, Paid
<1>5. c \in [Version -> Int] /\ c["erc20"] + c["erc223"] = b["erc20"] + b["erc223"] + n
  <2>1. b["erc20"] \in Int /\ b["erc223"] \in Int /\ (v = "erc20" \/ v = "erc223")
    BY <1>2 DEF Version
  <2>2. b[v] + n \in Int  BY <1>2
  <2>3. c \in [Version -> Int]  BY <1>2, <1>3, <2>2
  <2>4. CASE v = "erc20"
    <3>1. c["erc20"] = b["erc20"] + n /\ c["erc223"] = b["erc223"]
      BY <1>2, <1>3, <2>4 DEF Version
    <3> QED  BY <2>1, <2>3, <3>1
  <2>5. CASE v = "erc223"
    <3>1. c["erc223"] = b["erc223"] + n /\ c["erc20"] = b["erc20"]
      BY <1>2, <1>3, <2>5 DEF Version
    <3> QED  BY <2>1, <2>3, <3>1
  <2> QED  BY <2>1, <2>4, <2>5
<1>6. BalanceOK(new)  BY <1>4, <1>5 DEF BalanceOK
<1>7. ASSUME NEW i \in Token
      PROVE  Held(new, i) = Held(bal, i) + (IF i = t THEN n ELSE 0)
  <2>1. CASE i = t
    <3>1. new[t] = c  BY <1>4 DEF BalanceOK
    <3>2. Held(new, i) = c["erc20"] + c["erc223"] /\ Held(bal, i) = b["erc20"] + b["erc223"]
      BY <1>2, <2>1, <3>1 DEF Held
    <3> QED  BY <1>5, <2>1, <3>2
  <2>2. CASE i # t
    <3>1. new[i] = bal[i]  BY <1>4, <2>2 DEF BalanceOK
    <3> QED  BY <1>1, <2>2, <3>1 DEF Held
  <2> QED  BY <2>1, <2>2
<1> QED  BY <1>6, <1>7

(***************************************************************************)
(* The invariant of the money: what is booked is backed by what the pool    *)
(* holds, or is about to hold when the call under way has been paid.        *)
(***************************************************************************)
Books(t) ==
    Booked(tick, feeGrowthGlobal, ticks, sqrtPrice, positions, protocolFees, deposit, t)

\* What a call knows of the money it moves.
CallOK(f, bal) ==
    /\ f.op = "mint" =>
         /\ {"before", "due"} \subseteq DOMAIN f
         /\ \A t \in Token : /\ f.before[t + 1] \in Int /\ f.due[t + 1] \in Nat
                             /\ f.before[t + 1] <= Held(bal, t)
    /\ f.op = "swap" =>
         /\ {"order", "due", "out", "before"} \subseteq DOMAIN f
         /\ f.order \in Orders /\ f.due \in Int /\ f.out \in Int /\ f.before \in Int
    /\ f.op = "collect" => "key" \in DOMAIN f /\ f.key \in Keys
    /\ f.op \in {"collect", "collectProtocol"} =>
         {"due", "vers"} \subseteq DOMAIN f /\ f.due \in [Token -> Int] /\ f.vers \in Versions

BackedBy(f, bal, t) ==
    IF f.op = "mint" THEN f.before[t + 1] + f.due[t + 1]
    ELSE IF f.op = "swap" /\ f.phase \in {"pay", "paid"}
    THEN IF t = In(f.order) THEN f.before + f.due ELSE Held(bal, t) - f.out
    ELSE Held(bal, t)

Backing(t) == IF calls = Idle THEN Held(balance, t) ELSE BackedBy(Top, balance, t)

Purses ==
    /\ feeProtocol \in [Token -> Nat] /\ protocolFees \in [Token -> Int] /\ BalanceOK(balance)

SavedMoney ==
    /\ Sound(saved.tick, saved.feeGrowthGlobal, saved.ticks, saved.sqrtPrice, saved.positions)
    /\ saved.feeProtocol \in [Token -> Nat] /\ saved.protocolFees \in [Token -> Int]
    /\ BalanceOK(saved.balance)
    /\ \A t \in Token :
         Booked(saved.tick, saved.feeGrowthGlobal, saved.ticks, saved.sqrtPrice,
                saved.positions, saved.protocolFees, saved.deposit, t)
         <= Scale(t) * Held(saved.balance, t)

MoneyInv ==
    /\ Sound(tick, feeGrowthGlobal, ticks, sqrtPrice, positions) /\ Purses
    /\ \A t \in Token : Books(t) <= Scale(t) * Backing(t)
    /\ calls # Idle => CallOK(Top, balance) /\ SavedMoney

\* What backs the books during a call is a number.
LEMMA BackedIs ==
    ASSUME NEW f, NEW bal, BalanceOK(bal), CallOK(f, bal), NEW t \in Token
    PROVE  BackedBy(f, bal, t) \in Int
<1>1. Held(bal, t) \in Int  BY HeldIs
<1>2. CASE f.op = "mint"
  <2>1. f.before[t + 1] \in Int /\ f.due[t + 1] \in Int  BY <1>2 DEF CallOK
  <2> QED  BY <1>2, <2>1 DEF BackedBy
<1>3. CASE f.op = "swap" /\ f.phase \in {"pay", "paid"}
  <2>1. f.due \in Int /\ f.out \in Int /\ f.before \in Int  BY <1>3 DEF CallOK
  <2> QED  BY <1>1, <1>3, <2>1 DEF BackedBy
<1>4. CASE f.op # "mint" /\ ~ (f.op = "swap" /\ f.phase \in {"pay", "paid"})
  BY <1>1, <1>4 DEF BackedBy
<1> QED  BY <1>2, <1>3, <1>4

\* What backs the books is a number.
LEMMA BackingIs ==
    ASSUME BalanceOK(balance), calls # Idle => CallOK(Top, balance), NEW t \in Token
    PROVE  Backing(t) \in Int
<1>1. Held(balance, t) \in Int  BY HeldIs
<1>2. calls # Idle => BackedBy(Top, balance, t) \in Int  BY BackedIs
<1> QED  BY <1>1, <1>2 DEF Backing

\* What is booked grows by no more than what backs it.
Carries(t) ==
    \E x \in Int : Books(t)' <= Books(t) + Scale(t) * x /\ Backing(t) + x <= Backing(t)'

\* Books that grow by no more than their backing stay backed.
LEMMA StillBacked ==
    ASSUME NEW S \in Nat, NEW b \in Int, NEW c \in Int, NEW h \in Int, NEW i \in Int, NEW x \in Int,
           b <= S * h, c <= b + S * x, h + x <= i
    PROVE  c <= S * i
<1>1. S * (h + x) <= S * i
  <2>1. h + x \in Int  OBVIOUS
  <2> QED  BY <2>1
<1>2. S * (h + x) = S * h + S * x  OBVIOUS
<1>3. S * h \in Int /\ S * x \in Int /\ S * i \in Int  OBVIOUS
<1> QED  BY <1>1, <1>2, <1>3

\* The invariant is kept by a step that carries its changes on both sides.
LEMMA MoneyGoesOn ==
    ASSUME LockInv, LockInv', MoneyInv, Purses',
           Sound(tick, feeGrowthGlobal, ticks, sqrtPrice, positions)',
           calls' # Idle => /\ CallOK(Top, balance)'
                            /\ IF calls = Idle THEN saved' = State ELSE saved' = saved,
           \A t \in Token : Carries(t)
    PROVE  MoneyInv'
<1>1. ASSUME NEW t \in Token PROVE Books(t)' <= Scale(t) * Backing(t)'
  <2>1. deposit \in [Users -> [Token -> Nat]] /\ deposit' \in [Users -> [Token -> Nat]]
    BY DEF LockInv, LockTypes
  <2>2. Books(t) \in Int  BY <2>1, BookedIs DEF MoneyInv, Purses, Books
  <2>3. Books(t)' \in Int
    <3>1. protocolFees'[t] \in Int  BY DEF Purses
    <3>2. Sound(tick', feeGrowthGlobal', ticks', sqrtPrice', positions')  OBVIOUS
    <3>3. Booked(tick', feeGrowthGlobal', ticks', sqrtPrice', positions', protocolFees',
                 deposit', t) \in Int
      BY <2>1, <3>1, <3>2, BookedIs
    <3> QED  BY <3>3 DEF Books
  <2>4. Backing(t) \in Int  BY BackingIs DEF MoneyInv, Purses
  <2>5. Backing(t)' \in Int
    <3>1. Held(balance', t) \in Int  BY HeldIs DEF Purses
    <3>2. calls' # Idle => BackedBy(Top', balance', t) \in Int
      <4>1. calls' # Idle => CallOK(Top', balance')  OBVIOUS
      <4>2. BalanceOK(balance')  BY DEF Purses
      <4> QED  BY <4>1, <4>2, BackedIs
    <3> QED  BY <3>1, <3>2 DEF Backing
  <2>6. PICK x \in Int : Books(t)' <= Books(t) + Scale(t) * x /\ Backing(t) + x <= Backing(t)'
    BY DEF Carries
  <2>7. Books(t) <= Scale(t) * Backing(t)  BY DEF MoneyInv
  <2>8. PICK S \in Nat, b \in Int, c \in Int, h \in Int, i \in Int :
          S = Scale(t) /\ b = Books(t) /\ c = Books(t)' /\ h = Backing(t) /\ i = Backing(t)'
    BY <2>2, <2>3, <2>4, <2>5, ScaleIs
  <2>9. c <= S * i  BY <2>6, <2>7, <2>8, StillBacked
  <2> QED  BY <2>8, <2>9
<1>2. calls' # Idle => SavedMoney'
  <2>1. SUFFICES ASSUME calls' # Idle PROVE SavedMoney'  OBVIOUS
  <2>2. CASE calls # Idle
    <3>1. SavedMoney /\ saved' = saved  BY <2>1, <2>2 DEF MoneyInv
    <3> QED  BY <3>1 DEF SavedMoney
  <2>3. CASE calls = Idle
    <3>1. saved' = State  BY <2>1, <2>3
    <3>2. /\ saved'.tick = tick /\ saved'.feeGrowthGlobal = feeGrowthGlobal
          /\ saved'.ticks = ticks /\ saved'.sqrtPrice = sqrtPrice
          /\ saved'.positions = positions /\ saved'.protocolFees = protocolFees
          /\ saved'.deposit = deposit /\ saved'.balance = balance
          /\ saved'.feeProtocol = feeProtocol
      BY <3>1 DEF State
    <3>3. \A t \in Token : Booked(tick, feeGrowthGlobal, ticks, sqrtPrice, positions,
                                  protocolFees, deposit, t) <= Scale(t) * Held(balance, t)
      BY <2>3 DEF MoneyInv, Books, Backing
    <3> QED  BY <3>2, <3>3 DEF SavedMoney, MoneyInv, Purses
  <2> QED  BY <2>2, <2>3
<1>3. \A t \in Token : (Books(t) <= Scale(t) * Backing(t))'  BY <1>1
<1> QED  BY <1>2, <1>3 DEF MoneyInv

(***************************************************************************)
(* The call on top.                                                         *)
(***************************************************************************)
LEMMA TopPushed ==
    ASSUME NEW c, c = <<>> \/ c = <<c[1]>>, NEW f, calls' = Append(c, f)
    PROVE  calls' # Idle /\ Top' = f
<1>1. CASE c = <<>>
  <2>1. calls' = <<f>>  BY <1>1
  <2> QED  BY <2>1 DEF Top, Idle
<1>2. CASE c = <<c[1]>>
  <2>1. PICK g : g = c[1]  OBVIOUS
  <2>2. calls' = <<g, f>>  BY <1>2, <2>1, SecondCall
  <2> QED  BY <2>2 DEF Top, Idle
<1> QED  BY <1>1, <1>2

\* The call on top is the one written there.
LEMMA TopChanged ==
    ASSUME LockInv, calls # Idle, NEW g, Frame(g), calls' = [calls EXCEPT ![Len(calls)] = g]
    PROVE  calls' # Idle /\ Top' = g
<1>1. CASE One(calls)
  <2>1. calls' = <<g>>  BY <1>1, ChangeOne
  <2> QED  BY <2>1 DEF Top, Idle
<1>2. CASE Two(calls)
  <2>1. calls' = <<calls[1], g>>  BY <1>2, ChangeTwo
  <2> QED  BY <2>1 DEF Top, Idle
<1> QED  BY <1>1, <1>2 DEF LockInv, PlainCall, SwapCall, Received, DispatchedSwap

\* A call that goes on changes its phase alone.
LEMMA TopPhase ==
    ASSUME LockInv, calls # Idle, NEW p, NEW b,
           \/ calls' = AtPhase(p)
           \/ calls' = [calls EXCEPT ![Len(calls)].phase = p, ![Len(calls)].next = b]
    PROVE  /\ calls' # Idle /\ DOMAIN Top' = DOMAIN Top
           /\ \A x \in DOMAIN Top \ {"phase", "next"} : Top'[x] = Top[x]
           /\ Top'.phase = p
<1>1. Frame(Top)  BY TopIsFrame
<1> DEFINE h == [Top EXCEPT !.phase = p]
<1>2. Frame(h) /\ DOMAIN h = DOMAIN Top /\ h.phase = p
      /\ \A x \in DOMAIN Top \ {"phase"} : h[x] = Top[x]
  BY <1>1 DEF Frame
<1>3. CASE calls' = AtPhase(p)
  <2>1. calls' = [calls EXCEPT ![Len(calls)] = h]  BY <1>3 DEF AtPhase, Top
  <2> HIDE DEF h
  <2> QED  BY <1>2, <2>1, TopChanged
<1>4. CASE calls' = [calls EXCEPT ![Len(calls)].phase = p, ![Len(calls)].next = b]
  <2> DEFINE g == [h EXCEPT !.next = b]
             c == [calls EXCEPT ![Len(calls)] = h]
  <2>1. Frame(g) /\ DOMAIN g = DOMAIN Top /\ g.phase = p
        /\ \A x \in DOMAIN Top \ {"phase", "next"} : g[x] = Top[x]
    BY <1>1, <1>2 DEF Frame
  <2>2. calls' = [c EXCEPT ![Len(calls)] = [c[Len(calls)] EXCEPT !.next = b]]
    BY <1>4 DEF Top
  <2>3. One(calls) \/ Two(calls)
    BY DEF LockInv, PlainCall, SwapCall, Received, DispatchedSwap
  <2>4. Len(calls) \in DOMAIN calls  BY <2>3, OneCall, TwoCalls DEF One, Two
  <2> HIDE DEF h
  <2>5. c[Len(calls)] = h  BY <2>4
  <2>6. calls' = [c EXCEPT ![Len(calls)] = g]  BY <2>2, <2>5
  <2> HIDE DEF g
  <2>7. calls' = [calls EXCEPT ![Len(calls)] = g]  BY <2>4, <2>6
  <2> HIDE DEF c
  <2> QED  BY <2>1, <2>7, TopChanged
<1> QED  BY <1>3, <1>4

\* When a call returns, there is a deposit left or nothing.
LEMMA TopPopped ==
    ASSUME LockInv, calls # Idle, Return
    PROVE  calls' # Idle => Top'.op = "tokenReceived" /\ saved' = saved
<1>1. calls' = Below /\ saved' = IF Below = Idle THEN Idle ELSE saved  BY DEF Return
<1>2. CASE One(calls)
  <2>1. calls' = Idle  BY <1>1, <1>2, OneCall DEF Below, Idle
  <2> QED  BY <2>1
<1>3. CASE Two(calls)
  <2>1. calls[1].op = "tokenReceived"
    BY <1>3, OneCall, TwoCalls DEF LockInv, PlainCall, SwapCall, Received, DispatchedSwap
  <2>2. PICK g : g = calls[1]  OBVIOUS
  <2>3. calls' = <<g>>  BY <1>1, <1>3, <2>2, TwoCalls DEF Below
  <2>4. Below # Idle  BY <1>1, <2>3 DEF Idle
  <2> QED  BY <1>1, <2>1, <2>2, <2>3, <2>4 DEF Top
<1> QED  BY <1>2, <1>3 DEF LockInv, PlainCall, SwapCall, Received, DispatchedSwap

\* A frame that differs in its phase only.
SameCall(f, g) ==
    /\ Frame(f) /\ DOMAIN g = DOMAIN f
    /\ \A x \in DOMAIN f \ {"phase", "next"} : g[x] = f[x]

\* What is known of a call stays known while it goes on.
LEMMA SameCallOK ==
    ASSUME NEW f, NEW g, SameCall(f, g), NEW bal, CallOK(f, bal), NEW new,
           f.op = "mint" => \A t \in Token : Held(bal, t) \in Int /\ Held(new, t) \in Int
                                              /\ Held(bal, t) <= Held(new, t)
    PROVE  g.op = f.op /\ CallOK(g, new)
<1>1. g.op = f.op  BY DEF SameCall, Frame
<1>2. ASSUME f.op = "mint"
      PROVE  /\ {"before", "due"} \subseteq DOMAIN g
             /\ \A t \in Token : /\ g.before[t + 1] \in Int /\ g.due[t + 1] \in Nat
                                 /\ g.before[t + 1] <= Held(new, t)
  <2>1. {"before", "due"} \subseteq DOMAIN f  BY <1>2 DEF CallOK
  <2>2. g.before = f.before /\ g.due = f.due  BY <2>1 DEF SameCall
  <2>3. \A t \in Token : /\ f.before[t + 1] \in Int /\ f.due[t + 1] \in Nat
                         /\ f.before[t + 1] <= Held(bal, t)
    BY <1>2 DEF CallOK
  <2> QED  BY <1>2, <2>1, <2>2, <2>3 DEF SameCall
<1>3. ASSUME f.op = "swap"
      PROVE  /\ {"order", "due", "out", "before"} \subseteq DOMAIN g
             /\ g.order = f.order /\ g.due = f.due /\ g.out = f.out /\ g.before = f.before
             /\ g.order \in Orders /\ g.due \in Int /\ g.out \in Int /\ g.before \in Int
  BY <1>3 DEF CallOK, SameCall
<1>4. f.op = "collect" => "key" \in DOMAIN g /\ g.key \in Keys
  BY DEF CallOK, SameCall
<1>5. f.op \in {"collect", "collectProtocol"} =>
        {"due", "vers"} \subseteq DOMAIN g /\ g.due \in [Token -> Int] /\ g.vers \in Versions
  BY DEF CallOK, SameCall
<1> QED  BY <1>1, <1>2, <1>3, <1>4, <1>5 DEF CallOK

\* A call that goes on is the same call.
LEMMA TopSame ==
    ASSUME LockInv, calls # Idle, NEW p, NEW b,
           \/ calls' = AtPhase(p)
           \/ calls' = [calls EXCEPT ![Len(calls)].phase = p, ![Len(calls)].next = b]
    PROVE  calls' # Idle /\ SameCall(Top, Top') /\ Top'.phase = p
BY TopIsFrame, TopPhase DEF SameCall

\* Nothing booked changes.
LEMMA BooksSame ==
    ASSUME UNCHANGED <<tick, feeGrowthGlobal, ticks, sqrtPrice, positions, protocolFees, deposit>>,
           NEW t
    PROVE  Books(t)' = Books(t)
BY DEF Books

\* What changes, changes on both sides.
LEMMA CarriesSame ==
    ASSUME NEW t \in Token, Books(t) \in Int, Books(t)' = Books(t), Backing(t) \in Int,
           Backing(t)' \in Int, Backing(t) <= Backing(t)'
    PROVE  Carries(t)
<1>1. PICK S \in Nat, b \in Int, h \in Int :
        S = Scale(t) /\ b = Books(t) /\ h = Backing(t)
  BY ScaleIs
<1>2. b <= b + S * 0 /\ h + 0 = h  OBVIOUS
<1>3. Books(t)' <= Books(t) + Scale(t) * 0 /\ Backing(t) + 0 <= Backing(t)'
  BY <1>1, <1>2
<1> QED  BY <1>3 DEF Carries

\* Everything on the books is a number.
LEMMA NowIs ==
    ASSUME LockInv, MoneyInv
    PROVE  \A t \in Token : /\ Books(t) \in Int /\ Backing(t) \in Int
                            /\ Held(balance, t) \in Int /\ protocolFees[t] \in Int
                            /\ Claims(tick, feeGrowthGlobal, ticks, sqrtPrice, positions, t) \in Int
                            /\ Deposits(deposit, t) \in Nat
<1>1. deposit \in [Users -> [Token -> Nat]]  BY DEF LockInv, LockTypes
<1>2. protocolFees \in [Token -> Int] /\ BalanceOK(balance)  BY DEF MoneyInv, Purses
<1>3. Sound(tick, feeGrowthGlobal, ticks, sqrtPrice, positions)  BY DEF MoneyInv
<1>4. \A t \in Token : Books(t) \in Int  BY <1>1, <1>2, <1>3, BookedIs DEF Books
<1>5. \A t \in Token : Backing(t) \in Int  BY <1>2, BackingIs DEF MoneyInv
<1> QED  BY <1>1, <1>2, <1>3, <1>4, <1>5, HeldIs, ClaimIs, DepositsAre

(***************************************************************************)
(* The steps that move no money.                                            *)
(***************************************************************************)
LEMMA StillOnTop ==
    ASSUME LockInv, MoneyInv, LockInv', calls # Idle, NEW p, NEW b,
           \/ calls' = AtPhase(p)
           \/ calls' = [calls EXCEPT ![Len(calls)].phase = p, ![Len(calls)].next = b],
           UNCHANGED <<price, positions, feeProtocol, protocolFees, deposit, saved>>,
           BalanceOK(balance'),
           \A t \in Token : /\ Top.op = "mint" => Held(balance, t) <= Held(balance', t)
                            /\ BackedBy(Top, balance, t) <= BackedBy(Top', balance', t)
    PROVE  MoneyInv'
<1>1. calls' # Idle /\ SameCall(Top, Top')  BY TopSame
<1>2. CallOK(Top, balance)  BY DEF MoneyInv
<1>3. \A t \in Token : Held(balance, t) \in Int /\ Held(balance', t) \in Int
  BY HeldIs DEF MoneyInv, Purses
<1>4. CallOK(Top', balance')  BY <1>1, <1>2, <1>3, SameCallOK
<1>5. Sound(tick', feeGrowthGlobal', ticks', sqrtPrice', positions')
  BY DEF MoneyInv, price
<1>6. Purses'  BY DEF MoneyInv, Purses
<1>7. ASSUME NEW t \in Token PROVE Carries(t)
  <2>1. Books(t) \in Int /\ Backing(t) \in Int  BY NowIs
  <2>2. Books(t)' = Books(t)  BY BooksSame DEF price
  <2>3. Backing(t) = BackedBy(Top, balance, t) /\ Backing(t)' = BackedBy(Top', balance', t)
    BY <1>1 DEF Backing
  <2>4. BackedBy(Top', balance', t) \in Int  BY <1>4, BackedIs
  <2> QED  BY <2>1, <2>2, <2>3, <2>4, CarriesSame
<1>8. Sound(tick, feeGrowthGlobal, ticks, sqrtPrice, positions)'  BY <1>5
<1>9. CallOK(Top, balance)'  BY <1>4
<1> QED  BY <1>1, <1>6, <1>7, <1>8, <1>9, MoneyGoesOn

\* A call that returns leaves what it held.
LEMMA MoneyReturns ==
    ASSUME LockInv, MoneyInv, LockInv', calls # Idle, Return,
           UNCHANGED <<price, positions, feeProtocol, protocolFees, deposit, balance>>,
           \A t \in Token : BackedBy(Top, balance, t) <= Held(balance, t)
    PROVE  MoneyInv'
<1>1. calls' # Idle => Top'.op = "tokenReceived" /\ saved' = saved  BY TopPopped
<1>2. calls' # Idle => CallOK(Top', balance')  BY <1>1 DEF CallOK
<1>3. Sound(tick', feeGrowthGlobal', ticks', sqrtPrice', positions')
  BY DEF MoneyInv, price
<1>4. Purses'  BY DEF MoneyInv, Purses
<1>5. ASSUME NEW t \in Token PROVE Carries(t)
  <2>1. Books(t) \in Int /\ Backing(t) \in Int /\ Held(balance, t) \in Int  BY NowIs
  <2>2. Books(t)' = Books(t)  BY BooksSame DEF price
  <2>3. Backing(t) = BackedBy(Top, balance, t)  BY DEF Backing
  <2>4. Backing(t)' = Held(balance, t)
    <3>1. CASE calls' = Idle  BY <3>1 DEF Backing
    <3>2. CASE calls' # Idle
      <4>1. BackedBy(Top', balance', t) = Held(balance', t)  BY <1>1, <3>2 DEF BackedBy
      <4> QED  BY <3>2, <4>1 DEF Backing
    <3> QED  BY <3>1, <3>2
  <2> QED  BY <2>1, <2>2, <2>3, <2>4, CarriesSame
<1>6. Sound(tick, feeGrowthGlobal, ticks, sqrtPrice, positions)'  BY <1>3
<1>7. calls' # Idle => CallOK(Top, balance)'  BY <1>2
<1> QED  BY <1>1, <1>4, <1>5, <1>6, <1>7, MoneyGoesOn

(***************************************************************************)
(* The steps that move money.                                               *)
(***************************************************************************)
\* A step that changes what is booked as the claims change, and as the
\* protocol's fees and the deposits do.
LEMMA BooksMove ==
    ASSUME LockInv, LockInv', MoneyInv, Purses',
           Sound(tick', feeGrowthGlobal', ticks', sqrtPrice', positions'),
           NEW t \in Token, NEW x \in Int, NEW y \in Int, NEW z \in Int,
           Claims(tick', feeGrowthGlobal', ticks', sqrtPrice', positions', t)
           <= Claims(tick, feeGrowthGlobal, ticks, sqrtPrice, positions, t) + Scale(t) * x,
           protocolFees'[t] = protocolFees[t] + y,
           Deposits(deposit', t) = Deposits(deposit, t) + z
    PROVE  Books(t)' <= Books(t) + Scale(t) * (x + y + z)
<1>1. /\ deposit' \in [Users -> [Token -> Nat]] /\ protocolFees'[t] \in Int
  BY DEF LockInv, LockTypes, Purses
<1>2. PICK S \in Nat, c \in Int, c2 \in Int, f \in Int, d \in Int :
        /\ S = Scale(t)
        /\ c = Claims(tick, feeGrowthGlobal, ticks, sqrtPrice, positions, t)
        /\ c2 = Claims(tick', feeGrowthGlobal', ticks', sqrtPrice', positions', t)
        /\ f = protocolFees[t] /\ d = Deposits(deposit, t)
  BY ScaleIs, NowIs, ClaimIs
<1>3. Books(t) = c + S * (f + d)  BY <1>2 DEF Books, Booked
<1>4. Books(t)' = c2 + S * ((f + y) + (d + z))  BY <1>2 DEF Books, Booked
<1>5. PICK a \in Int, b \in Int, e \in Int, h \in Int, i \in Int :
        a = S * x /\ b = S * y /\ e = S * z /\ h = S * f /\ i = S * d
  <2>1. S * x \in Int /\ S * y \in Int /\ S * z \in Int /\ S * f \in Int /\ S * d \in Int
    OBVIOUS
  <2> QED  BY <2>1
<1>6. S * (f + d) = h + i /\ S * ((f + y) + (d + z)) = h + b + i + e
      /\ S * (x + y + z) = a + b + e
  BY <1>5
<1>7. c2 <= c + a  BY <1>2, <1>5
<1>8. c2 + (h + b + i + e) <= c + (h + i) + (a + b + e)  BY <1>7
<1> QED  BY <1>2, <1>3, <1>4, <1>6, <1>8

\* A mint asks for what its claim is worth.
LEMMA MintMoney ==
    ASSUME LockInv, BookInv, MoneyInv, LockInv', BookInv', NEW k \in Keys, NEW dL \in Liquidities,
           Mint(k, dL)
    PROVE  MoneyInv'
<1> DEFINE f == [op |-> "mint", phase |-> "pay", unlocks |-> ~permit,
                 due |-> PositionAmounts(k, dL),
                 before |-> <<Held(balance, 0), Held(balance, 1)>>]
<1>1. /\ Outside /\ Save /\ Lock /\ ModifyPosition(k, dL, <<0, 0>>)
      /\ calls' = Append(calls, f)
      /\ UNCHANGED <<feeProtocol, protocolFees, deposit, balance>>
  BY DEF Mint, Begin
<1>2. /\ f.op = "mint" /\ {"before", "due"} \subseteq DOMAIN f
      /\ \A t \in Token : f.due[t + 1] = PositionAmounts(k, dL)[t + 1]
                          /\ f.before[t + 1] = Held(balance, t)
  <2>1. \A t \in Token : <<Held(balance, 0), Held(balance, 1)>>[t + 1] = Held(balance, t)
    BY DEF Token
  <2> QED  BY <2>1
<1> HIDE DEF f
<1>3. calls = Idle /\ unlocked  BY <1>1, LockKeepsOthersOut DEF Lock
<1>4. calls' # Idle /\ Top' = f  BY <1>1, <1>3, TopPushed DEF Idle
<1>5. sqrtPrice # 0 /\ Book /\ Book'  BY <1>3 DEF BookInv
<1>6. dL \in Int /\ dL >= 0  BY PoolAssumption
<1>7. Modified(k, dL, <<0, 0>>)  BY <1>1, <1>5, <1>6, ModifyIs DEF MoneyInv
<1>8. \A t \in Token : <<0, 0>>[t + 1] = 0  BY DEF Token
<1>9. ASSUME NEW t \in Token
      PROVE  /\ f.due[t + 1] \in Nat
             /\ Claims(tick, feeGrowthGlobal, ticks', sqrtPrice, positions', t)
                <= Claims(tick, feeGrowthGlobal, ticks, sqrtPrice, positions, t)
                   + Scale(t) * f.due[t + 1]
  <2>1. PICK n \in Int : n = PositionAmounts(k, dL)[t + 1] /\ n >= 0
    <3>1. k.lower < k.upper  BY <1>7 DEF Modified
    <3>2. sqrtPrice \in Nat /\ InTick(sqrtPrice, tick)  BY <1>5 DEF Book, BookState
    <3> QED  BY <1>6, <3>1, <3>2, AmountsCover
  <2>2. Claims(tick, feeGrowthGlobal, ticks', sqrtPrice, positions', t)
        <= Claims(tick, feeGrowthGlobal, ticks, sqrtPrice, positions, t) + Scale(t) * (n + 0)
    <3>1. PICK g : g = <<0, 0>>  OBVIOUS
    <3>2. Modified(k, dL, g) /\ g[t + 1] = 0 /\ g[t + 1] \in Int  BY <1>7, <1>8, <3>1
    <3> QED  BY <1>5, <1>6, <2>1, <3>2, ModifyCovers DEF MoneyInv
  <2>3. n + 0 = n  OBVIOUS
  <2> QED  BY <1>2, <2>1, <2>2, <2>3
<1>10. Sound(tick', feeGrowthGlobal', ticks', sqrtPrice', positions')
       /\ UNCHANGED <<tick, feeGrowthGlobal, sqrtPrice>>
  BY <1>7 DEF Modified
<1>11. Purses'  BY <1>1 DEF MoneyInv, Purses
<1>12. CallOK(f, balance')
  <2>1. \A t \in Token : Held(balance, t) \in Int  BY NowIs
  <2>2. \A h \in Int : h <= h  OBVIOUS
  <2> QED  BY <1>1, <1>2, <1>9, <2>1, <2>2 DEF CallOK
<1>13. ASSUME NEW t \in Token PROVE Carries(t)
  <2>1. PICK n \in Int, h \in Int : n = f.due[t + 1] /\ h = Held(balance, t)  BY <1>9, NowIs
  <2>2. Books(t)' <= Books(t) + Scale(t) * (n + 0 + 0)
    <3>1. protocolFees'[t] = protocolFees[t] + 0 /\ Deposits(deposit', t) = Deposits(deposit, t) + 0
      BY <1>1, NowIs
    <3>2. Claims(tick', feeGrowthGlobal', ticks', sqrtPrice', positions', t)
          <= Claims(tick, feeGrowthGlobal, ticks, sqrtPrice, positions, t) + Scale(t) * n
      BY <1>9, <1>10, <2>1
    <3> QED  BY <1>10, <1>11, <3>1, <3>2, BooksMove
  <2>3. Backing(t) = h /\ Backing(t)' = h + n
    BY <1>2, <1>3, <1>4, <2>1 DEF Backing, BackedBy
  <2>4. n + 0 + 0 = n /\ h + n <= h + n  OBVIOUS
  <2> QED  BY <2>2, <2>3, <2>4 DEF Carries
<1>14. saved' = State  BY <1>1, <1>3 DEF Save
<1>15. Sound(tick, feeGrowthGlobal, ticks, sqrtPrice, positions)'  BY <1>10
<1>16. CallOK(Top, balance)'  BY <1>4, <1>12
<1> QED  BY <1>3, <1>11, <1>13, <1>14, <1>15, <1>16, MoneyGoesOn

\* What a burn adds to the tokens owed is what the liquidity was worth.
LEMMA BurnMoney ==
    ASSUME LockInv, BookInv, MoneyInv, LockInv', BookInv', NEW k \in Keys,
           NEW dL \in Liquidities \cup {0}, Burn(k, dL)
    PROVE  MoneyInv'
<1>1. PICK due : due = PositionAmounts(k, -dL)  OBVIOUS
<1>2. /\ Outside /\ LockAndRelease /\ ModifyPosition(k, -dL, <<-due[1], -due[2]>>)
      /\ UNCHANGED <<feeProtocol, protocolFees, deposit, balance, calls, saved>>
  BY <1>1 DEF Burn, Begin
<1>3. calls = Idle /\ unlocked /\ sqrtPrice # 0 /\ Book /\ Book'
  <2>1. calls = Idle /\ unlocked  BY <1>2, LockKeepsOthersOut DEF LockAndRelease
  <2> QED  BY <2>1 DEF BookInv
<1>4. PICK d \in Int : d = -dL
  <2>1. dL \in Nat  BY PoolAssumption
  <2> QED  BY <2>1
<1>5. k.lower < k.upper  BY <1>2 DEF ModifyPosition, Modifiable
<1>6. \A t \in Token : due[t + 1] \in Int
  <2>1. sqrtPrice \in Nat /\ InTick(sqrtPrice, tick)  BY <1>3 DEF Book, BookState
  <2> QED  BY <1>1, <1>4, <1>5, <2>1, AmountsCover
<1>7. due[1] \in Int /\ due[2] \in Int
  <2>1. 0 \in Token /\ 1 \in Token /\ 0 + 1 = 1 /\ 1 + 1 = 2  BY DEF Token
  <2> QED  BY <1>6, <2>1
<1>8. PICK g : g = <<-due[1], -due[2]>>  OBVIOUS
<1>9. /\ g[1] \in Int /\ g[2] \in Int
      /\ \A t \in Token : g[t + 1] = -due[t + 1] /\ g[t + 1] \in Int
  <2>1. g[1] = -due[1] /\ g[2] = -due[2]  BY <1>8
  <2>2. ASSUME NEW t \in Token PROVE g[t + 1] = -due[t + 1]
    <3>1. CASE t = 0
      <4>1. t + 1 = 1  BY <3>1
      <4> QED  BY <2>1, <4>1
    <3>2. CASE t = 1
      <4>1. t + 1 = 2  BY <3>2
      <4> QED  BY <2>1, <4>1
    <3> QED  BY <3>1, <3>2 DEF Token
  <2> QED  BY <1>6, <1>7, <2>1, <2>2
<1>10. Modified(k, d, g)
  <2>1. ModifyPosition(k, d, g)  BY <1>2, <1>4, <1>8
  <2> QED  BY <1>3, <1>9, <2>1, ModifyIs DEF MoneyInv
<1>11. Sound(tick', feeGrowthGlobal', ticks', sqrtPrice', positions')
       /\ UNCHANGED <<tick, feeGrowthGlobal, sqrtPrice>>
  BY <1>10 DEF Modified
<1>12. Purses'  BY <1>2 DEF MoneyInv, Purses
<1>13. ASSUME NEW t \in Token PROVE Carries(t)
  <2>1. PICK n \in Int : n = due[t + 1]  BY <1>6
  <2>2. Claims(tick, feeGrowthGlobal, ticks', sqrtPrice, positions', t)
        <= Claims(tick, feeGrowthGlobal, ticks, sqrtPrice, positions, t) + Scale(t) * (n + (-n))
    <3>1. PositionAmounts(k, d)[t + 1] = n /\ g[t + 1] = -n  BY <1>1, <1>4, <1>9, <2>1
    <3> QED  BY <1>3, <1>9, <1>10, <3>1, ModifyCovers DEF MoneyInv
  <2>3. n + (-n) = 0  OBVIOUS
  <2>4. Books(t)' <= Books(t) + Scale(t) * (0 + 0 + 0)
    <3>1. protocolFees'[t] = protocolFees[t] + 0 /\ Deposits(deposit', t) = Deposits(deposit, t) + 0
      BY <1>2, NowIs
    <3>2. Claims(tick', feeGrowthGlobal', ticks', sqrtPrice', positions', t)
          <= Claims(tick, feeGrowthGlobal, ticks, sqrtPrice, positions, t) + Scale(t) * 0
      BY <1>11, <2>2, <2>3
    <3> QED  BY <1>11, <1>12, <3>1, <3>2, BooksMove
  <2>5. PICK h \in Int : h = Backing(t)  BY NowIs
  <2>6. Backing(t)' = h  BY <1>2, <1>3, <2>5 DEF Backing
  <2>7. h + (0 + 0 + 0) <= h /\ 0 + 0 + 0 \in Int  OBVIOUS
  <2> QED  BY <2>4, <2>5, <2>6, <2>7 DEF Carries
<1>14. Sound(tick, feeGrowthGlobal, ticks, sqrtPrice, positions)'  BY <1>11
<1> QED  BY <1>2, <1>3, <1>12, <1>13, <1>14, MoneyGoesOn

\* A pool without a price owes its positions no liquidity.
LEMMA InitializeMoney ==
    ASSUME LockInv, BookInv, MoneyInv, LockInv', BookInv', NEW p \in InitialPrices, Initialize(p)
    PROVE  MoneyInv'
<1>1. /\ sqrtPrice = 0 /\ sqrtPrice' = p /\ feeProtocol' = [t \in Token |-> 0]
      /\ UNCHANGED <<feeGrowthGlobal, protocolFees, deposit, ticks, positions, balance, calls, saved>>
  BY DEF Initialize
<1>2. calls = Idle  BY <1>1 DEF BookInv
<1>3. \A k \in Keys : positions[k].liquidity = 0  BY <1>1 DEF BookInv, Book, BookState
<1>4. Sound(tick', feeGrowthGlobal', ticks', sqrtPrice', positions')
  <2>1. tick' \in Int /\ sqrtPrice' \in Nat  BY DEF BookInv, Book, BookState
  <2> QED  BY <1>1, <2>1 DEF MoneyInv, Sound
<1>5. Purses'  BY <1>1 DEF MoneyInv, Purses
<1>6. ASSUME NEW t \in Token PROVE Carries(t)
  <2>1. ASSUME NEW k \in Keys
        PROVE  Claim(tick', feeGrowthGlobal', ticks', sqrtPrice', positions', k, t)
               = Claim(tick, feeGrowthGlobal, ticks, sqrtPrice, positions, k, t)
    <3>1. /\ feeGrowthGlobal[t] \in Int /\ positions[k].last[t] \in Int
          /\ positions[k].owed[t] \in Int
      BY DEF MoneyInv, Sound, OwedOK
    <3>2. /\ Rate(tick, feeGrowthGlobal[t], ticks, sqrtPrice, k, t) \in Int
          /\ Rate(tick', feeGrowthGlobal'[t], ticks', sqrtPrice', k, t) \in Int
      BY <1>1, <1>4, <3>1, RateIs DEF MoneyInv, Sound
    <3>3. PICK a \in Int, b \in Int, U \in Nat, x \in Int, c \in Int :
            /\ a = Rate(tick, feeGrowthGlobal[t], ticks, sqrtPrice, k, t)
            /\ b = Rate(tick', feeGrowthGlobal'[t], ticks', sqrtPrice', k, t)
            /\ U = Unit(t) /\ x = positions[k].last[t] /\ c = Scale(t) * positions[k].owed[t]
      <4>1. PICK S \in Nat, w \in Int : S = Scale(t) /\ w = positions[k].owed[t]
        BY <3>1, ScaleIs
      <4>2. S * w \in Int  OBVIOUS
      <4> QED  BY <3>1, <3>2, <4>1, <4>2, LevelFacts
    <3>4. PICK y \in Int : y = U * x
      <4>1. U * x \in Int  OBVIOUS
      <4> QED  BY <4>1
    <3>5. c + 0 * (a - y) = c + 0 * (b - y)  OBVIOUS
    <3>6. positions' = positions /\ positions[k].liquidity = 0  BY <1>1, <1>3
    <3>7. Claim(tick, feeGrowthGlobal, ticks, sqrtPrice, positions, k, t) = c + 0 * (a - y)
      BY <3>3, <3>4, <3>6 DEF Claim
    <3>8. Claim(tick', feeGrowthGlobal', ticks', sqrtPrice', positions', k, t) = c + 0 * (b - y)
      BY <3>3, <3>4, <3>6 DEF Claim
    <3> QED  BY <3>5, <3>7, <3>8
  <2>2. Claims(tick', feeGrowthGlobal', ticks', sqrtPrice', positions', t)
        = Claims(tick, feeGrowthGlobal, ticks, sqrtPrice, positions, t)
    BY <2>1, SameClaims
  <2>3. Books(t)' = Books(t)  BY <1>1, <2>2 DEF Books, Booked
  <2>4. Backing(t)' = Backing(t)  BY <1>1, <1>2 DEF Backing
  <2>5. \A h \in Int : h <= h  OBVIOUS
  <2> QED  BY <2>3, <2>4, <2>5, NowIs, CarriesSame
<1>7. Sound(tick, feeGrowthGlobal, ticks, sqrtPrice, positions)'  BY <1>4
<1> QED  BY <1>1, <1>2, <1>5, <1>6, <1>7, MoneyGoesOn

\* The owner's part of the fee is of fees to come.
LEMMA SetFeeProtocolMoney ==
    ASSUME LockInv, MoneyInv, LockInv', NEW f0 \in FeeProtocols, NEW f1 \in FeeProtocols,
           SetFeeProtocol(f0, f1)
    PROVE  MoneyInv'
<1>1. /\ Outside /\ LockAndRelease
      /\ feeProtocol' = [t \in Token |-> IF t = 0 THEN f0 ELSE f1]
      /\ UNCHANGED <<price, protocolFees, deposit, positions, balance, calls, saved>>
  BY DEF SetFeeProtocol
<1>2. calls = Idle  BY <1>1, LockKeepsOthersOut DEF LockAndRelease
<1>3. f0 \in Nat /\ f1 \in Nat  BY PoolAssumption
<1>4. Purses'  BY <1>1, <1>3 DEF MoneyInv, Purses
<1>5. ASSUME NEW t \in Token PROVE Carries(t)
  <2>1. Books(t)' = Books(t)  BY <1>1, BooksSame DEF price
  <2>2. Backing(t)' = Backing(t)  BY <1>1, <1>2 DEF Backing
  <2>3. \A h \in Int : h <= h  OBVIOUS
  <2> QED  BY <2>1, <2>2, <2>3, NowIs, CarriesSame
<1>6. Sound(tick, feeGrowthGlobal, ticks, sqrtPrice, positions)'
  BY <1>1 DEF MoneyInv, price
<1> QED  BY <1>1, <1>2, <1>4, <1>5, <1>6, MoneyGoesOn

\* A failed transaction leaves the money as it was before.
LEMMA RevertMoney ==
    ASSUME MoneyInv, Revert
    PROVE  MoneyInv'
<1>1. /\ calls # Idle /\ calls' = Idle
      /\ sqrtPrice' = saved.sqrtPrice /\ tick' = saved.tick /\ feeProtocol' = saved.feeProtocol
      /\ feeGrowthGlobal' = saved.feeGrowthGlobal /\ protocolFees' = saved.protocolFees
      /\ deposit' = saved.deposit /\ ticks' = saved.ticks /\ positions' = saved.positions
      /\ balance' = saved.balance
  BY DEF Revert
<1>2. SavedMoney  BY <1>1 DEF MoneyInv
<1>3. Sound(tick, feeGrowthGlobal, ticks, sqrtPrice, positions)'
  BY <1>1, <1>2 DEF SavedMoney
<1>4. Purses'  BY <1>1, <1>2 DEF SavedMoney, Purses
<1>5. ASSUME NEW t \in Token PROVE Books(t)' <= Scale(t) * Backing(t)'
  <2>1. Backing(t)' = Held(saved.balance, t)  BY <1>1 DEF Backing
  <2>2. Books(t)' = Booked(saved.tick, saved.feeGrowthGlobal, saved.ticks, saved.sqrtPrice,
                           saved.positions, saved.protocolFees, saved.deposit, t)
    BY <1>1 DEF Books
  <2> QED  BY <1>2, <2>1, <2>2 DEF SavedMoney
<1>6. \A t \in Token : (Books(t) <= Scale(t) * Backing(t))'  BY <1>5
<1> QED  BY <1>1, <1>3, <1>4, <1>6 DEF MoneyInv

\* A step that changes nothing.
LEMMA StutterMoney ==
    ASSUME MoneyInv, UNCHANGED vars
    PROVE  MoneyInv'
<1>1. UNCHANGED <<sqrtPrice, tick, feeProtocol, feeGrowthGlobal, protocolFees, deposit, ticks,
                  positions, balance, calls, saved>>
  BY DEF vars
<1>2. \A t \in Token : Books(t)' = Books(t) /\ Backing(t)' = Backing(t)
  BY <1>1 DEF Books, Backing, Top
<1>3. Purses' /\ (Sound(tick, feeGrowthGlobal, ticks, sqrtPrice, positions)')
  BY <1>1 DEF MoneyInv, Purses
<1>4. \A t \in Token : (Books(t) <= Scale(t) * Backing(t))'  BY <1>2 DEF MoneyInv
<1>5. Top' = Top  BY <1>1 DEF Top
<1>6. SavedMoney' = SavedMoney  BY <1>1 DEF SavedMoney
<1>7. calls' # Idle => CallOK(Top', balance') /\ SavedMoney'  BY <1>1, <1>5, <1>6 DEF MoneyInv
<1>8. (calls # Idle => CallOK(Top, balance) /\ SavedMoney)'  BY <1>7
<1> QED  BY <1>3, <1>4, <1>8 DEF MoneyInv

(***************************************************************************)
(* The ends of the calls.                                                   *)
(***************************************************************************)
\* A mint ends when the balances show what it asked for.
LEMMA MintEndMoney ==
    ASSUME LockInv, MoneyInv, LockInv', MintEnd
    PROVE  MoneyInv'
<1>1. /\ calls # Idle /\ Top.op = "mint" /\ Return
      /\ UNCHANGED <<price, feeProtocol, protocolFees, deposit, positions, balance>>
      /\ \A t \in Token : Top.due[t + 1] > 0 =>
             Top.before[t + 1] + Top.due[t + 1] <= Held(balance, t)
  BY DEF MintEnd, At
<1>2. CallOK(Top, balance)  BY <1>1 DEF MoneyInv
<1>3. ASSUME NEW t \in Token PROVE BackedBy(Top, balance, t) <= Held(balance, t)
  <2>1. PICK b \in Int, d \in Nat, h \in Int :
          b = Top.before[t + 1] /\ d = Top.due[t + 1] /\ h = Held(balance, t) /\ b <= h
    BY <1>1, <1>2, NowIs DEF CallOK
  <2>2. d > 0 => b + d <= h  BY <1>1, <2>1
  <2>3. b + d <= h  BY <2>1, <2>2
  <2> QED  BY <1>1, <2>1, <2>3 DEF BackedBy
<1> QED  BY <1>1, <1>3, MoneyReturns

\* collect, collectProtocol, swap and tokenReceived return; nothing is booked on what they ask for any more.
LEMMA EndMoney ==
    ASSUME LockInv, MoneyInv, LockInv', CollectEnd \/ SwapEnd \/ ReceivedEnd
    PROVE  MoneyInv'
<1>1. /\ calls # Idle /\ Return
      /\ UNCHANGED <<price, feeProtocol, protocolFees, deposit, positions, balance>>
      /\ Top.op # "mint" /\ (Top.op = "swap" => Top.phase \in {"out", "end"})
  BY DEF CollectEnd, SwapEnd, ReceivedEnd, At
<1>2. \A t \in Token : BackedBy(Top, balance, t) = Held(balance, t)
  BY <1>1 DEF BackedBy
<1>3. \A t \in Token : BackedBy(Top, balance, t) <= Held(balance, t)
  <2>1. \A h \in Int : h <= h  OBVIOUS
  <2> QED  BY <1>2, <2>1, NowIs
<1> QED  BY <1>1, <1>3, MoneyReturns

\* A swap takes one token and gives the other.
LEMMA InOutIs ==
    ASSUME NEW o \in Orders
    PROVE  /\ In(o) \in Token /\ Out(o) \in Token /\ In(o) # Out(o)
           /\ \A t \in Token : t = In(o) \/ t = Out(o)
           /\ o.ver \in Version
<1>1. o.zeroForOne \in BOOLEAN /\ o.ver \in Version  BY PoolAssumption
<1>2. CASE o.zeroForOne
  <2>1. In(o) = 0 /\ Out(o) = 1  BY <1>2 DEF In, Out
  <2> QED  BY <1>1, <2>1 DEF Token
<1>3. CASE ~ o.zeroForOne
  <2>1. In(o) = 1 /\ Out(o) = 0  BY <1>3 DEF In, Out
  <2> QED  BY <1>1, <2>1 DEF Token
<1> QED  BY <1>2, <1>3

\* What a callback pays comes on top of what the pool holds.
LEMMA MintCallbackMoney ==
    ASSUME LockInv, MoneyInv, LockInv', NEW paid, MintCallback(paid)
    PROVE  MoneyInv'
<1>1. /\ calls # Idle /\ Top.op = "mint" /\ calls' = AtPhase("paid")
      /\ balance' = [t \in Token |->
           [balance[t] EXCEPT !["erc20"] = IF t \in paid THEN @ + Top.due[t + 1] ELSE @]]
      /\ UNCHANGED <<price, positions, feeProtocol, protocolFees, deposit, saved>>
  BY DEF MintCallback, At
<1>2. CallOK(Top, balance) /\ BalanceOK(balance)  BY <1>1 DEF MoneyInv, Purses
<1>3. ASSUME NEW t \in Token
      PROVE  balance'[t] \in [Version -> Int] /\ Held(balance, t) <= Held(balance', t)
  <2>1. PICK b : b = balance[t] /\ b \in [Version -> Int]  BY <1>2 DEF BalanceOK
  <2>2. PICK d \in Nat : d = Top.due[t + 1]  BY <1>1, <1>2 DEF CallOK
  <2>3. PICK x \in Int, y \in Int : x = b["erc20"] /\ y = b["erc223"]
    BY <2>1 DEF Version
  <2>4. PICK n \in Int : n = (IF t \in paid THEN x + d ELSE x) /\ x <= n
    <3>1. (IF t \in paid THEN x + d ELSE x) \in Int /\ x <= (IF t \in paid THEN x + d ELSE x)
      OBVIOUS
    <3> QED  BY <3>1
  <2>5. balance'[t] = [b EXCEPT !["erc20"] = n]  BY <1>1, <2>1, <2>2, <2>3, <2>4
  <2>6. balance'[t] \in [Version -> Int]  BY <2>1, <2>5
  <2>7. balance'[t]["erc20"] = n /\ balance'[t]["erc223"] = y
    BY <2>1, <2>3, <2>5 DEF Version
  <2>8. Held(balance, t) = x + y /\ Held(balance', t) = n + y
    BY <2>1, <2>3, <2>7 DEF Held
  <2>9. x + y <= n + y  BY <2>4
  <2> QED  BY <2>6, <2>8, <2>9
<1>4. BalanceOK(balance')
  <2>1. DOMAIN balance' = Token /\ balance' = [t \in Token |-> balance'[t]]  BY <1>1
  <2> QED  BY <1>3, <2>1 DEF BalanceOK
<1>5. SameCall(Top, Top')  BY <1>1, TopSame
<1>6. ASSUME NEW t \in Token PROVE BackedBy(Top, balance, t) <= BackedBy(Top', balance', t)
  <2>1. PICK b \in Int, d \in Nat : b = Top.before[t + 1] /\ d = Top.due[t + 1]
    BY <1>1, <1>2 DEF CallOK
  <2>2. Top'.op = Top.op /\ Top'.before = Top.before /\ Top'.due = Top.due
    BY <1>1, <1>2, <1>5 DEF SameCall, Frame, CallOK
  <2>3. BackedBy(Top, balance, t) = b + d /\ BackedBy(Top', balance', t) = b + d
    BY <1>1, <2>1, <2>2 DEF BackedBy
  <2>4. b + d <= b + d  OBVIOUS
  <2> QED  BY <2>3, <2>4
<1> QED  BY <1>1, <1>3, <1>4, <1>6, StillOnTop

\* So does what the callback of a swap pays, which is not what it gets.
LEMMA SwapCallbackMoney ==
    ASSUME LockInv, MoneyInv, LockInv', NEW pays \in BOOLEAN, SwapCallback(pays)
    PROVE  MoneyInv'
<1>1. /\ calls # Idle /\ Top.op = "swap" /\ Top.phase = "pay" /\ calls' = AtPhase("paid")
      /\ balance' = IF pays THEN [balance EXCEPT ![In(Top.order)]["erc20"] = @ + Top.due]
                            ELSE balance
      /\ UNCHANGED <<price, positions, feeProtocol, protocolFees, deposit, saved>>
  BY DEF SwapCallback, At
<1>2. CallOK(Top, balance) /\ BalanceOK(balance)  BY <1>1 DEF MoneyInv, Purses
<1>3. PICK o \in Orders, d \in Int, n \in Int, b \in Int :
        o = Top.order /\ d = Top.due /\ n = Top.out /\ b = Top.before
  BY <1>1, <1>2 DEF CallOK
<1>4. In(o) \in Token /\ Out(o) \in Token /\ In(o) # Out(o) /\ \A t \in Token : t = In(o) \/ t = Out(o)
  BY InOutIs
<1>5. BalanceOK(balance') /\ Held(balance', Out(o)) = Held(balance, Out(o))
  <2>1. CASE pays
    <3>1. Paid(balance, balance', In(o), "erc20", d)  BY <1>1, <1>3, <2>1 DEF Paid
    <3>2. "erc20" \in Version  BY DEF Version
    <3>3. BalanceOK(balance')
          /\ \A i \in Token : Held(balance', i) = Held(balance, i) + (IF i = In(o) THEN d ELSE 0)
      BY <1>2, <1>4, <3>1, <3>2, PaymentAdds
    <3>4. PICK h \in Int : h = Held(balance, Out(o))  BY <1>4, NowIs
    <3>5. Held(balance', Out(o)) = h + 0  BY <1>4, <3>3, <3>4
    <3> QED  BY <3>3, <3>4, <3>5
  <2>2. CASE ~ pays  BY <1>1, <1>2, <2>2
  <2> QED  BY <2>1, <2>2
<1>6. SameCall(Top, Top') /\ Top'.phase = "paid"  BY <1>1, TopSame
<1>7. /\ Top'.op = "swap" /\ Top'.order = o /\ Top'.due = d /\ Top'.out = n /\ Top'.before = b
  BY <1>1, <1>2, <1>3, <1>6 DEF SameCall, Frame, CallOK
<1>8. ASSUME NEW t \in Token PROVE BackedBy(Top, balance, t) <= BackedBy(Top', balance', t)
  <2>1. PICK h \in Int : h = Held(balance, Out(o))  BY <1>4, NowIs
  <2>2. CASE t = In(o)
    <3>1. BackedBy(Top, balance, t) = b + d /\ BackedBy(Top', balance', t) = b + d
      BY <1>1, <1>3, <1>6, <1>7, <2>2 DEF BackedBy
    <3>2. b + d <= b + d  OBVIOUS
    <3> QED  BY <3>1, <3>2
  <2>3. CASE t = Out(o)
    <3>1. BackedBy(Top, balance, t) = h - n /\ BackedBy(Top', balance', t) = h - n
      BY <1>1, <1>3, <1>4, <1>5, <1>6, <1>7, <2>1, <2>3 DEF BackedBy
    <3>2. h - n <= h - n  OBVIOUS
    <3> QED  BY <3>1, <3>2
  <2> QED  BY <1>4, <2>2, <2>3
<1> QED  BY <1>1, <1>5, <1>8, StillOnTop

\* The output is delivered when the input is there.
LEMMA SwapDeliverMoney ==
    ASSUME LockInv, MoneyInv, LockInv', SwapDeliver
    PROVE  MoneyInv'
<1>1. PICK p : /\ calls # Idle /\ Top.op = "swap" /\ Top.phase = "paid" /\ calls' = AtPhase(p)
               /\ p \in {"out", "end"}
               /\ Top.before + Top.due <= Held(balance, In(Top.order))
               /\ Deliver(Out(Top.order), Top.order.ver, Top.out)
               /\ UNCHANGED <<price, positions, feeProtocol, protocolFees, deposit, saved>>
  BY DEF SwapDeliver, At, AfterDelivery
<1>2. CallOK(Top, balance) /\ BalanceOK(balance)  BY <1>1 DEF MoneyInv, Purses
<1>3. PICK o \in Orders, d \in Int, n \in Int, b \in Int :
        o = Top.order /\ d = Top.due /\ n = Top.out /\ b = Top.before
  BY <1>1, <1>2 DEF CallOK
<1>4. /\ In(o) \in Token /\ Out(o) \in Token /\ In(o) # Out(o) /\ o.ver \in Version
      /\ \A t \in Token : t = In(o) \/ t = Out(o)
  BY InOutIs
<1>5. Deliver(Out(o), o.ver, n)  BY <1>1, <1>3
<1>6. /\ BalanceOK(balance')
      /\ \A i \in Token : Held(balance', i) = Held(balance, i) + (IF i = Out(o) THEN -n ELSE 0)
  BY <1>2, <1>4, <1>5, DeliverTakes
<1>7. SameCall(Top, Top') /\ Top'.phase = p  BY <1>1, TopSame
<1>8. Top'.op = "swap" /\ Top'.phase \notin {"pay", "paid"}
  BY <1>1, <1>7 DEF SameCall, Frame
<1>9. ASSUME NEW t \in Token PROVE BackedBy(Top, balance, t) <= BackedBy(Top', balance', t)
  <2>1. PICK h \in Int, i \in Int : h = Held(balance, Out(o)) /\ i = Held(balance, In(o))
    BY <1>4, NowIs
  <2>2. CASE t = In(o)
    <3>1. BackedBy(Top, balance, t) = b + d  BY <1>1, <1>3, <2>2 DEF BackedBy
    <3>2. Held(balance', t) = i + 0  BY <1>4, <1>6, <2>1, <2>2
    <3>3. BackedBy(Top', balance', t) = i  BY <1>8, <2>1, <3>2 DEF BackedBy
    <3> QED  BY <1>1, <1>3, <2>1, <3>1, <3>3
  <2>3. CASE t = Out(o)
    <3>1. BackedBy(Top, balance, t) = h - n  BY <1>1, <1>3, <1>4, <2>1, <2>3 DEF BackedBy
    <3>2. Held(balance', t) = h + (-n)  BY <1>6, <1>4, <2>1, <2>3
    <3>3. BackedBy(Top', balance', t) = h + (-n)  BY <1>8, <3>2 DEF BackedBy
    <3>4. h - n <= h + (-n)  OBVIOUS
    <3> QED  BY <3>1, <3>3, <3>4
  <2> QED  BY <1>4, <2>2, <2>3
<1> QED  BY <1>1, <1>6, <1>9, StillOnTop

\* A deposit is booked as it comes in.
LEMMA TokenReceivedMoney ==
    ASSUME LockInv, MoneyInv, LockInv', NEW u \in Users, NEW t \in Token, NEW n \in Values,
           NEW payload, TokenReceived(u, t, n, payload)
    PROVE  MoneyInv'
<1> DEFINE f == [op |-> "tokenReceived", unlocks |-> TRUE, from |-> u, token |-> t,
                 payload |-> payload,
                 phase |-> IF payload.kind = "swap" THEN "dispatch" ELSE "refund"]
<1>1. /\ Outside /\ Save /\ unlocked
      /\ deposit' = [deposit EXCEPT ![u][t] = @ + n]
      /\ balance' = [balance EXCEPT ![t]["erc223"] = @ + n]
      /\ calls' = Append(calls, f)
      /\ UNCHANGED <<price, feeProtocol, protocolFees, positions>>
  BY DEF TokenReceived, Begin
<1>2. f.op = "tokenReceived"  OBVIOUS
<1> HIDE DEF f
<1>3. calls = Idle  BY <1>1, LockKeepsOthersOut
<1>4. calls' # Idle /\ Top' = f  BY <1>1, <1>3, TopPushed DEF Idle
<1>5. n \in Nat /\ deposit \in [Users -> [Token -> Nat]]
  BY PoolAssumption DEF LockInv, LockTypes
<1>6. /\ BalanceOK(balance')
      /\ \A i \in Token : Held(balance', i) = Held(balance, i) + (IF i = t THEN n ELSE 0)
  <2>1. BalanceOK(balance) /\ "erc223" \in Version  BY DEF MoneyInv, Purses, Version
  <2>2. Paid(balance, balance', t, "erc223", n)  BY <1>1 DEF Paid
  <2>3. n \in Int  BY <1>5
  <2> QED  BY <2>1, <2>2, <2>3, PaymentAdds
<1>7. \A i \in Token : Deposits(deposit', i) = Deposits(deposit, i) + (IF i = t THEN n ELSE 0)
  <2>1. PICK x \in Nat : x = deposit[u][t]  BY <1>5
  <2>2. Changed(deposit, deposit', u, t, x + n) /\ x + n \in Nat
    BY <1>1, <1>5, <2>1 DEF Changed
  <2>3. \A i \in Token : Deposits(deposit', i)
                         = Deposits(deposit, i) + (IF i = t THEN x + n - deposit[u][t] ELSE 0)
    BY <1>5, <2>2, OneDeposit
  <2>4. x + n - deposit[u][t] = n  BY <1>5, <2>1
  <2> QED  BY <2>2, <2>3, <2>4
<1>8. Purses'  BY <1>1, <1>6 DEF MoneyInv, Purses
<1>9. Sound(tick', feeGrowthGlobal', ticks', sqrtPrice', positions')
  BY <1>1 DEF MoneyInv, price
<1>10. ASSUME NEW i \in Token PROVE Carries(i)
  <2>1. PICK z \in Int : z = (IF i = t THEN n ELSE 0)
    <3>1. (IF i = t THEN n ELSE 0) \in Int  BY <1>5
    <3> QED  BY <3>1
  <2>2. Books(i)' <= Books(i) + Scale(i) * (0 + 0 + z)
    <3>1. protocolFees'[i] = protocolFees[i] + 0 /\ Deposits(deposit', i) = Deposits(deposit, i) + z
      <4>1. protocolFees[i] \in Int /\ protocolFees' = protocolFees  BY <1>1, NowIs
      <4>2. protocolFees'[i] = protocolFees[i] + 0  BY <4>1
      <4>3. Deposits(deposit', i) = Deposits(deposit, i) + z  BY <1>7, <2>1
      <4> QED  BY <4>2, <4>3
    <3>2. Claims(tick', feeGrowthGlobal', ticks', sqrtPrice', positions', i)
          = Claims(tick, feeGrowthGlobal, ticks, sqrtPrice, positions, i)
      BY <1>1 DEF price
    <3>3. Claims(tick', feeGrowthGlobal', ticks', sqrtPrice', positions', i)
          <= Claims(tick, feeGrowthGlobal, ticks, sqrtPrice, positions, i) + Scale(i) * 0
      <4>1. PICK S \in Nat, c \in Int :
              S = Scale(i) /\ c = Claims(tick, feeGrowthGlobal, ticks, sqrtPrice, positions, i)
        BY ScaleIs, NowIs
      <4>2. c <= c + S * 0  OBVIOUS
      <4> QED  BY <3>2, <4>1, <4>2
    <3> QED  BY <1>8, <1>9, <3>1, <3>3, BooksMove
  <2>3. PICK h \in Int : h = Held(balance, i)  BY NowIs
  <2>4. Backing(i) = h  BY <1>3, <2>3 DEF Backing
  <2>5. Backing(i)' = h + z
    <3>1. Backing(i)' = BackedBy(f, balance', i)  BY <1>4 DEF Backing
    <3>2. BackedBy(f, balance', i) = Held(balance', i)  BY <1>2 DEF BackedBy
    <3> QED  BY <1>6, <2>1, <2>3, <3>1, <3>2
  <2>6. h + (0 + 0 + z) <= h + z /\ 0 + 0 + z \in Int  OBVIOUS
  <2> QED  BY <2>2, <2>4, <2>5, <2>6 DEF Carries
<1>11. saved' = State  BY <1>1, <1>3 DEF Save
<1>12. CallOK(Top, balance)'
  <2>1. CallOK(f, balance')  BY <1>2 DEF CallOK
  <2> QED  BY <1>4, <2>1
<1>13. Sound(tick, feeGrowthGlobal, ticks, sqrtPrice, positions)'  BY <1>9
<1> QED  BY <1>3, <1>8, <1>10, <1>11, <1>12, <1>13, MoneyGoesOn

\* What is refunded is taken off the books.
LEMMA RefundMoney ==
    ASSUME LockInv, MoneyInv, LockInv', Refund
    PROVE  MoneyInv'
<1>1. PICK u, t, p :
        /\ u = Top.from /\ t = Top.token
        /\ calls # Idle /\ Top.op = "tokenReceived"
        /\ deposit' = [deposit EXCEPT ![u][t] = 0]
        /\ balance' = [balance EXCEPT ![t]["erc223"] = @ - deposit[u][t]]
        /\ calls' = AtPhase(p)
        /\ UNCHANGED <<price, feeProtocol, protocolFees, positions, saved>>
  BY DEF Refund, At
<1>2. u \in Users /\ t \in Token  BY <1>1, DepositOnTop DEF Received, DepositOf
<1>3. deposit \in [Users -> [Token -> Nat]]  BY DEF LockInv, LockTypes
<1>4. PICK n \in Int : n = -deposit[u][t] /\ deposit[u][t] \in Nat
  <2>1. deposit[u][t] \in Nat  BY <1>2, <1>3
  <2> QED  BY <2>1
<1>5. /\ BalanceOK(balance')
      /\ \A i \in Token : Held(balance', i) = Held(balance, i) + (IF i = t THEN n ELSE 0)
  <2>1. BalanceOK(balance) /\ "erc223" \in Version  BY DEF MoneyInv, Purses, Version
  <2>2. Paid(balance, balance', t, "erc223", n)
    <3>1. balance[t]["erc223"] \in Int  BY <1>2, <2>1 DEF BalanceOK
    <3>2. balance[t]["erc223"] - deposit[u][t] = balance[t]["erc223"] + n  BY <1>4, <3>1
    <3> QED  BY <1>1, <3>2 DEF Paid
  <2> QED  BY <1>2, <2>1, <2>2, PaymentAdds
<1>6. \A i \in Token : Deposits(deposit', i) = Deposits(deposit, i) + (IF i = t THEN n ELSE 0)
  <2>1. \A i \in Token : Deposits(deposit', i)
                         = Deposits(deposit, i) + (IF i = t THEN 0 - deposit[u][t] ELSE 0)
    <3>1. Changed(deposit, deposit', u, t, 0)  BY <1>1 DEF Changed
    <3> QED  BY <1>2, <1>3, <3>1, OneDeposit
  <2>2. 0 - deposit[u][t] = n  BY <1>4
  <2> QED  BY <1>1, <2>1, <2>2
<1>7. Purses'  BY <1>1, <1>5 DEF MoneyInv, Purses
<1>8. Sound(tick', feeGrowthGlobal', ticks', sqrtPrice', positions')
  BY <1>1 DEF MoneyInv, price
<1>9. calls' # Idle /\ SameCall(Top, Top')  BY <1>1, TopSame
<1>10. Top'.op = "tokenReceived"  BY <1>1, <1>9 DEF SameCall, Frame
<1>11. ASSUME NEW i \in Token PROVE Carries(i)
  <2>1. PICK z \in Int : z = (IF i = t THEN n ELSE 0)
    <3>1. (IF i = t THEN n ELSE 0) \in Int  OBVIOUS
    <3> QED  BY <3>1
  <2>2. Books(i)' <= Books(i) + Scale(i) * (0 + 0 + z)
    <3>1. protocolFees'[i] = protocolFees[i] + 0 /\ Deposits(deposit', i) = Deposits(deposit, i) + z
      <4>1. protocolFees[i] \in Int /\ protocolFees' = protocolFees  BY <1>1, NowIs
      <4>2. protocolFees'[i] = protocolFees[i] + 0  BY <4>1
      <4>3. Deposits(deposit', i) = Deposits(deposit, i) + z  BY <1>6, <2>1
      <4> QED  BY <4>2, <4>3
    <3>2. Claims(tick', feeGrowthGlobal', ticks', sqrtPrice', positions', i)
          = Claims(tick, feeGrowthGlobal, ticks, sqrtPrice, positions, i)
      BY <1>1 DEF price
    <3>3. Claims(tick', feeGrowthGlobal', ticks', sqrtPrice', positions', i)
          <= Claims(tick, feeGrowthGlobal, ticks, sqrtPrice, positions, i) + Scale(i) * 0
      <4>1. PICK S \in Nat, c \in Int :
              S = Scale(i) /\ c = Claims(tick, feeGrowthGlobal, ticks, sqrtPrice, positions, i)
        BY ScaleIs, NowIs
      <4>2. c <= c + S * 0  OBVIOUS
      <4> QED  BY <3>2, <4>1, <4>2
    <3> QED  BY <1>7, <1>8, <3>1, <3>3, BooksMove
  <2>3. PICK h \in Int : h = Held(balance, i)  BY NowIs
  <2>4. Backing(i) = h  BY <1>1, <2>3 DEF Backing, BackedBy
  <2>5. Backing(i)' = h + z
    <3>1. Backing(i)' = BackedBy(Top', balance', i)  BY <1>9 DEF Backing
    <3>2. BackedBy(Top', balance', i) = Held(balance', i)  BY <1>10 DEF BackedBy
    <3> QED  BY <1>5, <2>1, <2>3, <3>1, <3>2
  <2>6. h + (0 + 0 + z) <= h + z /\ 0 + 0 + z \in Int  OBVIOUS
  <2> QED  BY <2>2, <2>4, <2>5, <2>6 DEF Carries
<1>12. CallOK(Top, balance)'
  <2>1. CallOK(Top', balance')  BY <1>10 DEF CallOK
  <2> QED  BY <2>1
<1>13. Sound(tick, feeGrowthGlobal, ticks, sqrtPrice, positions)'  BY <1>8
<1> QED  BY <1>1, <1>7, <1>11, <1>12, <1>13, MoneyGoesOn

\* What is taken off the books of one token.
TakenOff(i, n) ==
    \A t \in Token : \E x \in Int, y \in Int :
        /\ Claims(tick', feeGrowthGlobal', ticks', sqrtPrice', positions', t)
           = Claims(tick, feeGrowthGlobal, ticks, sqrtPrice, positions, t) + Scale(t) * x
        /\ protocolFees'[t] = protocolFees[t] + y
        /\ x + y = IF t = i THEN -n ELSE 0

\* A collection delivers what it takes off the books.
LEMMA CollectedMoney ==
    ASSUME LockInv, LockInv', MoneyInv,
           NEW i \in Token, NEW v \in Version, NEW n \in Int, Deliver(i, v, n), TakenOff(i, n),
           calls # Idle => Top.op \in {"collect", "collectProtocol"},
           calls' # Idle, Top'.op \in {"collect", "collectProtocol"}, CallOK(Top', balance'),
           IF calls = Idle THEN saved' = State ELSE saved' = saved,
           Sound(tick', feeGrowthGlobal', ticks', sqrtPrice', positions'),
           protocolFees' \in [Token -> Int], UNCHANGED <<feeProtocol, deposit>>
    PROVE  MoneyInv'
<1>1. /\ BalanceOK(balance')
      /\ \A t \in Token : Held(balance', t) = Held(balance, t) + (IF t = i THEN -n ELSE 0)
  BY DeliverTakes DEF MoneyInv, Purses
<1>2. Purses'  BY <1>1 DEF MoneyInv, Purses
<1>3. ASSUME NEW t \in Token PROVE Carries(t)
  <2>1. PICK x \in Int, y \in Int :
          /\ Claims(tick', feeGrowthGlobal', ticks', sqrtPrice', positions', t)
             = Claims(tick, feeGrowthGlobal, ticks, sqrtPrice, positions, t) + Scale(t) * x
          /\ protocolFees'[t] = protocolFees[t] + y
          /\ x + y = IF t = i THEN -n ELSE 0
    BY DEF TakenOff
  <2>2. PICK S \in Nat, c \in Int, c2 \in Int, h \in Int, d \in Nat :
          /\ S = Scale(t) /\ h = Held(balance, t) /\ d = Deposits(deposit, t)
          /\ c = Claims(tick, feeGrowthGlobal, ticks, sqrtPrice, positions, t)
          /\ c2 = Claims(tick', feeGrowthGlobal', ticks', sqrtPrice', positions', t)
    BY ScaleIs, NowIs, ClaimIs
  <2>3. Claims(tick', feeGrowthGlobal', ticks', sqrtPrice', positions', t)
        <= Claims(tick, feeGrowthGlobal, ticks, sqrtPrice, positions, t) + Scale(t) * x
    <3>1. c2 = c + S * x  BY <2>1, <2>2
    <3>2. c2 <= c2  OBVIOUS
    <3>3. c2 <= c + S * x  BY <3>1, <3>2
    <3> QED  BY <2>2, <3>3
  <2>4. protocolFees'[t] = protocolFees[t] + y /\ Deposits(deposit', t) = Deposits(deposit, t) + 0
    <3>1. deposit' = deposit  OBVIOUS
    <3>2. Deposits(deposit', t) = Deposits(deposit, t) + 0  BY <2>2, <3>1
    <3> QED  BY <2>1, <3>2
  <2>5. Books(t)' <= Books(t) + Scale(t) * (x + y + 0)
    <3>1. PICK z \in Int : z = 0  OBVIOUS
    <3>2. Deposits(deposit', t) = Deposits(deposit, t) + z  BY <2>4, <3>1
    <3>3. protocolFees'[t] = protocolFees[t] + y  BY <2>4
    <3>4. Books(t)' <= Books(t) + Scale(t) * (x + y + z)
      BY ONLY LockInv, LockInv', MoneyInv, Sound(tick', feeGrowthGlobal', ticks', sqrtPrice', positions'),
         <1>2, <2>3, <3>2, <3>3, BooksMove
    <3> QED  BY <3>1, <3>4
  <2>6. Backing(t) = h
    <3>1. calls # Idle => BackedBy(Top, balance, t) = Held(balance, t)  BY DEF BackedBy
    <3> QED  BY <2>2, <3>1 DEF Backing
  <2>7. Backing(t)' = h + (x + y)
    <3>1. BackedBy(Top', balance', t) = Held(balance', t)  BY DEF BackedBy
    <3>2. Held(balance', t) = h + (x + y)  BY <1>1, <2>1, <2>2
    <3> QED  BY <3>1, <3>2 DEF Backing
  <2>8. h + (x + y + 0) <= h + (x + y) /\ x + y + 0 \in Int  OBVIOUS
  <2> QED  BY <2>5, <2>6, <2>7, <2>8 DEF Carries
<1>4. Sound(tick, feeGrowthGlobal, ticks, sqrtPrice, positions)'  OBVIOUS
<1>5. CallOK(Top, balance)'  OBVIOUS
<1> QED  BY <1>2, <1>3, <1>4, <1>5, MoneyGoesOn

\* What is taken from a position's tokens owed, or from the protocol's fees.
LEMMA OwedTakenOff ==
    ASSUME LockInv, MoneyInv, NEW k \in Keys, NEW i \in Token, NEW n \in Int,
           Collected(positions, positions', k, i, n), UNCHANGED <<price, protocolFees>>
    PROVE  /\ TakenOff(i, n) /\ protocolFees' \in [Token -> Int]
           /\ Sound(tick', feeGrowthGlobal', ticks', sqrtPrice', positions')
<1>1. Sound(tick, feeGrowthGlobal, ticks, sqrtPrice, positions)  BY DEF MoneyInv
<1>2. ASSUME NEW t \in Token
      PROVE  /\ Sound(tick, feeGrowthGlobal, ticks, sqrtPrice, positions')
             /\ Claims(tick, feeGrowthGlobal, ticks, sqrtPrice, positions', t)
                = Claims(tick, feeGrowthGlobal, ticks, sqrtPrice, positions, t)
                  + Scale(t) * (IF t = i THEN -n ELSE 0)
  BY <1>1, OwedFalls
<1>3. UNCHANGED <<tick, feeGrowthGlobal, ticks, sqrtPrice>>  BY DEF price
<1>4. ASSUME NEW t \in Token
      PROVE  \E x \in Int, y \in Int :
        /\ Claims(tick', feeGrowthGlobal', ticks', sqrtPrice', positions', t)
           = Claims(tick, feeGrowthGlobal, ticks, sqrtPrice, positions, t) + Scale(t) * x
        /\ protocolFees'[t] = protocolFees[t] + y
        /\ x + y = IF t = i THEN -n ELSE 0
  <2>1. PICK x \in Int : x = IF t = i THEN -n ELSE 0
    <3>1. (IF t = i THEN -n ELSE 0) \in Int  OBVIOUS
    <3> QED  BY <3>1
  <2>2. /\ Claims(tick', feeGrowthGlobal', ticks', sqrtPrice', positions', t)
           = Claims(tick, feeGrowthGlobal, ticks, sqrtPrice, positions, t) + Scale(t) * x
    BY <1>2, <1>3, <2>1
  <2>3. protocolFees[t] \in Int  BY NowIs
  <2>4. protocolFees'[t] = protocolFees[t] + 0  BY <2>3
  <2>5. x + 0 = IF t = i THEN -n ELSE 0  BY <2>1
  <2> QED  BY <2>2, <2>4, <2>5
<1>5. protocolFees' \in [Token -> Int]  BY DEF MoneyInv, Purses
<1> QED  BY <1>2, <1>3, <1>4, <1>5 DEF TakenOff

FeesTaken(pf, new, i, n) == new = [pf EXCEPT ![i] = @ - n]

\* Protocol fees that are written off come off the books.
LEMMA FeesTakenOff ==
    ASSUME LockInv, MoneyInv, NEW i \in Token, NEW n \in Int,
           FeesTaken(protocolFees, protocolFees', i, n), UNCHANGED <<price, positions>>
    PROVE  /\ TakenOff(i, n) /\ protocolFees' \in [Token -> Int]
           /\ Sound(tick', feeGrowthGlobal', ticks', sqrtPrice', positions')
<1>1. UNCHANGED <<tick, feeGrowthGlobal, ticks, sqrtPrice, positions>>  BY DEF price
<1>2. protocolFees \in [Token -> Int]  BY DEF MoneyInv, Purses
<1>3. protocolFees' = [protocolFees EXCEPT ![i] = protocolFees[i] - n]  BY DEF FeesTaken
<1>4. protocolFees[i] - n \in Int  BY <1>2
<1>5. protocolFees' \in [Token -> Int]  BY <1>2, <1>3, <1>4
<1>6. ASSUME NEW t \in Token
      PROVE  \E x \in Int, y \in Int :
        /\ Claims(tick', feeGrowthGlobal', ticks', sqrtPrice', positions', t)
           = Claims(tick, feeGrowthGlobal, ticks, sqrtPrice, positions, t) + Scale(t) * x
        /\ protocolFees'[t] = protocolFees[t] + y
        /\ x + y = IF t = i THEN -n ELSE 0
  <2>1. PICK y \in Int : y = IF t = i THEN -n ELSE 0
    <3>1. (IF t = i THEN -n ELSE 0) \in Int  OBVIOUS
    <3> QED  BY <3>1
  <2>2. Claims(tick', feeGrowthGlobal', ticks', sqrtPrice', positions', t)
        = Claims(tick, feeGrowthGlobal, ticks, sqrtPrice, positions, t) + Scale(t) * 0
    <3>1. PICK S \in Nat, c \in Int :
            S = Scale(t) /\ c = Claims(tick, feeGrowthGlobal, ticks, sqrtPrice, positions, t)
      BY ScaleIs, NowIs
    <3>2. c = c + S * 0  OBVIOUS
    <3>3. Claims(tick', feeGrowthGlobal', ticks', sqrtPrice', positions', t) = c  BY <1>1, <3>1
    <3> QED  BY <3>1, <3>2, <3>3
  <2>3. protocolFees'[t] = protocolFees[t] + y
    <3>1. PICK w \in Int : w = protocolFees[t]  BY <1>2
    <3>2. CASE t = i
      <4>1. protocolFees'[t] = w - n  BY <1>2, <1>3, <3>1, <3>2
      <4>2. y = -n  BY <2>1, <3>2
      <4>3. w - n = w + (-n)  OBVIOUS
      <4> QED  BY <3>1, <4>1, <4>2, <4>3
    <3>3. CASE t # i
      <4>1. protocolFees'[t] = w  BY <1>2, <1>3, <3>1, <3>3
      <4>2. y = 0  BY <2>1, <3>3
      <4>3. w = w + 0  OBVIOUS
      <4> QED  BY <3>1, <4>1, <4>2, <4>3
    <3> QED  BY <3>2, <3>3
  <2>4. 0 + y = IF t = i THEN -n ELSE 0  BY <2>1
  <2> QED  BY <2>2, <2>3, <2>4
<1> QED  BY <1>1, <1>5, <1>6 DEF TakenOff, MoneyInv

\* The least of two integers is one.
LEMMA AtMostIs ==
    ASSUME NEW n \in Int, NEW m \in Int
    PROVE  AtMost(n, m) \in Int
BY DEF AtMost

\* So is a fee with one unit left behind.
LEMMA LeaveOneIs ==
    ASSUME NEW t, NEW n \in Int
    PROVE  LeaveOne(t, n) \in Int
BY DEF LeaveOne

\* A collector names a version for each token.
LEMMA VersionsAre ==
    ASSUME NEW vers \in Versions
    PROVE  \A t \in Token : vers[t] \in Version
BY DEF Versions

\* collect writes off the first token and delivers it.
LEMMA CollectMoney ==
    ASSUME LockInv, MoneyInv, LockInv', NEW k \in Keys, NEW req \in [Token -> Requests],
           NEW vers \in Versions, Collect(k, req, vers)
    PROVE  MoneyInv'
<1> DEFINE due == [t \in Token |-> AtMost(req[t], positions[k].owed[t])]
           f == [op |-> "collect", phase |-> AfterDelivery(due[0], "next"),
                 unlocks |-> ~permit, key |-> k, due |-> due, vers |-> vers, next |-> TRUE]
<1>1. /\ Outside /\ Save /\ Lock /\ calls' = Append(calls, f)
      /\ positions' = [positions EXCEPT ![k].owed[0] = @ - due[0]]
      /\ Deliver(0, vers[0], due[0])
      /\ UNCHANGED <<price, feeProtocol, protocolFees, deposit>>
  BY DEF Collect, Begin
<1>2. due \in [Token -> Int]
  <2>1. ASSUME NEW t \in Token PROVE AtMost(req[t], positions[k].owed[t]) \in Int
    <3>1. req[t] \in Int  BY PoolAssumption
    <3>2. positions[k].owed[t] \in Int  BY DEF MoneyInv, Sound, OwedOK
    <3> QED  BY <3>1, <3>2, AtMostIs
  <2> QED  BY <2>1
<1> HIDE DEF due
<1>3. /\ f.op = "collect" /\ {"key", "due", "vers"} \subseteq DOMAIN f
      /\ f.key = k /\ f.due = due /\ f.vers = vers
  OBVIOUS
<1> HIDE DEF f
<1>4. calls = Idle  BY <1>1, LockKeepsOthersOut DEF Lock
<1>5. calls' # Idle /\ Top' = f  BY <1>1, <1>4, TopPushed DEF Idle
<1>6. 0 \in Token /\ due[0] \in Int /\ vers[0] \in Version
  <2>1. 0 \in Token  BY DEF Token
  <2> QED  BY <1>2, <2>1, VersionsAre
<1>7. CallOK(f, balance')  BY <1>2, <1>3 DEF CallOK
<1>8. saved' = State  BY <1>1, <1>4 DEF Save
<1>9. Collected(positions, positions', k, 0, due[0])  BY <1>1 DEF Collected
<1>10. /\ TakenOff(0, due[0]) /\ protocolFees' \in [Token -> Int]
       /\ Sound(tick', feeGrowthGlobal', ticks', sqrtPrice', positions')
  BY <1>1, <1>6, <1>9, OwedTakenOff
<1>11. Top'.op \in {"collect", "collectProtocol"} /\ CallOK(Top', balance')
  BY <1>3, <1>5, <1>7
<1> QED  BY <1>1, <1>4, <1>5, <1>6, <1>8, <1>10, <1>11, CollectedMoney

\* collect goes on with the second token.
LEMMA CollectNextMoney ==
    ASSUME LockInv, MoneyInv, LockInv', CollectNext
    PROVE  MoneyInv'
<1>1. PICK p, b :
        /\ calls # Idle /\ Top.op = "collect"
        /\ positions' = [positions EXCEPT ![Top.key].owed[1] = @ - Top.due[1]]
        /\ Deliver(1, Top.vers[1], Top.due[1])
        /\ calls' = [calls EXCEPT ![Len(calls)].phase = p, ![Len(calls)].next = b]
        /\ UNCHANGED <<price, feeProtocol, protocolFees, deposit, saved>>
  BY DEF CollectNext
<1>2. CallOK(Top, balance)  BY <1>1 DEF MoneyInv
<1>3. PICK k \in Keys, due \in [Token -> Int], vers \in Versions :
        k = Top.key /\ due = Top.due /\ vers = Top.vers
  BY <1>1, <1>2 DEF CallOK
<1>4. 1 \in Token /\ due[1] \in Int /\ vers[1] \in Version
  <2>1. 1 \in Token  BY DEF Token
  <2> QED  BY <1>3, <2>1, VersionsAre
<1>5. calls' # Idle /\ SameCall(Top, Top')  BY <1>1, TopSame
<1>6. Top'.op = Top.op /\ CallOK(Top', balance')  BY <1>1, <1>2, <1>5, SameCallOK
<1>7. Collected(positions, positions', k, 1, due[1])  BY <1>1, <1>3 DEF Collected
<1>8. /\ TakenOff(1, due[1]) /\ protocolFees' \in [Token -> Int]
      /\ Sound(tick', feeGrowthGlobal', ticks', sqrtPrice', positions')
  BY <1>1, <1>4, <1>7, OwedTakenOff
<1>9. Deliver(1, vers[1], due[1])  BY <1>1, <1>3
<1>10. /\ Top.op \in {"collect", "collectProtocol"} /\ Top'.op \in {"collect", "collectProtocol"}
  BY <1>1, <1>6
<1> QED  BY <1>1, <1>4, <1>5, <1>6, <1>8, <1>9, <1>10, CollectedMoney

\* collectProtocol writes off the first token and delivers it.
LEMMA CollectProtocolMoney ==
    ASSUME LockInv, MoneyInv, LockInv', NEW req \in [Token -> Requests],
           NEW vers \in Versions, CollectProtocol(req, vers)
    PROVE  MoneyInv'
<1> DEFINE due == [t \in Token |-> AtMost(req[t], protocolFees[t])]
           now == LeaveOne(0, due[0])
           f == [op |-> "collectProtocol", phase |-> AfterDelivery(now, "next"),
                 unlocks |-> ~permit, due |-> due, vers |-> vers, next |-> TRUE]
<1>1. /\ Outside /\ Save /\ Lock /\ calls' = Append(calls, f)
      /\ protocolFees' = [protocolFees EXCEPT ![0] = @ - now]
      /\ Deliver(0, vers[0], now)
      /\ UNCHANGED <<price, feeProtocol, deposit, positions>>
  BY DEF CollectProtocol, Begin
<1>2. due \in [Token -> Int]
  <2>1. ASSUME NEW t \in Token PROVE AtMost(req[t], protocolFees[t]) \in Int
    <3>1. req[t] \in Int  BY PoolAssumption
    <3>2. protocolFees[t] \in Int  BY NowIs
    <3> QED  BY <3>1, <3>2, AtMostIs
  <2> QED  BY <2>1
<1> HIDE DEF due
<1>6. 0 \in Token /\ now \in Int /\ vers[0] \in Version
  <2>1. 0 \in Token  BY DEF Token
  <2>2. due[0] \in Int  BY <1>2, <2>1
  <2> QED  BY <2>1, <2>2, LeaveOneIs, VersionsAre
<1> HIDE DEF now
<1>3. /\ f.op = "collectProtocol" /\ {"due", "vers"} \subseteq DOMAIN f
      /\ f.due = due /\ f.vers = vers
  OBVIOUS
<1> HIDE DEF f
<1>4. calls = Idle  BY <1>1, LockKeepsOthersOut DEF Lock
<1>5. calls' # Idle /\ Top' = f  BY <1>1, <1>4, TopPushed DEF Idle
<1>7. CallOK(f, balance')  BY <1>2, <1>3 DEF CallOK
<1>8. saved' = State  BY <1>1, <1>4 DEF Save
<1>9. FeesTaken(protocolFees, protocolFees', 0, now)  BY <1>1 DEF FeesTaken
<1>10. /\ TakenOff(0, now) /\ protocolFees' \in [Token -> Int]
       /\ Sound(tick', feeGrowthGlobal', ticks', sqrtPrice', positions')
  BY <1>1, <1>6, <1>9, FeesTakenOff
<1>11. Top'.op \in {"collect", "collectProtocol"} /\ CallOK(Top', balance')
  BY <1>3, <1>5, <1>7
<1> QED  BY <1>1, <1>4, <1>5, <1>6, <1>8, <1>10, <1>11, CollectedMoney

\* collectProtocol goes on with the second token.
LEMMA CollectProtocolNextMoney ==
    ASSUME LockInv, MoneyInv, LockInv', CollectProtocolNext
    PROVE  MoneyInv'
<1>1. PICK p, b, now :
        /\ calls # Idle /\ Top.op = "collectProtocol"
        /\ now = LeaveOne(1, Top.due[1])
        /\ protocolFees' = [protocolFees EXCEPT ![1] = @ - now]
        /\ Deliver(1, Top.vers[1], now)
        /\ calls' = [calls EXCEPT ![Len(calls)].phase = p, ![Len(calls)].next = b]
        /\ UNCHANGED <<price, feeProtocol, deposit, positions, saved>>
  BY DEF CollectProtocolNext
<1>2. CallOK(Top, balance)  BY <1>1 DEF MoneyInv
<1>3. PICK due \in [Token -> Int], vers \in Versions : due = Top.due /\ vers = Top.vers
  BY <1>1, <1>2 DEF CallOK
<1>4. 1 \in Token /\ now \in Int /\ vers[1] \in Version
  <2>1. 1 \in Token  BY DEF Token
  <2>2. due[1] \in Int  BY <1>3, <2>1
  <2> QED  BY <1>1, <1>3, <2>1, <2>2, LeaveOneIs, VersionsAre
<1>5. calls' # Idle /\ SameCall(Top, Top')  BY <1>1, TopSame
<1>6. Top'.op = Top.op /\ CallOK(Top', balance')  BY <1>1, <1>2, <1>5, SameCallOK
<1>7. FeesTaken(protocolFees, protocolFees', 1, now)  BY <1>1 DEF FeesTaken
<1>8. /\ TakenOff(1, now) /\ protocolFees' \in [Token -> Int]
      /\ Sound(tick', feeGrowthGlobal', ticks', sqrtPrice', positions')
  BY <1>1, <1>4, <1>7, FeesTakenOff
<1>9. Deliver(1, vers[1], now)  BY <1>1, <1>3
<1>10. /\ Top.op \in {"collect", "collectProtocol"} /\ Top'.op \in {"collect", "collectProtocol"}
  BY <1>1, <1>6
<1> QED  BY <1>1, <1>4, <1>5, <1>6, <1>8, <1>9, <1>10, CollectedMoney

\* What SwapBody leaves: the swap's result s on the books, frame f on top, and
\* the input taken from the payer's deposit or still to be paid.
SwapLeft(s, o, f, payer, stack) ==
    /\ s = SwapResult(o) /\ LimitAllowed(o)
    /\ tick' = s.tick /\ ticks' = s.ticks /\ sqrtPrice' = s.price
    /\ feeGrowthGlobal' = SwapGrowths(s, o)
    /\ protocolFees' = [protocolFees EXCEPT ![In(o)] = @ + s.protocolFee]
    /\ UNCHANGED <<feeProtocol, positions>>
    /\ calls' = Append(stack, f)
    /\ f.op = "swap" /\ {"order", "due", "out", "before"} \subseteq DOMAIN f
    /\ f.order = o /\ f.due = Taken(s, o) /\ f.out = Given(s, o) /\ f.before = Held(balance, In(o))
    /\ \/ /\ Taken(s, o) \in 0 .. deposit[payer][In(o)]
          /\ deposit' = [deposit EXCEPT ![payer][In(o)] = @ - Taken(s, o)]
          /\ Deliver(Out(o), o.ver, Given(s, o))
          /\ f.phase \notin {"pay", "paid"}
       \/ f.phase = "pay" /\ UNCHANGED <<deposit, balance>>

\* Every swap leaves the pool so.
LEMMA SwapLeavesMoney ==
    ASSUME NEW sender, NEW o, NEW stack, SwapBody(sender, o, stack)
    PROVE  \E s, f : SwapLeft(s, o, f, IF swapSender = NoOne THEN sender ELSE swapSender, stack)
<1> DEFINE payer == IF swapSender = NoOne THEN sender ELSE swapSender
           due(s) == IF o.amount > 0 THEN o.amount - s.remaining ELSE s.calculated
           out(s) == IF o.amount > 0 THEN -s.calculated ELSE s.remaining - o.amount
           frame(s) == [op |-> "swap", phase |-> "pay", unlocks |-> ~permit, order |-> o,
                        due |-> due(s), out |-> out(s), before |-> Held(balance, In(o))]
<1>1. PICK s : /\ s = SwapResult(o) /\ LimitAllowed(o)
               /\ sqrtPrice' = s.price /\ tick' = s.tick /\ ticks' = s.ticks
               /\ feeGrowthGlobal' = [feeGrowthGlobal EXCEPT ![In(o)] = s.growth]
               /\ protocolFees' = [protocolFees EXCEPT ![In(o)] = @ + s.protocolFee]
               /\ UNCHANGED <<feeProtocol, positions>>
               /\ IF due(s) \in 0 .. deposit[payer][In(o)]
                  THEN /\ deposit' = [deposit EXCEPT ![payer][In(o)] = @ - due(s)]
                       /\ Deliver(Out(o), o.ver, out(s))
                       /\ calls' = Append(stack, [frame(s) EXCEPT
                                                    !.phase = AfterDelivery(out(s), "end")])
                  ELSE calls' = Append(stack, frame(s)) /\ UNCHANGED <<deposit, balance>>
  BY DEF SwapBody
<1>2. due(s) = Taken(s, o) /\ out(s) = Given(s, o)  BY DEF Taken, Given
<1> HIDE DEF due, out, payer
<1>3. CASE due(s) \in 0 .. deposit[payer][In(o)]
  <2> DEFINE f == [frame(s) EXCEPT !.phase = AfterDelivery(out(s), "end")]
  <2>1. /\ f.op = "swap" /\ {"order", "due", "out", "before"} \subseteq DOMAIN f
        /\ f.order = o /\ f.due = due(s) /\ f.out = out(s) /\ f.before = Held(balance, In(o))
        /\ f.phase = AfterDelivery(out(s), "end")
    OBVIOUS
  <2>2. calls' = Append(stack, f)  BY <1>1, <1>3
  <2> HIDE DEF f
  <2>3. f.phase \notin {"pay", "paid"}  BY <2>1 DEF AfterDelivery
  <2>4. SwapLeft(s, o, f, payer, stack)  BY <1>1, <1>2, <1>3, <2>1, <2>2, <2>3 DEF SwapLeft, SwapGrowths
  <2> QED  BY <2>4 DEF payer
<1>4. CASE ~ (due(s) \in 0 .. deposit[payer][In(o)])
  <2> DEFINE f == frame(s)
  <2>1. /\ f.op = "swap" /\ {"order", "due", "out", "before"} \subseteq DOMAIN f
        /\ f.order = o /\ f.due = due(s) /\ f.out = out(s) /\ f.before = Held(balance, In(o))
        /\ f.phase = "pay"
    OBVIOUS
  <2>2. calls' = Append(stack, f) /\ UNCHANGED <<deposit, balance>>  BY <1>1, <1>4
  <2> HIDE DEF f
  <2>4. SwapLeft(s, o, f, payer, stack)  BY <1>1, <1>2, <2>1, <2>2 DEF SwapLeft, SwapGrowths
  <2> QED  BY <2>4 DEF payer
<1> QED  BY <1>3, <1>4

\* A swap takes in what the claims it adds to have grown by, now or in its
\* callback, and gives out what the others have fallen by.
LEMMA SwapMoney ==
    ASSUME LockInv, LockInv', MoneyInv, Book, sqrtPrice # 0,
           NEW o \in Orders, NEW sender, NEW stack, SwapBody(sender, o, stack),
           (IF swapSender = NoOne THEN sender ELSE swapSender) \in Users,
           stack = <<>> \/ stack = <<stack[1]>>,
           \A t \in Token : Backing(t) = Held(balance, t),
           IF calls = Idle THEN saved' = State ELSE saved' = saved
    PROVE  MoneyInv'
<1>1. PICK s, f, payer : payer \in Users /\ SwapLeft(s, o, f, payer, stack)
  BY SwapLeavesMoney
<1>2. /\ In(o) \in Token /\ Out(o) \in Token /\ In(o) # Out(o) /\ o.ver \in Version
      /\ \A t \in Token : t = In(o) \/ t = Out(o)
  BY InOutIs
<1>3. SwapCovers(s, o)
  <2>1. s = SwapResult(o) /\ LimitAllowed(o)  BY <1>1 DEF SwapLeft
  <2>2. SwapCovers(SwapResult(o), o)
    BY <2>1, SwapIsCovered DEF MoneyInv, Purses
  <2> QED  BY <2>1, <2>2
<1>4. PICK due \in Int, out \in Int, cut \in Int :
        due = Taken(s, o) /\ out = Given(s, o) /\ cut = s.protocolFee
  BY <1>3 DEF SwapCovers
<1>5. calls' # Idle /\ Top' = f  BY <1>1, TopPushed DEF SwapLeft
<1>6. Sound(tick', feeGrowthGlobal', ticks', sqrtPrice', positions')
  BY <1>1, <1>3 DEF SwapLeft, SwapCovers
<1>7. deposit \in [Users -> [Token -> Nat]] /\ BalanceOK(balance)
      /\ protocolFees \in [Token -> Int]
  BY DEF LockInv, LockTypes, MoneyInv, Purses
<1>8. /\ protocolFees' \in [Token -> Int]
      /\ protocolFees'[In(o)] = protocolFees[In(o)] + cut
      /\ protocolFees'[Out(o)] = protocolFees[Out(o)]
  <2>1. protocolFees' = [protocolFees EXCEPT ![In(o)] = protocolFees[In(o)] + cut]
    BY <1>1, <1>4 DEF SwapLeft
  <2>2. protocolFees[In(o)] + cut \in Int  BY <1>2, <1>7
  <2> QED  BY <1>2, <1>7, <2>1, <2>2
<1>9. PICK paid \in Nat :
        /\ Deposits(deposit', In(o)) = Deposits(deposit, In(o)) - paid
        /\ Deposits(deposit', Out(o)) = Deposits(deposit, Out(o))
        /\ \/ paid = due /\ f.phase \notin {"pay", "paid"} /\ Deliver(Out(o), o.ver, out)
           \/ paid = 0 /\ f.phase = "pay" /\ balance' = balance
  <2>1. CASE f.phase = "pay" /\ UNCHANGED <<deposit, balance>>
    <3>1. \A t \in Token : \A d \in Int : d = Deposits(deposit, t) => d = d - 0
      OBVIOUS
    <3>2. Deposits(deposit', In(o)) = Deposits(deposit, In(o)) - 0  BY <1>2, <2>1, <3>1, NowIs
    <3>3. Deposits(deposit', Out(o)) = Deposits(deposit, Out(o))  BY <2>1
    <3> QED  BY <2>1, <3>2, <3>3
  <2>2. CASE /\ Taken(s, o) \in 0 .. deposit[payer][In(o)]
             /\ deposit' = [deposit EXCEPT ![payer][In(o)] = @ - Taken(s, o)]
             /\ Deliver(Out(o), o.ver, Given(s, o))
             /\ f.phase \notin {"pay", "paid"}
    <3>1. PICK d \in Nat : d = deposit[payer][In(o)]  BY <1>1, <1>2, <1>7
    <3>2. due \in 0 .. d  BY <1>4, <2>2, <3>1
    <3>3. due \in Nat /\ d - due \in Nat  BY <3>1, <3>2
    <3>12. PICK r \in Nat : r = d - due  BY <3>3
    <3>4. Changed(deposit, deposit', payer, In(o), r)  BY <1>4, <2>2, <3>1, <3>12 DEF Changed
    <3>5. \A t \in Token : Deposits(deposit', t)
             = Deposits(deposit, t) + (IF t = In(o) THEN r - deposit[payer][In(o)] ELSE 0)
      BY <1>1, <1>2, <1>7, <3>4, OneDeposit
    <3>6. r - deposit[payer][In(o)] = -due  BY <3>1, <3>3, <3>12
    <3>7. PICK a \in Int, b \in Int : a = Deposits(deposit, In(o)) /\ b = Deposits(deposit, Out(o))
      BY <1>2, NowIs
    <3>8. Deposits(deposit', In(o)) = a + (-due)  BY <1>2, <3>5, <3>6, <3>7
    <3>9. Deposits(deposit', Out(o)) = b + 0  BY <1>2, <3>5, <3>7
    <3>10. a + (-due) = a - due /\ b + 0 = b  OBVIOUS
    <3>11. /\ Deposits(deposit', In(o)) = Deposits(deposit, In(o)) - due
           /\ Deposits(deposit', Out(o)) = Deposits(deposit, Out(o))
      BY <3>7, <3>8, <3>9, <3>10
    <3> QED  BY <1>4, <2>2, <3>3, <3>11
  <2> QED  BY <1>1, <2>1, <2>2 DEF SwapLeft
<1>10. /\ BalanceOK(balance')
       /\ f.phase \notin {"pay", "paid"} =>
            \A t \in Token : Held(balance', t) = Held(balance, t) + (IF t = Out(o) THEN -out ELSE 0)
  <2>1. CASE Deliver(Out(o), o.ver, out)  BY <1>2, <1>7, <2>1, DeliverTakes
  <2>2. CASE f.phase = "pay" /\ balance' = balance  BY <1>7, <2>2
  <2> QED  BY <1>9, <2>1, <2>2
<1>11. Purses'  BY <1>1, <1>8, <1>10 DEF MoneyInv, Purses, SwapLeft
<1>12. /\ f.op = "swap" /\ f.order = o /\ f.due = due /\ f.out = out
       /\ f.before = Held(balance, In(o)) /\ {"order", "due", "out", "before"} \subseteq DOMAIN f
  BY <1>1, <1>4 DEF SwapLeft
<1>13. CallOK(f, balance')
  <2>1. Held(balance, In(o)) \in Int  BY <1>2, NowIs
  <2> QED  BY <1>12, <2>1 DEF CallOK
<1>14. \A t \in Token : Backing(t)' = BackedBy(f, balance', t)  BY <1>5 DEF Backing
<1>15. PICK g \in Int, h \in Int, c \in Int, e \in Int, c2 \in Int, e2 \in Int :
         /\ g = Held(balance, In(o)) /\ h = Held(balance, Out(o))
         /\ c = Claims(tick, feeGrowthGlobal, ticks, sqrtPrice, positions, In(o))
         /\ e = Claims(tick, feeGrowthGlobal, ticks, sqrtPrice, positions, Out(o))
         /\ c2 = Claims(tick', feeGrowthGlobal', ticks', sqrtPrice', positions', In(o))
         /\ e2 = Claims(tick', feeGrowthGlobal', ticks', sqrtPrice', positions', Out(o))
  BY <1>2, <1>6, NowIs, ClaimIs
<1>16. PICK S \in Nat, R \in Nat : S = Scale(In(o)) /\ R = Scale(Out(o))  BY <1>2, ScaleIs
<1>17. c2 + S * cut <= c + S * due /\ e2 + R * out <= e
  <2>1. /\ tick' = s.tick /\ ticks' = s.ticks /\ sqrtPrice' = s.price
        /\ feeGrowthGlobal' = SwapGrowths(s, o) /\ positions' = positions
    BY <1>1 DEF SwapLeft
  <2> QED  BY <1>3, <1>4, <1>15, <1>16, <2>1 DEF SwapCovers
<1>18. Carries(In(o))
  <2>1. PICK x \in Int, z \in Int : x = due - cut /\ z = -paid
    <3>1. due - cut \in Int /\ -paid \in Int  OBVIOUS
    <3> QED  BY <3>1
  <2>2. Claims(tick', feeGrowthGlobal', ticks', sqrtPrice', positions', In(o))
        <= Claims(tick, feeGrowthGlobal, ticks, sqrtPrice, positions, In(o)) + Scale(In(o)) * x
    <3>1. PICK a \in Int, b \in Int : a = S * due /\ b = S * cut
      <4>1. S * due \in Int /\ S * cut \in Int  OBVIOUS
      <4> QED  BY <4>1
    <3>2. S * x = a - b  BY <2>1, <3>1
    <3>4. c2 + b <= c + a  BY <1>17, <3>1
    <3>5. c2 <= c + (a - b)  BY <3>4
    <3>3. c2 <= c + S * x  BY <3>2, <3>5
    <3> QED  BY <1>15, <1>16, <3>3
  <2>3. Deposits(deposit', In(o)) = Deposits(deposit, In(o)) + z
    <3>1. PICK a \in Int : a = Deposits(deposit, In(o))  BY <1>2, NowIs
    <3>2. a - paid = a + z  BY <2>1
    <3> QED  BY <1>9, <3>1, <3>2
  <2>4. protocolFees'[In(o)] = protocolFees[In(o)] + cut  BY <1>8
  <2>5. Books(In(o))' <= Books(In(o)) + Scale(In(o)) * (x + cut + z)
    BY <1>2, <1>6, <1>11, <2>2, <2>3, <2>4, BooksMove
  <2>6. x + cut + z = due - paid /\ due - paid \in Int  BY <2>1
  <2>7. g + (due - paid) <= Backing(In(o))'
    <3>1. CASE paid = due /\ f.phase \notin {"pay", "paid"}
      <4>1. Held(balance', In(o)) = g + 0  BY <1>2, <1>10, <1>15, <3>1
      <4>2. BackedBy(f, balance', In(o)) = g + 0  BY <1>12, <3>1, <4>1 DEF BackedBy
      <4>3. g + (due - paid) <= g + 0  BY <3>1
      <4> QED  BY <1>2, <1>14, <4>2, <4>3
    <3>2. CASE paid = 0 /\ f.phase = "pay"
      <4>1. BackedBy(f, balance', In(o)) = g + due  BY <1>12, <1>15, <3>2 DEF BackedBy
      <4>2. g + (due - paid) <= g + due  BY <3>2
      <4> QED  BY <1>2, <1>14, <4>1, <4>2
    <3> QED  BY <1>9, <3>1, <3>2
  <2>8. Backing(In(o)) = g  BY <1>2, <1>15
  <2> QED  BY <2>5, <2>6, <2>7, <2>8 DEF Carries
<1>19. Carries(Out(o))
  <2>1. PICK x \in Int : x = -out
    <3>1. -out \in Int  OBVIOUS
    <3> QED  BY <3>1
  <2>2. Claims(tick', feeGrowthGlobal', ticks', sqrtPrice', positions', Out(o))
        <= Claims(tick, feeGrowthGlobal, ticks, sqrtPrice, positions, Out(o)) + Scale(Out(o)) * x
    <3>1. PICK m \in Int, n \in Int : m = R * out /\ n = R * x
      <4>1. R * out \in Int /\ R * x \in Int  OBVIOUS
      <4> QED  BY <4>1
    <3>2. n + m = 0
      <4>1. R * (-out) + R * out = 0  OBVIOUS
      <4> QED  BY <2>1, <3>1, <4>1
    <3>3. e2 <= e + R * x
      <4>1. e2 + m <= e  BY <1>17, <3>1
      <4>2. e2 <= e + n  BY <3>2, <4>1
      <4> QED  BY <3>1, <4>2
    <3> QED  BY <1>15, <1>16, <3>3
  <2>3. Deposits(deposit', Out(o)) = Deposits(deposit, Out(o)) + 0
    <3>1. PICK a \in Int : a = Deposits(deposit, Out(o))  BY <1>2, NowIs
    <3>2. a = a + 0  OBVIOUS
    <3> QED  BY <1>9, <3>1, <3>2
  <2>4. protocolFees'[Out(o)] = protocolFees[Out(o)] + 0
    <3>1. PICK a \in Int : a = protocolFees[Out(o)]  BY <1>2, NowIs
    <3>2. a = a + 0  OBVIOUS
    <3> QED  BY <1>8, <3>1, <3>2
  <2>5. Books(Out(o))' <= Books(Out(o)) + Scale(Out(o)) * (x + 0 + 0)
    BY <1>2, <1>6, <1>11, <2>2, <2>3, <2>4, BooksMove
  <2>6. x + 0 + 0 = x  OBVIOUS
  <2>7. h + x <= Backing(Out(o))'
    <3>1. CASE f.phase \notin {"pay", "paid"}
      <4>1. Held(balance', Out(o)) = h + (-out)  BY <1>2, <1>10, <1>15, <3>1
      <4>2. BackedBy(f, balance', Out(o)) = h + (-out)  BY <1>12, <3>1, <4>1 DEF BackedBy
      <4>3. h + x <= h + (-out)  BY <2>1
      <4> QED  BY <1>2, <1>14, <4>2, <4>3
    <3>2. CASE f.phase = "pay" /\ balance' = balance
      <4>1. BackedBy(f, balance', Out(o)) = h - out  BY <1>2, <1>12, <1>15, <3>2 DEF BackedBy
      <4>2. h + x <= h - out  BY <2>1
      <4> QED  BY <1>2, <1>14, <4>1, <4>2
    <3> QED  BY <1>9, <3>1, <3>2
  <2>8. Backing(Out(o)) = h  BY <1>2, <1>15
  <2> QED  BY <2>5, <2>6, <2>7, <2>8 DEF Carries
<1>20. \A t \in Token : Carries(t)  BY <1>2, <1>18, <1>19
<1>21. Sound(tick, feeGrowthGlobal, ticks, sqrtPrice, positions)'  BY <1>6
<1>22. CallOK(Top, balance)'  BY <1>5, <1>13
<1> QED  BY <1>11, <1>20, <1>21, <1>22, MoneyGoesOn

\* A swap called by a user.
LEMMA DirectSwapMoney ==
    ASSUME LockInv, BookInv, MoneyInv, LockInv', NEW u \in Users, NEW o \in Orders, Swap(u, o)
    PROVE  MoneyInv'
<1>1. Outside /\ Save /\ Lock /\ SwapBody(u, o, calls)  BY DEF Swap, Begin
<1>2. calls = Idle /\ NoDeposit /\ unlocked  BY <1>1, LockKeepsOthersOut DEF Lock
<1>3. sqrtPrice # 0 /\ Book  BY <1>2 DEF BookInv
<1>4. (IF swapSender = NoOne THEN u ELSE swapSender) \in Users  BY <1>2 DEF NoDeposit
<1>5. saved' = State  BY <1>1, <1>2 DEF Save
<1>6. \A t \in Token : Backing(t) = Held(balance, t)  BY <1>2 DEF Backing
<1>7. calls = <<>>  BY <1>2 DEF Idle
<1> QED  BY <1>1, <1>2, <1>3, <1>4, <1>5, <1>6, <1>7, SwapMoney

\* A swap called by an ERC-223 deposit.
LEMMA DispatchMoney ==
    ASSUME LockInv, BookInv, MoneyInv, LockInv', Dispatch
    PROVE  MoneyInv'
<1> USE PoolAssumption
<1>1. PICK o : /\ o = Top.payload.order
               /\ calls # Idle /\ Top.op = "tokenReceived" /\ Top.phase = "dispatch"
               /\ Lock /\ SwapBody(NoOne, o, AtPhase("refund")) /\ saved' = saved
  BY DEF Dispatch, At
<1>2. Received /\ Top = calls[1] /\ One(calls)  BY <1>1, DepositOnTop
<1>3. sqrtPrice # 0 /\ Book  BY <1>1 DEF BookInv
<1>4. o \in Orders
  <2>1. DOMAIN calls = DOMAIN <<calls[1]>>  BY <1>2 DEF One
  <2>2. 1 \in DOMAIN calls  BY <2>1
  <2> QED  BY <1>1, <1>2, <2>2 DEF FramesOK, FrameOK, BookInv
<1>5. (IF swapSender = NoOne THEN NoOne ELSE swapSender) \in Users
  BY <1>1, <1>2 DEF Received, DepositOf
<1>6. \A t \in Token : Backing(t) = Held(balance, t)  BY <1>1 DEF Backing, BackedBy
<1>7. PICK c : c = AtPhase("refund") /\ c = <<c[1]>>
  <2> DEFINE below == [Top EXCEPT !.phase = "refund"]
  <2>1. Frame(below)  BY <1>2 DEF Frame, One
  <2> HIDE DEF below
  <2>2. AtPhase("refund") = [calls EXCEPT ![Len(calls)] = below]  BY DEF AtPhase, Top, below
  <2>3. AtPhase("refund") = <<below>>  BY <1>2, <2>1, <2>2, ChangeOne
  <2> QED  BY <2>3
<1>8. SwapBody(NoOne, o, c)  BY <1>1, <1>7
<1> QED  BY <1>1, <1>3, <1>4, <1>5, <1>6, <1>7, <1>8, SwapMoney

\* A new pool owes nothing and holds nothing.
LEMMA MoneyInit ==
    ASSUME Init
    PROVE  MoneyInv
<1>1. /\ sqrtPrice = 0 /\ tick = 0 /\ feeProtocol = [t \in Token |-> 0]
      /\ feeGrowthGlobal = [t \in Token |-> 0] /\ protocolFees = [t \in Token |-> 0]
      /\ deposit = NoDeposits /\ ticks = [t \in Ticks |-> EmptyTick]
      /\ positions = [k \in Keys |-> EmptyPosition]
      /\ balance = [t \in Token |-> [v \in Version |-> 0]] /\ calls = Idle
  BY DEF Init
<1>2. Sound(tick, feeGrowthGlobal, ticks, sqrtPrice, positions)
  <2>1. OutsideOK(ticks)  BY <1>1 DEF OutsideOK, EmptyTick
  <2>2. PositionsOK(positions) /\ OwedOK(positions)
    BY <1>1 DEF PositionsOK, OwedOK, EmptyPosition
  <2> QED  BY <1>1, <2>1, <2>2 DEF Sound
<1>3. Purses  BY <1>1 DEF Purses, BalanceOK
<1>4. ASSUME NEW t \in Token PROVE Books(t) <= Scale(t) * Backing(t)
  <2>1. Claims(tick, feeGrowthGlobal, ticks, sqrtPrice, positions, t) = 0
    <3> DEFINE f == [k \in Keys |-> Claim(tick, feeGrowthGlobal, ticks, sqrtPrice, positions, k, t)]
    <3>1. ASSUME NEW k \in Keys
          PROVE  Claim(tick, feeGrowthGlobal, ticks, sqrtPrice, positions, k, t) = 0
      <4>1. /\ positions[k].owed[t] = 0 /\ positions[k].last[t] = 0 /\ positions[k].liquidity = 0
        BY <1>1 DEF EmptyPosition
      <4>2. feeGrowthGlobal[t] \in Int  BY <1>1
      <4>3. Rate(tick, feeGrowthGlobal[t], ticks, sqrtPrice, k, t) \in Int
        BY <1>2, <4>2, RateIs DEF Sound
      <4>4. PICK S \in Nat, r \in Int, U \in Nat :
              /\ S = Scale(t) /\ U = Unit(t)
              /\ r = Rate(tick, feeGrowthGlobal[t], ticks, sqrtPrice, k, t)
        BY <4>3, ScaleIs, LevelFacts
      <4>5. S * 0 + 0 * (r - U * 0) = 0  OBVIOUS
      <4> QED  BY <4>1, <4>4, <4>5 DEF Claim
    <3>2. f = [k \in Keys |-> 0]  BY <3>1
    <3> HIDE DEF f
    <3>3. SumFunctionOnSet(f, Keys) = 0  BY <3>2, KeyFacts, SumZero
    <3> QED  BY <3>3 DEF f, Claims
  <2>2. Deposits(deposit, t) = 0
    <3> DEFINE f == [u \in Users |-> deposit[u][t]]
    <3>1. f = [u \in Users |-> 0] /\ IsFiniteSet(Users)  BY <1>1, PoolAssumption DEF NoDeposits
    <3> HIDE DEF f
    <3>2. SumFunctionOnSet(f, Users) = 0  BY <3>1, SumZero
    <3> QED  BY <3>2 DEF f, Deposits
  <2>3. PICK S \in Nat : S = Scale(t)  BY ScaleIs
  <2>4. Books(t) = 0 + S * (0 + 0)  BY <1>1, <2>1, <2>2, <2>3 DEF Books, Booked
  <2>5. Backing(t) = 0 + 0  BY <1>1 DEF Backing, Held, Version
  <2>6. 0 + S * (0 + 0) <= S * (0 + 0)  OBVIOUS
  <2> QED  BY <2>3, <2>4, <2>5, <2>6
<1> QED  BY <1>1, <1>2, <1>3, <1>4 DEF MoneyInv

\* Every step keeps what is booked backed.
LEMMA MoneyStep ==
    ASSUME PoolInv, PoolInv', MoneyInv, [Next]_vars
    PROVE  MoneyInv'
<1>0. LockInv /\ BookInv /\ LockInv' /\ BookInv'  BY DEF PoolInv
<1>1. ASSUME NEW p \in InitialPrices, Initialize(p)  PROVE MoneyInv'
  BY <1>0, <1>1, InitializeMoney
<1>2. ASSUME NEW f0 \in FeeProtocols, NEW f1 \in FeeProtocols, SetFeeProtocol(f0, f1)
      PROVE  MoneyInv'
  BY <1>0, <1>2, SetFeeProtocolMoney
<1>3. ASSUME NEW k \in Keys, NEW dL \in Liquidities, Mint(k, dL)  PROVE MoneyInv'
  BY <1>0, <1>3, MintMoney
<1>4. ASSUME NEW paid \in SUBSET Token, MintCallback(paid)  PROVE MoneyInv'
  BY <1>0, <1>4, MintCallbackMoney
<1>5. CASE MintEnd  BY <1>0, <1>5, MintEndMoney
<1>6. ASSUME NEW k \in Keys, NEW dL \in Liquidities \cup {0}, Burn(k, dL)  PROVE MoneyInv'
  BY <1>0, <1>6, BurnMoney
<1>7. ASSUME NEW k \in Keys, NEW vers \in Versions, NEW req \in [Token -> Requests],
             Collect(k, req, vers)
      PROVE  MoneyInv'
  BY <1>0, <1>7, CollectMoney
<1>8. CASE CollectNext  BY <1>0, <1>8, CollectNextMoney
<1>9. ASSUME NEW vers \in Versions, NEW req \in [Token -> Requests], CollectProtocol(req, vers)
      PROVE  MoneyInv'
  BY <1>0, <1>9, CollectProtocolMoney
<1>10. CASE CollectProtocolNext  BY <1>0, <1>10, CollectProtocolNextMoney
<1>11. CASE CollectEnd \/ SwapEnd \/ ReceivedEnd  BY <1>0, <1>11, EndMoney
<1>12. ASSUME NEW u \in Users, NEW o \in Orders, Swap(u, o)  PROVE MoneyInv'
  BY <1>0, <1>12, DirectSwapMoney
<1>13. ASSUME NEW pays \in BOOLEAN, SwapCallback(pays)  PROVE MoneyInv'
  BY <1>0, <1>13, SwapCallbackMoney
<1>14. CASE SwapDeliver  BY <1>0, <1>14, SwapDeliverMoney
<1>15. ASSUME NEW u \in Users, NEW t \in Token, NEW n \in Values, NEW payload \in Payloads,
              TokenReceived(u, t, n, payload)
       PROVE  MoneyInv'
  BY <1>0, <1>15, TokenReceivedMoney
<1>16. CASE Dispatch  BY <1>0, <1>16, DispatchMoney
<1>17. CASE Refund  BY <1>0, <1>17, RefundMoney
<1>18. CASE Revert  BY <1>18, RevertMoney
<1>19. CASE UNCHANGED vars  BY <1>19, StutterMoney
<1> QED
  BY <1>1, <1>2, <1>3, <1>4, <1>5, <1>6, <1>7, <1>8, <1>9, <1>10, <1>11, <1>12, <1>13,
     <1>14, <1>15, <1>16, <1>17, <1>18, <1>19 DEF Next

\* All three invariants hold throughout.
LEMMA MoneyAlways ==
    Spec => [](PoolInv /\ MoneyInv)
<1>1. Init => PoolInv /\ MoneyInv  BY LockInvInit, BookInvInit, MoneyInit DEF PoolInv
<1>2. PoolInv /\ MoneyInv /\ [Next]_vars => PoolInv' /\ MoneyInv'  BY PoolInvStep, MoneyStep
<1> QED  BY <1>1, <1>2, PTL DEF Spec

\* What a position has earned, and what it is worth.
EarnedOf(tk, fgg, tks, pos, k, t) ==
    pos[k].owed[t] + MulDiv(Within(tk, fgg[t], tks, k, t) - pos[k].last[t], pos[k].liquidity, Q128)

\* The fees of a position are the most the growth within pays for.
Fees(n, tk, fgg, tks, pos, k, t) ==
    /\ EarnedOf(tk, fgg, tks, pos, k, t) = pos[k].owed[t] + n
    /\ \A m \in Int :
         m <= n <=> m * Q128 <= (Within(tk, fgg[t], tks, k, t) - pos[k].last[t]) * pos[k].liquidity

\* A position has fees, and has earned a number.
LEMMA FeesAre ==
    ASSUME NEW tk, NEW fgg, NEW tks, NEW p, NEW pos, Sound(tk, fgg, tks, p, pos),
           NEW k \in Keys, NEW t \in Token
    PROVE  /\ \E n \in Int : Fees(n, tk, fgg, tks, pos, k, t)
           /\ EarnedOf(tk, fgg, tks, pos, k, t) \in Int
<1>1. PICK w \in Int, x \in Int, l \in Nat, q \in Nat \ {0}, v \in Int :
        /\ w = Within(tk, fgg[t], tks, k, t) /\ x = pos[k].last[t] /\ l = pos[k].liquidity
        /\ q = Q128 /\ v = pos[k].owed[t]
  <2>1. fgg[t] \in Int  BY DEF Sound
  <2>2. Within(tk, fgg[t], tks, k, t) \in Int  BY <2>1, WithinIs DEF Sound
  <2> QED  BY <2>2, PoolAssumption DEF Sound, PositionsOK, OwedOK
<1>2. PICK a \in Int : a = (w - x) * l
  <2>1. (w - x) * l \in Int  OBVIOUS
  <2> QED  BY <2>1
<1>3. PICK n \in Int : n = a \div q /\ \A m \in Int : m <= n <=> m * q <= a  BY FloorIs
<1>4. EarnedOf(tk, fgg, tks, pos, k, t) = v + n  BY <1>1, <1>2, <1>3 DEF EarnedOf, MulDiv
<1>5. Fees(n, tk, fgg, tks, pos, k, t)  BY <1>1, <1>2, <1>3, <1>4 DEF Fees
<1> QED  BY <1>4, <1>5

\* Earned is what UpdatedPosition would write down now.
LEMMA EarnedIs ==
    ASSUME Sound(tick, feeGrowthGlobal, ticks, sqrtPrice, positions),
           NEW k \in Keys, NEW t \in Token
    PROVE  Earned(k, t) = EarnedOf(tick, feeGrowthGlobal, ticks, positions, k, t)
<1>1. FeeGrowthInside(ticks, k.lower, k.upper, t) = Within(tick, feeGrowthGlobal[t], ticks, k, t)
  <2>1. feeGrowthGlobal[t] \in Int /\ OutsideOK(ticks) /\ tick \in Int  BY DEF Sound
  <2> QED  BY <2>1, InsideIs
<1>2. Earned(k, t) = positions[k].owed[t]
        + MulDiv(FeeGrowthInside(ticks, k.lower, k.upper, t) - positions[k].last[t],
                 positions[k].liquidity, Q128)
  BY DEF Earned, UpdatedPosition
<1> QED  BY <1>1, <1>2 DEF EarnedOf

\* A position is worth no more than its claim.
LEMMA WorthIsClaimed ==
    ASSUME Book, sqrtPrice # 0, Sound(tick, feeGrowthGlobal, ticks, sqrtPrice, positions),
           NEW k \in Keys, NEW t \in Token
    PROVE  /\ Worth(k, t) \in Int
           /\ Scale(t) * Worth(k, t) <= Claim(tick, feeGrowthGlobal, ticks, sqrtPrice, positions, k, t)
<1>1. PICK w \in Int, x \in Int, L \in Nat, Q \in Nat \ {0}, v \in Int, U \in Nat \ {0}, z \in Int :
        /\ w = Within(tick, feeGrowthGlobal[t], ticks, k, t) /\ x = positions[k].last[t]
        /\ L = positions[k].liquidity /\ Q = Q128 /\ v = positions[k].owed[t]
        /\ U = Unit(t) /\ z = Stock(k, t, sqrtPrice)
  <2>1. feeGrowthGlobal[t] \in Int /\ sqrtPrice \in Nat  BY DEF Sound
  <2>2. Within(tick, feeGrowthGlobal[t], ticks, k, t) \in Int  BY <2>1, WithinIs DEF Sound
  <2>3. Stock(k, t, sqrtPrice) \in Int  BY <2>1, StockIs
  <2> QED  BY <2>2, <2>3, PoolAssumption, LevelFacts DEF Sound, PositionsOK, OwedOK
<1>2. PICK e \in Int : Earned(k, t) = v + e /\ e * Q <= (w - x) * L
  <2>1. PICK e \in Int : Fees(e, tick, feeGrowthGlobal, ticks, positions, k, t)  BY FeesAre
  <2>2. e <= e  OBVIOUS
  <2>3. e * Q128 <= (w - x) * L  BY <1>1, <2>1, <2>2 DEF Fees
  <2>4. Earned(k, t) = v + e  BY <1>1, <2>1, EarnedIs DEF Fees
  <2> QED  BY <1>1, <2>3, <2>4
<1>3. PICK d \in Int : d = -L
  <2>1. -L \in Int  OBVIOUS
  <2> QED  BY <2>1
<1>4. sqrtPrice \in Nat /\ InTick(sqrtPrice, tick) /\ PositionsOK(positions) /\ TicksOK(ticks, positions)
  BY DEF Book, BookState, BookOK
<1>5. PICK n \in Int : n = PositionAmounts(k, d)[t + 1] /\ d * z <= U * n
  <2>1. CASE L # 0
    <3>1. k.lower < k.upper  BY <1>1, <1>4, <2>1, LiveEnds
    <3> QED  BY <1>1, <1>4, <3>1, AmountsCover
  <2>2. CASE L = 0
    <3>1. d = 0
      <4>1. d + L = 0  BY <1>3
      <4> QED  BY <4>1, <2>2
    <3>2. PICK n \in Int : n = PositionAmounts(k, 0)[t + 1] /\ n >= 0  BY <1>4, NothingDue
    <3>3. 0 * z <= U * n  BY <3>2
    <3> QED  BY <3>1, <3>2, <3>3
  <2> QED  BY <2>1, <2>2
<1>6. Worth(k, t) = v + e - n  BY <1>1, <1>2, <1>3, <1>5 DEF Worth
<1>7. PICK a \in Int, b \in Int, g \in Int, h \in Int, c \in Int, r \in Int :
        a = U * w /\ b = U * x /\ g = Q * z /\ h = U * n /\ c = U * v /\ r = U * e
  <2>1. U * w \in Int /\ U * x \in Int /\ Q * z \in Int /\ U * n \in Int /\ U * v \in Int
        /\ U * e \in Int
    OBVIOUS
  <2> QED  BY <2>1
<1>8. Claim(tick, feeGrowthGlobal, ticks, sqrtPrice, positions, k, t)
      = (Q * U) * v + L * ((a + g) - b)
  BY <1>1, <1>7 DEF Claim, Scale, Rate
<1>9. Scale(t) * Worth(k, t) = (Q * U) * (v + e - n)  BY <1>1, <1>6 DEF Scale
<1>10. PICK i \in Int, j \in Int, l \in Int, m \in Int, y \in Int :
         i = L * a /\ j = L * b /\ l = Q * c /\ m = Q * r /\ y = Q * h
  <2>1. L * a \in Int /\ L * b \in Int /\ Q * c \in Int /\ Q * r \in Int /\ Q * h \in Int  OBVIOUS
  <2> QED  BY <2>1
<1>11. (Q * U) * (v + e - n) = l + m - y
  <2>1. U * (v + e - n) = c + r - h  BY <1>7
  <2>2. (Q * U) * (v + e - n) = Q * (U * (v + e - n))  OBVIOUS
  <2>3. Q * (c + r - h) = l + m - y  BY <1>10
  <2> QED  BY <2>1, <2>2, <2>3
<1>12. (Q * U) * v + L * ((a + g) - b) = l + (i + L * g - j)
  <2>1. (Q * U) * v = Q * c  BY <1>7
  <2>2. L * ((a + g) - b) = L * a + L * g - L * b  OBVIOUS
  <2> QED  BY <1>10, <2>1, <2>2
<1>13. m <= i - j
  <2>1. PICK s \in Int, u \in Int : s = e * Q /\ u = (w - x) * L
    <3>1. e * Q \in Int /\ (w - x) * L \in Int  OBVIOUS
    <3> QED  BY <3>1
  <2>2. U * s <= U * u  BY <1>2, <2>1
  <2>3. U * s = m
    <3>1. U * (e * Q) = Q * (U * e)  OBVIOUS
    <3> QED  BY <1>7, <1>10, <2>1, <3>1
  <2>4. U * u = i - j
    <3>1. U * ((w - x) * L) = L * (U * (w - x))  OBVIOUS
    <3>2. U * (w - x) = a - b  BY <1>7
    <3>3. L * (a - b) = i - j  BY <1>10
    <3> QED  BY <2>1, <3>1, <3>2, <3>3
  <2> QED  BY <2>2, <2>3, <2>4
<1>14. -y <= L * g
  <2>1. PICK s \in Int : s = d * z
    <3>1. d * z \in Int  OBVIOUS
    <3> QED  BY <3>1
  <2>2. Q * s <= Q * h  BY <1>5, <1>7, <2>1
  <2>3. Q * s = -(L * g)
    <3>1. Q * (d * z) = d * (Q * z)  OBVIOUS
    <3>2. d * g = -(L * g)  BY <1>3
    <3> QED  BY <1>7, <2>1, <3>1, <3>2
  <2>4. L * g \in Int  OBVIOUS
  <2> QED  BY <1>10, <2>2, <2>3, <2>4
<1>15. l + m - y <= l + (i + L * g - j)
  <2>1. PICK s \in Int : s = L * g
    <3>1. L * g \in Int  OBVIOUS
    <3> QED  BY <3>1
  <2> QED  BY <1>13, <1>14, <2>1
<1>16. Scale(t) * Worth(k, t) <= Claim(tick, feeGrowthGlobal, ticks, sqrtPrice, positions, k, t)
  BY <1>8, <1>9, <1>11, <1>12, <1>15
<1>17. Worth(k, t) \in Int  BY <1>6
<1> QED  BY <1>16, <1>17

\* An integer no more than another one when a scale of it is.
LEMMA ScaleCancels ==
    ASSUME NEW S \in Nat \ {0}, NEW a \in Int, NEW b \in Int, S * a <= S * b
    PROVE  a <= b
<1>1. SUFFICES ASSUME b + 1 <= a PROVE FALSE  OBVIOUS
<1>2. PICK c \in Nat : a = b + 1 + c
  <2>1. a - b - 1 \in Nat /\ a = b + 1 + (a - b - 1)  BY <1>1
  <2> QED  BY <2>1
<1>3. S * a = S * b + S + S * c  BY <1>2
<1>4. S * c \in Nat /\ S * b \in Int /\ S * a \in Int  OBVIOUS
<1> QED  BY <1>3, <1>4

\* All positions together are worth no more than their claims.
LEMMA WorthsAreClaimed ==
    ASSUME Book, sqrtPrice # 0, Sound(tick, feeGrowthGlobal, ticks, sqrtPrice, positions),
           NEW t \in Token
    PROVE  \E w \in Int :
             /\ w = SumFunctionOnSet([k \in Keys |-> Worth(k, t)], Keys)
             /\ Scale(t) * w <= Claims(tick, feeGrowthGlobal, ticks, sqrtPrice, positions, t)
<1> DEFINE C(k) == Claim(tick, feeGrowthGlobal, ticks, sqrtPrice, positions, k, t)
           f == [k \in Keys |-> 0]
           g == [k \in Keys |-> Worth(k, t)]
           c == [k \in Keys |-> C(k)]
<1>1. PICK S \in Nat \ {0} : S = Scale(t)  BY ScaleIs
<1>2. ASSUME NEW k \in Keys
      PROVE  Worth(k, t) \in Int /\ C(k) \in Int /\ S * Worth(k, t) <= C(k)
  BY <1>1, WorthIsClaimed, ClaimIs
<1> DEFINE h == [k \in Keys |-> S * Worth(k, t)]
<1>3. f \in [Keys -> Int] /\ g \in [Keys -> Int] /\ c \in [Keys -> Int]  BY <1>2
<1>4. h \in [Keys -> Int]
  <2>1. ASSUME NEW k \in Keys PROVE S * Worth(k, t) \in Int
    <3>1. PICK w \in Int : w = Worth(k, t)  BY <1>2
    <3>2. S * w \in Int  OBVIOUS
    <3> QED  BY <3>1, <3>2
  <2> QED  BY <2>1
<1>5. \A k \in Keys : h[k] = f[k] + S * g[k]
  <2>1. ASSUME NEW k \in Keys PROVE h[k] = f[k] + S * g[k]
    <3>1. PICK w \in Int : w = Worth(k, t)  BY <1>2
    <3>2. S * w = 0 + S * w  OBVIOUS
    <3>3. f[k] = 0 /\ g[k] = w /\ h[k] = S * w  BY <3>1
    <3> QED  BY <3>2, <3>3
  <2> QED  BY <2>1
<1>6. \A k \in Keys : h[k] <= c[k]  BY <1>2
<1>7. SumFunctionOnSet(c, Keys) = Claims(tick, feeGrowthGlobal, ticks, sqrtPrice, positions, t)
  BY DEF Claims
<1>8. SumFunctionOnSet(f, Keys) = 0  BY KeyFacts, SumZero
<1>9. g = [k \in Keys |-> Worth(k, t)]  OBVIOUS
<1>10. IsFiniteSet(Keys) /\ S \in Int  BY KeyFacts
<1> HIDE DEF f, g, c, h
<1>11. SumFunctionOnSet(g, Keys) \in Int  BY <1>3, <1>10, SumInt
<1>12. SumFunctionOnSet(h, Keys) = SumFunctionOnSet(f, Keys) + S * SumFunctionOnSet(g, Keys)
  BY <1>3, <1>4, <1>5, <1>10, SumScaled
<1>13. SumFunctionOnSet(h, Keys) <= SumFunctionOnSet(c, Keys)  BY <1>3, <1>4, <1>6, <1>10, SumLeq
<1>14. PICK w \in Int : w = SumFunctionOnSet(g, Keys)  BY <1>11
<1>15. SumFunctionOnSet(h, Keys) = S * w
  <2>1. S * w \in Int  OBVIOUS
  <2> QED  BY <1>8, <1>12, <1>14, <2>1
<1> QED  BY <1>1, <1>7, <1>9, <1>13, <1>14, <1>15

\* Between transactions nothing but the balances backs what is booked.
LEMMA MoneyIsEnough ==
    ASSUME PoolInv, MoneyInv
    PROVE  Solvent
<1> SUFFICES ASSUME calls = Idle, sqrtPrice # 0, NEW t \in Token
             PROVE  Owed(t) <= Held(balance, t)
  BY DEF Solvent
<1>1. Book /\ LockInv  BY DEF PoolInv, BookInv
<1>2. Sound(tick, feeGrowthGlobal, ticks, sqrtPrice, positions)  BY DEF MoneyInv
<1>3. PICK w \in Int :
        /\ w = SumFunctionOnSet([k \in Keys |-> Worth(k, t)], Keys)
        /\ Scale(t) * w <= Claims(tick, feeGrowthGlobal, ticks, sqrtPrice, positions, t)
  BY <1>1, <1>2, WorthsAreClaimed
<1>4. PICK S \in Nat \ {0}, c \in Int, p \in Int, d \in Int, h \in Int :
        /\ S = Scale(t) /\ c = Claims(tick, feeGrowthGlobal, ticks, sqrtPrice, positions, t)
        /\ p = protocolFees[t] /\ d = Deposits(deposit, t) /\ h = Held(balance, t)
  BY <1>1, ScaleIs, NowIs
<1>5. Owed(t) = p + w + d  BY <1>3, <1>4 DEF Owed, Deposits
<1>6. c + S * (p + d) <= S * h  BY <1>4 DEF MoneyInv, Books, Booked, Backing
<1>7. S * (p + w + d) <= S * h
  <2>1. S * (p + w + d) = S * w + S * (p + d)  OBVIOUS
  <2>2. S * w \in Int /\ S * (p + d) \in Int /\ S * h \in Int  OBVIOUS
  <2>3. S * w <= c  BY <1>3, <1>4
  <2> QED  BY <1>6, <2>1, <2>2, <2>3
<1>8. p + w + d <= h
  <2>1. PICK a \in Int : a = p + w + d  OBVIOUS
  <2> QED  BY <1>7, <2>1, ScaleCancels
<1> QED  BY <1>4, <1>5, <1>8

\* After every transaction what the pool holds of a token, in both versions,
\* covers every position burned and collected, the protocol's fees and every
\* deposit: no rounding of a mint, burn, swap or fee, no callback that pays
\* late or not at all, no delivery and no refund ever lets the pool promise
\* what it does not have.
THEOREM PoolSolvent ==
    Spec => []Solvent
<1>1. PoolInv /\ MoneyInv => Solvent  BY MoneyIsEnough
<1> QED  BY <1>1, MoneyAlways, PTL

\* The growth inside a range, with the sides the other way round.
LEMMA SidesSwap ==
    ASSUME NEW tk \in Int, NEW lo \in Int, NEW up \in Int,
           NEW l \in Int, NEW u \in Int, NEW G \in Int
    PROVE  G - (IF tk >= lo THEN l ELSE G - l) - (IF tk < up THEN u ELSE G - u)
           = (IF up <= tk THEN u ELSE G - u) - (IF lo <= tk THEN l ELSE G - l)
OBVIOUS

\* Earned after a step.
LEMMA EarnedIsNext ==
    ASSUME Sound(tick', feeGrowthGlobal', ticks', sqrtPrice', positions'),
           NEW k \in Keys, NEW t \in Token
    PROVE  Earned(k, t)' = EarnedOf(tick', feeGrowthGlobal', ticks', positions', k, t)
<1>1. /\ k.lower \in Int /\ k.upper \in Int /\ k.lower \in Ticks /\ k.upper \in Ticks
  BY KeyFacts
<1>2. PICK l \in Int, u \in Int, G \in Int, h \in Int :
        /\ l = ticks'[k.lower].outside[t] /\ u = ticks'[k.upper].outside[t]
        /\ G = feeGrowthGlobal'[t] /\ h = tick'
  BY <1>1 DEF Sound, OutsideOK
<1>3. FeeGrowthInside(ticks, k.lower, k.upper, t)'
      = G - (IF h >= k.lower THEN l ELSE G - l) - (IF h < k.upper THEN u ELSE G - u)
  BY <1>2 DEF FeeGrowthInside
<1>4. Within(tick', feeGrowthGlobal'[t], ticks', k, t)
      = (IF k.upper <= h THEN u ELSE G - u) - (IF k.lower <= h THEN l ELSE G - l)
  BY <1>2 DEF Within, Beneath
<1>5. FeeGrowthInside(ticks, k.lower, k.upper, t)'
      = Within(tick', feeGrowthGlobal'[t], ticks', k, t)
  BY <1>1, <1>3, <1>4, SidesSwap
<1>6. Earned(k, t)' = positions'[k].owed[t]
        + MulDiv(FeeGrowthInside(ticks, k.lower, k.upper, t)' - positions'[k].last[t],
                 positions'[k].liquidity, Q128)
  BY DEF Earned, UpdatedPosition
<1> QED  BY <1>5, <1>6 DEF EarnedOf

\* A position has earned no less than before.
MoreEarned(k, t) ==
    EarnedOf(tick, feeGrowthGlobal, ticks, positions, k, t)
    <= EarnedOf(tick', feeGrowthGlobal', ticks', positions', k, t)

\* With more growth within its range a position has earned no less.
LEMMA EarnedGrows ==
    ASSUME Sound(tick, feeGrowthGlobal, ticks, sqrtPrice, positions),
           Sound(tick', feeGrowthGlobal', ticks', sqrtPrice', positions'),
           NEW k \in Keys, NEW t \in Token, positions'[k] = positions[k],
           positions[k].liquidity # 0 =>
             Within(tick, feeGrowthGlobal[t], ticks, k, t)
             <= Within(tick', feeGrowthGlobal'[t], ticks', k, t)
    PROVE  MoreEarned(k, t)
<1>1. PICK x \in Int, L \in Nat, v \in Int :
        /\ x = positions[k].last[t] /\ L = positions[k].liquidity /\ v = positions[k].owed[t]
  BY DEF Sound, PositionsOK, OwedOK
<1>2. PICK w \in Int, y \in Int :
        /\ w = Within(tick, feeGrowthGlobal[t], ticks, k, t)
        /\ y = Within(tick', feeGrowthGlobal'[t], ticks', k, t)
  <2>1. Within(tick, feeGrowthGlobal[t], ticks, k, t) \in Int  BY WithinIs DEF Sound
  <2>2. Within(tick', feeGrowthGlobal'[t], ticks', k, t) \in Int  BY WithinIs DEF Sound
  <2> QED  BY <2>1, <2>2
<1>3. PICK n \in Int : Fees(n, tick, feeGrowthGlobal, ticks, positions, k, t)  BY FeesAre
<1>4. PICK m \in Int : Fees(m, tick', feeGrowthGlobal', ticks', positions', k, t)  BY FeesAre
<1>5. PICK a \in Int, b \in Int, c \in Int : a = (w - x) * L /\ b = (y - x) * L /\ c = n * Q128
  <2>1. (w - x) * L \in Int /\ (y - x) * L \in Int /\ n * Q128 \in Int  BY PoolAssumption
  <2> QED  BY <2>1
<1>6. c <= a
  <2>1. n <= n  OBVIOUS
  <2> QED  BY <1>1, <1>2, <1>3, <1>5, <2>1 DEF Fees
<1>7. a <= b
  <2>1. CASE L = 0
    <3>1. (w - x) * 0 = 0 /\ (y - x) * 0 = 0  OBVIOUS
    <3> QED  BY <1>5, <2>1, <3>1
  <2>2. CASE L # 0
    <3>1. w <= y  BY <1>1, <1>2, <2>2
    <3>2. PICK g \in Nat : y - x = (w - x) + g
      <4>1. y - w \in Nat /\ y - x = (w - x) + (y - w)  BY <3>1
      <4> QED  BY <4>1
    <3>3. (y - x) * L = (w - x) * L + g * L  BY <3>2
    <3>4. g * L \in Nat  OBVIOUS
    <3> QED  BY <1>5, <3>3, <3>4
  <2> QED  BY <2>1, <2>2
<1>8. n <= m
  <2>1. c <= b  BY <1>6, <1>7
  <2> QED  BY <1>1, <1>2, <1>4, <1>5, <2>1 DEF Fees
<1>9. EarnedOf(tick, feeGrowthGlobal, ticks, positions, k, t) = v + n  BY <1>1, <1>3 DEF Fees
<1>10. EarnedOf(tick', feeGrowthGlobal', ticks', positions', k, t) = v + m  BY <1>1, <1>4 DEF Fees
<1>11. v + n <= v + m  BY <1>8
<1> QED  BY <1>9, <1>10, <1>11 DEF MoreEarned

\* No growth or no liquidity, no fees.
LEMMA NoFees ==
    ASSUME NEW a \in Int, NEW L \in Int, a = 0 \/ L = 0
    PROVE  MulDiv(a, L, Q128) = 0
<1>1. a * L = 0  OBVIOUS
<1>2. PICK q \in Nat \ {0} : q = Q128  BY PoolAssumption
<1>3. PICK c \in Int : c = a * L /\ c = 0  BY <1>1
<1>4. c \div q \in Int /\ \A n \in Int : n <= c \div q <=> n * q <= c  BY FloorIs
<1>5. 0 <= c \div q
  <2>1. 0 * q <= c  BY <1>3
  <2> QED  BY <1>4, <2>1
<1>6. ~ (1 <= c \div q)
  <2>1. ~ (1 * q <= c)  BY <1>3
  <2> QED  BY <1>4, <2>1
<1>7. c \div q = 0  BY <1>4, <1>5, <1>6
<1> QED  BY <1>2, <1>3, <1>7 DEF MulDiv

\* Modifying a position writes down what it has earned, and adds the gain.
LEMMA ModifyKeeps ==
    ASSUME Sound(tick, feeGrowthGlobal, ticks, sqrtPrice, positions),
           NEW k \in Keys, NEW d \in Int, NEW gain, Modified(k, d, gain),
           NEW j \in Keys, NEW t \in Token, gain[t + 1] \in Int, 0 <= gain[t + 1]
    PROVE  MoreEarned(j, t)
<1>1. /\ Sound(tick', feeGrowthGlobal', ticks', sqrtPrice', positions')
      /\ tick' = tick /\ feeGrowthGlobal' = feeGrowthGlobal
  BY DEF Modified
<1>2. CASE j # k
  <2>1. positions'[j] = positions[j]  BY <1>2 DEF Modified
  <2>2. positions[j].liquidity # 0 =>
          Within(tick, feeGrowthGlobal[t], ticks, j, t)
          = Within(tick', feeGrowthGlobal'[t], ticks', j, t)
    BY <1>1, <1>2 DEF Modified
  <2>3. Within(tick, feeGrowthGlobal[t], ticks, j, t) \in Int  BY WithinIs DEF Sound
  <2>4. \A h \in Int : h <= h  OBVIOUS
  <2>5. positions[j].liquidity # 0 =>
          Within(tick, feeGrowthGlobal[t], ticks, j, t)
          <= Within(tick', feeGrowthGlobal'[t], ticks', j, t)
    BY <2>2, <2>3, <2>4
  <2> QED  BY <1>1, <2>1, <2>5, EarnedGrows
<1>3. CASE j = k
  <2>1. PICK x \in Int, L \in Nat, v \in Int, w \in Int, g \in Int :
          /\ x = positions[k].last[t] /\ L = positions[k].liquidity /\ v = positions[k].owed[t]
          /\ w = Within(tick, feeGrowthGlobal[t], ticks, k, t) /\ g = gain[t + 1]
    <3>1. Within(tick, feeGrowthGlobal[t], ticks, k, t) \in Int  BY WithinIs DEF Sound
    <3> QED  BY <3>1 DEF Sound, PositionsOK, OwedOK
  <2>2. PICK x2 \in Int, L2 \in Nat, v2 \in Int, w2 \in Int :
          /\ x2 = positions'[k].last[t] /\ L2 = positions'[k].liquidity
          /\ v2 = positions'[k].owed[t]
          /\ w2 = Within(tick', feeGrowthGlobal'[t], ticks', k, t)
    <3>1. Within(tick', feeGrowthGlobal'[t], ticks', k, t) \in Int  BY <1>1, WithinIs DEF Sound
    <3> QED  BY <1>1, <3>1 DEF Sound, PositionsOK, OwedOK
  <2>3. (L2 # 0 => w2 = x2) /\ (L # 0 => x2 = w)  BY <1>1, <2>1, <2>2 DEF Modified
  <2>4. v2 = v + MulDiv(x2 - x, L, Q128) + g  BY <2>1, <2>2 DEF Modified
  <2>5. MulDiv(w2 - x2, L2, Q128) = 0
    <3>1. PICK a \in Int : a = w2 - x2  OBVIOUS
    <3>2. a = 0 \/ L2 = 0  BY <2>3, <3>1
    <3> QED  BY <3>1, <3>2, NoFees
  <2>6. MulDiv(x2 - x, L, Q128) = MulDiv(w - x, L, Q128)
    <3>1. CASE L # 0  BY <2>3, <3>1
    <3>2. CASE L = 0
      <4>1. x2 - x \in Int /\ w - x \in Int  OBVIOUS
      <4> QED  BY <3>2, <4>1, NoFees
    <3> QED  BY <3>1, <3>2
  <2>7. PICK e \in Int : e = EarnedOf(tick, feeGrowthGlobal, ticks, positions, k, t)  BY FeesAre
  <2>8. e = v + MulDiv(w - x, L, Q128)  BY <2>1, <2>7 DEF EarnedOf
  <2>9. EarnedOf(tick', feeGrowthGlobal', ticks', positions', k, t) = v2 + 0
    BY <2>2, <2>5 DEF EarnedOf
  <2>10. v2 = e + g  BY <2>4, <2>6, <2>8
  <2>11. e <= (e + g) + 0  BY <2>1
  <2> QED  BY <1>3, <2>7, <2>9, <2>10, <2>11 DEF MoreEarned
<1> QED  BY <1>2, <1>3

\* A call under way that collects what position k has earned.
Collects(k) == \E i \in DOMAIN calls' : calls'[i].op = "collect" /\ calls'[i].key = k

\* Where price and positions stay, so do the earnings.
LEMMA SameEarned ==
    ASSUME MoneyInv, UNCHANGED <<price, positions>>, NEW k \in Keys, NEW t \in Token
    PROVE  MoreEarned(k, t)
<1>1. UNCHANGED <<tick, feeGrowthGlobal, ticks, positions>>  BY DEF price
<1>2. PICK e \in Int : e = EarnedOf(tick, feeGrowthGlobal, ticks, positions, k, t)
  BY FeesAre DEF MoneyInv
<1>3. e = EarnedOf(tick', feeGrowthGlobal', ticks', positions', k, t)  BY <1>1, <1>2
<1>4. e <= e  OBVIOUS
<1> QED  BY <1>2, <1>3, <1>4 DEF MoreEarned

\* Before there is a price no position has liquidity.
LEMMA InitializeEarns ==
    ASSUME BookInv, MoneyInv, MoneyInv', NEW p \in InitialPrices, Initialize(p),
           NEW k \in Keys, NEW t \in Token
    PROVE  MoreEarned(k, t)
<1>1. sqrtPrice = 0 /\ positions' = positions  BY DEF Initialize
<1>2. positions[k].liquidity = 0  BY <1>1 DEF BookInv, Book, BookState
<1>3. /\ Sound(tick, feeGrowthGlobal, ticks, sqrtPrice, positions)
      /\ Sound(tick', feeGrowthGlobal', ticks', sqrtPrice', positions')
  BY DEF MoneyInv
<1> QED  BY <1>1, <1>2, <1>3, EarnedGrows

\* mint writes down what the position has earned so far.
LEMMA MintEarns ==
    ASSUME LockInv, BookInv, MoneyInv, BookInv', NEW k \in Keys, NEW dL \in Liquidities,
           Mint(k, dL), NEW j \in Keys, NEW t \in Token
    PROVE  MoreEarned(j, t)
<1>1. Outside /\ Lock /\ ModifyPosition(k, dL, <<0, 0>>)  BY DEF Mint, Begin
<1>2. calls = Idle /\ unlocked  BY <1>1, LockKeepsOthersOut DEF Lock
<1>3. Book /\ Book'  BY DEF BookInv
<1>4. dL \in Int  BY PoolAssumption
<1>5. Modified(k, dL, <<0, 0>>)  BY <1>1, <1>3, <1>4, ModifyIs DEF MoneyInv
<1>6. <<0, 0>>[t + 1] = 0  BY DEF Token
<1> QED  BY <1>4, <1>5, <1>6, ModifyKeeps DEF MoneyInv

\* burn writes it down too, and adds what the liquidity was worth.
LEMMA BurnEarns ==
    ASSUME LockInv, BookInv, MoneyInv, BookInv', NEW k \in Keys,
           NEW dL \in Liquidities \cup {0}, Burn(k, dL), NEW j \in Keys, NEW t \in Token
    PROVE  MoreEarned(j, t)
<1>1. PICK due : due = PositionAmounts(k, -dL)  OBVIOUS
<1>2. Outside /\ LockAndRelease /\ ModifyPosition(k, -dL, <<-due[1], -due[2]>>)
  BY <1>1 DEF Burn, Begin
<1>3. sqrtPrice # 0 /\ Book /\ Book'
  <2>1. calls = Idle /\ unlocked  BY <1>2, LockKeepsOthersOut DEF LockAndRelease
  <2> QED  BY <2>1 DEF BookInv
<1>4. PICK d \in Int : d = -dL /\ d <= 0
  <2>1. dL \in Nat  BY PoolAssumption
  <2> QED  BY <2>1
<1>5. k.lower < k.upper  BY <1>2 DEF ModifyPosition, Modifiable
<1>6. \A i \in Token : due[i + 1] \in Int /\ due[i + 1] <= 0
  <2>1. sqrtPrice \in Nat /\ InTick(sqrtPrice, tick)  BY <1>3 DEF Book, BookState
  <2> QED  BY <1>1, <1>4, <1>5, <2>1, AmountsCover
<1>7. due[1] \in Int /\ due[2] \in Int /\ due[1] <= 0 /\ due[2] <= 0
  <2>1. 0 \in Token /\ 1 \in Token /\ 0 + 1 = 1 /\ 1 + 1 = 2  BY DEF Token
  <2> QED  BY <1>6, <2>1
<1>8. PICK g : g = <<-due[1], -due[2]>>  OBVIOUS
<1>9. g[1] \in Int /\ g[2] \in Int /\ 0 <= g[1] /\ 0 <= g[2]
  <2>1. g[1] = -due[1] /\ g[2] = -due[2]  BY <1>8
  <2>2. PICK a \in Int, b \in Int : a = due[1] /\ b = due[2] /\ a <= 0 /\ b <= 0  BY <1>7
  <2>3. -a \in Int /\ -b \in Int /\ 0 <= -a /\ 0 <= -b  BY <2>2
  <2> QED  BY <2>1, <2>2, <2>3
<1>10. g[t + 1] \in Int /\ 0 <= g[t + 1]
  <2>1. CASE t = 0
    <3>1. t + 1 = 1  BY <2>1
    <3> QED  BY <1>9, <3>1
  <2>2. CASE t = 1
    <3>1. t + 1 = 2  BY <2>2
    <3> QED  BY <1>9, <3>1
  <2> QED  BY <2>1, <2>2 DEF Token
<1>11. Modified(k, d, g)
  <2>1. ModifyPosition(k, d, g)  BY <1>2, <1>4, <1>8
  <2> QED  BY <1>3, <1>9, <2>1, ModifyIs DEF MoneyInv
<1> QED  BY <1>10, <1>11, ModifyKeeps DEF MoneyInv

\* A swap pays fees to the positions it goes through.
LEMMA SwapEarns ==
    ASSUME Book, sqrtPrice # 0, MoneyInv, MoneyInv', NEW o \in Orders, NEW sender, NEW stack,
           SwapBody(sender, o, stack), NEW k \in Keys, NEW t \in Token
    PROVE  MoreEarned(k, t)
<1>1. PICK s, f, payer : SwapLeft(s, o, f, payer, stack)  BY SwapLeavesMoney
<1>2. SwapCovers(s, o)
  <2>1. s = SwapResult(o) /\ LimitAllowed(o)  BY <1>1 DEF SwapLeft
  <2> QED  BY <2>1, SwapIsCovered DEF MoneyInv, Purses
<1>3. /\ tick' = s.tick /\ ticks' = s.ticks /\ feeGrowthGlobal' = SwapGrowths(s, o)
      /\ positions' = positions
  BY <1>1 DEF SwapLeft
<1>4. positions[k].liquidity # 0 =>
        Within(tick, feeGrowthGlobal[t], ticks, k, t)
        <= Within(tick', feeGrowthGlobal'[t], ticks', k, t)
  BY <1>2, <1>3 DEF SwapCovers
<1>5. /\ Sound(tick, feeGrowthGlobal, ticks, sqrtPrice, positions)
      /\ Sound(tick', feeGrowthGlobal', ticks', sqrtPrice', positions')
  BY DEF MoneyInv
<1>6. positions'[k] = positions[k]  BY <1>3
<1> QED  BY <1>4, <1>5, <1>6, EarnedGrows

\* So does a swap an ERC-223 deposit brought along.
LEMMA DispatchEarns ==
    ASSUME LockInv, BookInv, MoneyInv, MoneyInv', Dispatch, NEW k \in Keys, NEW t \in Token
    PROVE  MoreEarned(k, t)
<1> USE PoolAssumption
<1>1. PICK o : /\ o = Top.payload.order
               /\ calls # Idle /\ Top.op = "tokenReceived" /\ Top.phase = "dispatch"
               /\ SwapBody(NoOne, o, AtPhase("refund"))
  BY DEF Dispatch, At
<1>2. Top = calls[1] /\ One(calls)  BY <1>1, DepositOnTop
<1>3. sqrtPrice # 0 /\ Book  BY <1>1 DEF BookInv
<1>4. o \in Orders
  <2>1. DOMAIN calls = DOMAIN <<calls[1]>>  BY <1>2 DEF One
  <2>2. 1 \in DOMAIN calls  BY <2>1
  <2> QED  BY <1>1, <1>2, <2>2 DEF FramesOK, FrameOK, BookInv
<1> QED  BY <1>1, <1>3, <1>4, SwapEarns

\* The other positions earn as before while one is collected from.
LEMMA OthersKeep ==
    ASSUME MoneyInv, MoneyInv', UNCHANGED price, NEW k \in Keys, positions'[k] = positions[k],
           NEW t \in Token
    PROVE  MoreEarned(k, t)
<1>1. UNCHANGED <<tick, feeGrowthGlobal, ticks>>  BY DEF price
<1>2. /\ Sound(tick, feeGrowthGlobal, ticks, sqrtPrice, positions)
      /\ Sound(tick', feeGrowthGlobal', ticks', sqrtPrice', positions')
  BY DEF MoneyInv
<1>3. PICK w \in Int : w = Within(tick, feeGrowthGlobal[t], ticks, k, t)
  BY <1>2, WithinIs DEF Sound
<1>4. w = Within(tick', feeGrowthGlobal'[t], ticks', k, t) /\ w <= w  BY <1>1, <1>3
<1> QED  BY <1>2, <1>3, <1>4, EarnedGrows

\* A stack that is not empty has a top.
LEMMA TopIsThere ==
    ASSUME LockInv', calls' # Idle
    PROVE  Len(calls') \in DOMAIN calls'
<1>1. CASE One(calls')
  <2>1. Len(calls') = 1  BY <1>1, OneCall
  <2>2. DOMAIN calls' = DOMAIN <<calls'[1]>>  BY <1>1 DEF One
  <2>3. 1 \in DOMAIN <<calls'[1]>>  OBVIOUS
  <2> QED  BY <2>1, <2>2, <2>3
<1>2. CASE Two(calls')
  <2>1. Len(calls') = 2  BY <1>2, TwoCalls
  <2>2. DOMAIN calls' = DOMAIN <<calls'[1], calls'[2]>>  BY <1>2 DEF Two
  <2>3. 2 \in DOMAIN <<calls'[1], calls'[2]>>  OBVIOUS
  <2> QED  BY <2>1, <2>2, <2>3
<1> QED  BY <1>1, <1>2 DEF LockInv, PlainCall, SwapCall, Received, DispatchedSwap

\* collect takes from the position it names alone.
LEMMA CollectEarns ==
    ASSUME LockInv, LockInv', MoneyInv, MoneyInv', NEW j \in Keys,
           NEW req \in [Token -> Requests], NEW vers \in Versions, Collect(j, req, vers),
           NEW k \in Keys, NEW t \in Token
    PROVE  MoreEarned(k, t) \/ Collects(k)
<1> DEFINE due == [i \in Token |-> AtMost(req[i], positions[j].owed[i])]
           f == [op |-> "collect", phase |-> AfterDelivery(due[0], "next"),
                 unlocks |-> ~permit, key |-> j, due |-> due, vers |-> vers, next |-> TRUE]
<1>1. /\ Outside /\ Lock /\ calls' = Append(calls, f) /\ UNCHANGED price
      /\ positions' = [positions EXCEPT ![j].owed[0] = @ - due[0]]
  BY DEF Collect, Begin
<1> HIDE DEF due
<1>2. f.op = "collect" /\ f.key = j  OBVIOUS
<1> HIDE DEF f
<1>3. CASE k # j
  <2>1. positions'[k] = positions[k]  BY <1>1, <1>3 DEF MoneyInv, Sound, PositionsOK
  <2> QED  BY <1>1, <2>1, OthersKeep
<1>4. CASE k = j
  <2>1. calls = Idle  BY <1>1, LockKeepsOthersOut DEF Lock
  <2>2. calls' # Idle /\ Top' = f  BY <1>1, <2>1, TopPushed DEF Idle
  <2>3. Len(calls') \in DOMAIN calls'  BY <2>2, TopIsThere
  <2>4. calls'[Len(calls')] = f  BY <2>2 DEF Top
  <2> QED  BY <1>2, <1>4, <2>3, <2>4 DEF Collects
<1> QED  BY <1>3, <1>4

\* Its second half, too.
LEMMA CollectNextEarns ==
    ASSUME LockInv, LockInv', MoneyInv, MoneyInv', CollectNext, NEW k \in Keys, NEW t \in Token
    PROVE  MoreEarned(k, t) \/ Collects(k)
<1>1. PICK p, b :
        /\ calls # Idle /\ Top.op = "collect" /\ UNCHANGED price
        /\ positions' = [positions EXCEPT ![Top.key].owed[1] = @ - Top.due[1]]
        /\ calls' = [calls EXCEPT ![Len(calls)].phase = p, ![Len(calls)].next = b]
  BY DEF CollectNext
<1>2. CASE k # Top.key
  <2>1. positions'[k] = positions[k]  BY <1>1, <1>2 DEF MoneyInv, Sound, PositionsOK
  <2> QED  BY <1>1, <2>1, OthersKeep
<1>3. CASE k = Top.key
  <2>1. /\ calls' # Idle
        /\ \A x \in DOMAIN Top \ {"phase", "next"} : Top'[x] = Top[x]
    BY <1>1, TopPhase
  <2>2. {"op", "key"} \subseteq DOMAIN Top
    <3>1. Frame(Top)  BY <1>1, TopIsFrame
    <3>2. CallOK(Top, balance)  BY <1>1 DEF MoneyInv
    <3> QED  BY <1>1, <3>1, <3>2 DEF Frame, CallOK
  <2>3. Top'.op = "collect" /\ Top'.key = k  BY <1>1, <1>3, <2>1, <2>2
  <2>4. Len(calls') \in DOMAIN calls'  BY <2>1, TopIsThere
  <2> QED  BY <2>3, <2>4 DEF Collects, Top
<1> QED  BY <1>2, <1>3

\* No step but a failed transaction or a collect makes a position's earnings less.
LEMMA EarningsStep ==
    ASSUME PoolInv, PoolInv', MoneyInv, MoneyInv', Next
    PROVE  Revert \/ \A k \in Keys, t \in Token : MoreEarned(k, t) \/ Collects(k)
<1> SUFFICES ASSUME ~ Revert, NEW k \in Keys, NEW t \in Token
             PROVE  MoreEarned(k, t) \/ Collects(k)
  OBVIOUS
<1>0. LockInv /\ BookInv /\ LockInv' /\ BookInv'  BY DEF PoolInv
<1>1. ASSUME NEW p \in InitialPrices, Initialize(p) PROVE MoreEarned(k, t)
  BY <1>0, <1>1, InitializeEarns
<1>2. ASSUME NEW f0 \in FeeProtocols, NEW f1 \in FeeProtocols, SetFeeProtocol(f0, f1)
      PROVE  MoreEarned(k, t)
  BY <1>2, SameEarned DEF SetFeeProtocol
<1>3. ASSUME NEW j \in Keys, NEW dL \in Liquidities, Mint(j, dL) PROVE MoreEarned(k, t)
  BY <1>0, <1>3, MintEarns
<1>4. ASSUME NEW paid \in SUBSET Token, MintCallback(paid) PROVE MoreEarned(k, t)
  BY <1>4, SameEarned DEF MintCallback
<1>5. CASE MintEnd  BY <1>5, SameEarned DEF MintEnd
<1>6. ASSUME NEW j \in Keys, NEW dL \in Liquidities \cup {0}, Burn(j, dL)
      PROVE  MoreEarned(k, t)
  BY <1>0, <1>6, BurnEarns
<1>7. ASSUME NEW j \in Keys, NEW vers \in Versions, NEW req \in [Token -> Requests],
             Collect(j, req, vers)
      PROVE  MoreEarned(k, t) \/ Collects(k)
  BY <1>0, <1>7, CollectEarns
<1>8. CASE CollectNext  BY <1>0, <1>8, CollectNextEarns
<1>9. ASSUME NEW vers \in Versions, NEW req \in [Token -> Requests], CollectProtocol(req, vers)
      PROVE  MoreEarned(k, t)
  BY <1>9, SameEarned DEF CollectProtocol
<1>10. CASE CollectProtocolNext  BY <1>10, SameEarned DEF CollectProtocolNext
<1>11. CASE CollectEnd \/ SwapEnd \/ ReceivedEnd
  BY <1>11, SameEarned DEF CollectEnd, SwapEnd, ReceivedEnd
<1>12. ASSUME NEW u \in Users, NEW o \in Orders, Swap(u, o) PROVE MoreEarned(k, t)
  <2>1. Outside /\ Lock /\ SwapBody(u, o, calls)  BY <1>12 DEF Swap, Begin
  <2>2. calls = Idle /\ unlocked  BY <1>0, <2>1, LockKeepsOthersOut DEF Lock
  <2>3. sqrtPrice # 0 /\ Book  BY <1>0, <2>2 DEF BookInv
  <2> QED  BY <2>1, <2>3, SwapEarns
<1>13. ASSUME NEW pays \in BOOLEAN, SwapCallback(pays) PROVE MoreEarned(k, t)
  BY <1>13, SameEarned DEF SwapCallback
<1>14. CASE SwapDeliver  BY <1>14, SameEarned DEF SwapDeliver
<1>15. ASSUME NEW u \in Users, NEW i \in Token, NEW n \in Values, NEW payload \in Payloads,
              TokenReceived(u, i, n, payload)
       PROVE  MoreEarned(k, t)
  BY <1>15, SameEarned DEF TokenReceived
<1>16. CASE Dispatch  BY <1>0, <1>16, DispatchEarns
<1>17. CASE Refund  BY <1>17, SameEarned DEF Refund
<1> QED
  BY <1>1, <1>2, <1>3, <1>4, <1>5, <1>6, <1>7, <1>8, <1>9, <1>10, <1>11, <1>12, <1>13,
     <1>14, <1>15, <1>16, <1>17 DEF Next

\* What a position has earned never shrinks: not when the price crosses its
\* ends in either direction and the growth outside is turned over, not when its
\* owner mints or burns, and not when others do, until it is collected.
THEOREM PoolEarningsKept ==
    Spec => EarningsKept
<1>1. ASSUME PoolInv, PoolInv', MoneyInv, MoneyInv', [Next]_vars
      PROVE  [\/ Revert
              \/ \A k \in Keys, t \in Token :
                   \/ Earned(k, t)' >= Earned(k, t)
                   \/ \E i \in DOMAIN calls' : calls'[i].op = "collect" /\ calls'[i].key = k]_vars
  <2>1. CASE UNCHANGED vars  BY <2>1
  <2>2. CASE Next
    <3>1. /\ Sound(tick, feeGrowthGlobal, ticks, sqrtPrice, positions)
          /\ Sound(tick', feeGrowthGlobal', ticks', sqrtPrice', positions')
      BY <1>1 DEF MoneyInv
    <3>2. ASSUME NEW k \in Keys, NEW t \in Token, MoreEarned(k, t)
          PROVE  Earned(k, t)' >= Earned(k, t)
      <4>1. PICK a \in Int, b \in Int :
              /\ a = EarnedOf(tick, feeGrowthGlobal, ticks, positions, k, t)
              /\ b = EarnedOf(tick', feeGrowthGlobal', ticks', positions', k, t)
        BY <3>1, FeesAre
      <4>2. a = Earned(k, t) /\ b = Earned(k, t)'  BY <3>1, <4>1, EarnedIs, EarnedIsNext
      <4>3. a <= b  BY <3>2, <4>1 DEF MoreEarned
      <4> QED  BY <4>2, <4>3
    <3>3. Revert \/ \A k \in Keys, t \in Token : MoreEarned(k, t) \/ Collects(k)
      BY <1>1, <2>2, EarningsStep
    <3> QED  BY <3>2, <3>3 DEF Collects
  <2> QED  BY <1>1, <2>1, <2>2
<1> QED  BY <1>1, MoneyAlways, PTL DEF Spec, EarningsKept
=============================================================================
